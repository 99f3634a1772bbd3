--------------------------- MODULE DecisionProofs ----------------------------
(***************************************************************************)
(* What the conflict resolver and the risk engine keep true of the book of *)
(* open trades, for any sources, signals, profiles, rules, prices and any  *)
(* number of open trades.                                                  *)
(***************************************************************************)
EXTENDS Decision, Sums

(* Trades are a sequence, of whatever the risk engine sized.               *)
Book == \E S : trades \in Seq(S)

(* The limits of the registered profiles are numbers, and so are those the *)
(* trades were opened under.                                               *)
LimitType ==
    /\ profiles \in [ProfileIds -> Profiles]
    /\ \A k \in DOMAIN trades : trades[k].most \in Nat

IInv == Book /\ LimitType /\ CountBounded /\ OneDirection /\ JoinedByPolicy

(* What a trade must satisfy against those open before it.                 *)
Joins(t, u) ==
    t.symbol = u.symbol =>
       /\ t.side = u.side
       /\ u.snapshot.conflict_policy \in {"SCALE_IN", "DEDICATED_ACCOUNT", "SOURCE_PRIORITY"}
       /\ u.snapshot.conflict_policy = "SOURCE_PRIORITY" =>
             Priority[t.source_id] < Priority[u.source_id]

LEMMA InitIInv == Init => IInv
  <1> SUFFICES ASSUME Init PROVE IInv
    OBVIOUS
  <1>1. trades = <<>> /\ profiles \in [ProfileIds -> Profiles]
    BY DEF Init
  <1>2. trades \in Seq({})
    BY <1>1
  <1> QED
    BY <1>1, <1>2 DEF IInv, Book, LimitType, CountBounded, OneDirection,
                      JoinedByPolicy, Open

(* A trade that resolve lets in fits every open one of its symbol.         *)
LEMMA ResolvedJoins ==
    ASSUME NEW signal, NEW policy, NEW open, NEW t \in open,
           resolve(signal, policy, open) \in {"accept", "scale_in"},
           t.symbol = signal.symbol
    PROVE  /\ t.side = signal.side
           /\ policy \in {"SCALE_IN", "DEDICATED_ACCOUNT", "SOURCE_PRIORITY"}
           /\ policy = "SOURCE_PRIORITY" =>
                 Priority[t.source_id] < Priority[signal.source_id]
  <1> DEFINE same_symbol == {x \in open : x.symbol = signal.symbol}
  <1>1. t \in same_symbol
    OBVIOUS
  <1>2. ~ \E x \in same_symbol : Opposes(signal, x)
    BY <1>1 DEF resolve
  <1>3. policy \in {"SCALE_IN", "DEDICATED_ACCOUNT", "SOURCE_PRIORITY"}
    BY <1>1, <1>2 DEF resolve
  <1>4. policy = "SOURCE_PRIORITY" => \A x \in same_symbol : Outranks(signal, x)
    BY <1>1, <1>2 DEF resolve
  <1> QED
    BY <1>1, <1>2, <1>3, <1>4 DEF Opposes, Outranks

(* An entry that is not blocked was counted.                               *)
LEMMA AllowedIsCounted ==
    ASSUME NEW signal, NEW snapshot, NEW rules, NEW exposure, NEW count \in Nat,
           NEW most \in Nat, NEW mark,
           ~Blocked(signal, evaluate(signal, snapshot, rules, exposure, count, most, mark),
                    mark)
    PROVE  count < most
  <1> SUFFICES ASSUME count >= most PROVE FALSE
    OBVIOUS
  <1>1. evaluate(signal, snapshot, rules, exposure, count, most, mark) = Refusal(1)
    BY DEF evaluate, CountReached
  <1>2. ~Refusal(1).allowed
    BY DEF Refusal
  <1> QED
    BY <1>1, <1>2 DEF Blocked

(* A trade that fits the book and its count limit can be appended.         *)
LEMMA AppendIInv ==
    ASSUME IInv, NEW t, trades' = Append(trades, t), UNCHANGED profiles,
           t.most \in Nat, Len(trades) < t.most,
           \A u \in Open : Joins(u, t)
    PROVE  IInv'
  <1>1. PICK S : trades \in Seq(S)
    BY DEF IInv, Book
  <1>2. trades \in Seq(S \cup {t})
    BY <1>1
  <1>3. /\ Len(trades) \in Nat
        /\ DOMAIN trades = 1 .. Len(trades)
        /\ trades' \in Seq(S \cup {t})
        /\ DOMAIN trades' = 1 .. Len(trades) + 1
        /\ trades'[Len(trades) + 1] = t
        /\ \A k \in DOMAIN trades : trades'[k] = trades[k]
    BY <1>2
  <1>4. \A k \in DOMAIN trades' : k \in DOMAIN trades \/ k = Len(trades) + 1
    BY <1>3
  <1>5. Open' = Open \cup {t}
    BY <1>3, <1>4 DEF Open
  <1>6. Book' /\ LimitType'
    BY <1>3, <1>4 DEF IInv, Book, LimitType
  <1>7. CountBounded'
    BY <1>3, <1>4 DEF IInv, CountBounded, LimitType
  <1>8. OneDirection'
    BY <1>5 DEF IInv, OneDirection, Joins
  <1>9. JoinedByPolicy'
    <2> SUFFICES ASSUME NEW j \in DOMAIN trades', NEW k \in DOMAIN trades', j < k,
                        trades'[j].symbol = trades'[k].symbol
                 PROVE  LET policy == trades'[k].snapshot.conflict_policy IN
                        /\ policy \in {"SCALE_IN", "DEDICATED_ACCOUNT", "SOURCE_PRIORITY"}
                        /\ policy = "SOURCE_PRIORITY" =>
                              Priority[trades'[j].source_id] < Priority[trades'[k].source_id]
      BY DEF JoinedByPolicy
    <2>1. j \in DOMAIN trades
      BY <1>3
    <2>2. CASE k \in DOMAIN trades
      BY <2>1, <2>2, <1>3 DEF IInv, JoinedByPolicy
    <2>3. CASE k = Len(trades) + 1
      <3>1. trades'[k] = t /\ trades'[j] = trades[j] /\ trades[j] \in Open
        BY <2>1, <2>3, <1>3 DEF Open
      <3> QED
        BY <3>1 DEF Joins
    <2> QED
      BY <2>2, <2>3, <1>4
  <1> QED
    BY <1>6, <1>7, <1>8, <1>9 DEF IInv

LEMMA OpenIInv ==
    ASSUME IInv, NEW signal \in Signals, NEW mark \in Marks, OpenTrade(signal, mark)
    PROVE  IInv'
  <1> DEFINE profile == profiles[ProfileOf[signal.source_id]]
             snapshot == build_snapshot(profile)
             most == profile.max_open_positions
             risk == evaluate(signal, snapshot, Rules[signal.symbol],
                              Notional(DOMAIN trades), Len(trades), most, mark)
             t == [source_id |-> signal.source_id, symbol |-> signal.symbol,
                   side |-> signal.side, snapshot |-> snapshot, most |-> most,
                   leverage |-> risk.leverage, notional |-> risk.notional,
                   quantity |-> risk.quantity, price |-> Price(signal, mark)]
  <1>1. /\ ~Blocked(signal, risk, mark)
        /\ resolve(signal, snapshot.conflict_policy, Open) \in {"accept", "scale_in"}
        /\ trades' = Append(trades, t)
        /\ UNCHANGED profiles
    BY DEF OpenTrade
  <1>2. most \in Nat
    <2>1. ProfileOf[signal.source_id] \in ProfileIds
      BY SignalsAssumption, ProfilesAssumption DEF ProfileIds
    <2>2. profile \in Profiles
      BY <2>1 DEF IInv, LimitType
    <2> QED
      BY <2>2, ProfilesAssumption
  <1>3. Len(trades) \in Nat
    BY DEF IInv, Book
  <1>4. Len(trades) < most
    <2> HIDE DEF snapshot, most
    <2> QED
      BY <1>1, <1>2, <1>3, AllowedIsCounted
  <1>5. /\ t.most = most /\ t.symbol = signal.symbol /\ t.side = signal.side
        /\ t.source_id = signal.source_id /\ t.snapshot = snapshot
    OBVIOUS
  <1> HIDE DEF t, risk, most, snapshot, profile
  <1>6. \A u \in Open : Joins(u, t)
    BY <1>1, <1>5, ResolvedJoins DEF Joins
  <1> QED
    BY <1>1, <1>2, <1>4, <1>5, <1>6, AppendIInv

(* Closing a trade leaves the others in their order.                       *)
LEMMA CloseIInv ==
    ASSUME IInv, NEW k \in DOMAIN trades, Close(k)
    PROVE  IInv'
  <1> DEFINE old(j) == IF j < k THEN j ELSE j + 1
  <1>1. PICK S : trades \in Seq(S)
    BY DEF IInv, Book
  <1>2. Len(trades) \in Nat /\ DOMAIN trades = 1 .. Len(trades) /\ k \in 1 .. Len(trades)
    BY <1>1
  <1>3. trades' = [j \in 1 .. Len(trades) - 1 |-> trades[old(j)]] /\ UNCHANGED profiles
    BY DEF Close
  <1>4. \A j \in 1 .. Len(trades) - 1 : old(j) \in DOMAIN trades /\ j <= old(j)
    BY <1>2
  <1>5. \A i, j \in 1 .. Len(trades) - 1 : i < j => old(i) < old(j)
    BY <1>2
  <1>6. DOMAIN trades' = 1 .. Len(trades) - 1
    BY <1>3
  <1>7. \A j \in DOMAIN trades' : /\ old(j) \in DOMAIN trades /\ j <= old(j)
                                  /\ trades'[j] = trades[old(j)]
    BY <1>3, <1>4, <1>6
  <1>8. trades' \in Seq(S)
    <2>1. \A j \in 1 .. Len(trades) - 1 : trades[old(j)] \in S
      BY <1>1, <1>4
    <2>2. trades' \in [1 .. Len(trades) - 1 -> S]
      BY <2>1, <1>3
    <2>3. Len(trades) - 1 \in Nat
      BY <1>2
    <2> QED
      BY <2>2, <2>3
  <1>9. Open' \subseteq Open
    BY <1>7 DEF Open
  <1> HIDE DEF old
  <1>10. Book' /\ LimitType'
    BY <1>3, <1>7, <1>8 DEF IInv, Book, LimitType
  <1>11. CountBounded'
    <2> SUFFICES ASSUME NEW j \in DOMAIN trades' PROVE j <= trades'[j].most
      BY DEF CountBounded
    <2>1. old(j) \in DOMAIN trades /\ j <= old(j) /\ trades'[j] = trades[old(j)]
      BY <1>7
    <2>2. old(j) <= trades[old(j)].most /\ trades[old(j)].most \in Nat
      BY <2>1 DEF IInv, CountBounded, LimitType
    <2>3. j \in Nat /\ old(j) \in Nat
      BY <2>1, <1>2, <1>6
    <2> QED
      BY <2>1, <2>2, <2>3
  <1>12. OneDirection'
    BY <1>9 DEF IInv, OneDirection
  <1>13. JoinedByPolicy'
    BY <1>5, <1>6, <1>7 DEF IInv, JoinedByPolicy
  <1> QED
    BY <1>10, <1>11, <1>12, <1>13 DEF IInv

LEMMA NextIInv == IInv /\ [Next]_vars => IInv'
  <1> SUFFICES ASSUME IInv, [Next]_vars PROVE IInv'
    OBVIOUS
  <1>1. CASE \E signal \in Signals, mark \in Marks : OpenTrade(signal, mark)
    BY <1>1, OpenIInv
  <1>2. CASE \E k \in DOMAIN trades : Close(k)
    BY <1>2, CloseIInv
  <1>3. ASSUME NEW p \in Profiles, RegisterProfile(p)
        PROVE  IInv'
    <2>1. trades' = trades /\ profiles' \in [ProfileIds -> Profiles]
      BY <1>3 DEF RegisterProfile, IInv, LimitType
    <2> QED
      BY <2>1 DEF IInv, Book, LimitType, CountBounded, OneDirection,
                  JoinedByPolicy, Open
  <1>4. CASE UNCHANGED vars
    BY <1>4 DEF vars, IInv, Book, LimitType, CountBounded, OneDirection,
                JoinedByPolicy, Open
  <1> QED
    BY <1>1, <1>2, <1>3, <1>4 DEF Next

(* The parts of IInv hold in every reachable state.                        *)
THEOREM Inductive == Spec => []IInv
  BY InitIInv, NextIInv, PTL DEF Spec

(* All open trades of a symbol have one side (core/conflict/resolver.py:5). *)
THEOREM DirectionCorrect == Spec => []OneDirection
  BY Inductive, PTL DEF IInv

(* Trades join others of their symbol only as their own policy allows      *)
(* (core/conflict/resolver.py:55-87).                                      *)
THEOREM PolicyCorrect == Spec => []JoinedByPolicy
  BY Inductive, PTL DEF IInv

(* No trade was opened past its profile's max_open_positions               *)
(* (core/risk/engine.py:45), whatever was closed and registered since.     *)
THEOREM CountCorrect == Spec => []CountBounded
  BY Inductive, PTL DEF IInv

-----------------------------------------------------------------------------
(* What the risk engine sizes.                                             *)

LEMMA MinOfTwo ==
    ASSUME NEW a \in Int, NEW b \in Int
    PROVE  Min({a, b}) \in {a, b} /\ Min({a, b}) <= a /\ Min({a, b}) <= b
  <1>1. \E x \in {a, b} : \A y \in {a, b} : x <= y
    OBVIOUS
  <1> QED
    BY <1>1 DEF Min

LEMMA SnapshotType ==
    ASSUME NEW p \in Profiles
    PROVE  /\ build_snapshot(p).max_leverage \in 1 .. 125
           /\ build_snapshot(p).max_loss_usdt \in Int
           /\ build_snapshot(p).max_notional_usdt \in Int \cup {None}
           /\ LossIsSet => build_snapshot(p).max_loss_usdt # 0
  BY ProfilesAssumption DEF build_snapshot, LossIsSet

LEMMA LeverageType ==
    ASSUME NEW signal \in Signals, NEW p \in Profiles
    PROVE  Leverage(signal, build_snapshot(p)) \in 1 .. build_snapshot(p).max_leverage
  <1> DEFINE asked == Or(signal.leverage, 1)
             most == build_snapshot(p).max_leverage
  <1>1. most \in 1 .. 125
    BY SnapshotType
  <1>2. asked \in 1 .. 125
    BY SignalsAssumption DEF Or
  <1>3. Leverage(signal, build_snapshot(p)) = Min({asked, most})
    BY DEF Leverage
  <1> HIDE DEF asked, most
  <1>4. asked \in Int /\ most \in Int
    BY <1>1, <1>2
  <1>5. Min({asked, most}) \in {asked, most} /\ Min({asked, most}) <= most
    BY <1>4, MinOfTwo
  <1> QED
    BY <1>1, <1>2, <1>3, <1>5 DEF most

(* The budget stays within the loss limit and within what the exposure     *)
(* limit leaves.                                                           *)
LEMMA BudgetBounds ==
    ASSUME NEW signal \in Signals, NEW p \in Profiles, NEW exposure \in Int
    PROVE  LET snapshot == build_snapshot(p)
               budget == Budget(signal, snapshot, exposure)
           IN  /\ budget \in Int
               /\ budget <= Or(snapshot.max_loss_usdt, DefaultLoss) * Leverage(signal, snapshot)
               /\ snapshot.max_notional_usdt # None =>
                     exposure + budget <= snapshot.max_notional_usdt
  <1> DEFINE snapshot == build_snapshot(p)
             wanted == Or(snapshot.max_loss_usdt, DefaultLoss) * Leverage(signal, snapshot)
             most == snapshot.max_notional_usdt
             limit == TradeLimit(signal, snapshot)
             budget == Budget(signal, snapshot, exposure)
  <1>1. /\ wanted \in Int
        /\ most \in Int \cup {None}
    <2>1. Leverage(signal, snapshot) \in Int
      <3>1. snapshot.max_leverage \in 1 .. 125
        BY SnapshotType
      <3> QED
        BY <3>1, LeverageType
    <2>2. Or(snapshot.max_loss_usdt, DefaultLoss) \in Int
      BY SnapshotType, CentAssumption DEF Or, DefaultLoss
    <2>3. most \in Int \cup {None}
      BY SnapshotType
    <2> HIDE DEF snapshot
    <2> QED
      BY <2>1, <2>2, <2>3
  <1>2. limit = IF most = None THEN wanted ELSE Min({wanted, most})
    BY DEF TradeLimit
  <1>3. budget = IF most = None THEN limit ELSE Min({limit, most - exposure})
    BY DEF Budget
  <1> HIDE DEF wanted, most, limit, budget, snapshot
  <1>4. CASE most = None
    BY <1>1, <1>2, <1>3, <1>4 DEF snapshot, budget, wanted, most
  <1>5. CASE most # None
    <2>1. most \in Int /\ most - exposure \in Int
      BY <1>1, <1>5
    <2>2. limit \in Int /\ limit <= wanted
      BY <2>1, <1>1, <1>2, <1>5, MinOfTwo
    <2>3. budget \in Int /\ budget <= limit /\ budget <= most - exposure
      BY <2>1, <2>2, <1>3, <1>5, MinOfTwo
    <2>4. budget <= wanted /\ exposure + budget <= most
      BY <2>1, <2>2, <2>3, <1>1
    <2> QED
      BY <2>3, <2>4, <1>5 DEF snapshot, budget, wanted, most
  <1> QED
    BY <1>4, <1>5

(* Rounding to steps yields whole steps, and never more than was asked if  *)
(* the minimum is at least a step.                                         *)
LEMMA FlooredFacts ==
    ASSUME NEW raw \in Int, NEW rules,
           rules.step_size \in Nat, rules.min_qty \in Nat, rules # None
    PROVE  LET floored == Floored(raw, rules)
           IN  /\ floored \in Int
               /\ rules.step_size # 0 => floored % rules.step_size = 0
               /\ rules.min_qty >= rules.step_size => floored <= raw
  <1> DEFINE step == rules.step_size
             n == raw \div step
  <1>1. CASE step = 0
    BY <1>1 DEF Floored
  <1>2. CASE step # 0 /\ raw < step /\ raw >= rules.min_qty
    <2>1. Floored(raw, rules) = step
      BY <1>2 DEF Floored
    <2>2. step % step = 0
      BY <1>2
    <2> QED
      BY <1>2, <2>1, <2>2
  <1>3. CASE step # 0 /\ ~(raw < step /\ raw >= rules.min_qty)
    <2>1. Floored(raw, rules) = n * step
      BY <1>3 DEF Floored
    <2> HIDE DEF step, n
    <2>2. step \in Nat \ {0}
      BY <1>3 DEF step
    <2>3. n \in Int /\ n * step <= raw
      BY <2>2 DEF n
    <2>4. n * step \in Int /\ (n * step) % step = 0
      BY <2>2, <2>3
    <2> QED
      BY <2>1, <2>3, <2>4 DEF step
  <1> QED
    BY <1>1, <1>2, <1>3

(* Rounding to the cent takes less than one away.                          *)
LEMMA CentsFacts ==
    ASSUME NEW amount \in Int
    PROVE  Cents(amount) \in Int /\ Cents(amount) <= amount
           /\ amount - Cents(amount) <= Cent - 1
  <1> DEFINE n == amount \div Cent
  <1>1. Cent \in Nat \ {0}
    BY CentAssumption
  <1>2. n \in Int /\ n * Cent <= amount /\ amount < n * Cent + Cent
    BY <1>1
  <1>3. Cents(amount) = n * Cent
    BY DEF Cents
  <1> HIDE DEF n
  <1>4. n * Cent \in Int
    BY <1>1, <1>2
  <1> QED
    BY <1>1, <1>2, <1>3, <1>4

(* What an entry that is not blocked was sized to.                         *)
LEMMA AllowedSize ==
    ASSUME NEW signal \in Signals, NEW p \in Profiles, NEW exposure \in Int,
           NEW count, NEW most, NEW mark \in Marks,
           NEW snapshot, snapshot = build_snapshot(p),
           NEW rules, rules = Rules[signal.symbol],
           NEW risk, risk = evaluate(signal, snapshot, rules, exposure, count, most, mark),
           ~Blocked(signal, risk, mark)
    PROVE  /\ risk.leverage \in 1 .. snapshot.max_leverage
           /\ risk.quantity \in Nat \ {0} /\ risk.notional \in Nat \ {0}
           /\ rules # None =>
                 /\ rules.step_size # 0 => risk.quantity % rules.step_size = 0
                 /\ risk.quantity >= rules.min_qty
                 /\ risk.notional >= rules.min_notional
           /\ risk.leverage = Leverage(signal, snapshot)
           /\ Price(signal, mark) \in Nat \ {0}
           /\ risk.quantity * Price(signal, mark) - risk.notional <= Cent - 1
           /\ MinimumIsStep =>
                 /\ risk.notional <= Budget(signal, snapshot, exposure)
                 /\ risk.quantity * Price(signal, mark) <= Budget(signal, snapshot, exposure)
  <1> DEFINE budget == Budget(signal, snapshot, exposure)
             price == Price(signal, mark)
             raw == budget \div price
             floored == Floored(raw, rules)
  <1>1. risk.allowed /\ risk.quantity \notin {None, 0}
    BY DEF Blocked
  <1>2. risk = Sized(signal, snapshot, exposure, rules, mark)
    BY <1>1 DEF evaluate, Refusal
  <1>3. price \in Nat \ {0}
    <2>1. risk.quantity # None => price \notin {None, 0}
      BY <1>2 DEF Sized
    <2>2. price \in Nat \cup {None}
      BY SignalsAssumption DEF Price, Or
    <2> QED
      BY <2>1, <2>2, <1>1
  <1>4. budget \in Int
    BY BudgetBounds
  <1>5. /\ risk.quantity = floored
        /\ risk.notional = IF rules # None THEN Cents(floored * price) ELSE budget
        /\ risk.leverage = Leverage(signal, snapshot)
        /\ risk.notional > 0
        /\ rules # None => risk.quantity >= rules.min_qty /\ risk.notional >= rules.min_notional
    <2>1. price \notin {None, 0}
      BY <1>3, SignalsAssumption
    <2> QED
      BY <1>1, <1>2, <2>1 DEF Sized
  <1>6. risk.leverage \in 1 .. snapshot.max_leverage
    BY <1>5, LeverageType
  <1> HIDE DEF budget, price
  <1>7. raw \in Int /\ raw * price <= budget
    BY <1>3, <1>4
  <1> HIDE DEF raw, floored
  <1>8. CASE rules = None
    <2>1. floored = raw
      BY <1>8 DEF floored, Floored
    <2>2. raw >= 0
      <3>1. budget \in Int /\ price \in Nat \ {0} /\ budget > 0
        BY <1>3, <1>4, <1>5, <1>8
      <3> QED
        BY <3>1 DEF raw
    <2>3. raw # 0
      BY <1>1, <1>5, <2>1
    <2>4. raw * price \in Int /\ raw * price - budget <= Cent - 1
      BY <1>3, <1>4, <1>7, CentAssumption
    <2> QED
      BY <1>3, <1>4, <1>5, <1>6, <1>7, <1>8, <2>1, <2>2, <2>3, <2>4 DEF budget, price
  <1>9. CASE rules # None
    <2>1. /\ rules.step_size \in Nat /\ rules.min_qty \in Nat
          /\ MinimumIsStep => rules.min_qty >= rules.step_size
      BY <1>9, SignalsAssumption, RulesAssumption DEF MinimumIsStep
    <2>2. /\ floored \in Int
          /\ rules.step_size # 0 => floored % rules.step_size = 0
          /\ MinimumIsStep => floored <= raw
      BY <1>7, <1>9, <2>1, FlooredFacts DEF floored
    <2>3. floored \in Nat \ {0}
      BY <1>1, <1>5, <1>9, <2>1, <2>2
    <2>4. PICK cost \in Int : cost = floored * price
      BY <1>3, <2>3
    <2>5. risk.notional = Cents(cost) /\ risk.notional \in Nat \ {0}
          /\ risk.notional <= cost /\ cost - risk.notional <= Cent - 1
      BY <1>5, <1>9, <2>4, CentsFacts
    <2>6. ASSUME MinimumIsStep PROVE risk.notional <= budget /\ cost <= budget
      <3>1. floored * price <= raw * price
        BY <1>3, <1>7, <2>2, <2>3, <2>6
      <3>2. raw * price \in Int
        BY <1>3, <1>7
      <3> QED
        BY <3>1, <3>2, <1>4, <1>7, <2>4, <2>5
    <2> QED
      BY <1>3, <1>5, <1>6, <1>9, <2>2, <2>3, <2>4, <2>5, <2>6 DEF budget, price
  <1> QED
    BY <1>8, <1>9

-----------------------------------------------------------------------------
(* What that makes of the book.                                            *)

(* What the rounding of the record leaves out.                             *)
Excess(t) == Value(t) - t.notional
Rounded == \A t \in Open : Excess(t) <= Cent - 1

(* On record, and with the last trade before rounding, the exposure is     *)
(* within the limit; that the others are rounded bounds their excess.      *)
Exposed ==
    \A k \in DOMAIN trades : trades[k].snapshot.max_notional_usdt # None =>
       /\ Notional(1 .. k) <= trades[k].snapshot.max_notional_usdt
       /\ Notional(1 .. k) + Excess(trades[k]) <= trades[k].snapshot.max_notional_usdt

SizeInv ==
    /\ IInv /\ TypeOK /\ OrderLegal /\ Rounded
    /\ MinimumIsStep => Exposed
    /\ MinimumIsStep /\ LossIsSet => MarginWithinLoss

(* The book of a state, for the sums over it.                              *)
LEMMA BookFacts ==
    ASSUME SizeInv
    PROVE  /\ Len(trades) \in Nat /\ DOMAIN trades = 1 .. Len(trades)
           /\ IsFiniteSet(DOMAIN trades)
           /\ \A k \in DOMAIN trades : Notionals[k] = trades[k].notional
                                       /\ Notionals[k] \in Nat \ {0}
           /\ \A S \in SUBSET DOMAIN trades : IsFiniteSet(S) /\ Notional(S) \in Int
           /\ \A k \in DOMAIN trades : /\ Value(trades[k]) \in Int
                                       /\ Excess(trades[k]) \in Int
                                       /\ Excess(trades[k]) <= Cent - 1
  <1>1. Len(trades) \in Nat /\ DOMAIN trades = 1 .. Len(trades)
    BY DEF SizeInv, IInv, Book
  <1>2. IsFiniteSet(DOMAIN trades)
    BY <1>1, FS_Interval
  <1>3. \A k \in DOMAIN trades : Notionals[k] = trades[k].notional
                                /\ Notionals[k] \in Nat \ {0}
    BY DEF SizeInv, TypeOK, Open, Notionals
  <1>4. ASSUME NEW S \in SUBSET DOMAIN trades
        PROVE  IsFiniteSet(S) /\ Notional(S) \in Int
    <2>1. IsFiniteSet(S) /\ \A k \in S : Notionals[k] \in Int
      BY <1>2, <1>3, FS_Subset
    <2> QED
      BY <2>1, SumType DEF Notional
  <1>5. ASSUME NEW k \in DOMAIN trades
        PROVE  /\ Value(trades[k]) \in Int /\ Excess(trades[k]) \in Int
               /\ Excess(trades[k]) <= Cent - 1
    <2>1. trades[k] \in Open
      BY DEF Open
    <2>2. trades[k].quantity \in Int /\ trades[k].price \in Int /\ trades[k].notional \in Int
      BY <2>1 DEF SizeInv, TypeOK
    <2>3. Value(trades[k]) \in Int
      BY <2>2 DEF Value
    <2> QED
      BY <2>1, <2>2, <2>3 DEF SizeInv, Rounded, Excess
  <1> QED
    BY <1>1, <1>2, <1>3, <1>4, <1>5

LEMMA InitSizes == Init => SizeInv
  <1> SUFFICES ASSUME Init PROVE SizeInv
    OBVIOUS
  <1>1. trades = <<>> /\ profiles \in [ProfileIds -> Profiles]
    BY DEF Init
  <1>2. Open = {} /\ DOMAIN trades = {}
    BY <1>1 DEF Open
  <1>3. IInv
    BY InitIInv
  <1> QED
    BY <1>1, <1>2, <1>3 DEF SizeInv, TypeOK, OrderLegal, Rounded, Exposed,
                            MarginWithinLoss

LEMMA OpenSizes ==
    ASSUME SizeInv, NEW signal \in Signals, NEW mark \in Marks, OpenTrade(signal, mark)
    PROVE  SizeInv'
  <1> DEFINE profile == profiles[ProfileOf[signal.source_id]]
             snapshot == build_snapshot(profile)
             exposure == Notional(DOMAIN trades)
             risk == evaluate(signal, snapshot, Rules[signal.symbol], exposure,
                              Len(trades), profile.max_open_positions, mark)
             t == [source_id |-> signal.source_id, symbol |-> signal.symbol,
                   side |-> signal.side, snapshot |-> snapshot,
                   most |-> profile.max_open_positions,
                   leverage |-> risk.leverage, notional |-> risk.notional,
                   quantity |-> risk.quantity, price |-> Price(signal, mark)]
             n == Len(trades) + 1
             rules == Rules[signal.symbol]
             budget == Budget(signal, snapshot, exposure)
  <1>1. ~Blocked(signal, risk, mark) /\ trades' = Append(trades, t) /\ profiles' = profiles
    BY DEF OpenTrade
  <1>2. profile \in Profiles
    <2>1. ProfileOf[signal.source_id] \in ProfileIds
      BY SignalsAssumption, ProfilesAssumption DEF ProfileIds
    <2> QED
      BY <2>1 DEF SizeInv, TypeOK
  <1>3. exposure \in Int
    BY BookFacts
  <1>4. /\ t.symbol = signal.symbol /\ t.snapshot = snapshot /\ t.leverage = risk.leverage
        /\ t.notional = risk.notional /\ t.quantity = risk.quantity
        /\ t.price = Price(signal, mark)
    OBVIOUS
  <1> HIDE DEF profile, exposure, risk, t
  <1>5. /\ risk.leverage \in 1 .. snapshot.max_leverage
        /\ risk.quantity \in Nat \ {0} /\ risk.notional \in Nat \ {0}
        /\ rules # None => /\ rules.step_size # 0 => risk.quantity % rules.step_size = 0
                           /\ risk.quantity >= rules.min_qty
                           /\ risk.notional >= rules.min_notional
        /\ risk.leverage = Leverage(signal, snapshot)
        /\ Price(signal, mark) \in Nat \ {0}
        /\ risk.quantity * Price(signal, mark) - risk.notional <= Cent - 1
        /\ MinimumIsStep => /\ risk.notional <= budget
                            /\ risk.quantity * Price(signal, mark) <= budget
    <2> HIDE DEF snapshot, rules, budget
    <2> QED
      BY <1>1, <1>2, <1>3, AllowedSize DEF snapshot, rules, risk, budget
  <1>6. /\ budget \in Int
        /\ budget <= Or(snapshot.max_loss_usdt, DefaultLoss) * Leverage(signal, snapshot)
        /\ snapshot.max_notional_usdt # None =>
              exposure + budget <= snapshot.max_notional_usdt
        /\ snapshot.max_notional_usdt \in Int \cup {None}
        /\ snapshot.max_loss_usdt \in Int
        /\ LossIsSet => snapshot.max_loss_usdt # 0
    BY <1>2, <1>3, BudgetBounds, SnapshotType
  <1> HIDE DEF budget
  <1>7. /\ Len(trades) \in Nat /\ DOMAIN trades = 1 .. Len(trades)
        /\ DOMAIN trades' = 1 .. n /\ trades'[n] = t
        /\ \A k \in DOMAIN trades : trades'[k] = trades[k]
    <2>1. PICK S : trades \in Seq(S)
      BY DEF SizeInv, IInv, Book
    <2>2. trades \in Seq(S \cup {t})
      BY <2>1
    <2> QED
      BY <2>2, <1>1
  <1>8. Open' = Open \cup {t}
    BY <1>7 DEF Open
  <1>9. TypeOK'
    <2>1. t.snapshot \in {build_snapshot(p) : p \in Profiles}
      BY <1>2, <1>4
    <2> QED
      BY <2>1, <1>1, <1>4, <1>5, <1>8 DEF SizeInv, TypeOK
  <1>10. OrderLegal'
    BY <1>4, <1>5, <1>8 DEF SizeInv, OrderLegal
  <1>11. PICK cost \in Int : cost = Value(t) /\ cost = risk.quantity * Price(signal, mark)
    BY <1>4, <1>5 DEF Value
  <1>12. Excess(t) = cost - risk.notional /\ Excess(t) \in Int /\ Excess(t) <= Cent - 1
    <2>1. Excess(t) = cost - risk.notional
      BY <1>4, <1>11 DEF Excess
    <2>2. cost - risk.notional <= Cent - 1 /\ risk.notional \in Int
      BY <1>5, <1>11
    <2> QED
      BY <2>1, <2>2
  <1>13. Rounded'
    <2>1. \A u \in Open' : Excess(u) <= Cent - 1
      BY <1>8, <1>12 DEF SizeInv, Rounded
    <2> QED
      BY <2>1 DEF Rounded, Excess, Value
  <1>14. ASSUME MinimumIsStep PROVE Exposed'
    <2>1. \A k \in 1 .. n : Notionals'[k] = trades'[k].notional
      BY <1>7 DEF Notionals
    <2>2. \A k \in DOMAIN trades : Notionals'[k] = Notionals[k] /\ Notionals'[k] \in Int
      BY <2>1, <1>7, BookFacts
    <2>3. ASSUME NEW k \in DOMAIN trades
          PROVE  SumFunctionOnSet(Notionals', 1 .. k) = Notional(1 .. k)
      <3>1. 1 .. k \subseteq DOMAIN trades
        BY <1>7
      <3>2. IsFiniteSet(1 .. k)
        BY <3>1, BookFacts
      <3> QED
        BY <3>1, <3>2, <2>2, SumSame DEF Notional
    <2>4. /\ SumFunctionOnSet(Notionals', 1 .. n) <= exposure + budget
          /\ SumFunctionOnSet(Notionals', 1 .. n) + Excess(t) <= exposure + budget
      <3>1. Notionals'[n] = risk.notional
        BY <2>1, <1>4, <1>7
      <3>2. 1 .. n = DOMAIN trades \cup {n} /\ n \notin DOMAIN trades
        BY <1>7
      <3>3. IsFiniteSet(DOMAIN trades)
        BY BookFacts
      <3>4. SumFunctionOnSet(Notionals', DOMAIN trades) = exposure
        BY <2>2, <3>3, SumSame DEF Notional, exposure
      <3>5. \A k \in DOMAIN trades \cup {n} : Notionals'[k] \in Int
        BY <2>2, <3>1, <1>5
      <3>6. SumFunctionOnSet(Notionals', DOMAIN trades \cup {n})
               = Notionals'[n] + SumFunctionOnSet(Notionals', DOMAIN trades)
        BY <3>2, <3>3, <3>5, SumInsert
      <3>7. SumFunctionOnSet(Notionals', 1 .. n) = risk.notional + exposure
        BY <3>1, <3>2, <3>4, <3>6
      <3> QED
        BY <3>7, <1>3, <1>5, <1>6, <1>14, <1>11, <1>12
    <2>5. ASSUME NEW k \in DOMAIN trades', trades'[k].snapshot.max_notional_usdt # None
          PROVE  LET limit == trades'[k].snapshot.max_notional_usdt IN
                 /\ SumFunctionOnSet(Notionals', 1 .. k) <= limit
                 /\ SumFunctionOnSet(Notionals', 1 .. k) + Excess(trades'[k]) <= limit
      <3>1. CASE k \in DOMAIN trades
        BY <3>1, <2>3, <2>5, <1>7, <1>14 DEF SizeInv, Exposed
      <3>2. CASE k = n
        <4>1. /\ snapshot.max_notional_usdt \in Int
              /\ exposure + budget <= snapshot.max_notional_usdt
              /\ trades'[k].snapshot = snapshot /\ trades'[k] = t
          BY <3>2, <2>5, <1>4, <1>6, <1>7
        <4>2. SumFunctionOnSet(Notionals', 1 .. n) \in Int
          <5>1. IsFiniteSet(1 .. n)
            BY <1>7, FS_Interval
          <5>2. \A j \in 1 .. n : Notionals'[j] \in Int
            <6>1. Notionals'[n] = risk.notional /\ risk.notional \in Int
              BY <2>1, <1>4, <1>5, <1>7
            <6>2. \A j \in 1 .. n : j \in DOMAIN trades \/ j = n
              BY <1>7
            <6> QED
              BY <2>2, <6>1, <6>2
          <5> QED
            BY <5>1, <5>2, SumType
        <4> QED
          BY <4>1, <4>2, <2>4, <3>2, <1>3, <1>6, <1>12
      <3> QED
        BY <3>1, <3>2, <1>7
    <2> QED
      BY <2>5 DEF Exposed, Notional, Excess, Value
  <1>15. ASSUME MinimumIsStep, LossIsSet PROVE MarginWithinLoss'
    <2>1. /\ risk.notional <= snapshot.max_loss_usdt * risk.leverage
          /\ cost <= snapshot.max_loss_usdt * risk.leverage
      <3>1. Or(snapshot.max_loss_usdt, DefaultLoss) = snapshot.max_loss_usdt
        BY <1>6, <1>15, SignalsAssumption DEF Or
      <3>2. snapshot.max_loss_usdt * risk.leverage \in Int
        <4>1. snapshot.max_leverage \in 1 .. 125
          BY <1>2, SnapshotType
        <4> QED
          BY <4>1, <1>5, <1>6
      <3> QED
        BY <3>1, <3>2, <1>5, <1>6, <1>15, <1>11
    <2> QED
      BY <2>1, <1>4, <1>8, <1>15, <1>11 DEF SizeInv, MarginWithinLoss
  <1>16. IInv'
    BY OpenIInv DEF SizeInv
  <1> QED
    BY <1>9, <1>10, <1>13, <1>14, <1>15, <1>16 DEF SizeInv

(* Closing a trade renumbers the later ones and takes its notional out.    *)
LEMMA CloseSizes ==
    ASSUME SizeInv, NEW k \in DOMAIN trades, Close(k)
    PROVE  SizeInv'
  <1> DEFINE old(j) == IF j < k THEN j ELSE j + 1
             n == Len(trades) - 1
  <1>1. Len(trades) \in Nat /\ DOMAIN trades = 1 .. Len(trades) /\ k \in 1 .. Len(trades)
    BY BookFacts
  <1>2. trades' = [j \in 1 .. n |-> trades[old(j)]] /\ profiles' = profiles
    BY DEF Close
  <1>3. \A j \in 1 .. n : old(j) \in DOMAIN trades /\ j <= old(j)
    BY <1>1
  <1>4. \A i, j \in 1 .. n : i < j => old(i) < old(j)
    BY <1>1
  <1>5. DOMAIN trades' = 1 .. n /\ \A j \in 1 .. n : trades'[j] = trades[old(j)]
    BY <1>2
  <1> DEFINE f == [j \in 1 .. n |-> old(j)]
  <1>6. \A j \in 1 .. n : f[j] = old(j)
    OBVIOUS
  <1> HIDE DEF old, f
  <1>7. Open' \subseteq Open
    BY <1>3, <1>5 DEF Open
  <1>8. TypeOK' /\ OrderLegal' /\ Rounded'
    BY <1>2, <1>7 DEF SizeInv, TypeOK, OrderLegal, Rounded, Excess, Value
  <1>9. ASSUME MinimumIsStep PROVE Exposed'
    <2> SUFFICES ASSUME NEW j \in 1 .. n, trades'[j].snapshot.max_notional_usdt # None
                 PROVE  LET limit == trades'[j].snapshot.max_notional_usdt IN
                        /\ SumFunctionOnSet(Notionals', 1 .. j) <= limit
                        /\ SumFunctionOnSet(Notionals', 1 .. j) + Excess(trades'[j]) <= limit
      BY <1>5 DEF Exposed, Notional, Excess, Value
    <2>1. \A i \in 1 .. j : i \in 1 .. n /\ i <= j
      BY <1>1
    <2>2. \A i \in 1 .. j : Notionals'[i] \in Int /\ Notionals'[i] = Notionals[f[i]]
      <3>1. \A i \in 1 .. j : Notionals'[i] = trades'[i].notional
        BY <2>1, <1>5 DEF Notionals
      <3> SUFFICES ASSUME NEW i \in 1 .. j
                   PROVE  Notionals'[i] \in Int /\ Notionals'[i] = Notionals[f[i]]
        OBVIOUS
      <3>2. i \in 1 .. n
        BY <2>1
      <3>3. f[i] = old(i) /\ old(i) \in DOMAIN trades
        BY <3>2, <1>3, <1>6
      <3>4. Notionals'[i] = trades[old(i)].notional
        BY <3>1, <3>2, <1>5
      <3> QED
        BY <3>3, <3>4, BookFacts
    <2>3. \A i, m \in 1 .. j : f[i] = f[m] => i = m
      BY <2>1, <1>1, <1>3, <1>4, <1>6
    <2>4. IsFiniteSet(1 .. j) /\ j \in Nat
      BY <1>1, FS_Interval
    <2> DEFINE kept == {f[i] : i \in 1 .. j}
    <2>5. SumFunctionOnSet(Notionals', 1 .. j) = Notional(kept)
      <3> DEFINE new == Notionals'
      <3>1. /\ \A i \in 1 .. j : new[i] \in Int
            /\ \A i \in 1 .. j : new[i] = Notionals[f[i]]
        BY <2>2
      <3> HIDE DEF new
      <3>2. SumFunctionOnSet(new, 1 .. j) = SumFunctionOnSet(Notionals, kept)
        <4>1. /\ \A i \in 1 .. j : f[i] \in kept
              /\ \A m \in kept : \E i \in 1 .. j : m = f[i]
          OBVIOUS
        <4> HIDE DEF kept, Notionals
        <4>2. Renames(f, 1 .. j, new, kept, Notionals)
          BY <4>1, <3>1, <2>3 DEF Renames
        <4> QED
          BY <4>2, <2>4, SumImage
      <3> QED
        BY <3>2 DEF new, Notional
    <2>6. kept \in SUBSET (1 .. old(j))
      <3> SUFFICES ASSUME NEW i \in 1 .. j PROVE f[i] \in 1 .. old(j)
        OBVIOUS
      <3>1. i \in 1 .. n /\ (i < j \/ i = j)
        BY <2>1, <2>4
      <3>2. old(i) \in 1 .. Len(trades) /\ old(j) \in 1 .. Len(trades) /\ old(i) <= old(j)
        BY <3>1, <1>1, <1>3, <1>4
      <3> QED
        BY <3>1, <3>2, <1>1, <1>6
    <2>7. 1 .. old(j) \in SUBSET DOMAIN trades
      BY <1>1, <1>3
    <2> HIDE DEF kept
    <2>8. Notional(kept) <= Notional(1 .. old(j))
      <3>1. IsFiniteSet(1 .. old(j)) /\ \A i \in 1 .. old(j) : Notionals[i] \in Nat
        BY <2>7, BookFacts
      <3> QED
        BY <3>1, <2>6, SumSubset DEF Notional
    <2>9. /\ Notional(1 .. old(j)) <= trades[old(j)].snapshot.max_notional_usdt
          /\ Notional(1 .. old(j)) + Excess(trades[old(j)])
                <= trades[old(j)].snapshot.max_notional_usdt
          /\ Excess(trades[old(j)]) \in Int
          /\ trades[old(j)].snapshot.max_notional_usdt \in Int
      <3>1. old(j) \in DOMAIN trades /\ trades[old(j)] \in Open
            /\ trades[old(j)].snapshot.max_notional_usdt # None
        BY <1>3, <1>5 DEF Open
      <3>2. PICK p \in Profiles : trades[old(j)].snapshot = build_snapshot(p)
        BY <3>1 DEF SizeInv, TypeOK
      <3>3. trades[old(j)].snapshot.max_notional_usdt \in Int
        BY <3>1, <3>2, SnapshotType
      <3> QED
        BY <3>1, <3>3, <1>9, BookFacts DEF SizeInv, Exposed
    <2>10. Notional(kept) \in Int /\ Notional(1 .. old(j)) \in Int
      BY <2>6, <2>7, BookFacts
    <2> QED
      BY <2>5, <2>8, <2>9, <2>10, <1>5
  <1>10. ASSUME MinimumIsStep, LossIsSet PROVE MarginWithinLoss'
    BY <1>7, <1>10 DEF SizeInv, MarginWithinLoss
  <1>11. IInv'
    BY CloseIInv DEF SizeInv
  <1> QED
    BY <1>8, <1>9, <1>10, <1>11 DEF SizeInv

LEMMA NextSizes == SizeInv /\ [Next]_vars => SizeInv'
  <1> SUFFICES ASSUME SizeInv, [Next]_vars PROVE SizeInv'
    OBVIOUS
  <1>1. IInv'
    BY NextIInv DEF SizeInv
  <1>2. CASE \E signal \in Signals, mark \in Marks : OpenTrade(signal, mark)
    BY <1>2, OpenSizes
  <1>3. CASE \E k \in DOMAIN trades : Close(k)
    BY <1>3, CloseSizes
  <1>4. ASSUME trades' = trades, profiles' \in [ProfileIds -> Profiles]
        PROVE  SizeInv'
    BY <1>1, <1>4 DEF SizeInv, TypeOK, OrderLegal, Rounded, Exposed, Excess, Value,
                      Notional, Notionals, MarginWithinLoss, Open
  <1>5. ASSUME NEW p \in Profiles, RegisterProfile(p)
        PROVE  SizeInv'
    <2>1. profiles' \in [ProfileIds -> Profiles]
      BY <1>5 DEF RegisterProfile, SizeInv, TypeOK
    <2> QED
      BY <2>1, <1>4, <1>5 DEF RegisterProfile
  <1>6. CASE UNCHANGED vars
    BY <1>4, <1>6 DEF vars, SizeInv, TypeOK
  <1> QED
    BY <1>2, <1>3, <1>5, <1>6 DEF Next

THEOREM SizesInductive == Spec => []SizeInv
  BY InitSizes, NextSizes, PTL DEF Spec

(* Every open trade was sized to a positive quantity and notional, with a  *)
(* leverage its snapshot allows (core/risk/engine.py:54-55, 83-127).       *)
THEOREM TypeCorrect == Spec => []TypeOK
  BY SizesInductive, PTL DEF SizeInv

(* What is opened the exchange can take: whole steps, and the symbol's     *)
(* minimum quantity and notional (core/risk/engine.py:77-108).             *)
THEOREM LegalCorrect == Spec => []OrderLegal
  BY SizesInductive, PTL DEF SizeInv

(* What the trades up to one really cost is what is on record for those    *)
(* before it, less than a cent each, and what it costs itself.             *)
LEMMA ExposureFollows == SizeInv /\ Exposed => ExposureBounded
  <1> SUFFICES ASSUME SizeInv, Exposed, NEW k \in DOMAIN trades,
                      trades[k].snapshot.max_notional_usdt # None
               PROVE  /\ Notional(1 .. k) <= trades[k].snapshot.max_notional_usdt
                      /\ SumFunctionOnSet(Values, 1 .. k)
                            <= trades[k].snapshot.max_notional_usdt + (k - 1) * (Cent - 1)
    BY DEF ExposureBounded
  <1> DEFINE before == 1 .. k - 1
             limit == trades[k].snapshot.max_notional_usdt
  <1>1. /\ k \in Nat \ {0} /\ k \in 1 .. k
        /\ 1 .. k \subseteq DOMAIN trades
        /\ before \subseteq DOMAIN trades /\ before = (1 .. k) \ {k}
    BY BookFacts
  <1>2. /\ IsFiniteSet(1 .. k) /\ Notional(1 .. k) \in Int
        /\ IsFiniteSet(before) /\ Notional(before) \in Int
    BY <1>1, BookFacts
  <1>3. Cardinality(before) = k - 1
    BY <1>1, FS_Interval
  <1>4. PICK o \in Int : o = Cent - 1
    BY CentAssumption
  <1>5. ASSUME NEW j \in DOMAIN trades
        PROVE  /\ Notionals[j] \in Int /\ Values[j] \in Int
               /\ Values[j] = Notionals[j] + Excess(trades[j])
               /\ Values[j] <= Notionals[j] + o
    <2>1. /\ Notionals[j] \in Int /\ Notionals[j] = trades[j].notional
          /\ Values[j] = Value(trades[j])
          /\ Value(trades[j]) \in Int /\ Excess(trades[j]) <= Cent - 1
      BY BookFacts DEF Values
    <2> QED
      BY <2>1, <1>4 DEF Excess
  <1> HIDE DEF before
  <1>6. /\ Notional(1 .. k) = Notionals[k] + Notional(before)
        /\ SumFunctionOnSet(Values, 1 .. k) = Values[k] + SumFunctionOnSet(Values, before)
    BY <1>1, <1>2, <1>5, SumRemove DEF Notional
  <1>7. SumFunctionOnSet(Values, before) <= Notional(before) + o * Cardinality(before)
    BY <1>1, <1>2, <1>5, SumWithin DEF Notional
  <1>8. SumFunctionOnSet(Values, before) \in Int
    BY <1>1, <1>2, <1>5, SumType
  <1>9. limit \in Int
    <2>1. PICK p \in Profiles : trades[k].snapshot = build_snapshot(p)
      BY DEF SizeInv, TypeOK, Open
    <2> QED
      BY <2>1, SnapshotType
  <1>10. Notional(1 .. k) <= limit /\ Notional(1 .. k) + Excess(trades[k]) <= limit
    BY DEF Exposed
  <1>11. Excess(trades[k]) \in Int
    BY BookFacts
  <1>12. PICK m \in Int : m = o * Cardinality(before) /\ m = (k - 1) * (Cent - 1)
    BY <1>1, <1>3, <1>4
  <1> HIDE DEF limit
  <1>13. SumFunctionOnSet(Values, 1 .. k) <= limit + m
    <2>1. PICK a, b \in Int : a = Notionals[k] /\ b = Values[k] /\ b = a + Excess(trades[k])
      BY <1>5
    <2>2. Notional(1 .. k) = a + Notional(before)
      BY <2>1, <1>6
    <2>3. SumFunctionOnSet(Values, 1 .. k) = b + SumFunctionOnSet(Values, before)
      BY <2>1, <1>6
    <2>4. SumFunctionOnSet(Values, before) <= Notional(before) + m
      BY <1>7, <1>12
    <2>5. PICK x, y, z \in Int : /\ x = Notional(before) /\ y = Excess(trades[k])
                                /\ z = SumFunctionOnSet(Values, before)
      BY <1>2, <1>8, <1>11
    <2>6. z <= x + m /\ b = a + y /\ a + x + y <= limit
      BY <2>1, <2>2, <2>4, <2>5, <1>10
    <2>7. b + z <= limit + m
      BY <2>6, <1>9
    <2> QED
      BY <2>3, <2>5, <2>7
  <1> QED
    BY <1>10, <1>12, <1>13 DEF limit

(* No trade was opened past the notional limit it was opened under, its    *)
(* exposure and that of the trades before it together, whatever was opened *)
(* and closed around it (core/risk/engine.py:64-75): on record, and in     *)
(* what the quantities cost but for the cents that rounding the records of *)
(* the earlier trades left out (engine.py:93).                             *)
THEOREM ExposureCorrect == ASSUME MinimumIsStep PROVE Spec => []ExposureBounded
  <1>1. SizeInv => ExposureBounded
    BY ExposureFollows DEF SizeInv
  <1> QED
    BY <1>1, SizesInductive, PTL

(* No trade puts up more margin than its loss limit, on record or before   *)
(* its notional was rounded (core/risk/engine.py:58-61, 93).               *)
THEOREM MarginCorrect ==
    ASSUME MinimumIsStep, LossIsSet PROVE Spec => []MarginWithinLoss
  <1>1. SizeInv => MarginWithinLoss
    BY DEF SizeInv
  <1> QED
    BY <1>1, SizesInductive, PTL
=============================================================================
