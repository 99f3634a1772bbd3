------------------------------ MODULE Decision ------------------------------
(***************************************************************************)
(* From a signal to an open trade: build_snapshot, RiskEngine.evaluate,    *)
(* EntryPlanner.plan and ConflictResolver.resolve (profiles/ and core/),   *)
(* put together as analyze_signal does (api/demo.py).                      *)
(*                                                                         *)
(* The functions are pure; their caller, who keeps the open trades, is not *)
(* in src/ yet.  The model gives them the caller they are written for: it  *)
(* passes the trades open now, their exposure and their number, opens the  *)
(* trade if the entry is not blocked and the conflict is resolved in its   *)
(* favour, and decides one signal at a time.                               *)
(*                                                                         *)
(* Quantities count the engine's quantum of 10^-8.  Money counts a unit of *)
(* which 0.01 USDT holds Cent and in which prices per quantum are whole:   *)
(* the three roundings of the engine (of the quantity to the quantum, then *)
(* to the symbol's step, and of the notional to the cent) are then exact   *)
(* in integers.                                                            *)
(***************************************************************************)
EXTENDS Integers, Sequences, FiniteSetsExt

CONSTANTS
    None,           \* Python's None
    Sources,
    Signals,        \* what the parser yields, with its source_id
    Profiles,       \* the TradingProfiles that are registered
    ProfileOf,      \* source -> the profile_id its signals are traded under
    Rules,          \* symbol -> SymbolRules, or None
    Priority,       \* source -> priority for SOURCE_PRIORITY
    Marks,          \* mark prices; None is no mark price
    Cent,           \* 0.01 USDT, in the unit that money is counted in
    MaxTrades       \* bound: open trades

ASSUME CentAssumption == Cent \in Nat \ {0}

ASSUME RulesAssumption ==
    \A s \in DOMAIN Rules : Rules[s] # None =>
       /\ Rules[s].step_size \in Nat
       /\ Rules[s].min_qty \in Nat /\ Rules[s].min_notional \in Nat

ASSUME SignalsAssumption ==
    /\ None \notin Int
    /\ Marks \subseteq Nat \cup {None}
    /\ \A s \in Signals :
          /\ s.source_id \in Sources /\ s.symbol \in DOMAIN Rules
          /\ s.entry_price \in Nat \cup {None}
          /\ s.leverage \in (1 .. 125) \cup {None}

ASSUME ProfilesAssumption ==
    /\ ProfileOf \in [Sources -> {p.profile_id : p \in Profiles}]
    /\ \A p \in Profiles :
          /\ p.max_open_positions \in Nat
          /\ p.max_leverage \in 1 .. 125
          /\ p.max_loss_usdt \in Int
          /\ p.max_notional_usdt \in Int \cup {None}

VARIABLES
    profiles,   \* ProfileRegistry: profile_id -> the last one registered
    trades      \* the open trades, in the order they were opened

vars == <<profiles, trades>>

ProfileIds == {p.profile_id : p \in Profiles}

(* What a trade keeps of its profile for good.                             *)
build_snapshot(p) ==
    [max_leverage |-> p.max_leverage,
     max_notional_usdt |-> p.max_notional_usdt, max_loss_usdt |-> p.max_loss_usdt,
     conflict_policy |-> p.conflict_policy]

-----------------------------------------------------------------------------
(* RiskEngine.evaluate.                                                    *)

(* Python's "a or b" for numbers: None and 0 count as missing.             *)
Or(a, b) == IF a \in {None, 0} THEN b ELSE a

(* Slip: the ladder of the profile is not applied.                         *)
LeverageAsked(signal, snapshot) == Or(signal.leverage, 1)

Leverage(signal, snapshot) == Min({Or(signal.leverage, 1), snapshot.max_leverage})

DefaultLoss == 1000 * Cent      \* Decimal("10")

(* The notional the loss and notional limits allow for one trade.          *)
TradeLimit(signal, snapshot) ==
    LET wanted == Or(snapshot.max_loss_usdt, DefaultLoss) * Leverage(signal, snapshot) IN
    IF snapshot.max_notional_usdt = None THEN wanted
    ELSE Min({wanted, snapshot.max_notional_usdt})

ExposureReached(signal, snapshot, exposure) ==
    /\ snapshot.max_notional_usdt # None
    /\ exposure + TradeLimit(signal, snapshot) > snapshot.max_notional_usdt
    /\ snapshot.max_notional_usdt <= exposure

(* Slip: the exposure of the open trades is not taken off.                 *)
BudgetAlone(signal, snapshot, exposure) == TradeLimit(signal, snapshot)

(* Slip: leverage multiplies what the exposure limit leaves.               *)
BudgetLevered(signal, snapshot, exposure) ==
    IF snapshot.max_notional_usdt = None THEN TradeLimit(signal, snapshot)
    ELSE snapshot.max_notional_usdt - exposure

(* What is left of it under the exposure of the open trades.               *)
Budget(signal, snapshot, exposure) ==
    IF snapshot.max_notional_usdt = None THEN TradeLimit(signal, snapshot)
    ELSE Min({TradeLimit(signal, snapshot), snapshot.max_notional_usdt - exposure})

(* Slip: the quantity is rounded to the quantum only.                      *)
NotFloored(raw, rules) == raw

(* A quantity too small for one step becomes one step if it is at least    *)
(* the minimum.                                                            *)
Floored(raw, rules) ==
    IF rules = None THEN raw
    ELSE IF rules.step_size = 0 THEN raw
    ELSE IF raw < rules.step_size /\ raw >= rules.min_qty THEN rules.step_size
    ELSE (raw \div rules.step_size) * rules.step_size

Price(signal, mark) == Or(mark, signal.entry_price)

(* The notional that is recorded is what the quantity costs, down to the   *)
(* cent.                                                                   *)
Cents(amount) == (amount \div Cent) * Cent

Refusal(leverage) ==
    [allowed |-> FALSE, leverage |-> leverage, notional |-> 0, quantity |-> None]

(* The quantity is None when there is neither a mark nor an entry price;   *)
(* the notional then is the budget itself.                                 *)
Sized(signal, snapshot, exposure, rules, mark) ==
    LET budget == Budget(signal, snapshot, exposure)
        price == Price(signal, mark)
        priced == price \notin {None, 0}
        quantity == IF priced THEN Floored(budget \div price, rules) ELSE None
        notional == IF priced /\ rules # None THEN Cents(quantity * price) ELSE budget
    IN  [allowed |-> /\ priced /\ rules # None => /\ quantity >= rules.min_qty
                                                  /\ notional >= rules.min_notional
                     /\ notional > 0,
         leverage |-> Leverage(signal, snapshot),
         notional |-> notional,
         quantity |-> quantity]

(* Slip: the count check lets one more through.                            *)
CountPassed(count, most) == count > most

CountReached(count, most) == count >= most

evaluate(signal, snapshot, rules, exposure, count, most, mark) ==
    IF CountReached(count, most) THEN Refusal(1)
    ELSE IF ExposureReached(signal, snapshot, exposure)
         THEN Refusal(Leverage(signal, snapshot))
    ELSE Sized(signal, snapshot, exposure, rules, mark)

-----------------------------------------------------------------------------
(* EntryPlanner.plan: whether the entry is blocked.                        *)

(* The mark has run away from the limit price by more than one percent.    *)
LateEntry(signal, mark) ==
    /\ signal.entry_type = "LIMIT"
    /\ mark \notin {None, 0} /\ signal.entry_price \notin {None, 0}
    /\ \/ signal.side = "LONG" /\ mark * 100 > signal.entry_price * 101
       \/ signal.side = "SHORT" /\ mark * 100 < signal.entry_price * 99

Blocked(signal, risk, mark) ==
    \/ ~risk.allowed \/ risk.quantity \in {None, 0}
    \/ signal.entry_type = "LIMIT" /\ signal.entry_price = None
    \/ LateEntry(signal, mark)

-----------------------------------------------------------------------------
(* ConflictResolver.resolve.                                               *)

(* Slip: only a LONG signal is held against open SHORT trades.             *)
OpposesShort(signal, t) == signal.side = "LONG" /\ t.side = "SHORT"

Opposes(signal, t) == t.side # signal.side

(* Slip: a source of equal priority may join.                              *)
RanksAsHigh(signal, t) == Priority[t.source_id] <= Priority[signal.source_id]

Outranks(signal, t) == Priority[t.source_id] < Priority[signal.source_id]

resolve(signal, policy, open) ==
    LET same_symbol == {t \in open : t.symbol = signal.symbol} IN
    IF same_symbol = {} THEN "accept"
    ELSE IF \E t \in same_symbol : Opposes(signal, t) THEN "reject"
    ELSE IF policy = "REJECT_SECOND" THEN "reject"
    ELSE IF policy = "SCALE_IN" THEN "scale_in"
    ELSE IF policy = "DEDICATED_ACCOUNT" THEN "accept"
    ELSE IF policy = "SOURCE_PRIORITY"
         THEN IF \A t \in same_symbol : Outranks(signal, t) THEN "accept" ELSE "reject"
    ELSE IF policy = "MANUAL_REVIEW" THEN "manual_review"
    ELSE "reject"       \* an unknown policy: fail closed

-----------------------------------------------------------------------------
(* The trade book, kept by the caller.                                     *)

Notionals == [k \in DOMAIN trades |-> trades[k].notional]
Notional(ks) == SumFunctionOnSet(Notionals, ks)
Open == {trades[k] : k \in DOMAIN trades}

(* A trade keeps the snapshot it was opened under (and, for the properties *)
(* only, the price it was sized at).                                       *)
OpenTrade(signal, mark) ==
    LET profile == profiles[ProfileOf[signal.source_id]]
        snapshot == build_snapshot(profile)
        most == profile.max_open_positions
        risk == evaluate(signal, snapshot, Rules[signal.symbol],
                         Notional(DOMAIN trades), Len(trades), most, mark)
    IN  /\ Len(trades) < MaxTrades
        /\ ~Blocked(signal, risk, mark)
        /\ resolve(signal, snapshot.conflict_policy, Open) \in {"accept", "scale_in"}
        /\ trades' = Append(trades,
              [source_id |-> signal.source_id, symbol |-> signal.symbol,
               side |-> signal.side, snapshot |-> snapshot, most |-> most,
               leverage |-> risk.leverage, notional |-> risk.notional,
               quantity |-> risk.quantity, price |-> Price(signal, mark)])
        /\ UNCHANGED profiles

Close(k) ==
    /\ trades' = [j \in 1 .. Len(trades) - 1 |-> trades[IF j < k THEN j ELSE j + 1]]
    /\ UNCHANGED profiles

(* register: the last one registered under an id is the one that is used,  *)
(* whatever its version.                                                   *)
RegisterProfile(p) ==
    /\ profiles' = [profiles EXCEPT ![p.profile_id] = p]
    /\ UNCHANGED trades

Init ==
    /\ profiles \in [ProfileIds -> Profiles]
    /\ \A i \in ProfileIds : profiles[i].profile_id = i
    /\ trades = <<>>

Next ==
    \/ \E signal \in Signals, mark \in Marks : OpenTrade(signal, mark)
    \/ \E k \in DOMAIN trades : Close(k)
    \/ \E p \in Profiles : RegisterProfile(p)

Spec == Init /\ [][Next]_vars

-----------------------------------------------------------------------------
(* Properties.                                                             *)

(* Two conditions on the configuration, which the default rules and        *)
(* profiles satisfy and the code does not check.                           *)
MinimumIsStep ==
    \A s \in DOMAIN Rules : Rules[s] # None => Rules[s].min_qty >= Rules[s].step_size
LossIsSet == \A p \in Profiles : p.max_loss_usdt # 0

(* What the quantity of a trade costs, before any rounding.                *)
Value(t) == t.quantity * t.price
Values == [k \in DOMAIN trades |-> Value(trades[k])]

(* The exposure a trade was allowed to complete, its own included, is      *)
(* within the notional limit of its snapshot: however trades of sources    *)
(* with other limits came and went before it, and whatever its leverage.   *)
(* That is the exposure on record.  What the quantities really cost can    *)
(* pass the limit, because every record is rounded down (engine.py:93) and *)
(* counts against the next trade's limit: by less than a cent for each     *)
(* trade before it.                                                        *)
ExposureBounded ==
    \A k \in DOMAIN trades : trades[k].snapshot.max_notional_usdt # None =>
       /\ Notional(1 .. k) <= trades[k].snapshot.max_notional_usdt
       /\ SumFunctionOnSet(Values, 1 .. k)
             <= trades[k].snapshot.max_notional_usdt + (k - 1) * (Cent - 1)

(* No trade puts up more margin than its snapshot's loss limit, on record  *)
(* or before rounding: where the symbol's minimum is at least a step,      *)
(* rounding only takes away (and a limit of 0 stands for the default, not  *)
(* for no loss).                                                           *)
MarginWithinLoss ==
    \A t \in Open : LET limit == t.snapshot.max_loss_usdt * t.leverage IN
       t.notional <= limit /\ Value(t) <= limit

(* The trades opened before a trade and still open were fewer than its     *)
(* profile allowed, which is not part of the snapshot.                     *)
CountBounded ==
    \A k \in DOMAIN trades : k <= trades[k].most

(* Opposite direction is always blocked (core/conflict/resolver.py:5): the *)
(* open trades of a symbol all have one side, under every mix of policies  *)
(* and however the policies of their sources change.                       *)
OneDirection ==
    \A t, u \in Open : t.symbol = u.symbol => t.side = u.side

(* A trade joins an open one of its symbol only as its own policy allows:  *)
(* never under REJECT_SECOND or MANUAL_REVIEW, and under SOURCE_PRIORITY   *)
(* only if its source comes strictly before that of every trade it joined. *)
JoinedByPolicy ==
    \A j, k \in DOMAIN trades : j < k /\ trades[j].symbol = trades[k].symbol =>
       LET policy == trades[k].snapshot.conflict_policy IN
       /\ policy \in {"SCALE_IN", "DEDICATED_ACCOUNT", "SOURCE_PRIORITY"}
       /\ policy = "SOURCE_PRIORITY" =>
             Priority[trades[j].source_id] < Priority[trades[k].source_id]

(* What is opened the exchange can take: whole steps, at least the minimum *)
(* quantity and notional of the symbol.                                    *)
OrderLegal ==
    \A t \in Open : Rules[t.symbol] # None =>
       /\ Rules[t.symbol].step_size # 0 =>
             t.quantity % Rules[t.symbol].step_size = 0
       /\ t.quantity >= Rules[t.symbol].min_qty
       /\ t.notional >= Rules[t.symbol].min_notional

TypeOK ==
    /\ profiles \in [ProfileIds -> Profiles]
    /\ \A t \in Open :
          /\ t.snapshot \in {build_snapshot(p) : p \in Profiles}
          /\ t.quantity \in Nat \ {0} /\ t.notional \in Nat \ {0}
          /\ t.price \in Nat \ {0}
          /\ t.leverage \in 1 .. t.snapshot.max_leverage
=============================================================================
