--------------------------- MODULE TradeLifeProofs --------------------------
(***************************************************************************)
(* Theorems of TradeLife, for any trades, plans and numbers of lost        *)
(* answers.  The inductive invariant says of every trade which stops the   *)
(* exchange may hold for it: those up to the one that is due next, of      *)
(* which those that are due are live at the price the planner gives, since *)
(* only the stop a trade has recorded is ever cancelled.                   *)
(***************************************************************************)
EXTENDS TradeLife, Sums, TLAPS

OrderRecord ==
    [client : ClientIds, symbol : {Symbol}, side : X!Sides,
     type : {"MARKET", "STOP_MARKET"}, qty : {Quantity},
     status : {"NEW", "FILLED", "CANCELED"}, avg : {EntryPrice, 0},
     reduceOnly : BOOLEAN]

TradeRecord ==
    [status : Statuses, stop : Int \cup {None}, order : Nat, done : Nat]

(* The order book and the index into it.                                   *)
Book ==
    /\ orders \in Seq(OrderRecord)
    /\ stopPrice \in Seq(Int \cup {None}) /\ Len(stopPrice) = Len(orders)
    /\ byClient \in [ClientIds -> Nat]
    /\ \A c \in ClientIds :
          /\ byClient[c] = 0 => \A i \in DOMAIN orders : orders[i].client # c
          /\ byClient[c] # 0 => /\ byClient[c] \in DOMAIN orders
                                /\ orders[byClient[c]].client = c

Records ==
    /\ plan \in [Trades -> Plans]
    /\ \A t, u \in Trades : plan[t].side = plan[u].side
    /\ trade \in [Trades -> TradeRecord]
    /\ hits \in [Trades -> Nat]
    /\ \A t \in Trades : hits[t] <= Len(plan[t].targets)

(* The stop that is due next: the first, or the one after the next hit.    *)
Due(t) == IF trade[t].order = 0 THEN 0 ELSE trade[t].done + 1
DuePrice(t) == IF trade[t].order = 0 THEN plan[t].stop_loss ELSE NextStop(t)

(* The stops that were placed for a trade, as far as it has come.          *)
StopsGood(t) ==
    \A i \in DOMAIN orders, k \in 0 .. MaxHits :
       orders[i].client = StopId(t, k) =>
          /\ orders[i].side = ExitSide(t)
          /\ stopPrice[i] \in Levels
          /\ k <= Due(t) /\ k <= hits[t]
          /\ k = Due(t) => orders[i].status = "NEW" /\ stopPrice[i] = DuePrice(t)

(* What is recorded of a trade's stop: it is there, and live until the     *)
(* next one is placed or the trade is over.                                *)
NextPlaced(t) == \E i \in DOMAIN orders : orders[i].client = StopId(t, trade[t].done + 1)

RecordGood(t) ==
    LET n == trade[t].order IN
    /\ n = 0 => trade[t].stop = None /\ trade[t].done = 0
    /\ n # 0 =>
          /\ n \in DOMAIN orders
          /\ orders[n].client = StopId(t, trade[t].done)
          /\ trade[t].done <= hits[t]
          /\ trade[t].stop = stopPrice[n]
          /\ Entered(t)
          /\ NextPlaced(t) => orders[n].status = "CANCELED"
          /\ orders[n].status # "NEW" => NextPlaced(t) \/ Exited(t)

(* What the stops after the take profits have locked in.                   *)
LockedIn(t) ==
    LET side == plan[t].side
        stop == trade[t].stop
        done == trade[t].done
    IN  /\ done >= 1 /\ plan[t].sl_mode \in {"BREAK_EVEN", "LOCK_PROFIT_USDT"}
              => Protects(side, EntryPrice, stop)
        /\ plan[t].sl_mode = "MOVE_TO_PREVIOUS_TP"
              => \A k \in 1 .. done - 1 : Protects(side, plan[t].targets[k], stop)

StatusGood(t) ==
    /\ Exited(t) => Entered(t)
    /\ In(t, {"OPEN", "CLOSING"}) => Entered(t)
    /\ In(t, {"OPEN", "PENDING_ENTRY"}) => ~Exited(t)
    /\ In(t, {"CLOSED", "ARCHIVED"}) => (Entered(t) <=> Exited(t))
    /\ In(t, {"ARCHIVED"}) /\ trade[t].order # 0
          => orders[trade[t].order].status # "NEW"

Good(t) == StopsGood(t) /\ RecordGood(t) /\ LockedIn(t) /\ StatusGood(t)

(* The position: one unit for every trade in it, all on one side.          *)
InPos == {t \in Trades : InPosition(t)}
Holding ==
    /\ position \in [{Symbol} -> X!Position \cup {NoPosition}]
    /\ mark[Symbol] = EntryPrice
    /\ InPos = {} => position[Symbol] = NoPosition
    /\ \A t \in InPos :
          /\ position[Symbol] # NoPosition
          /\ position[Symbol].amt = EntrySide(t) * Cardinality(InPos)

(* Live stops that no trade has recorded.                                  *)
Extras ==
    {i \in DOMAIN orders :
       \E t \in Trades : i \in LiveStops(t) /\ i # trade[t].order}

Faults == faults \in Nat /\ Cardinality(Extras) <= MaxFaults - faults

IInv == Book /\ Records /\ (\A t \in Trades : Good(t)) /\ Holding /\ Faults

-----------------------------------------------------------------------------
(* Client ids, prices and bounds.                                          *)

LEMMA ClientFacts ==
    /\ \A t \in Trades : /\ EntryId(t) \in ClientIds /\ ExitId(t) \in ClientIds
                         /\ \A k \in 0 .. MaxHits : StopId(t, k) \in ClientIds
    /\ \A t, k : StopId(t, k) \in ClientIds => k \in 0 .. MaxHits
    /\ \A t, u : EntryId(t) # ExitId(u)
    /\ \A t, u, k : StopId(t, k) # EntryId(u) /\ StopId(t, k) # ExitId(u)
    /\ \A t, u, k, l : StopId(t, k) = StopId(u, l) => t = u /\ k = l
    /\ \A t, u : EntryId(t) = EntryId(u) \/ ExitId(t) = ExitId(u) => t = u
    /\ \A t, c : c \in StopIds(t) <=> \E k \in 0 .. MaxHits : c = StopId(t, k)
  BY DEF ClientIds, StopIds, EntryId, ExitId, StopId

LEMMA PlanFacts ==
    /\ MaxHits \in Nat
    /\ Levels \subseteq Int
    /\ \A p \in Plans : /\ Len(p.targets) \in Nat /\ Len(p.targets) <= MaxHits
                        /\ EntryPrice \in Levels
                        /\ p.stop_loss # None => p.stop_loss \in Levels
                        /\ \A k \in 1 .. Len(p.targets) : p.targets[k] \in Levels
  <1> DEFINE L == {Len(p.targets) : p \in Plans}
             S == L \cup {0}
  <1>1. \A p \in Plans : Len(p.targets) \in Nat /\ DOMAIN p.targets = 1 .. Len(p.targets)
                        /\ \A k \in 1 .. Len(p.targets) : p.targets[k] \in Int
    BY PlansAssumption
  <1>2. IsFiniteSet(S) /\ S # {} /\ \A n \in S : n \in Nat
    <2>1. [p \in Plans |-> Len(p.targets)] \in Surjection(Plans, L)
      BY DEF Surjection
    <2>2. L \in SUBSET Nat
      BY <1>1
    <2> HIDE DEF L
    <2>3. IsFiniteSet(L)
      BY FiniteAssumption, <2>1, FS_Surjection
    <2> QED
      BY <2>2, <2>3, FS_AddElement
  <1>3. MaxHits \in S /\ \A n \in S : MaxHits >= n
    <2> HIDE DEF S
    <2>1. \E m \in S : \A n \in S : m >= n
      BY <1>2, HasMaximum
    <2>2. Max(S) \in S /\ \A n \in S : Max(S) >= n
      BY <2>1 DEF Max
    <2> QED
      BY <2>2 DEF MaxHits, S
  <1>4. MaxHits \in Nat /\ \A p \in Plans : Len(p.targets) <= MaxHits
    BY <1>1, <1>2, <1>3
  <1>5. ASSUME NEW p \in Plans
        PROVE  /\ EntryPrice \in Levels
               /\ p.stop_loss # None => p.stop_loss \in Levels
               /\ \A k \in 1 .. Len(p.targets) : p.targets[k] \in Levels
    BY PlansAssumption, EntryAssumption, NoneAssumption, <1>1 DEF Levels, Range
  <1>6. Levels \subseteq Int
    BY PlansAssumption, EntryAssumption, NoneAssumption, <1>1 DEF Levels, Range
  <1> QED
    BY <1>1, <1>4, <1>5, <1>6

-----------------------------------------------------------------------------
(* What the exchange's calls do to the book.                               *)

LEMMA CanceledBook ==
    ASSUME Book, NEW id
    PROVE  LET os == X!WithStatus(orders, id, "CANCELED")
           IN  /\ os \in Seq(OrderRecord) /\ Len(os) = Len(orders)
               /\ DOMAIN os = DOMAIN orders
               /\ \A i \in DOMAIN orders :
                     /\ os[i].client = orders[i].client
                     /\ os[i].side = orders[i].side
                     /\ os[i].status = IF i = id THEN "CANCELED" ELSE orders[i].status
  <1>1. CASE id \in DOMAIN orders
    <2> DEFINE new == [orders[id] EXCEPT !.status = "CANCELED"]
               os == [orders EXCEPT ![id] = new]
    <2>1. orders \in Seq(OrderRecord) /\ orders[id] \in OrderRecord
      BY <1>1 DEF Book
    <2>2. new \in OrderRecord
      BY <2>1 DEF OrderRecord
    <2>3. /\ new.client = orders[id].client /\ new.side = orders[id].side
          /\ new.status = "CANCELED"
      BY <2>1 DEF OrderRecord
    <2> HIDE DEF new
    <2>4. /\ os \in Seq(OrderRecord) /\ Len(os) = Len(orders) /\ DOMAIN os = DOMAIN orders
          /\ \A i \in DOMAIN orders : os[i] = IF i = id THEN new ELSE orders[i]
      BY <1>1, <2>1, <2>2
    <2>5. X!WithStatus(orders, id, "CANCELED") = os
      BY <1>1 DEF X!WithStatus, new
    <2> HIDE DEF os
    <2> QED
      BY <2>3, <2>4, <2>5
  <1>2. CASE id \notin DOMAIN orders
    BY <1>2 DEF X!WithStatus, Book
  <1> QED
    BY <1>1, <1>2

(* The order new has joined the orders os, with the stop price given.      *)
Accepted(os, new, price) ==
    /\ X!NextId \in Nat \ {0} /\ X!NextId \notin DOMAIN orders
    /\ DOMAIN orders' = DOMAIN orders \cup {X!NextId}
    /\ orders'[X!NextId] = new /\ stopPrice'[X!NextId] = price
    /\ \A i \in DOMAIN orders : orders'[i] = os[i] /\ stopPrice'[i] = stopPrice[i]
    /\ \A c \in ClientIds :
          byClient'[c] = IF c = new.client THEN X!NextId ELSE byClient[c]

LEMMA AcceptedBook ==
    ASSUME Book, NEW os \in Seq(OrderRecord), Len(os) = Len(orders),
           \A i \in DOMAIN orders : os[i].client = orders[i].client,
           NEW new \in OrderRecord, NEW price \in Int \cup {None},
           orders' = Append(os, new), stopPrice' = Append(stopPrice, price),
           byClient' = [byClient EXCEPT ![new.client] = X!NextId]
    PROVE  Book' /\ Accepted(os, new, price)
  <1> DEFINE n == Len(orders) + 1
  <1>1. /\ Len(orders) \in Nat /\ DOMAIN orders = 1 .. Len(orders)
        /\ X!NextId = n /\ n \notin DOMAIN orders /\ n \in Nat \ {0}
    BY DEF Book, X!NextId
  <1>2. /\ orders' \in Seq(OrderRecord) /\ Len(orders') = n
        /\ DOMAIN orders' = DOMAIN orders \cup {n}
        /\ orders'[n] = new /\ \A i \in DOMAIN orders : orders'[i] = os[i]
    BY <1>1
  <1>3. /\ stopPrice' \in Seq(Int \cup {None}) /\ Len(stopPrice') = n
        /\ stopPrice'[n] = price /\ \A i \in DOMAIN orders : stopPrice'[i] = stopPrice[i]
    BY <1>1 DEF Book
  <1>4. new.client \in ClientIds
    BY DEF OrderRecord
  <1>5. /\ byClient' \in [ClientIds -> Nat]
        /\ \A c \in ClientIds : byClient'[c] = IF c = new.client THEN n ELSE byClient[c]
    BY <1>1, <1>4 DEF Book
  <1> HIDE DEF n
  <1>6. ASSUME NEW c \in ClientIds
        PROVE  /\ byClient'[c] = 0 => \A i \in DOMAIN orders' : orders'[i].client # c
               /\ byClient'[c] # 0 => /\ byClient'[c] \in DOMAIN orders'
                                      /\ orders'[byClient'[c]].client = c
    <2>1. CASE c = new.client
      BY <1>1, <1>2, <1>5, <2>1
    <2>2. CASE c # new.client
      <3>1. byClient'[c] = byClient[c]
        BY <1>5, <2>2
      <3>2. /\ byClient[c] = 0 => \A i \in DOMAIN orders : orders[i].client # c
            /\ byClient[c] # 0 => /\ byClient[c] \in DOMAIN orders
                                  /\ orders[byClient[c]].client = c
        BY DEF Book
      <3> QED
        BY <3>1, <3>2, <1>2, <2>2
    <2> QED
      BY <2>1, <2>2
  <1>7. Book'
    BY <1>2, <1>3, <1>5, <1>6 DEF Book
  <1> QED
    BY <1>1, <1>2, <1>3, <1>5, <1>7 DEF Accepted

(* The exchange has an order for every client id it has been given.        *)
LEMMA KnownFacts ==
    ASSUME Book
    PROVE  /\ \A c \in ClientIds : X!GetOrder(c) <=> X!KnownClient(c)
           /\ \A c \in ClientIds :
                 X!GetOrder(c) <=> \E i \in DOMAIN orders : orders[i].client = c
           /\ \A t \in Trades : /\ Entered(t) <=> byClient[EntryId(t)] # 0
                                /\ Exited(t) <=> byClient[ExitId(t)] # 0
  <1>1. 0 \notin DOMAIN orders
    BY DEF Book
  <1>2. \A c \in ClientIds : X!GetOrder(c) <=> byClient[c] # 0
    BY <1>1 DEF Book, X!GetOrder
  <1> QED
    BY <1>2, ClientFacts DEF Book, X!KnownClient, Entered, Exited

-----------------------------------------------------------------------------
(* A step of one trade leaves the others as they are.                      *)

Own(t) == {EntryId(t), ExitId(t)} \cup StopIds(t)

Touches(t) ==
    /\ plan' = plan
    /\ DOMAIN orders \subseteq DOMAIN orders'
    /\ \A i \in DOMAIN orders :
          /\ stopPrice'[i] = stopPrice[i]
          /\ orders'[i].client = orders[i].client
          /\ orders'[i].side = orders[i].side
          /\ i # trade[t].order => orders'[i].status = orders[i].status
    /\ \A i \in DOMAIN orders' \ DOMAIN orders : orders'[i].client \in Own(t)
    /\ \A c \in ClientIds \ Own(t) : byClient'[c] = byClient[c]
    /\ \A u \in Trades \ {t} : trade'[u] = trade[u] /\ hits'[u] = hits[u]

LEMMA OwnFacts ==
    /\ \A t : \A k \in 0 .. MaxHits : StopId(t, k) \in Own(t)
    /\ \A t, u, k : t # u => /\ StopId(u, k) \notin Own(t)
                             /\ EntryId(u) \notin Own(t) /\ ExitId(u) \notin Own(t)
  BY ClientFacts DEF Own

(* The order a trade has recorded is a stop of its own.                    *)
LEMMA RecordedIsOwn ==
    ASSUME Records, NEW t \in Trades, Good(t), trade[t].order # 0
    PROVE  /\ trade[t].order \in DOMAIN orders
           /\ trade[t].done \in 0 .. MaxHits
           /\ orders[trade[t].order].client = StopId(t, trade[t].done)
           /\ \A u, k : u # t => orders[trade[t].order].client # StopId(u, k)
           /\ trade[t].stop \in Levels /\ trade[t].stop \in Int
           /\ trade[t].stop = stopPrice[trade[t].order]
           /\ orders[trade[t].order].side = ExitSide(t)
  <1>1. /\ trade[t].order \in DOMAIN orders
        /\ orders[trade[t].order].client = StopId(t, trade[t].done)
        /\ trade[t].done <= hits[t] /\ trade[t].stop = stopPrice[trade[t].order]
    BY DEF Good, RecordGood
  <1>2. trade[t].done \in 0 .. MaxHits
    <2>1. trade[t].done \in Nat /\ hits[t] \in Nat /\ hits[t] <= Len(plan[t].targets)
          /\ plan[t] \in Plans
      BY DEF Records, TradeRecord
    <2> QED
      BY <2>1, <1>1, PlanFacts
  <1>3. /\ stopPrice[trade[t].order] \in Levels
        /\ orders[trade[t].order].side = ExitSide(t)
    BY <1>1, <1>2 DEF Good, StopsGood
  <1>4. \A u, k : u # t => orders[trade[t].order].client # StopId(u, k)
    <2> SUFFICES ASSUME NEW u, NEW k, u # t
                 PROVE  StopId(t, trade[t].done) # StopId(u, k)
      BY <1>1
    <2> QED
      BY ClientFacts
  <1>5. trade[t].stop \in Levels /\ trade[t].stop \in Int
    BY <1>1, <1>3, PlanFacts
  <1> QED
    BY <1>1, <1>2, <1>3, <1>4, <1>5

LEMMA OtherGood ==
    ASSUME Book, Book', Records, \A v \in Trades : Good(v),
           NEW t \in Trades, Touches(t), NEW u \in Trades \ {t}
    PROVE  Good(u)'
  <1>1. /\ plan' = plan /\ trade'[u] = trade[u] /\ hits'[u] = hits[u]
        /\ DOMAIN orders \subseteq DOMAIN orders'
    BY DEF Touches
  <1>2. Entered(u)' <=> Entered(u)
    <2>1. byClient'[EntryId(u)] = byClient[EntryId(u)]
      BY OwnFacts, ClientFacts DEF Touches
    <2>2. byClient[EntryId(u)] # 0 <=> byClient[EntryId(u)] \in DOMAIN orders
      BY ClientFacts, KnownFacts DEF X!GetOrder, Entered
    <2>3. 0 \notin DOMAIN orders'
      BY DEF Book
    <2> QED
      BY <1>1, <2>1, <2>2, <2>3 DEF Entered, X!GetOrder
  <1>3. Exited(u)' <=> Exited(u)
    <2>1. byClient'[ExitId(u)] = byClient[ExitId(u)]
      BY OwnFacts, ClientFacts DEF Touches
    <2>2. byClient[ExitId(u)] # 0 <=> byClient[ExitId(u)] \in DOMAIN orders
      BY ClientFacts, KnownFacts DEF X!GetOrder, Exited
    <2>3. 0 \notin DOMAIN orders'
      BY DEF Book
    <2> QED
      BY <1>1, <2>1, <2>2, <2>3 DEF Exited, X!GetOrder
  <1>4. \A i \in DOMAIN orders', k \in Nat : orders'[i].client = StopId(u, k) =>
           /\ i \in DOMAIN orders /\ orders[i].client = StopId(u, k)
           /\ orders'[i].side = orders[i].side /\ orders'[i].status = orders[i].status
           /\ stopPrice'[i] = stopPrice[i]
    <2> SUFFICES ASSUME NEW i \in DOMAIN orders', NEW k \in Nat,
                        orders'[i].client = StopId(u, k)
                 PROVE  /\ i \in DOMAIN orders /\ orders[i].client = StopId(u, k)
                        /\ orders'[i].side = orders[i].side
                        /\ orders'[i].status = orders[i].status
                        /\ stopPrice'[i] = stopPrice[i]
      OBVIOUS
    <2>1. i \in DOMAIN orders
      BY OwnFacts DEF Touches
    <2>2. orders[i].client = StopId(u, k)
      BY <2>1 DEF Touches
    <2>3. i # trade[t].order
      <3>1. 0 \notin DOMAIN orders
        BY DEF Book
      <3> QED
        BY <3>1, <2>1, <2>2, RecordedIsOwn
    <2> QED
      BY <2>1, <2>2, <2>3 DEF Touches
  <1>5. NextStop(u)' = NextStop(u) /\ ExitSide(u)' = ExitSide(u)
    BY <1>1 DEF NextStop, ExitSide, EntrySide
  <1>6. StopsGood(u)'
    BY <1>1, <1>4, <1>5 DEF Good, StopsGood, Due, DuePrice
  <1>7. NextPlaced(u)' <=> NextPlaced(u)
    <2>1. trade[u].done + 1 \in Nat
      BY DEF Records, TradeRecord
    <2> QED
      BY <1>1, <1>4, <2>1 DEF NextPlaced, Touches
  <1>8. RecordGood(u)'
    <2>1. trade[u].order # 0 =>
             /\ trade[u].order \in DOMAIN orders
             /\ orders'[trade[u].order].client = orders[trade[u].order].client
             /\ orders'[trade[u].order].status = orders[trade[u].order].status
             /\ stopPrice'[trade[u].order] = stopPrice[trade[u].order]
      <3>1. trade[u].order # 0 =>
               /\ trade[u].order \in DOMAIN orders /\ trade[u].done \in Nat
               /\ orders[trade[u].order].client = StopId(u, trade[u].done)
        BY RecordedIsOwn
      <3> QED
        BY <3>1, <1>1, <1>4 DEF Touches
    <2> QED
      BY <1>1, <1>2, <1>3, <1>7, <2>1 DEF Good, RecordGood
  <1>9. LockedIn(u)'
    BY <1>1 DEF Good, LockedIn
  <1>10. StatusGood(u)'
    <2>1. trade[u].order # 0 => orders'[trade[u].order].status = orders[trade[u].order].status
      BY <1>1, <1>4, RecordedIsOwn DEF Touches
    <2> QED
      BY <1>1, <1>2, <1>3, <2>1 DEF Good, StatusGood, In
  <1> QED
    BY <1>6, <1>8, <1>9, <1>10 DEF Good

-----------------------------------------------------------------------------
(* What an action of a trade does to it and to the book.                   *)

(* No stop that was over comes back; a trade leaves no live stop behind    *)
(* when it records another; and one that it places without recording it    *)
(* costs a lost answer.                                                    *)
Accounted(t) ==
    /\ \A i \in DOMAIN orders : orders'[i].status \in {orders[i].status, "CANCELED"}
    /\ trade'[t].order # trade[t].order /\ trade[t].order \in DOMAIN orders
          => orders'[trade[t].order].status # "NEW"
    /\ \E n : /\ \A i \in DOMAIN orders' \ DOMAIN orders :
                    i = n \/ orders'[i].client \in {EntryId(t), ExitId(t)}
              /\ \/ faults' = faults /\ n = trade'[t].order
                 \/ faults > 0 /\ faults' = faults - 1

Stepped(t) == Book' /\ Records' /\ Touches(t) /\ Good(t)' /\ Accounted(t)

(* Entry, exit, a change of status, a hit: the stops stay as they are.     *)
LEMMA StopsKept ==
    ASSUME Book, Book', Records, NEW t \in Trades, Good(t), Touches(t),
           \A i \in DOMAIN orders : orders'[i].status = orders[i].status,
           \A i \in DOMAIN orders' \ DOMAIN orders :
              orders'[i].client \in {EntryId(t), ExitId(t)},
           trade'[t].stop = trade[t].stop, trade'[t].order = trade[t].order,
           trade'[t].done = trade[t].done,
           hits'[t] \in Nat, hits'[t] >= hits[t],
           Entered(t) => Entered(t)', Exited(t) => Exited(t)'
    PROVE  StopsGood(t)' /\ RecordGood(t)' /\ LockedIn(t)'
  <1>1. plan' = plan /\ DOMAIN orders \subseteq DOMAIN orders'
    BY DEF Touches
  <1>2. \A i \in DOMAIN orders', k \in Nat : orders'[i].client = StopId(t, k) =>
           /\ i \in DOMAIN orders /\ orders[i].client = StopId(t, k)
           /\ orders'[i].side = orders[i].side /\ orders'[i].status = orders[i].status
           /\ stopPrice'[i] = stopPrice[i]
    <2> SUFFICES ASSUME NEW i \in DOMAIN orders', NEW k \in Nat,
                        orders'[i].client = StopId(t, k)
                 PROVE  /\ i \in DOMAIN orders /\ orders[i].client = StopId(t, k)
                        /\ orders'[i].side = orders[i].side
                        /\ orders'[i].status = orders[i].status
                        /\ stopPrice'[i] = stopPrice[i]
      OBVIOUS
    <2>1. StopId(t, k) \notin {EntryId(t), ExitId(t)}
      BY ClientFacts
    <2>2. i \in DOMAIN orders
      BY <2>1
    <2> QED
      BY <2>2 DEF Touches
  <1>3. NextStop(t)' = NextStop(t) /\ ExitSide(t)' = ExitSide(t)
    BY <1>1 DEF NextStop, ExitSide, EntrySide
  <1>4. hits[t] \in Nat /\ trade[t].done \in Nat
    BY DEF Records, TradeRecord
  <1>5. StopsGood(t)'
    <2> SUFFICES ASSUME NEW i \in DOMAIN orders', NEW k \in 0 .. MaxHits,
                        orders'[i].client = StopId(t, k)
                 PROVE  /\ orders'[i].side = ExitSide(t)'
                        /\ stopPrice'[i] \in Levels
                        /\ k <= Due(t)' /\ k <= hits'[t]
                        /\ k = Due(t)' => /\ orders'[i].status = "NEW"
                                          /\ stopPrice'[i] = DuePrice(t)'
      BY DEF StopsGood
    <2>1. Due(t)' = Due(t) /\ DuePrice(t)' = DuePrice(t)
      BY <1>1, <1>3 DEF Due, DuePrice
    <2>2. k \in Nat /\ k <= hits[t] => k <= hits'[t]
      BY <1>4, PlanFacts
    <2> QED
      BY <1>2, <1>3, <2>1, <2>2 DEF Good, StopsGood
  <1>6. NextPlaced(t)' <=> NextPlaced(t)
    <2>1. trade[t].done + 1 \in Nat
      BY <1>4
    <2> QED
      BY <1>1, <1>2, <2>1 DEF NextPlaced, Touches
  <1>7. RecordGood(t)'
    <2>1. trade[t].order # 0 =>
             /\ trade[t].order \in DOMAIN orders
             /\ orders'[trade[t].order].client = orders[trade[t].order].client
             /\ orders'[trade[t].order].status = orders[trade[t].order].status
             /\ stopPrice'[trade[t].order] = stopPrice[trade[t].order]
      BY RecordedIsOwn DEF Touches
    <2>2. trade[t].done <= hits[t] => trade[t].done <= hits'[t]
      BY <1>4
    <2> QED
      BY <1>1, <1>6, <2>1, <2>2 DEF Good, RecordGood
  <1>8. LockedIn(t)'
    BY <1>1 DEF Good, LockedIn
  <1> QED
    BY <1>5, <1>7, <1>8

(* What is recorded of a trade is replaced, or the answer was lost.        *)
LEMMA AnsweredRecords ==
    ASSUME Records, NEW t \in Trades, NEW answer \in TradeRecord, Answered(t, answer)
    PROVE  /\ Records' /\ plan' = plan /\ hits' = hits
           /\ trade'[t] \in {trade[t], answer}
           /\ \A u \in Trades \ {t} : trade'[u] = trade[u]
           /\ \/ faults' = faults /\ trade'[t] = answer
              \/ faults > 0 /\ faults' = faults - 1
  BY DEF Answered, Records

LEMMA SameBook ==
    ASSUME Book, UNCHANGED <<exchangeVars, stopPrice>>
    PROVE  Book' /\ \A t \in Trades : Entered(t)' = Entered(t) /\ Exited(t)' = Exited(t)
  BY DEF Book, exchangeVars, Entered, Exited, X!GetOrder

LEMMA SideFacts ==
    \A t : /\ EntrySide(t) \in X!Sides /\ EntrySide(t) \in {1, -1}
           /\ ExitSide(t) \in X!Sides /\ ExitSide(t) = -EntrySide(t)
  <1> SUFFICES ASSUME NEW t
               PROVE  /\ EntrySide(t) \in X!Sides /\ EntrySide(t) \in {1, -1}
                      /\ ExitSide(t) \in X!Sides /\ ExitSide(t) = -EntrySide(t)
    OBVIOUS
  <1>1. EntrySide(t) = 1 \/ EntrySide(t) = -1
    BY DEF EntrySide, X!BUY, X!SELL
  <1> QED
    BY <1>1 DEF ExitSide, X!Sides, X!BUY, X!SELL

(* An entry or exit order is executed under a client id that is new.       *)
LEMMA PlacedBook ==
    ASSUME Book, Records, mark[Symbol] = EntryPrice,
           NEW c \in ClientIds, NEW side \in X!Sides, NEW r \in BOOLEAN,
           Place(c, side, r)
    PROVE  /\ Book' /\ DOMAIN orders \subseteq DOMAIN orders'
           /\ \A i \in DOMAIN orders : orders'[i] = orders[i] /\ stopPrice'[i] = stopPrice[i]
           /\ \A i \in DOMAIN orders' \ DOMAIN orders : orders'[i].client = c
           /\ \A d \in ClientIds \ {c} : byClient'[d] = byClient[d]
           /\ byClient'[c] # 0
  <1>1. CASE X!KnownClient(c)
    <2>1. UNCHANGED <<orders, byClient, stopPrice>>
      BY <1>1 DEF Place, exchangeVars
    <2> QED
      BY <1>1, <2>1 DEF Book, X!KnownClient
  <1>2. CASE ~X!KnownClient(c)
    <2> DEFINE new == X!NewOrder(c, Symbol, side, "MARKET", Quantity, r)
    <2>1. /\ orders' = Append(orders, new) /\ stopPrice' = Append(stopPrice, None)
          /\ byClient' = [byClient EXCEPT ![c] = X!NextId]
      BY <1>2 DEF Place, X!PlaceOrder
    <2>2. new \in OrderRecord /\ new.client = c
      BY DEF X!NewOrder, X!InitialStatus, X!FillsAtOnce, OrderRecord
    <2> HIDE DEF new
    <2>3. /\ orders \in Seq(OrderRecord) /\ None \in Int \cup {None}
          /\ byClient' = [byClient EXCEPT ![new.client] = X!NextId]
      BY <2>1, <2>2 DEF Book
    <2>4. Book' /\ Accepted(orders, new, None)
      BY <2>1, <2>2, <2>3, AcceptedBook
    <2> QED
      BY <2>2, <2>4 DEF Accepted
  <1> QED
    BY <1>1, <1>2

LEMMA EnterStep ==
    ASSUME IInv, NEW t \in Trades, Enter(t)
    PROVE  Stepped(t)
  <1> DEFINE answer == [trade[t] EXCEPT !.status = "OPEN"]
  <1>1. /\ Book /\ Records /\ Good(t) /\ mark[Symbol] = EntryPrice
        /\ EntryId(t) \in ClientIds /\ ExitId(t) \in ClientIds
        /\ EntrySide(t) \in X!Sides
    BY ClientFacts, SideFacts DEF IInv, Holding
  <1>2. trade[t] \in TradeRecord /\ trade[t].status = "PENDING_ENTRY"
    BY <1>1 DEF Records, Enter, In
  <1>3. /\ answer \in TradeRecord /\ answer.status = "OPEN"
        /\ answer.stop = trade[t].stop /\ answer.order = trade[t].order
        /\ answer.done = trade[t].done
    BY <1>2 DEF TradeRecord, Statuses
  <1> HIDE DEF answer
  <1>4. Answered(t, answer) /\ Place(EntryId(t), EntrySide(t), FALSE)
    BY DEF Enter, answer
  <1>5. /\ Records' /\ plan' = plan /\ hits' = hits
        /\ trade'[t] \in {trade[t], answer}
        /\ \A u \in Trades \ {t} : trade'[u] = trade[u]
        /\ \/ faults' = faults /\ trade'[t] = answer
           \/ faults > 0 /\ faults' = faults - 1
    BY <1>1, <1>3, <1>4, AnsweredRecords
  <1>6. /\ Book' /\ DOMAIN orders \subseteq DOMAIN orders'
        /\ \A i \in DOMAIN orders : orders'[i] = orders[i] /\ stopPrice'[i] = stopPrice[i]
        /\ \A i \in DOMAIN orders' \ DOMAIN orders : orders'[i].client = EntryId(t)
        /\ \A d \in ClientIds \ {EntryId(t)} : byClient'[d] = byClient[d]
        /\ byClient'[EntryId(t)] # 0
    BY <1>1, <1>4, PlacedBook
  <1>7. Touches(t)
    BY <1>5, <1>6 DEF Touches, Own
  <1>8. Entered(t)' /\ (Exited(t)' <=> Exited(t))
    <2>1. ExitId(t) \in ClientIds \ {EntryId(t)}
      BY <1>1, ClientFacts
    <2>2. byClient'[ExitId(t)] = byClient[ExitId(t)]
      BY <2>1, <1>6
    <2>3. Entered(t)' /\ (Exited(t)' <=> byClient'[ExitId(t)] # 0)
      BY <1>1, <1>6 DEF Entered, Exited, X!GetOrder, Book
    <2> QED
      BY <1>1, <2>2, <2>3, KnownFacts
  <1>9. StopsGood(t)' /\ RecordGood(t)' /\ LockedIn(t)'
    <2>1. hits'[t] \in Nat /\ hits'[t] >= hits[t]
      BY <1>1, <1>5 DEF Records
    <2> QED
      BY <1>1, <1>3, <1>5, <1>6, <1>7, <1>8, <2>1, StopsKept
  <1>10. StatusGood(t)'
    BY <1>1, <1>2, <1>3, <1>5, <1>8 DEF Good, StatusGood, In
  <1>11. Accounted(t)
    BY <1>3, <1>5, <1>6 DEF Accounted
  <1> QED
    BY <1>5, <1>6, <1>7, <1>9, <1>10, <1>11 DEF Stepped, Good

LEMMA ExitStep ==
    ASSUME IInv, NEW t \in Trades, Exit(t)
    PROVE  Stepped(t)
  <1> DEFINE answer == [trade[t] EXCEPT !.status = "CLOSED"]
  <1>1. /\ Book /\ Records /\ Good(t) /\ mark[Symbol] = EntryPrice
        /\ EntryId(t) \in ClientIds /\ ExitId(t) \in ClientIds
        /\ ExitSide(t) \in X!Sides
    BY ClientFacts, SideFacts DEF IInv, Holding
  <1>2. trade[t] \in TradeRecord /\ trade[t].status = "CLOSING"
    BY <1>1 DEF Records, Exit, In
  <1>3. /\ answer \in TradeRecord /\ answer.status = "CLOSED"
        /\ answer.stop = trade[t].stop /\ answer.order = trade[t].order
        /\ answer.done = trade[t].done
    BY <1>2 DEF TradeRecord, Statuses
  <1> HIDE DEF answer
  <1>4. Answered(t, answer) /\ Place(ExitId(t), ExitSide(t), TRUE)
    BY DEF Exit, answer
  <1>5. /\ Records' /\ plan' = plan /\ hits' = hits
        /\ trade'[t] \in {trade[t], answer}
        /\ \A u \in Trades \ {t} : trade'[u] = trade[u]
        /\ \/ faults' = faults /\ trade'[t] = answer
           \/ faults > 0 /\ faults' = faults - 1
    BY <1>1, <1>3, <1>4, AnsweredRecords
  <1>6. /\ Book' /\ DOMAIN orders \subseteq DOMAIN orders'
        /\ \A i \in DOMAIN orders : orders'[i] = orders[i] /\ stopPrice'[i] = stopPrice[i]
        /\ \A i \in DOMAIN orders' \ DOMAIN orders : orders'[i].client = ExitId(t)
        /\ \A d \in ClientIds \ {ExitId(t)} : byClient'[d] = byClient[d]
        /\ byClient'[ExitId(t)] # 0
    BY <1>1, <1>4, PlacedBook
  <1>7. Touches(t)
    BY <1>5, <1>6 DEF Touches, Own
  <1>8. Exited(t)' /\ (Entered(t)' <=> Entered(t)) /\ Entered(t)
    <2>1. EntryId(t) \in ClientIds \ {ExitId(t)}
      BY <1>1, ClientFacts
    <2>2. byClient'[EntryId(t)] = byClient[EntryId(t)]
      BY <2>1, <1>6
    <2>3. Exited(t)' /\ (Entered(t)' <=> byClient'[EntryId(t)] # 0)
      BY <1>1, <1>6 DEF Entered, Exited, X!GetOrder, Book
    <2>4. Entered(t)
      BY <1>1, <1>2 DEF Good, StatusGood, In
    <2> QED
      BY <1>1, <2>2, <2>3, <2>4, KnownFacts
  <1>9. StopsGood(t)' /\ RecordGood(t)' /\ LockedIn(t)'
    <2>1. hits'[t] \in Nat /\ hits'[t] >= hits[t]
      BY <1>1, <1>5 DEF Records
    <2> QED
      BY <1>1, <1>3, <1>5, <1>6, <1>7, <1>8, <2>1, StopsKept
  <1>10. StatusGood(t)'
    BY <1>1, <1>2, <1>3, <1>5, <1>8 DEF Good, StatusGood, In
  <1>11. Accounted(t)
    BY <1>3, <1>5, <1>6 DEF Accounted
  <1> QED
    BY <1>5, <1>6, <1>7, <1>9, <1>10, <1>11 DEF Stepped, Good

LEMMA SameTouches ==
    ASSUME Records, NEW t \in Trades, UNCHANGED <<exchangeVars, stopPrice, plan>>,
           \A u \in Trades \ {t} : trade'[u] = trade[u] /\ hits'[u] = hits[u]
    PROVE  Touches(t)
  BY DEF Touches, exchangeVars

LEMMA MoveStep ==
    ASSUME IInv, NEW t \in Trades,
           NEW status \in {"OPEN", "CLOSING", "CLOSED", "MANUAL_REVIEW"}, Move(t, status)
    PROVE  Stepped(t)
  <1> DEFINE r == [trade[t] EXCEPT !.status = status]
  <1>1. Book /\ Records /\ Good(t)
    BY DEF IInv
  <1>2. /\ UNCHANGED <<exchangeVars, stopPrice, plan>> /\ hits' = hits
        /\ trade' = [trade EXCEPT ![t] = r]
    BY DEF Move
  <1>3. trade[t] \in TradeRecord
    BY <1>1 DEF Records
  <1>4. /\ r \in TradeRecord /\ r.status = status /\ r.stop = trade[t].stop
        /\ r.order = trade[t].order /\ r.done = trade[t].done
    BY <1>3 DEF TradeRecord, Statuses
  <1> HIDE DEF r
  <1>5. Records' /\ trade'[t] = r /\ \A u \in Trades \ {t} : trade'[u] = trade[u]
    BY <1>1, <1>2, <1>4 DEF Records
  <1>6. Book' /\ Entered(t)' = Entered(t) /\ Exited(t)' = Exited(t)
    BY <1>1, <1>2, SameBook
  <1>7. Touches(t)
    BY <1>1, <1>2, <1>5, SameTouches
  <1>8. StopsGood(t)' /\ RecordGood(t)' /\ LockedIn(t)'
    <2>1. hits'[t] \in Nat /\ hits'[t] >= hits[t] /\ orders' = orders
      BY <1>1, <1>2 DEF Records, exchangeVars
    <2> QED
      BY <1>1, <1>4, <1>5, <1>6, <1>7, <2>1, StopsKept
  <1>9. StatusGood(t)'
    BY <1>1, <1>4, <1>5, <1>6 DEF Good, StatusGood, In, Move, Fits, InPosition
  <1>10. Accounted(t)
    BY <1>2, <1>4, <1>5 DEF Accounted, exchangeVars, Move
  <1> QED
    BY <1>5, <1>6, <1>7, <1>8, <1>9, <1>10 DEF Stepped, Good

LEMMA HitStep ==
    ASSUME IInv, NEW t \in Trades, Hit(t)
    PROVE  Stepped(t)
  <1>1. Book /\ Records /\ Good(t)
    BY DEF IInv
  <1>2. /\ UNCHANGED <<exchangeVars, stopPrice, plan>> /\ trade' = trade
        /\ hits' = [hits EXCEPT ![t] = @ + 1] /\ hits[t] < Len(plan[t].targets)
    BY DEF Hit
  <1>3. hits[t] \in Nat /\ Len(plan[t].targets) \in Nat
    BY <1>1, PlanFacts DEF Records
  <1>4. Records' /\ hits'[t] \in Nat /\ hits'[t] >= hits[t]
        /\ \A u \in Trades \ {t} : hits'[u] = hits[u]
    <2>1. /\ hits' \in [Trades -> Nat] /\ hits'[t] = hits[t] + 1
          /\ \A u \in Trades \ {t} : hits'[u] = hits[u]
      BY <1>1, <1>2, <1>3 DEF Records
    <2>2. \A u \in Trades : hits'[u] <= Len(plan[u].targets)
      BY <2>1, <1>1, <1>2, <1>3 DEF Records
    <2> QED
      BY <2>1, <2>2, <1>1, <1>2, <1>3 DEF Records
  <1>5. Book' /\ Entered(t)' = Entered(t) /\ Exited(t)' = Exited(t)
    BY <1>1, <1>2, SameBook
  <1>6. Touches(t)
    BY <1>1, <1>2, <1>4, SameTouches
  <1>7. StopsGood(t)' /\ RecordGood(t)' /\ LockedIn(t)'
    <2>1. orders' = orders
      BY <1>2 DEF exchangeVars
    <2> QED
      BY <1>1, <1>2, <1>4, <1>5, <1>6, <2>1, StopsKept
  <1>8. StatusGood(t)'
    BY <1>1, <1>2, <1>5 DEF Good, StatusGood, In, exchangeVars
  <1>9. Accounted(t)
    BY <1>2 DEF Accounted, exchangeVars, Hit
  <1> QED
    BY <1>4, <1>5, <1>6, <1>7, <1>8, <1>9 DEF Stepped, Good

-----------------------------------------------------------------------------
(* The stop after a take profit.                                           *)

LEMMA ProtectsOrder ==
    ASSUME NEW side \in Sides, NEW a \in Int, NEW b \in Int, NEW c \in Int
    PROVE  /\ Protects(side, a, a)
           /\ Protects(side, a, b) /\ Protects(side, b, c) => Protects(side, a, c)
           /\ Protects(side, a, b) \/ Protects(side, b, a)
  BY DEF Protects, Sides

(* It is as good as the one before and as the level it is meant for, so    *)
(* what was locked in stays so and the next level joins it.                *)
LEMMA NextStopFacts ==
    ASSUME Records, NEW t \in Trades, Good(t), trade[t].order # 0
    PROVE  /\ NextStop(t) \in Levels
           /\ Protects(plan[t].side, trade[t].stop, NextStop(t))
           /\ plan[t].sl_mode \in {"BREAK_EVEN", "LOCK_PROFIT_USDT"}
                 => Protects(plan[t].side, EntryPrice, NextStop(t))
           /\ plan[t].sl_mode = "MOVE_TO_PREVIOUS_TP"
                 => \A k \in 1 .. trade[t].done :
                       Protects(plan[t].side, plan[t].targets[k], NextStop(t))
  <1> DEFINE p == plan[t]
             stop == trade[t].stop
             done == trade[t].done
             previous == IF done = 0 THEN None ELSE p.targets[done]
             level == Candidate(p.sl_mode, stop, EntryPrice, previous)
             next == NextStop(t)
  <1>1. /\ p \in Plans /\ p.side \in Sides /\ done \in Nat /\ hits[t] \in Nat
        /\ hits[t] <= Len(p.targets) /\ p.sl_mode \in SlModes
    BY PlansAssumption DEF Records, TradeRecord
  <1>2. stop \in Levels /\ stop \in Int /\ done <= hits[t]
    BY RecordedIsOwn DEF Good, RecordGood
  <1>3. \A k \in 1 .. done : p.targets[k] \in Levels /\ p.targets[k] \in Int
    <2> SUFFICES ASSUME NEW k \in 1 .. done
                 PROVE  p.targets[k] \in Levels /\ p.targets[k] \in Int
      OBVIOUS
    <2>1. k \in 1 .. Len(p.targets)
      BY <1>1, <1>2, PlanFacts
    <2> QED
      BY <2>1, <1>1, PlanFacts
  <1>4. EntryPrice \in Levels /\ EntryPrice \in Int
    BY <1>1, PlanFacts
  <1>5. previous # None <=> done # 0
    BY NoneAssumption, <1>1, <1>3
  <1>6. /\ level \in Levels /\ level \in Int
        /\ p.sl_mode \in {"BREAK_EVEN", "LOCK_PROFIT_USDT"} => level = EntryPrice
        /\ p.sl_mode = "MOVE_TO_PREVIOUS_TP" /\ done # 0 => level = p.targets[done]
    <2>1. CASE p.sl_mode \in {"BREAK_EVEN", "LOCK_PROFIT_USDT"}
      BY <2>1, <1>4 DEF Candidate
    <2>2. CASE p.sl_mode = "MOVE_TO_PREVIOUS_TP" /\ done # 0
      <3>1. level = p.targets[done] /\ done \in 1 .. done
        BY <2>2, <1>1, <1>5 DEF Candidate
      <3> QED
        BY <3>1, <2>2, <1>3
    <2>3. CASE /\ p.sl_mode \notin {"BREAK_EVEN", "LOCK_PROFIT_USDT"}
               /\ ~(p.sl_mode = "MOVE_TO_PREVIOUS_TP" /\ done # 0)
      <3>1. level = stop
        BY <2>3, <1>5 DEF Candidate
      <3> QED
        BY <3>1, <2>3, <1>2
    <2> QED
      BY <2>1, <2>2, <2>3
  <1>7. next = IF _is_safer(p.side, stop, level) THEN level ELSE stop
    BY DEF NextStop, after_tp, never_worsen
  <1> HIDE DEF level, previous, next
  <1>8. /\ next \in Levels /\ next \in Int
        /\ Protects(p.side, stop, next) /\ Protects(p.side, level, next)
    BY <1>1, <1>2, <1>6, <1>7 DEF _is_safer, Protects, Sides
  <1>9. ASSUME p.sl_mode = "MOVE_TO_PREVIOUS_TP", NEW k \in 1 .. done
        PROVE  Protects(p.side, p.targets[k], next)
    <2>1. CASE k = done
      BY <2>1, <1>1, <1>6, <1>8, <1>9
    <2>2. CASE k # done
      <3>1. k \in 1 .. done - 1
        BY <2>2, <1>1
      <3>2. Protects(p.side, p.targets[k], stop)
        BY <3>1, <1>9 DEF Good, LockedIn
      <3> QED
        BY <3>2, <1>1, <1>2, <1>3, <1>8, ProtectsOrder
    <2> QED
      BY <2>1, <2>2
  <1> QED
    BY <1>6, <1>8, <1>9 DEF next

(* A stop is placed, the one with order id id being cancelled before.      *)
LEMMA StopBook ==
    ASSUME Book, NEW c \in ClientIds, NEW side \in X!Sides, NEW price \in Int, NEW id,
           X!AddStop(X!WithStatus(orders, id, "CANCELED"), c, Symbol, side, Quantity),
           stopPrice' = Append(stopPrice, price)
    PROVE  /\ Book'
           /\ X!NextId \in Nat \ {0} /\ X!NextId \notin DOMAIN orders
           /\ DOMAIN orders' = DOMAIN orders \cup {X!NextId}
           /\ orders'[X!NextId].client = c /\ orders'[X!NextId].side = side
           /\ orders'[X!NextId].status = "NEW" /\ stopPrice'[X!NextId] = price
           /\ \A i \in DOMAIN orders :
                 /\ stopPrice'[i] = stopPrice[i]
                 /\ orders'[i].client = orders[i].client
                 /\ orders'[i].side = orders[i].side
                 /\ orders'[i].status = IF i = id THEN "CANCELED" ELSE orders[i].status
           /\ \A d \in ClientIds \ {c} : byClient'[d] = byClient[d]
  <1> DEFINE os == X!WithStatus(orders, id, "CANCELED")
             new == X!NewOrder(c, Symbol, side, "STOP_MARKET", Quantity, TRUE)
  <1>1. /\ orders' = Append(os, new) /\ byClient' = [byClient EXCEPT ![c] = X!NextId]
    BY DEF X!AddStop, X!StopIndexed
  <1>2. /\ new \in OrderRecord /\ new.client = c /\ new.side = side /\ new.status = "NEW"
    BY DEF X!NewOrder, X!InitialStatus, X!FillsAtOnce, OrderRecord
  <1>3. /\ os \in Seq(OrderRecord) /\ Len(os) = Len(orders)
        /\ \A i \in DOMAIN orders :
              /\ os[i].client = orders[i].client
              /\ os[i].side = orders[i].side
              /\ os[i].status = IF i = id THEN "CANCELED" ELSE orders[i].status
    BY CanceledBook
  <1> HIDE DEF os, new
  <1>4. byClient' = [byClient EXCEPT ![new.client] = X!NextId] /\ price \in Int \cup {None}
    BY <1>1, <1>2
  <1>5. Book' /\ Accepted(os, new, price)
    BY <1>1, <1>2, <1>3, <1>4, AcceptedBook
  <1>6. /\ X!NextId \in Nat \ {0} /\ X!NextId \notin DOMAIN orders
        /\ DOMAIN orders' = DOMAIN orders \cup {X!NextId}
        /\ orders'[X!NextId].client = c /\ orders'[X!NextId].side = side
        /\ orders'[X!NextId].status = "NEW" /\ stopPrice'[X!NextId] = price
    BY <1>2, <1>5 DEF Accepted
  <1>7. \A i \in DOMAIN orders :
           /\ stopPrice'[i] = stopPrice[i]
           /\ orders'[i].client = orders[i].client
           /\ orders'[i].side = orders[i].side
           /\ orders'[i].status = IF i = id THEN "CANCELED" ELSE orders[i].status
    BY <1>3, <1>5 DEF Accepted
  <1>8. \A d \in ClientIds \ {c} : byClient'[d] = byClient[d]
    BY <1>2, <1>5 DEF Accepted
  <1> QED
    BY <1>5, <1>6, <1>7, <1>8

LEMMA OrderClients ==
    ASSUME Book
    PROVE  \A i \in DOMAIN orders : orders[i].client \in ClientIds
  <1>1. \A i \in DOMAIN orders : orders[i] \in OrderRecord
    BY DEF Book
  <1> QED
    BY <1>1 DEF OrderRecord

LEMMA AdoptStep ==
    ASSUME IInv, NEW t \in Trades, Adopt(t)
    PROVE  Stepped(t)
  <1> DEFINE k == Due(t)
             found == byClient[StopId(t, k)]
             r == [trade[t] EXCEPT !.stop = stopPrice[found], !.order = found, !.done = k]
  <1>1. Book /\ Records /\ Good(t) /\ trade[t] \in TradeRecord
    BY DEF IInv, Records
  <1>2. /\ In(t, {"OPEN"}) /\ k <= MaxHits /\ X!GetOrder(StopId(t, k))
        /\ UNCHANGED <<exchangeVars, stopPrice, plan>> /\ hits' = hits
        /\ trade' = [trade EXCEPT ![t].stop = stopPrice[found],
                                  ![t].order = found, ![t].done = k]
    BY DEF Adopt, Due
  <1>3. k \in 0 .. MaxHits /\ StopId(t, k) \in ClientIds
    BY <1>1, <1>2, PlanFacts, ClientFacts DEF Due, TradeRecord
  <1>4. /\ found \in DOMAIN orders /\ found # 0 /\ found \in Nat
        /\ orders[found].client = StopId(t, k)
    BY <1>1, <1>2, <1>3 DEF X!GetOrder, Book
  <1>5. /\ stopPrice[found] = DuePrice(t) /\ stopPrice[found] \in Levels
        /\ orders[found].status = "NEW" /\ k <= hits[t]
    BY <1>1, <1>3, <1>4 DEF Good, StopsGood
  <1>6. /\ r \in TradeRecord /\ r.status = "OPEN" /\ r.stop = stopPrice[found]
        /\ r.order = found /\ r.done = k
    <2>1. stopPrice[found] \in Int
      BY <1>5, PlanFacts
    <2>2. k \in Nat /\ found \in Nat
      BY <1>1, <1>4 DEF Due, TradeRecord
    <2>3. trade[t].status = "OPEN"
      BY <1>2 DEF In
    <2> DEFINE stop == stopPrice[found]
    <2>4. stop \in Int /\ r = [trade[t] EXCEPT !.stop = stop, !.order = found, !.done = k]
      BY <2>1
    <2> HIDE DEF r, stop, found, k
    <2>5. /\ r.status = trade[t].status /\ r.stop = stop /\ r.order = found /\ r.done = k
          /\ r \in TradeRecord
      BY <2>2, <2>4, <1>1 DEF TradeRecord
    <2> QED
      BY <2>3, <2>5 DEF stop
  <1>7. trade'[t] = r /\ Records' /\ \A u \in Trades \ {t} : trade'[u] = trade[u]
    <2>1. trade' = [trade EXCEPT ![t] = r]
      BY <1>2
    <2> HIDE DEF r
    <2> QED
      BY <2>1, <1>1, <1>2, <1>6 DEF Records
  <1> HIDE DEF r, found, k
  <1>8. Book' /\ Entered(t)' = Entered(t) /\ Exited(t)' = Exited(t)
    BY <1>1, <1>2, SameBook
  <1>9. Touches(t)
    BY <1>1, <1>2, <1>7, SameTouches
  <1>10. orders' = orders /\ stopPrice' = stopPrice /\ plan' = plan
         /\ ExitSide(t)' = ExitSide(t)
    BY <1>2 DEF exchangeVars, ExitSide, EntrySide
  <1>11. \A i \in DOMAIN orders, l \in 0 .. MaxHits :
            orders[i].client = StopId(t, l) => l <= k /\ l # k + 1
    BY <1>1, <1>3 DEF Good, StopsGood, k
  <1>12. StopsGood(t)'
    <2>1. Due(t)' = k + 1
      BY <1>4, <1>6, <1>7 DEF Due
    <2>2. \A l \in 0 .. MaxHits : l <= k => l <= k + 1 /\ l # k + 1
      BY <1>3, PlanFacts
    <2> QED
      BY <2>1, <2>2, <1>1, <1>2, <1>10, <1>11 DEF Good, StopsGood
  <1>13. ~NextPlaced(t)'
    <2>1. \A i \in DOMAIN orders : orders[i].client \in ClientIds
      BY <1>1, OrderClients
    <2>2. trade'[t].done = k
      BY <1>6, <1>7
    <2>3. SUFFICES ASSUME NEW i \in DOMAIN orders, orders[i].client = StopId(t, k + 1)
                   PROVE  FALSE
      BY <2>2, <1>10 DEF NextPlaced
    <2>4. k + 1 \in 0 .. MaxHits
      BY <2>1, <2>3, ClientFacts
    <2> QED
      BY <2>3, <2>4, <1>11
  <1>14. Entered(t)
    BY <1>1, <1>2 DEF Good, StatusGood, In
  <1>15. RecordGood(t)'
    BY <1>2, <1>4, <1>5, <1>6, <1>7, <1>8, <1>10, <1>13, <1>14 DEF RecordGood
  <1>16. LockedIn(t)'
    <2>1. CASE trade[t].order = 0
      BY <2>1, <1>6, <1>7 DEF LockedIn, Due, k
    <2>2. CASE trade[t].order # 0
      <3>1. k = trade[t].done + 1 /\ stopPrice[found] = NextStop(t) /\ k - 1 = trade[t].done
        BY <2>2, <1>1, <1>5 DEF k, Due, DuePrice, TradeRecord
      <3> QED
        BY <3>1, <2>2, <1>1, <1>6, <1>7, <1>10, NextStopFacts DEF LockedIn
    <2> QED
      BY <2>1, <2>2
  <1>17. StatusGood(t)'
    BY <1>1, <1>2, <1>6, <1>7, <1>8 DEF Good, StatusGood, In
  <1>18. Accounted(t)
    <2>1. trade[t].order \in DOMAIN orders => orders[trade[t].order].status = "CANCELED"
      <3> SUFFICES ASSUME trade[t].order \in DOMAIN orders
                   PROVE  orders[trade[t].order].status = "CANCELED"
        OBVIOUS
      <3>1. trade[t].order # 0
        BY <1>1 DEF Book
      <3>2. NextPlaced(t)
        BY <3>1, <1>4 DEF NextPlaced, k, Due
      <3> QED
        BY <3>1, <3>2, <1>1 DEF Good, RecordGood
    <2> QED
      BY <2>1, <1>2, <1>10 DEF Accounted, exchangeVars, Adopt
  <1> QED
    BY <1>7, <1>8, <1>9, <1>12, <1>15, <1>16, <1>17, <1>18 DEF Stepped, Good

-----------------------------------------------------------------------------
(* A stop is placed: the first one, or the next one in place of the one    *)
(* that is recorded.                                                       *)

NewStop(t, k, n) ==
    /\ n \in Nat \ {0} /\ n \notin DOMAIN orders
    /\ DOMAIN orders' = DOMAIN orders \cup {n}
    /\ orders'[n].client = StopId(t, k) /\ orders'[n].side = ExitSide(t)
    /\ orders'[n].status = "NEW" /\ stopPrice'[n] = DuePrice(t)
    /\ \A i \in DOMAIN orders :
          /\ stopPrice'[i] = stopPrice[i]
          /\ orders'[i].client = orders[i].client
          /\ orders'[i].side = orders[i].side
          /\ orders'[i].status = IF i = trade[t].order THEN "CANCELED" ELSE orders[i].status
    /\ \A d \in ClientIds \ {StopId(t, k)} : byClient'[d] = byClient[d]

LEMMA NewStopPlaced ==
    ASSUME Book, NEW t \in Trades, NEW k \in 0 .. MaxHits, DuePrice(t) \in Levels,
           X!AddStop(X!WithStatus(orders, trade[t].order, "CANCELED"),
                     StopId(t, k), Symbol, ExitSide(t), Quantity),
           stopPrice' = Append(stopPrice, DuePrice(t))
    PROVE  Book' /\ NewStop(t, k, X!NextId)
  <1>1. /\ StopId(t, k) \in ClientIds /\ ExitSide(t) \in X!Sides /\ DuePrice(t) \in Int
    BY ClientFacts, SideFacts, PlanFacts
  <1> DEFINE n == X!NextId
             price == DuePrice(t)
  <1>2. /\ Book'
        /\ n \in Nat \ {0} /\ n \notin DOMAIN orders
        /\ DOMAIN orders' = DOMAIN orders \cup {n}
        /\ orders'[n].client = StopId(t, k) /\ orders'[n].side = ExitSide(t)
        /\ orders'[n].status = "NEW" /\ stopPrice'[n] = price
        /\ \A i \in DOMAIN orders :
              /\ stopPrice'[i] = stopPrice[i]
              /\ orders'[i].client = orders[i].client
              /\ orders'[i].side = orders[i].side
              /\ orders'[i].status = IF i = trade[t].order THEN "CANCELED"
                                                           ELSE orders[i].status
        /\ \A d \in ClientIds \ {StopId(t, k)} : byClient'[d] = byClient[d]
    BY <1>1, StopBook
  <1> HIDE DEF n
  <1>3. NewStop(t, k, n)
    BY <1>2 DEF NewStop
  <1> QED
    BY <1>2, <1>3 DEF n

LEMMA StopPlaced ==
    ASSUME IInv, NEW t \in Trades, In(t, {"OPEN"}),
           NEW k \in 0 .. MaxHits, k = Due(t), k <= hits[t], DuePrice(t) \in Levels,
           NEW n, Book', NewStop(t, k, n),
           Answered(t, [trade[t] EXCEPT !.stop = DuePrice(t), !.order = n, !.done = k])
    PROVE  Stepped(t)
  <1> DEFINE price == DuePrice(t)
             answer == [trade[t] EXCEPT !.stop = price, !.order = n, !.done = k]
  <1>1. /\ Book /\ Records /\ Good(t) /\ trade[t] \in TradeRecord
        /\ trade[t].status = "OPEN" /\ Entered(t) /\ ~Exited(t)
    BY DEF IInv, Records, In, Good, StatusGood
  <1>2. /\ StopId(t, k) \in ClientIds /\ ExitSide(t) \in X!Sides
        /\ price \in Levels /\ price \in Int /\ k \in Nat
    BY ClientFacts, SideFacts, PlanFacts
  <1>3. /\ n \in Nat \ {0} /\ n \notin DOMAIN orders
        /\ DOMAIN orders' = DOMAIN orders \cup {n}
        /\ orders'[n].client = StopId(t, k) /\ orders'[n].side = ExitSide(t)
        /\ orders'[n].status = "NEW" /\ stopPrice'[n] = price
        /\ \A i \in DOMAIN orders :
              /\ stopPrice'[i] = stopPrice[i]
              /\ orders'[i].client = orders[i].client
              /\ orders'[i].side = orders[i].side
              /\ orders'[i].status = IF i = trade[t].order THEN "CANCELED"
                                                           ELSE orders[i].status
        /\ \A d \in ClientIds \ {StopId(t, k)} : byClient'[d] = byClient[d]
    BY DEF NewStop
  <1>4. /\ answer \in TradeRecord /\ answer.status = "OPEN" /\ answer.stop = price
        /\ answer.order = n /\ answer.done = k
    BY <1>1, <1>2, <1>3 DEF TradeRecord
  <1>5. Answered(t, answer)
    OBVIOUS
  <1> HIDE DEF price
  <1> HIDE DEF answer
  <1>6. /\ Records' /\ plan' = plan /\ hits' = hits
        /\ trade'[t] \in {trade[t], answer}
        /\ \A u \in Trades \ {t} : trade'[u] = trade[u]
        /\ \/ faults' = faults /\ trade'[t] = answer
           \/ faults > 0 /\ faults' = faults - 1
    BY <1>1, <1>4, <1>5, AnsweredRecords
  <1>7. Touches(t)
    <2>1. StopId(t, k) \in Own(t)
      BY OwnFacts
    <2> QED
      BY <2>1, <1>3, <1>6 DEF Touches
  <1>8. Entered(t)' /\ ~Exited(t)'
    <2>1. /\ EntryId(t) \in ClientIds \ {StopId(t, k)}
          /\ ExitId(t) \in ClientIds \ {StopId(t, k)}
      BY ClientFacts
    <2>2. byClient'[EntryId(t)] = byClient[EntryId(t)] /\ byClient'[ExitId(t)] = byClient[ExitId(t)]
      BY <2>1, <1>3
    <2>3. byClient[EntryId(t)] # 0 /\ byClient[ExitId(t)] = 0
      BY <1>1, KnownFacts
    <2> QED
      BY <1>3, <2>1, <2>2, <2>3 DEF Entered, Exited, X!GetOrder, Book
  <1>9. ExitSide(t)' = ExitSide(t)
    BY <1>6 DEF ExitSide, EntrySide
  <1>10. \A i \in DOMAIN orders', l \in 0 .. MaxHits : orders'[i].client = StopId(t, l) =>
            \/ i = n /\ l = k
            \/ i \in DOMAIN orders /\ orders[i].client = StopId(t, l)
    BY <1>3, ClientFacts
  <1>11. \A i \in DOMAIN orders, l \in 0 .. MaxHits : orders[i].client = StopId(t, l) =>
            /\ orders'[i].side = ExitSide(t) /\ stopPrice'[i] \in Levels
            /\ l <= k /\ l <= hits[t]
            /\ l = k => orders'[i].status = "NEW" /\ stopPrice'[i] = price
    <2> SUFFICES ASSUME NEW i \in DOMAIN orders, NEW l \in 0 .. MaxHits,
                        orders[i].client = StopId(t, l)
                 PROVE  /\ orders'[i].side = ExitSide(t) /\ stopPrice'[i] \in Levels
                        /\ l <= k /\ l <= hits[t]
                        /\ l = k => orders'[i].status = "NEW" /\ stopPrice'[i] = price
      OBVIOUS
    <2>1. /\ orders[i].side = ExitSide(t) /\ stopPrice[i] \in Levels
          /\ l <= k /\ l <= hits[t]
          /\ l = k => orders[i].status = "NEW" /\ stopPrice[i] = price
      BY <1>1 DEF Good, StopsGood, price
    <2>2. l = k => i # trade[t].order
      <3>1. CASE trade[t].order = 0
        <4>1. 0 \notin DOMAIN orders
          BY <1>1 DEF Book
        <4> QED
          BY <4>1, <3>1
      <3>2. CASE trade[t].order # 0
        <4>1. /\ orders[trade[t].order].client = StopId(t, trade[t].done)
              /\ k = trade[t].done + 1 /\ trade[t].done \in Nat
          BY <3>2, <1>1, RecordedIsOwn DEF Due, TradeRecord
        <4>2. i = trade[t].order => l = trade[t].done
          BY <4>1, ClientFacts
        <4> QED
          BY <4>1, <4>2
      <3> QED
        BY <3>1, <3>2
    <2> QED
      BY <2>1, <2>2, <1>3
  <1>12. StatusGood(t)'
    BY <1>1, <1>4, <1>6, <1>8 DEF StatusGood, In
  <1>13. Accounted(t)
    <2>1. \A i \in DOMAIN orders : orders'[i].status \in {orders[i].status, "CANCELED"}
      BY <1>3
    <2>2. trade[t].order \in DOMAIN orders => orders'[trade[t].order].status # "NEW"
      BY <1>3
    <2>3. \A i \in DOMAIN orders' \ DOMAIN orders : i = n
      BY <1>3
    <2> QED
      BY <2>1, <2>2, <2>3, <1>4, <1>6 DEF Accounted
  <1>14. CASE trade'[t] = trade[t]
    <2>1. Due(t)' = k /\ DuePrice(t)' = price
      BY <1>6, <1>14 DEF Due, DuePrice, NextStop, price
    <2>2. StopsGood(t)'
      BY <2>1, <1>2, <1>3, <1>6, <1>9, <1>10, <1>11 DEF StopsGood
    <2>3. trade[t].order # 0 => NextPlaced(t)'
      BY <1>3, <1>14 DEF NextPlaced, Due
    <2>4. trade[t].order # 0 =>
             /\ trade[t].order \in DOMAIN orders
             /\ orders'[trade[t].order].status = "CANCELED"
      BY <1>1, <1>3, RecordedIsOwn
    <2>5. RecordGood(t)'
      BY <2>3, <2>4, <1>1, <1>3, <1>6, <1>8, <1>14 DEF Good, RecordGood
    <2>6. LockedIn(t)'
      BY <1>1, <1>6, <1>14 DEF Good, LockedIn
    <2> QED
      BY <2>2, <2>5, <2>6, <1>3, <1>6, <1>7, <1>12, <1>13 DEF Stepped, Good
  <1>15. CASE trade'[t] = answer
    <2>1. Due(t)' = k + 1
      BY <1>3, <1>4, <1>15 DEF Due
    <2>2. StopsGood(t)'
      <3> SUFFICES ASSUME NEW i \in DOMAIN orders', NEW l \in 0 .. MaxHits,
                          orders'[i].client = StopId(t, l)
                   PROVE  /\ orders'[i].side = ExitSide(t)'
                          /\ stopPrice'[i] \in Levels
                          /\ l <= Due(t)' /\ l <= hits'[t]
                          /\ l = Due(t)' => /\ orders'[i].status = "NEW"
                                            /\ stopPrice'[i] = DuePrice(t)'
        BY DEF StopsGood
      <3>1. /\ orders'[i].side = ExitSide(t) /\ stopPrice'[i] \in Levels
            /\ l <= k /\ l <= hits[t]
        BY <1>2, <1>3, <1>10, <1>11
      <3>2. l <= k + 1 /\ l # k + 1
        BY <3>1, <1>2, PlanFacts
      <3> QED
        BY <3>1, <3>2, <2>1, <1>6, <1>9
    <2>3. ~NextPlaced(t)'
      <3>1. \A i \in DOMAIN orders' : orders'[i].client \in ClientIds
        <4>1. \A i \in DOMAIN orders' : orders'[i] \in OrderRecord
          BY DEF Book
        <4> QED
          BY <4>1 DEF OrderRecord
      <3>2. SUFFICES ASSUME NEW i \in DOMAIN orders', orders'[i].client = StopId(t, k + 1)
                     PROVE  FALSE
        BY <1>4, <1>15 DEF NextPlaced
      <3>3. k + 1 \in 0 .. MaxHits
        BY <3>1, <3>2, ClientFacts
      <3>4. k + 1 <= k
        BY <3>2, <3>3, <1>2, <1>10, <1>11
      <3> QED
        BY <3>4, <1>2
    <2>4. RecordGood(t)'
      BY <2>3, <1>3, <1>4, <1>6, <1>8, <1>15 DEF RecordGood
    <2>5. LockedIn(t)'
      <3>1. CASE trade[t].order = 0
        BY <3>1, <1>4, <1>15 DEF LockedIn, Due
      <3>2. CASE trade[t].order # 0
        <4>1. k = trade[t].done + 1 /\ price = NextStop(t) /\ k - 1 = trade[t].done
          BY <3>2, <1>1 DEF Due, DuePrice, TradeRecord, price
        <4> QED
          BY <4>1, <3>2, <1>1, <1>4, <1>6, <1>15, NextStopFacts DEF LockedIn
      <3> QED
        BY <3>1, <3>2
    <2> QED
      BY <2>2, <2>4, <2>5, <1>3, <1>6, <1>7, <1>12, <1>13 DEF Stepped, Good
  <1> QED
    BY <1>6, <1>14, <1>15

LEMMA ProtectStep ==
    ASSUME IInv, NEW t \in Trades, Protect(t)
    PROVE  Stepped(t)
  <1> DEFINE first == plan[t].stop_loss
  <1>1. /\ Book /\ Records /\ Good(t) /\ plan[t] \in Plans
        /\ trade[t] \in TradeRecord /\ hits[t] \in Nat
    BY DEF IInv, Records
  <1>2. /\ In(t, {"OPEN"}) /\ trade[t].order = 0 /\ first # None
        /\ X!PlaceStop(StopId(t, 0), Symbol, ExitSide(t), Quantity)
        /\ stopPrice' = Append(stopPrice, first)
        /\ Answered(t, [trade[t] EXCEPT !.stop = first, !.order = X!NextId])
    BY DEF Protect, initial_stop
  <1>3. Due(t) = 0 /\ DuePrice(t) = first /\ first \in Levels
    BY <1>1, <1>2, PlanFacts DEF Due, DuePrice
  <1>4. 0 \in 0 .. MaxHits /\ 0 <= hits[t]
    BY <1>1, PlanFacts
  <1>5. trade[t].done = 0
    BY <1>1, <1>2 DEF Good, RecordGood
  <1>6. [trade[t] EXCEPT !.stop = first, !.order = X!NextId]
           = [trade[t] EXCEPT !.stop = first, !.order = X!NextId, !.done = 0]
    BY <1>1, <1>5 DEF TradeRecord
  <1>7. orders = X!WithStatus(orders, trade[t].order, "CANCELED")
    BY <1>1, <1>2 DEF X!WithStatus, Book
  <1>8. Book' /\ NewStop(t, 0, X!NextId)
    BY <1>1, <1>2, <1>3, <1>4, <1>7, NewStopPlaced DEF X!PlaceStop
  <1> HIDE DEF first
  <1> QED
    BY <1>2, <1>3, <1>4, <1>6, <1>8, StopPlaced

LEMMA AdjustStep ==
    ASSUME IInv, NEW t \in Trades, Adjust(t)
    PROVE  Stepped(t)
  <1> DEFINE k == trade[t].done + 1
  <1>1. /\ Book /\ Records /\ Good(t) /\ plan[t] \in Plans
        /\ trade[t] \in TradeRecord /\ hits[t] \in Nat /\ hits[t] <= Len(plan[t].targets)
    BY DEF IInv, Records
  <1>2. /\ In(t, {"OPEN"}) /\ trade[t].order # 0 /\ trade[t].done < hits[t]
        /\ X!ReplaceStop(trade[t].order, StopId(t, k), Symbol, Quantity)
        /\ stopPrice' = Append(stopPrice, NextStop(t))
        /\ Answered(t, [trade[t] EXCEPT !.stop = NextStop(t), !.order = X!NextId,
                                        !.done = @ + 1])
    BY DEF Adjust
  <1>3. Due(t) = k /\ DuePrice(t) = NextStop(t) /\ NextStop(t) \in Levels
    BY <1>1, <1>2, NextStopFacts DEF Due, DuePrice
  <1>4. k \in 0 .. MaxHits /\ k <= hits[t]
    <2>1. /\ trade[t].done \in Nat /\ MaxHits \in Nat
          /\ Len(plan[t].targets) \in Nat /\ Len(plan[t].targets) <= MaxHits
      BY <1>1, PlanFacts DEF TradeRecord
    <2>2. trade[t].done < hits[t] /\ hits[t] \in Nat /\ hits[t] <= Len(plan[t].targets)
      BY <1>1, <1>2
    <2> QED
      BY <2>1, <2>2
  <1>5. trade[t].order \in DOMAIN orders /\ orders[trade[t].order].side = ExitSide(t)
    BY <1>1, <1>2, RecordedIsOwn
  <1>6. X!AddStop(X!WithStatus(orders, trade[t].order, "CANCELED"),
                  StopId(t, k), Symbol, ExitSide(t), Quantity)
    BY <1>2, <1>5 DEF X!ReplaceStop
  <1>7. Answered(t, [trade[t] EXCEPT !.stop = NextStop(t), !.order = X!NextId, !.done = k])
    BY <1>2
  <1> HIDE DEF k
  <1>8. Book' /\ NewStop(t, k, X!NextId)
    BY <1>1, <1>2, <1>3, <1>4, <1>6, NewStopPlaced
  <1> QED
    BY <1>2, <1>3, <1>4, <1>7, <1>8, StopPlaced

(* The stop comes off: only that of a trade whose exit is executed.        *)
LEMMA ArchiveStep ==
    ASSUME IInv, NEW t \in Trades, Archive(t)
    PROVE  Stepped(t)
  <1> DEFINE answer == [trade[t] EXCEPT !.status = "ARCHIVED"]
             n == trade[t].order
  <1>1. Book /\ Records /\ Good(t) /\ trade[t] \in TradeRecord
    BY DEF IInv, Records
  <1>2. /\ Entered(t) <=> Exited(t)
        /\ orders' = X!WithStatus(orders, n, "CANCELED")
        /\ byClient' = byClient /\ stopPrice' = stopPrice
    BY DEF Archive, Fits, X!CancelProtection
  <1>3. /\ answer \in TradeRecord /\ answer.status = "ARCHIVED"
        /\ answer.stop = trade[t].stop /\ answer.order = trade[t].order
        /\ answer.done = trade[t].done
    BY <1>1 DEF TradeRecord, Statuses
  <1>4. Answered(t, answer)
    BY DEF Archive
  <1> HIDE DEF answer
  <1>5. /\ Records' /\ plan' = plan /\ hits' = hits
        /\ trade'[t] \in {trade[t], answer}
        /\ \A u \in Trades \ {t} : trade'[u] = trade[u]
        /\ \/ faults' = faults /\ trade'[t] = answer
           \/ faults > 0 /\ faults' = faults - 1
    BY <1>1, <1>3, <1>4, AnsweredRecords
  <1>6. /\ orders' \in Seq(OrderRecord) /\ Len(orders') = Len(orders)
        /\ DOMAIN orders' = DOMAIN orders
        /\ \A i \in DOMAIN orders :
              /\ orders'[i].client = orders[i].client
              /\ orders'[i].side = orders[i].side
              /\ orders'[i].status = IF i = n THEN "CANCELED" ELSE orders[i].status
    BY <1>1, <1>2, CanceledBook
  <1>7. Book'
    <2>1. /\ orders' \in Seq(OrderRecord)
          /\ stopPrice' \in Seq(Int \cup {None}) /\ Len(stopPrice') = Len(orders')
          /\ byClient' \in [ClientIds -> Nat]
      BY <1>1, <1>2, <1>6 DEF Book
    <2>2. ASSUME NEW c \in ClientIds
          PROVE  /\ byClient'[c] = 0 => \A i \in DOMAIN orders' : orders'[i].client # c
                 /\ byClient'[c] # 0 => /\ byClient'[c] \in DOMAIN orders'
                                        /\ orders'[byClient'[c]].client = c
      <3>1. /\ byClient[c] = 0 => \A i \in DOMAIN orders : orders[i].client # c
            /\ byClient[c] # 0 => /\ byClient[c] \in DOMAIN orders
                                  /\ orders[byClient[c]].client = c
        BY <1>1 DEF Book
      <3> QED
        BY <3>1, <1>2, <1>6
    <2> QED
      BY <2>1, <2>2 DEF Book
  <1>8. Entered(t)' = Entered(t) /\ Exited(t)' = Exited(t)
    BY <1>2, <1>6 DEF Entered, Exited, X!GetOrder
  <1>9. Touches(t)
    BY <1>2, <1>5, <1>6 DEF Touches
  <1>10. /\ trade'[t].stop = trade[t].stop /\ trade'[t].order = n
         /\ trade'[t].done = trade[t].done
    BY <1>3, <1>5
  <1>11. /\ NextStop(t)' = NextStop(t) /\ ExitSide(t)' = ExitSide(t)
         /\ Due(t)' = Due(t) /\ DuePrice(t)' = DuePrice(t)
    BY <1>5, <1>10 DEF NextStop, ExitSide, EntrySide, Due, DuePrice
  <1>12. \A i \in DOMAIN orders, k \in 0 .. MaxHits :
            orders[i].client = StopId(t, k) /\ k = Due(t) => i # n
    <2> SUFFICES ASSUME NEW k \in 0 .. MaxHits, n \in DOMAIN orders,
                        orders[n].client = StopId(t, k), k = Due(t)
                 PROVE  FALSE
      OBVIOUS
    <2>1. n # 0
      BY <1>1 DEF Book
    <2>2. orders[n].client = StopId(t, trade[t].done) /\ k = trade[t].done + 1
      BY <2>1, <1>1, RecordedIsOwn DEF Due
    <2>3. k = trade[t].done /\ trade[t].done \in Nat
      BY <2>2, <1>1, ClientFacts DEF TradeRecord
    <2> QED
      BY <2>2, <2>3
  <1>13. StopsGood(t)'
    BY <1>1, <1>2, <1>5, <1>6, <1>11, <1>12 DEF Good, StopsGood
  <1>14. NextPlaced(t)' <=> NextPlaced(t)
    BY <1>6, <1>10 DEF NextPlaced
  <1>15. RecordGood(t)'
    <2>1. n # 0 => Exited(t)
      BY <1>1, <1>2 DEF Good, RecordGood
    <2> QED
      BY <2>1, <1>1, <1>2, <1>5, <1>6, <1>8, <1>10, <1>14 DEF Good, RecordGood
  <1>16. LockedIn(t)'
    BY <1>1, <1>5, <1>10 DEF Good, LockedIn
  <1>17. StatusGood(t)'
    <2>1. n # 0 => n \in DOMAIN orders
      BY <1>1 DEF Good, RecordGood
    <2>2. trade'[t].status = trade[t].status \/ trade'[t].status = "ARCHIVED"
      BY <1>3, <1>5
    <2> QED
      BY <2>1, <2>2, <1>1, <1>2, <1>6, <1>8, <1>10 DEF Good, StatusGood, In
  <1>18. Accounted(t)
    BY <1>3, <1>5, <1>6 DEF Accounted
  <1> QED
    BY <1>5, <1>7, <1>9, <1>13, <1>15, <1>16, <1>17, <1>18 DEF Stepped, Good

-----------------------------------------------------------------------------
(* Live stops that are not recorded cost a lost answer each.               *)

LEMMA FiniteExtras ==
    ASSUME Book
    PROVE  IsFiniteSet(DOMAIN orders) /\ IsFiniteSet(Extras)
  <1>1. IsFiniteSet(DOMAIN orders)
    <2>1. Len(orders) \in Nat /\ DOMAIN orders = 1 .. Len(orders)
      BY DEF Book
    <2> QED
      BY <2>1, FS_Interval
  <1>2. Extras \subseteq DOMAIN orders
    BY DEF Extras
  <1> QED
    BY <1>1, <1>2, FS_Subset

LEMMA NewExtras ==
    ASSUME Book, Records, \A u \in Trades : Good(u), NEW t \in Trades, Stepped(t)
    PROVE  \E n : /\ \A i \in Extras' : i \in Extras \/ i = n
                  /\ \/ faults' = faults /\ \A i \in Extras' : i \in Extras
                     \/ faults > 0 /\ faults' = faults - 1
  <1>1. /\ Touches(t) /\ Accounted(t) /\ plan' = plan
        /\ \A u \in Trades : ExitSide(u)' = ExitSide(u)
    BY DEF Stepped, Touches, ExitSide, EntrySide
  <1>2. PICK n : /\ \A i \in DOMAIN orders' \ DOMAIN orders :
                       i = n \/ orders'[i].client \in {EntryId(t), ExitId(t)}
                 /\ \/ faults' = faults /\ n = trade'[t].order
                    \/ faults > 0 /\ faults' = faults - 1
    BY <1>1 DEF Accounted
  <1>3. ASSUME NEW i \in DOMAIN orders', NEW u \in Trades,
               i \in LiveStops(u)', i # trade'[u].order
        PROVE  i \in Extras \/ (i \notin DOMAIN orders /\ i = n /\ u = t)
    <2>1. /\ orders'[i].status = "NEW" /\ orders'[i].side = ExitSide(u)
          /\ orders'[i].client \in StopIds(u)
      BY <1>1, <1>3 DEF LiveStops
    <2>2. PICK k \in 0 .. MaxHits : orders'[i].client = StopId(u, k)
      BY <2>1 DEF StopIds
    <2>3. CASE i \in DOMAIN orders
      <3>1. /\ orders[i].client = orders'[i].client /\ orders[i].side = orders'[i].side
            /\ orders'[i].status \in {orders[i].status, "CANCELED"}
        BY <1>1, <2>3 DEF Touches, Accounted
      <3>2. i \in LiveStops(u)
        BY <2>1, <2>3, <3>1 DEF LiveStops
      <3>3. i # trade[u].order
        <4>1. CASE u = t
          BY <4>1, <1>1, <1>3, <2>1, <2>3 DEF Accounted
        <4>2. CASE u # t
          BY <4>2, <1>1, <1>3 DEF Touches
        <4> QED
          BY <4>1, <4>2
      <3> QED
        BY <2>3, <3>2, <3>3 DEF Extras
    <2>4. CASE i \notin DOMAIN orders
      <3>1. i = n
        BY <1>2, <2>2, <2>4, ClientFacts
      <3>2. u = t
        BY <1>1, <2>2, <2>4, OwnFacts DEF Touches
      <3> QED
        BY <2>4, <3>1, <3>2
    <2> QED
      BY <2>3, <2>4
  <1>4. ASSUME NEW i \in Extras'
        PROVE  /\ i \in Extras \/ i = n
               /\ n = trade'[t].order => i \in Extras
    <2>1. PICK u \in Trades : i \in DOMAIN orders' /\ i \in LiveStops(u)' /\ i # trade'[u].order
      BY DEF Extras
    <2> QED
      BY <2>1, <1>3
  <1> QED
    BY <1>2, <1>4

LEMMA FaultsKept ==
    ASSUME Book, Faults, Records, \A u \in Trades : Good(u), NEW t \in Trades, Stepped(t)
    PROVE  Faults'
  <1>1. PICK n : /\ \A i \in Extras' : i \in Extras \/ i = n
                 /\ \/ faults' = faults /\ \A i \in Extras' : i \in Extras
                    \/ faults > 0 /\ faults' = faults - 1
    BY NewExtras
  <1>2. IsFiniteSet(Extras) /\ Cardinality(Extras) \in Nat
    BY FiniteExtras, FS_CardinalityType
  <1>3. /\ IsFiniteSet(Extras \cup {n})
        /\ Cardinality(Extras \cup {n}) \in Nat
        /\ Cardinality(Extras \cup {n}) <= Cardinality(Extras) + 1
    <2>1. /\ IsFiniteSet(Extras \cup {n})
          /\ \/ Cardinality(Extras \cup {n}) = Cardinality(Extras)
             \/ Cardinality(Extras \cup {n}) = Cardinality(Extras) + 1
      BY <1>2, FS_AddElement
    <2> QED
      BY <2>1, <1>2
  <1>4. faults \in Nat /\ Cardinality(Extras) <= MaxFaults - faults
    BY DEF Faults
  <1>5. CASE faults' = faults /\ \A i \in Extras' : i \in Extras
    <2>1. Extras' \subseteq Extras
      BY <1>5
    <2>2. IsFiniteSet(Extras') /\ Cardinality(Extras') <= Cardinality(Extras)
      BY <2>1, <1>2, FS_Subset
    <2>3. Cardinality(Extras') \in Nat
      BY <2>2, FS_CardinalityType
    <2> QED
      BY FaultAssumption, <2>2, <2>3, <1>2, <1>4, <1>5 DEF Faults
  <1>6. CASE faults > 0 /\ faults' = faults - 1
    <2>1. Extras' \subseteq Extras \cup {n}
      BY <1>1
    <2>2. IsFiniteSet(Extras') /\ Cardinality(Extras') <= Cardinality(Extras \cup {n})
      BY <2>1, <1>3, FS_Subset
    <2>3. Cardinality(Extras') \in Nat
      BY <2>2, FS_CardinalityType
    <2> QED
      BY FaultAssumption, <2>2, <2>3, <1>2, <1>3, <1>4, <1>6 DEF Faults
  <1> QED
    BY <1>1, <1>5, <1>6

-----------------------------------------------------------------------------
(* What the exchange makes of a position when an order is executed.        *)

LEMMA RatioType ==
    ASSUME NEW n \in Int, NEW d \in Nat \ {0}
    PROVE  X!Ratio(n, d) \in X!Fraction
  <1> DEFINE C(g) == X!Divides(g, X!Abs(n)) /\ X!Divides(g, d)
             G == {g \in 1 .. d : C(g)}
             gcd == X!Gcd(n, d)
  <1>1. 1 \in G
    <2>1. X!Abs(n) \in Nat
      BY DEF X!Abs
    <2>2. X!Abs(n) % 1 = 0 /\ d % 1 = 0 /\ 1 \in 1 .. d
      BY <2>1
    <2> QED
      BY <2>2 DEF X!Divides
  <1>2. PICK g \in G : \A h \in (g + 1) .. d : h \notin G
    <2>1. G \in SUBSET (1 .. d) /\ G # {}
      BY <1>1
    <2> HIDE DEF G
    <2> QED
      BY <2>1, Largest
  <1>3. g \in 1 .. d /\ C(g) /\ \A h \in (g + 1) .. d : ~C(h)
    BY <1>2
  <1>4. gcd = CHOOSE k \in 1 .. d : C(k) /\ \A h \in (k + 1) .. d : ~C(h)
    BY DEF X!Gcd
  <1>5. gcd \in 1 .. d /\ C(gcd)
    <2> HIDE DEF C, gcd
    <2> QED
      BY <1>3, <1>4
  <1>6. gcd \in 1 .. d /\ d % gcd = 0
    BY <1>5 DEF X!Divides
  <1> HIDE DEF gcd
  <1>7. n \div gcd \in Int /\ d \div gcd \in Nat \ {0}
    BY <1>6
  <1>8. X!Ratio(n, d) = [num |-> n \div gcd, den |-> d \div gcd]
    BY DEF X!Ratio, gcd
  <1> QED
    BY <1>7, <1>8 DEF X!Fraction

(* The position p is one unit, of sign s, for every member of N.           *)
Held(p, N, s) ==
    /\ p \in X!Position \cup {NoPosition}
    /\ N = {} => p = NoPosition
    /\ N # {} => p # NoPosition /\ p.amt = s * Cardinality(N)

LEMMA FillAdds ==
    ASSUME NEW N, IsFiniteSet(N), NEW t, t \notin N, NEW s \in {1, -1},
           NEW p, Held(p, N, s)
    PROVE  Held(X!Filled(p, s, EntryPrice), N \cup {t}, s)
  <1> DEFINE c == Cardinality(N)
             q == X!Filled(p, s, EntryPrice)
  <1>1. c \in Nat /\ Cardinality(N \cup {t}) = c + 1
    BY FS_CardinalityType, FS_AddElement
  <1>2. X!Whole(EntryPrice) \in X!Fraction
    BY EntryAssumption DEF X!Whole, X!Fraction
  <1>3. CASE N = {}
    <2>1. c = 0 /\ p = NoPosition
      BY <1>3, FS_EmptySet DEF Held
    <2>2. q = [amt |-> s, entry |-> X!Whole(EntryPrice)]
      BY <2>1 DEF X!Filled
    <2>3. q \in X!Position /\ q.amt = s
      BY <2>2, <1>2 DEF X!Position
    <2>4. s = s * 1 /\ Cardinality(N \cup {t}) = 1
      BY <2>1, <1>1
    <2> HIDE DEF q
    <2> QED
      BY PositionAssumption, <2>3, <2>4, <1>1 DEF Held, q
  <1>4. CASE N # {}
    <2>1. c # 0
      BY <1>4, FS_EmptySet
    <2>2. p # NoPosition /\ p \in X!Position /\ p.amt = s * c
      BY <1>4 DEF Held
    <2> HIDE DEF c
    <2>3. /\ p.amt \in Int /\ p.entry \in X!Fraction
          /\ p.entry.num \in Int /\ p.entry.den \in Nat \ {0}
      BY <2>2 DEF X!Position, X!Fraction
    <2>4. p.amt + s = s * (c + 1) /\ p.amt + s # 0 /\ X!SameWay(p.amt, s)
      BY <2>1, <2>2, <1>1 DEF X!SameWay
    <2>5. X!Average(p, s, EntryPrice) \in X!Fraction
      <3>1. /\ X!Abs(p.amt + s) \in Nat \ {0}
            /\ X!Abs(p.amt) \in Nat /\ X!Abs(s) \in Nat
        BY <2>3, <2>4 DEF X!Abs
      <3>2. /\ X!Abs(p.amt) * p.entry.num \in Int
            /\ X!Abs(s) * EntryPrice * p.entry.den \in Int
            /\ p.entry.den * X!Abs(p.amt + s) \in Nat \ {0}
        <4>1. /\ \A a, b \in Int : a * b \in Int
              /\ \A a, b \in Nat \ {0} : a * b \in Nat \ {0}
          OBVIOUS
        <4>2. X!Abs(s) * EntryPrice \in Int
          BY EntryAssumption, <4>1, <3>1
        <4> QED
          BY <4>1, <4>2, <3>1, <2>3
      <3> QED
        BY <3>2, RatioType DEF X!Average
    <2>6. q = [amt |-> p.amt + s, entry |-> X!Average(p, s, EntryPrice)]
      BY <2>2, <2>4 DEF X!Filled, X!Closes
    <2>7. q \in X!Position /\ q.amt = s * (c + 1)
      BY <2>3, <2>4, <2>5, <2>6 DEF X!Position
    <2> HIDE DEF q
    <2> QED
      BY PositionAssumption, <2>7, <1>1 DEF Held, c, q
  <1> QED
    BY <1>3, <1>4

LEMMA FillTakes ==
    ASSUME NEW N, IsFiniteSet(N), NEW t \in N, NEW s \in {1, -1},
           NEW p, Held(p, N, s)
    PROVE  p # NoPosition /\ Held(X!Filled(p, -s, EntryPrice), N \ {t}, s)
  <1> DEFINE c == Cardinality(N)
             q == X!Filled(p, -s, EntryPrice)
             M == N \ {t}
  <1>1. c \in Nat /\ IsFiniteSet(M) /\ Cardinality(M) = c - 1 /\ Cardinality(M) \in Nat
    BY FS_CardinalityType, FS_RemoveElement
  <1>2. p # NoPosition /\ p \in X!Position /\ p.amt = s * c
    BY DEF Held
  <1>3. M = {} <=> Cardinality(M) = 0
    BY <1>1, FS_EmptySet
  <1> HIDE DEF c, M
  <1>4. p.amt + (-s) = s * (c - 1) /\ (p.amt + (-s) = 0 <=> c = 1)
        /\ p.amt \in Int /\ p.entry \in X!Fraction
    BY <1>1, <1>2 DEF X!Position
  <1>5. CASE c = 1
    <2>1. q = NoPosition /\ M = {}
      BY <1>1, <1>2, <1>3, <1>4, <1>5 DEF X!Filled, X!Closes
    <2> QED
      BY <2>1, <1>2 DEF Held, M
  <1>6. CASE c # 1
    <2>1. ~X!SameWay(p.amt, -s)
      BY <1>1, <1>2, <1>6 DEF X!SameWay
    <2>2. q = [amt |-> p.amt + (-s), entry |-> p.entry]
      BY <2>1, <1>2, <1>4, <1>6 DEF X!Filled, X!Closes
    <2>3. q \in X!Position /\ q.amt = s * Cardinality(M)
      BY <2>2, <1>1, <1>4 DEF X!Position
    <2>4. M # {}
      BY <1>1, <1>3, <1>6
    <2> HIDE DEF q
    <2> QED
      BY PositionAssumption, <2>3, <2>4, <1>2 DEF Held, M, q
  <1> QED
    BY <1>5, <1>6

-----------------------------------------------------------------------------
(* The position through the actions.                                       *)

LEMMA InPosFinite == IsFiniteSet(InPos) /\ InPos \subseteq Trades
  <1>1. InPos \subseteq Trades
    BY DEF InPos
  <1> QED
    BY FiniteAssumption, <1>1, FS_Subset

LEMMA PlaceKept ==
    ASSUME Book, Book', DOMAIN orders \subseteq DOMAIN orders', NEW u \in Trades,
           byClient'[EntryId(u)] = byClient[EntryId(u)],
           byClient'[ExitId(u)] = byClient[ExitId(u)]
    PROVE  Entered(u)' = Entered(u) /\ Exited(u)' = Exited(u)
  <1>1. 0 \notin DOMAIN orders'
    BY DEF Book
  <1>2. EntryId(u) \in ClientIds /\ ExitId(u) \in ClientIds
    BY ClientFacts
  <1>3. \A c \in ClientIds : byClient[c] # 0 => byClient[c] \in DOMAIN orders
    BY DEF Book
  <1>4. 0 \notin DOMAIN orders
    BY DEF Book
  <1> QED
    BY <1>1, <1>2, <1>3, <1>4 DEF Entered, Exited, X!GetOrder

LEMMA HoldingKept ==
    ASSUME Book, Book', Holding, plan' = plan, DOMAIN orders \subseteq DOMAIN orders',
           position' = position, mark' = mark,
           \A u \in Trades : /\ byClient'[EntryId(u)] = byClient[EntryId(u)]
                             /\ byClient'[ExitId(u)] = byClient[ExitId(u)]
    PROVE  Holding'
  <1>1. \A u \in Trades : InPosition(u)' = InPosition(u)
    BY PlaceKept DEF InPosition
  <1>2. InPos' = InPos
    BY <1>1 DEF InPos
  <1>3. \A u : EntrySide(u)' = EntrySide(u)
    BY DEF EntrySide
  <1> QED
    BY <1>2, <1>3 DEF Holding

LEMMA HeldNow ==
    ASSUME Records, Holding, NEW t \in Trades
    PROVE  Held(position[Symbol], InPos, EntrySide(t))
  <1>1. position[Symbol] \in X!Position \cup {NoPosition}
    BY DEF Holding
  <1>2. \A u \in InPos : EntrySide(u) = EntrySide(t)
    BY InPosFinite DEF Records, EntrySide
  <1> QED
    BY <1>1, <1>2 DEF Holding, Held

LEMMA HeldNext ==
    ASSUME Records, Holding, plan' = plan, mark' = mark, NEW t \in Trades, NEW q,
           position' = [position EXCEPT ![Symbol] = q],
           Held(q, InPos', EntrySide(t))
    PROVE  Holding'
  <1>1. /\ position' \in [{Symbol} -> X!Position \cup {NoPosition}]
        /\ position'[Symbol] = q
    BY DEF Holding, Held
  <1>2. \A u \in InPos' : u \in Trades
    BY DEF InPos
  <1>3. \A u \in Trades : EntrySide(u)' = EntrySide(t)
    BY DEF Records, EntrySide
  <1>4. mark'[Symbol] = EntryPrice
    BY DEF Holding
  <1>5. InPos' = {} => position'[Symbol] = NoPosition
    BY <1>1 DEF Held
  <1>6. \A u \in InPos' : /\ position'[Symbol] # NoPosition
                          /\ position'[Symbol].amt = EntrySide(u)' * Cardinality(InPos')
    BY <1>1, <1>2, <1>3 DEF Held
  <1> QED
    BY <1>1, <1>4, <1>5, <1>6 DEF Holding

(* An order that is accepted is executed in full.                          *)
LEMMA PlacedFill ==
    ASSUME mark[Symbol] = EntryPrice, NEW c, NEW side, NEW r \in BOOLEAN,
           ~X!KnownClient(c), Place(c, side, r), r => position[Symbol] # NoPosition,
           side \in {1, -1}
    PROVE  /\ position' = [position EXCEPT ![Symbol] =
                              X!Filled(position[Symbol], side, EntryPrice)]
           /\ mark' = mark
  <1>1. /\ X!ApplyFill(X!NextId, Symbol, side * Quantity, mark[Symbol], r)
        /\ mark' = mark
    BY DEF Place, X!PlaceOrder, X!FillsAtOnce
  <1>2. side * Quantity = side
    BY DEF Quantity
  <1>3. ~X!Ignored(position[Symbol], r)
    BY DEF X!Ignored
  <1> QED
    BY <1>1, <1>2, <1>3 DEF X!ApplyFill

LEMMA EnterHolding ==
    ASSUME IInv, NEW t \in Trades, Enter(t), Stepped(t)
    PROVE  Holding'
  <1>1. /\ Book /\ Records /\ Good(t) /\ Holding /\ Book' /\ Touches(t)
        /\ mark[Symbol] = EntryPrice /\ plan' = plan
        /\ DOMAIN orders \subseteq DOMAIN orders'
        /\ EntryId(t) \in ClientIds /\ ExitId(t) \in ClientIds
    BY ClientFacts DEF IInv, Holding, Stepped, Touches
  <1>2. Place(EntryId(t), EntrySide(t), FALSE)
    BY DEF Enter
  <1>3. /\ \A d \in ClientIds \ {EntryId(t)} : byClient'[d] = byClient[d]
        /\ byClient'[EntryId(t)] # 0
    BY <1>1, <1>2, SideFacts, PlacedBook
  <1>4. \A u \in Trades : /\ u # t => byClient'[EntryId(u)] = byClient[EntryId(u)]
                          /\ byClient'[ExitId(u)] = byClient[ExitId(u)]
    BY <1>3, ClientFacts
  <1>5. CASE X!KnownClient(EntryId(t))
    <2>1. byClient' = byClient /\ position' = position /\ mark' = mark
      BY <1>2, <1>5 DEF Place, exchangeVars
    <2> QED
      BY <2>1, <1>1, HoldingKept
  <1>6. CASE ~X!KnownClient(EntryId(t))
    <2>1. ~Entered(t) /\ ~Exited(t)
      BY <1>1, <1>6, KnownFacts DEF X!KnownClient, Good, StatusGood
    <2>2. Entered(t)' /\ ~Exited(t)'
      <3>1. byClient[ExitId(t)] = 0
        BY <2>1, <1>1, KnownFacts
      <3>2. byClient'[ExitId(t)] = 0
        BY <3>1, <1>4
      <3> QED
        BY <3>2, <1>1, <1>3 DEF Entered, Exited, X!GetOrder, Book
    <2>3. \A u \in Trades \ {t} : InPosition(u)' = InPosition(u)
      BY <1>1, <1>4, PlaceKept DEF InPosition
    <2>4. t \notin InPos /\ InPos' = InPos \cup {t}
      BY <2>1, <2>2, <2>3 DEF InPos, InPosition
    <2>5. EntrySide(t) \in {1, -1}
      BY SideFacts
    <2>6. /\ position' = [position EXCEPT ![Symbol] =
                             X!Filled(position[Symbol], EntrySide(t), EntryPrice)]
          /\ mark' = mark
      BY <2>5, <1>1, <1>2, <1>6, PlacedFill
    <2>7. Held(X!Filled(position[Symbol], EntrySide(t), EntryPrice), InPos', EntrySide(t))
      <3>1. Held(position[Symbol], InPos, EntrySide(t)) /\ IsFiniteSet(InPos)
        BY <1>1, HeldNow, InPosFinite
      <3>2. Held(X!Filled(position[Symbol], EntrySide(t), EntryPrice),
                 InPos \cup {t}, EntrySide(t))
        BY <3>1, <2>4, <2>5, FillAdds
      <3> QED
        BY <3>2, <2>4
    <2> QED
      BY <2>6, <2>7, <1>1, HeldNext
  <1> QED
    BY <1>5, <1>6

LEMMA ExitHolding ==
    ASSUME IInv, NEW t \in Trades, Exit(t), Stepped(t)
    PROVE  Holding'
  <1>1. /\ Book /\ Records /\ Good(t) /\ Holding /\ Book' /\ Touches(t)
        /\ mark[Symbol] = EntryPrice /\ plan' = plan
        /\ DOMAIN orders \subseteq DOMAIN orders'
        /\ EntryId(t) \in ClientIds /\ ExitId(t) \in ClientIds
    BY ClientFacts DEF IInv, Holding, Stepped, Touches
  <1>2. Place(ExitId(t), ExitSide(t), TRUE)
    BY DEF Exit
  <1>3. /\ \A d \in ClientIds \ {ExitId(t)} : byClient'[d] = byClient[d]
        /\ byClient'[ExitId(t)] # 0
    BY <1>1, <1>2, SideFacts, PlacedBook
  <1>4. \A u \in Trades : /\ byClient'[EntryId(u)] = byClient[EntryId(u)]
                          /\ u # t => byClient'[ExitId(u)] = byClient[ExitId(u)]
    BY <1>3, ClientFacts
  <1>5. CASE X!KnownClient(ExitId(t))
    <2>1. byClient' = byClient /\ position' = position /\ mark' = mark
      BY <1>2, <1>5 DEF Place, exchangeVars
    <2> QED
      BY <2>1, <1>1, HoldingKept
  <1>6. CASE ~X!KnownClient(ExitId(t))
    <2>1. Entered(t) /\ ~Exited(t)
      BY <1>1, <1>6, KnownFacts DEF X!KnownClient, Good, StatusGood, Exit, In
    <2>2. Exited(t)'
      BY <1>1, <1>3 DEF Exited, X!GetOrder, Book
    <2>3. \A u \in Trades \ {t} : InPosition(u)' = InPosition(u)
      BY <1>1, <1>4, PlaceKept DEF InPosition
    <2>4. t \in InPos /\ InPos' = InPos \ {t}
      BY <2>1, <2>2, <2>3 DEF InPos, InPosition
    <2>5. /\ EntrySide(t) \in {1, -1} /\ ExitSide(t) = -EntrySide(t)
          /\ ExitSide(t) \in {1, -1}
      BY SideFacts
    <2>6. /\ position[Symbol] # NoPosition
          /\ Held(X!Filled(position[Symbol], ExitSide(t), EntryPrice), InPos', EntrySide(t))
      <3>1. Held(position[Symbol], InPos, EntrySide(t)) /\ IsFiniteSet(InPos)
        BY <1>1, HeldNow, InPosFinite
      <3>2. /\ position[Symbol] # NoPosition
            /\ Held(X!Filled(position[Symbol], -EntrySide(t), EntryPrice),
                    InPos \ {t}, EntrySide(t))
        BY <3>1, <2>4, <2>5, FillTakes
      <3> QED
        BY <3>2, <2>4, <2>5
    <2>7. /\ position' = [position EXCEPT ![Symbol] =
                             X!Filled(position[Symbol], ExitSide(t), EntryPrice)]
          /\ mark' = mark
      BY <2>5, <2>6, <1>1, <1>2, <1>6, PlacedFill
    <2> QED
      BY <2>6, <2>7, <1>1, HeldNext
  <1> QED
    BY <1>5, <1>6

(* Stops, cancellations and what the manager records move no position.     *)
LEMMA QuietHolding ==
    ASSUME IInv, NEW t \in Trades, Stepped(t),
           \/ Protect(t) \/ Adjust(t) \/ Adopt(t) \/ Archive(t) \/ Hit(t)
           \/ \E status \in {"OPEN", "CLOSING", "CLOSED", "MANUAL_REVIEW"} : Move(t, status)
    PROVE  Holding'
  <1>1. /\ Book /\ Holding /\ Book' /\ plan' = plan /\ byClient \in [ClientIds -> Nat]
        /\ DOMAIN orders \subseteq DOMAIN orders'
    BY DEF IInv, Stepped, Touches, Book
  <1>2. /\ position' = position /\ mark' = mark
        /\ \/ byClient' = byClient
           \/ \E k : byClient' = [byClient EXCEPT ![StopId(t, k)] = X!NextId]
    BY DEF Protect, Adjust, Adopt, Archive, Hit, Move, X!PlaceStop, X!ReplaceStop,
           X!AddStop, X!StopIndexed, X!CancelProtection, X!accountVars, exchangeVars
  <1>3. \A u \in Trades : /\ byClient'[EntryId(u)] = byClient[EntryId(u)]
                          /\ byClient'[ExitId(u)] = byClient[ExitId(u)]
    <2> SUFFICES ASSUME NEW u \in Trades
                 PROVE  /\ byClient'[EntryId(u)] = byClient[EntryId(u)]
                        /\ byClient'[ExitId(u)] = byClient[ExitId(u)]
      OBVIOUS
    <2>1. CASE byClient' = byClient
      BY <2>1
    <2>2. ASSUME NEW k, byClient' = [byClient EXCEPT ![StopId(t, k)] = X!NextId]
          PROVE  /\ byClient'[EntryId(u)] = byClient[EntryId(u)]
                 /\ byClient'[ExitId(u)] = byClient[ExitId(u)]
      <3>1. /\ StopId(t, k) # EntryId(u) /\ StopId(t, k) # ExitId(u)
            /\ EntryId(u) \in ClientIds /\ ExitId(u) \in ClientIds
        BY ClientFacts
      <3> QED
        BY <3>1, <2>2, <1>1
    <2> QED
      BY <2>1, <2>2, <1>2
  <1> QED
    BY <1>1, <1>2, <1>3, HoldingKept

-----------------------------------------------------------------------------
(* The inductive invariant.                                                *)

LEMMA InitIInv == Init => IInv
  <1> SUFFICES ASSUME Init PROVE IInv
    OBVIOUS
  <1>1. /\ orders = <<>> /\ stopPrice = <<>> /\ byClient = [c \in ClientIds |-> 0]
        /\ position = [s \in {Symbol} |-> NoPosition]
        /\ mark = [s \in {Symbol} |-> EntryPrice]
        /\ plan \in [Trades -> Plans] /\ \A t, u \in Trades : plan[t].side = plan[u].side
        /\ trade = [t \in Trades |-> NewTrade] /\ hits = [t \in Trades |-> 0]
        /\ faults = MaxFaults
    BY DEF Init, X!Init
  <1>2. Len(orders) = 0 /\ DOMAIN orders = {} /\ Len(stopPrice) = 0
    BY <1>1
  <1>3. Book
    BY <1>1, <1>2 DEF Book
  <1>4. NewTrade \in TradeRecord
    BY DEF NewTrade, TradeRecord, Statuses
  <1>5. Records
    BY <1>1, <1>4, PlanFacts DEF Records
  <1>6. \A t \in Trades : ~Entered(t) /\ ~Exited(t)
    BY <1>2 DEF Entered, Exited, X!GetOrder
  <1>7. ASSUME NEW t \in Trades PROVE Good(t)
    <2>1. /\ trade[t].status = "PENDING_ENTRY" /\ trade[t].order = 0
          /\ trade[t].stop = None /\ trade[t].done = 0
      BY <1>1 DEF NewTrade
    <2>2. StopsGood(t)
      BY <1>2 DEF StopsGood
    <2>3. RecordGood(t)
      BY <2>1 DEF RecordGood
    <2>4. LockedIn(t)
      BY <2>1 DEF LockedIn
    <2>5. StatusGood(t)
      BY <2>1, <1>6 DEF StatusGood, In
    <2> QED
      BY <2>2, <2>3, <2>4, <2>5 DEF Good
  <1>8. Holding
    <2>1. InPos = {}
      BY <1>6 DEF InPos, InPosition
    <2> QED
      BY <2>1, <1>1 DEF Holding
  <1>9. Faults
    <2>1. Extras = {}
      BY <1>2 DEF Extras
    <2>2. Cardinality({}) = 0
      BY FS_EmptySet
    <2> QED
      BY FaultAssumption, <2>1, <2>2, <1>1 DEF Faults
  <1> QED
    BY <1>3, <1>5, <1>7, <1>8, <1>9 DEF IInv

LEMMA StepTaken ==
    ASSUME IInv, NEW t \in Trades, Stepped(t), Holding'
    PROVE  IInv'
  <1>1. /\ Book /\ Records /\ \A u \in Trades : Good(u)
        /\ Book' /\ Records' /\ Touches(t) /\ Good(t)' /\ Faults
    BY DEF IInv, Stepped
  <1>2. \A u \in Trades \ {t} : Good(u)'
    BY <1>1, OtherGood
  <1>3. \A u \in Trades : Good(u)'
    BY <1>1, <1>2
  <1>4. Faults'
    BY <1>1, FaultsKept
  <1> QED
    BY <1>1, <1>3, <1>4 DEF IInv

LEMMA StutterIInv ==
    ASSUME IInv, UNCHANGED vars
    PROVE  IInv'
  <1>1. /\ orders' = orders /\ byClient' = byClient /\ stopPrice' = stopPrice
        /\ position' = position /\ mark' = mark /\ plan' = plan /\ trade' = trade
        /\ hits' = hits /\ faults' = faults
    BY DEF vars, exchangeVars
  <1>2. Book' /\ Records'
    BY <1>1 DEF IInv, Book, Records
  <1>3. \A t : /\ Entered(t)' = Entered(t) /\ Exited(t)' = Exited(t)
               /\ ExitSide(t)' = ExitSide(t) /\ EntrySide(t)' = EntrySide(t)
               /\ Due(t)' = Due(t) /\ DuePrice(t)' = DuePrice(t)
               /\ NextPlaced(t)' = NextPlaced(t)
    BY <1>1 DEF Entered, Exited, X!GetOrder, ExitSide, EntrySide, Due, DuePrice, NextStop,
                NextPlaced
  <1>4. \A t \in Trades : Good(t)'
    <2> SUFFICES ASSUME NEW t \in Trades PROVE Good(t)'
      OBVIOUS
    <2>1. StopsGood(t)'
      BY <1>1, <1>3 DEF IInv, Good, StopsGood
    <2>2. RecordGood(t)' /\ LockedIn(t)'
      BY <1>1, <1>3 DEF IInv, Good, RecordGood, LockedIn
    <2>3. StatusGood(t)'
      BY <1>1, <1>3 DEF IInv, Good, StatusGood, In
    <2> QED
      BY <2>1, <2>2, <2>3 DEF Good
  <1>5. Holding'
    <2>1. InPos' = InPos
      BY <1>3 DEF InPos, InPosition
    <2> QED
      BY <2>1, <1>1, <1>3 DEF IInv, Holding
  <1>6. Faults'
    <2>1. Extras' = Extras
      BY <1>1, <1>3 DEF Extras, LiveStops
    <2> QED
      BY <2>1, <1>1 DEF IInv, Faults
  <1> QED
    BY <1>2, <1>4, <1>5, <1>6 DEF IInv

LEMMA NextIInv ==
    ASSUME IInv, [Next]_vars
    PROVE  IInv'
  <1>1. CASE UNCHANGED vars
    BY <1>1, StutterIInv
  <1>2. ASSUME NEW t \in Trades, Enter(t) PROVE IInv'
    BY <1>2, EnterStep, EnterHolding, StepTaken
  <1>3. ASSUME NEW t \in Trades, Exit(t) PROVE IInv'
    BY <1>3, ExitStep, ExitHolding, StepTaken
  <1>4. ASSUME NEW t \in Trades, Protect(t) PROVE IInv'
    BY <1>4, ProtectStep, QuietHolding, StepTaken
  <1>5. ASSUME NEW t \in Trades, Adjust(t) PROVE IInv'
    BY <1>5, AdjustStep, QuietHolding, StepTaken
  <1>6. ASSUME NEW t \in Trades, Adopt(t) PROVE IInv'
    BY <1>6, AdoptStep, QuietHolding, StepTaken
  <1>7. ASSUME NEW t \in Trades, Archive(t) PROVE IInv'
    BY <1>7, ArchiveStep, QuietHolding, StepTaken
  <1>8. ASSUME NEW t \in Trades, Hit(t) PROVE IInv'
    BY <1>8, HitStep, QuietHolding, StepTaken
  <1>9. ASSUME NEW t \in Trades,
               NEW status \in {"OPEN", "CLOSING", "CLOSED", "MANUAL_REVIEW"},
               Move(t, status)
        PROVE IInv'
    BY <1>9, MoveStep, QuietHolding, StepTaken
  <1> QED
    BY <1>1, <1>2, <1>3, <1>4, <1>5, <1>6, <1>7, <1>8, <1>9 DEF Next

(* The inductive invariant holds in every reachable state.                 *)
THEOREM Inductive == Spec => []IInv
  BY InitIInv, NextIInv, PTL DEF Spec

-----------------------------------------------------------------------------
(* What the invariant says of the properties.                              *)

(* A trade in the position that has recorded a stop has a live one as      *)
(* good: the recorded one or, while its successor is not recorded, that.   *)
LEMMA LiveGuard ==
    ASSUME IInv, NEW t \in Trades, InPosition(t), trade[t].order # 0
    PROVE  /\ trade[t].stop \in Int
           /\ \E i \in LiveStops(t) :
                 stopPrice[i] \in Int /\ Protects(plan[t].side, trade[t].stop, stopPrice[i])
  <1> DEFINE n == trade[t].order
             side == plan[t].side
             stop == trade[t].stop
             next == trade[t].done + 1
  <1>1. /\ Book /\ Records /\ Good(t) /\ ~Exited(t) /\ side \in Sides
    BY PlansAssumption DEF IInv, Records, InPosition
  <1>2. /\ n \in DOMAIN orders /\ trade[t].done \in 0 .. MaxHits
        /\ orders[n].client = StopId(t, trade[t].done)
        /\ stop \in Int /\ stop = stopPrice[n] /\ orders[n].side = ExitSide(t)
    BY <1>1, RecordedIsOwn
  <1>3. CASE orders[n].status = "NEW"
    <2>1. n \in LiveStops(t)
      BY <1>2, <1>3 DEF LiveStops, StopIds
    <2>2. Protects(side, stop, stopPrice[n])
      BY <1>1, <1>2, ProtectsOrder
    <2> QED
      BY <2>1, <2>2, <1>2
  <1>4. CASE orders[n].status # "NEW"
    <2>1. PICK i \in DOMAIN orders : orders[i].client = StopId(t, next)
      BY <1>1, <1>4 DEF Good, RecordGood, NextPlaced
    <2>2. next \in 0 .. MaxHits
      BY <2>1, <1>1, OrderClients, ClientFacts
    <2>3. next = Due(t) /\ DuePrice(t) = NextStop(t)
      BY DEF Due, DuePrice
    <2>4. /\ orders[i].side = ExitSide(t) /\ orders[i].status = "NEW"
          /\ stopPrice[i] = NextStop(t)
      BY <2>1, <2>2, <2>3, <1>1 DEF Good, StopsGood
    <2>5. i \in LiveStops(t)
      BY <2>1, <2>2, <2>4 DEF LiveStops, StopIds
    <2>6. NextStop(t) \in Int /\ Protects(side, stop, NextStop(t))
      BY <1>1, NextStopFacts, PlanFacts
    <2> QED
      BY <2>4, <2>5, <2>6, <1>2
  <1> QED
    BY <1>3, <1>4

LEMMA IInvRecorded == IInv => RecordedStopIsLive
  <1> SUFFICES ASSUME IInv, NEW t \in Trades, InPosition(t), trade[t].stop # None
               PROVE  GuardedAt(t, trade[t].stop)
    BY DEF RecordedStopIsLive
  <1>1. trade[t].order # 0
    BY DEF IInv, Good, RecordGood
  <1> QED
    BY <1>1, LiveGuard DEF GuardedAt

LEMMA IInvLocked == IInv => TargetsLockIn
  <1> SUFFICES ASSUME IInv PROVE TargetsLockIn
    OBVIOUS
  <1> SUFFICES ASSUME NEW t \in Trades, InPosition(t), trade[t].done >= 1
               PROVE  /\ plan[t].sl_mode \in {"BREAK_EVEN", "LOCK_PROFIT_USDT"}
                            => GuardedAt(t, EntryPrice)
                      /\ plan[t].sl_mode = "MOVE_TO_PREVIOUS_TP"
                            => \A k \in 1 .. trade[t].done - 1 :
                                  GuardedAt(t, plan[t].targets[k])
    <2>1. \A t \in Trades : trade[t].done \in Nat
      BY DEF IInv, Records, TradeRecord
    <2> QED
      BY <2>1 DEF TargetsLockIn
  <1> DEFINE side == plan[t].side
             stop == trade[t].stop
  <1>1. /\ Records /\ Good(t) /\ side \in Sides /\ plan[t] \in Plans
        /\ trade[t].done \in Nat /\ trade[t].order # 0
    BY PlansAssumption DEF IInv, Records, TradeRecord, Good, RecordGood
  <1>2. PICK i \in LiveStops(t) : /\ stop \in Int /\ stopPrice[i] \in Int
                                  /\ Protects(side, stop, stopPrice[i])
    BY <1>1, LiveGuard
  <1>3. ASSUME NEW price \in Int, Protects(side, price, stop)
        PROVE  GuardedAt(t, price)
    <2>1. Protects(side, price, stopPrice[i])
      BY <1>1, <1>2, <1>3, ProtectsOrder
    <2> QED
      BY <2>1 DEF GuardedAt
  <1>4. ASSUME plan[t].sl_mode \in {"BREAK_EVEN", "LOCK_PROFIT_USDT"}
        PROVE  GuardedAt(t, EntryPrice)
    <2>1. Protects(side, EntryPrice, stop)
      BY <1>1, <1>4 DEF Good, LockedIn
    <2> QED
      BY EntryAssumption, <2>1, <1>3
  <1>5. ASSUME plan[t].sl_mode = "MOVE_TO_PREVIOUS_TP", NEW k \in 1 .. trade[t].done - 1
        PROVE  GuardedAt(t, plan[t].targets[k])
    <2>1. Protects(side, plan[t].targets[k], stop)
      BY <1>1, <1>5 DEF Good, LockedIn
    <2>2. k \in 1 .. Len(plan[t].targets)
      <3>1. /\ trade[t].done <= hits[t] /\ hits[t] <= Len(plan[t].targets)
            /\ hits[t] \in Nat /\ Len(plan[t].targets) \in Nat
        BY <1>1, PlanFacts DEF Records, Good, RecordGood
      <3> QED
        BY <3>1, <1>1
    <2>3. plan[t].targets[k] \in Int
      BY <2>2, <1>1, PlanFacts
    <2> QED
      BY <2>1, <2>3, <1>3
  <1> QED
    BY <1>4, <1>5

LEMMA IInvOrphans == IInv => OrphansAreRetries
  <1> SUFFICES ASSUME IInv PROVE OrphansAreRetries
    OBVIOUS
  <1> DEFINE left == UNION {LiveStops(t) : t \in {u \in Trades : In(u, {"ARCHIVED"})}}
  <1>1. left \subseteq Extras
    <2> SUFFICES ASSUME NEW t \in Trades, In(t, {"ARCHIVED"}), NEW i \in LiveStops(t)
                 PROVE  i \in DOMAIN orders /\ i # trade[t].order
      BY DEF Extras
    <2>1. i \in DOMAIN orders /\ orders[i].status = "NEW"
      BY DEF LiveStops
    <2>2. 0 \notin DOMAIN orders
      BY DEF IInv, Book
    <2>3. trade[t].order # 0 => orders[trade[t].order].status # "NEW"
      BY DEF IInv, Good, StatusGood
    <2> QED
      BY <2>1, <2>2, <2>3
  <1>2. IsFiniteSet(Extras) /\ Faults
    BY FiniteExtras DEF IInv
  <1> HIDE DEF left
  <1>3. /\ Cardinality(left) <= Cardinality(Extras)
        /\ Cardinality(left) \in Nat /\ Cardinality(Extras) \in Nat
    BY <1>1, <1>2, FS_Subset, FS_CardinalityType
  <1>4. Cardinality(left) <= MaxFaults - faults
    BY FaultAssumption, <1>2, <1>3 DEF Faults
  <1> QED
    BY <1>4 DEF OrphansAreRetries, left

LEMMA IInvPosition == IInv => StatusTellsPosition
  <1> SUFFICES ASSUME IInv PROVE StatusTellsPosition
    OBVIOUS
  <1> DEFINE f == [t \in Trades |-> EntrySide(t) * Quantity]
  <1>1. Records /\ Holding /\ \A t \in Trades : StatusGood(t)
    BY DEF IInv, Good
  <1>2. X!HeldQuantity(Symbol) = SumFunctionOnSet(f, InPos)
    <2>1. CASE InPos = {}
      BY <2>1, <1>1, SumEmpty DEF Holding, X!HeldQuantity
    <2>2. ASSUME NEW t \in InPos
          PROVE  X!HeldQuantity(Symbol) = SumFunctionOnSet(f, InPos)
      <3> DEFINE s == EntrySide(t)
      <3>1. s \in Int
        BY SideFacts
      <3>2. \A u \in InPos : f[u] = s
        <4>1. \A u \in InPos : u \in Trades /\ EntrySide(u) = s
          BY <1>1, InPosFinite DEF Records, EntrySide
        <4>2. \A u \in Trades : EntrySide(u) * Quantity = EntrySide(u)
          BY SideFacts DEF Quantity
        <4> QED
          BY <4>1, <4>2
      <3>3. X!HeldQuantity(Symbol) = s * Cardinality(InPos)
        BY <1>1, <2>2 DEF Holding, X!HeldQuantity
      <3> HIDE DEF f, s
      <3>4. SumFunctionOnSet(f, InPos) = s * Cardinality(InPos)
        BY <3>1, <3>2, InPosFinite, SumConstant
      <3> QED
        BY <3>3, <3>4
    <2> QED
      BY <2>1, <2>2
  <1>3. InPos = {t \in Trades : InPosition(t)}
    BY DEF InPos
  <1> QED
    BY <1>1, <1>2, <1>3 DEF StatusTellsPosition, StatusGood

(* The stop a trade has recorded is on the exchange, or its successor is:  *)
(* lost answers, and what other trades of the symbol do, leave no trade in *)
(* the position with a record of a stop that is not there.                 *)
THEOREM RecordedCorrect == Spec => []RecordedStopIsLive
  BY Inductive, IInvRecorded, PTL

(* After the take profits a trade has handled, its live stop is at the     *)
(* entry price or at the take profit before, as its sl_mode has it.        *)
THEOREM LockCorrect == Spec => []TargetsLockIn
  BY Inductive, IInvLocked, PTL

(* Live stops of archived trades are no more than the answers lost.        *)
THEOREM OrphansCorrect == Spec => []OrphansAreRetries
  BY Inductive, IInvOrphans, PTL

(* A status tells whether the trade is in the position, and the position   *)
(* is one unit for each of those that are.                                 *)
THEOREM StatusCorrect == Spec => []StatusTellsPosition
  BY Inductive, IInvPosition, PTL

-----------------------------------------------------------------------------
(* The contract: a step of a trade guards, tightens or releases it.        *)

(* What a step of a trade keeps of it.                                     *)
Lasting(t) ==
    /\ Exited(t) => Exited(t)'
    /\ In(t, {"ARCHIVED"}) => In(t, {"ARCHIVED"})'
    /\ trade[t].order # 0 =>
          /\ trade'[t].order # 0
          /\ trade'[t].stop \in Int
          /\ Protects(plan[t].side, trade[t].stop, trade'[t].stop)

LEMMA AdoptedStop ==
    ASSUME IInv, NEW t \in Trades, Adopt(t), trade[t].order # 0
    PROVE  trade'[t].stop = NextStop(t) /\ trade'[t].order # 0
  <1> DEFINE found == byClient[StopId(t, Due(t))]
  <1>1. Book /\ Records /\ Good(t)
    BY DEF IInv
  <1>2. /\ Due(t) <= MaxHits /\ X!GetOrder(StopId(t, Due(t)))
        /\ trade' = [trade EXCEPT ![t].stop = stopPrice[found],
                                  ![t].order = found, ![t].done = Due(t)]
    BY DEF Adopt, Due
  <1>3. Due(t) \in 0 .. MaxHits /\ StopId(t, Due(t)) \in ClientIds
    BY <1>1, <1>2, PlanFacts, ClientFacts DEF Due, Records, TradeRecord
  <1>4. /\ found \in DOMAIN orders /\ found # 0
        /\ orders[found].client = StopId(t, Due(t))
    BY <1>1, <1>2, <1>3 DEF X!GetOrder, Book
  <1>5. stopPrice[found] = DuePrice(t) /\ DuePrice(t) = NextStop(t)
    BY <1>1, <1>3, <1>4 DEF Good, StopsGood, DuePrice
  <1> HIDE DEF found
  <1>6. trade'[t].stop = stopPrice[found] /\ trade'[t].order = found
    BY <1>1, <1>2 DEF Records, TradeRecord
  <1> QED
    BY <1>4, <1>5, <1>6

Acts(t) ==
    \/ Enter(t) \/ Protect(t) \/ Adjust(t) \/ Adopt(t) \/ Exit(t) \/ Archive(t) \/ Hit(t)
    \/ \E status \in {"OPEN", "CLOSING", "CLOSED", "MANUAL_REVIEW"} : Move(t, status)

LEMMA IdsKept ==
    ASSUME Book, NEW t \in Trades, Acts(t), NEW c \in ClientIds, byClient[c] # 0
    PROVE  byClient'[c] # 0
  <1>1. X!NextId # 0 /\ byClient \in [ClientIds -> Nat]
    BY DEF Book, X!NextId
  <1>2. \/ byClient' = byClient
        \/ \E d : byClient' = [byClient EXCEPT ![d] = X!NextId]
    BY DEF Acts, Enter, Exit, Place, Protect, Adjust, Adopt, Archive, Hit, Move,
           X!PlaceOrder, X!PlaceStop, X!ReplaceStop, X!AddStop, X!StopIndexed,
           X!CancelProtection, exchangeVars
  <1> QED
    BY <1>1, <1>2

LEMMA StopLasts ==
    ASSUME IInv, NEW t \in Trades, Acts(t), trade[t].order # 0
    PROVE  /\ trade'[t].order # 0
           /\ trade'[t].stop \in Int
           /\ Protects(plan[t].side, trade[t].stop, trade'[t].stop)
  <1>1. /\ Book /\ Records /\ Good(t) /\ plan[t].side \in Sides
        /\ trade \in [Trades -> TradeRecord] /\ trade[t] \in TradeRecord
    BY PlansAssumption DEF IInv, Records
  <1>2. trade[t].stop \in Int
    BY <1>1, RecordedIsOwn
  <1>3. NextStop(t) \in Int /\ Protects(plan[t].side, trade[t].stop, NextStop(t))
    BY <1>1, NextStopFacts, PlanFacts
  <1>4. Protects(plan[t].side, trade[t].stop, trade[t].stop)
    BY <1>1, <1>2, ProtectsOrder
  <1>5. CASE Adopt(t)
    BY <1>3, <1>5, AdoptedStop
  <1>6. CASE Adjust(t)
    <2>1. X!NextId # 0
      BY <1>1 DEF Book, X!NextId
    <2>2. \/ trade' = trade
          \/ trade' = [trade EXCEPT ![t] = [trade[t] EXCEPT !.stop = NextStop(t),
                                               !.order = X!NextId, !.done = @ + 1]]
      BY <1>6 DEF Adjust, Answered
    <2>3. \/ trade'[t] = trade[t]
          \/ trade'[t].stop = NextStop(t) /\ trade'[t].order = X!NextId
      BY <2>2, <1>1 DEF TradeRecord
    <2> QED
      BY <2>1, <2>3, <1>2, <1>3, <1>4
  <1>7. CASE Enter(t) \/ Exit(t) \/ Archive(t) \/ Hit(t)
             \/ \E status \in {"OPEN", "CLOSING", "CLOSED", "MANUAL_REVIEW"} : Move(t, status)
    <2>1. \/ trade' = trade
          \/ \E status : trade' = [trade EXCEPT ![t] = [trade[t] EXCEPT !.status = status]]
      BY <1>7 DEF Enter, Exit, Archive, Hit, Move, Answered
    <2>2. trade'[t].stop = trade[t].stop /\ trade'[t].order = trade[t].order
      BY <2>1, <1>1 DEF TradeRecord
    <2> QED
      BY <2>2, <1>2, <1>4
  <1>8. ~Protect(t)
    BY DEF Protect
  <1> QED
    BY <1>5, <1>6, <1>7, <1>8 DEF Acts

LEMMA LastingStep ==
    ASSUME IInv, NEW t \in Trades, Stepped(t), Acts(t)
    PROVE  Lasting(t)
  <1>1. Book /\ Book' /\ Records
    BY DEF IInv, Stepped
  <1>2. Exited(t) => Exited(t)'
    <2>1. ExitId(t) \in ClientIds
      BY ClientFacts
    <2>2. Exited(t) => byClient[ExitId(t)] # 0
      BY <1>1, KnownFacts
    <2>3. byClient'[ExitId(t)] # 0 => Exited(t)'
      BY <2>1, <1>1 DEF Exited, X!GetOrder, Book
    <2> QED
      BY <2>1, <2>2, <2>3, <1>1, IdsKept
  <1>3. In(t, {"ARCHIVED"}) => In(t, {"ARCHIVED"})'
    BY DEF Acts, Enter, Exit, Protect, Adjust, Adopt, Archive, Hit, Move, In,
           can_transition, _TRANSITIONS
  <1> QED
    BY <1>2, <1>3, StopLasts DEF Lasting

(* A step of one trade leaves the guards of the others alone.              *)
LEMMA OtherStops ==
    ASSUME IInv, NEW t \in Trades, Stepped(t), NEW u \in Trades \ {t}
    PROVE  /\ LiveStops(u)' = LiveStops(u)
           /\ \A i \in LiveStops(u) : stopPrice'[i] = stopPrice[i]
           /\ Exited(u)' = Exited(u) /\ In(u, {"ARCHIVED"})' = In(u, {"ARCHIVED"})
  <1>1. /\ Book /\ Book' /\ Records /\ Good(t) /\ Touches(t)
        /\ ExitSide(u)' = ExitSide(u)
    BY DEF IInv, Stepped, Touches, ExitSide, EntrySide
  <1>2. StopIds(u)' = StopIds(u) /\ \A c \in StopIds(u) : c \notin Own(t)
    BY OwnFacts DEF StopIds
  <1>3. \A i \in DOMAIN orders' : orders'[i].client \in StopIds(u) => i \in DOMAIN orders
    BY <1>1, <1>2 DEF Touches
  <1>4. ASSUME NEW i \in DOMAIN orders, orders[i].client \in StopIds(u)
        PROVE  /\ orders'[i].client = orders[i].client
               /\ orders'[i].side = orders[i].side
               /\ orders'[i].status = orders[i].status
               /\ stopPrice'[i] = stopPrice[i] /\ i \in DOMAIN orders'
    <2>1. i # trade[t].order
      <3>1. PICK k \in 0 .. MaxHits : orders[i].client = StopId(u, k)
        BY <1>4 DEF StopIds
      <3>2. 0 \notin DOMAIN orders
        BY <1>1 DEF Book
      <3> QED
        BY <3>1, <3>2, <1>1, RecordedIsOwn
    <2> QED
      BY <2>1, <1>1 DEF Touches
  <1>5. \A i \in DOMAIN orders : orders'[i].client = orders[i].client
    BY <1>1 DEF Touches
  <1>6. LiveStops(u)' = LiveStops(u)
    BY <1>1, <1>2, <1>3, <1>4, <1>5 DEF LiveStops
  <1>7. \A i \in LiveStops(u) : stopPrice'[i] = stopPrice[i]
    BY <1>4 DEF LiveStops
  <1>8. Exited(u)' = Exited(u)
    <2>1. /\ byClient'[EntryId(u)] = byClient[EntryId(u)]
          /\ byClient'[ExitId(u)] = byClient[ExitId(u)]
          /\ DOMAIN orders \subseteq DOMAIN orders'
      BY <1>1, OwnFacts, ClientFacts DEF Touches
    <2> QED
      BY <2>1, <1>1, PlaceKept
  <1>9. trade'[u] = trade[u]
    BY <1>1 DEF Touches
  <1> QED
    BY <1>6, <1>7, <1>8, <1>9 DEF In

(* The best of a trade's live stops is one of them, and no other is better. *)
BestGood ==
    \A t \in Trades : LiveStops(t) # {} =>
       /\ \E i \in LiveStops(t) : BestLevel(t) = stopPrice[i]
       /\ \A i \in LiveStops(t) : Protects(plan[t].side, stopPrice[i], BestLevel(t))
       /\ BestLevel(t) \in Levels
       /\ \A i \in LiveStops(t) : stopPrice[i] \in Levels

LEMMA IInvBest == IInv => BestGood
  <1> SUFFICES ASSUME IInv PROVE BestGood
    OBVIOUS
  <1> SUFFICES ASSUME NEW t \in Trades, LiveStops(t) # {}
               PROVE  /\ \E i \in LiveStops(t) : BestLevel(t) = stopPrice[i]
                      /\ \A i \in LiveStops(t) :
                            Protects(plan[t].side, stopPrice[i], BestLevel(t))
                      /\ BestLevel(t) \in Levels
                      /\ \A i \in LiveStops(t) : stopPrice[i] \in Levels
    BY DEF BestGood
  <1> DEFINE side == plan[t].side
             L == {stopPrice[i] : i \in LiveStops(t)}
             N == {-p : p \in L}
  <1>1. Book /\ Records /\ Good(t) /\ side \in Sides
    BY PlansAssumption DEF IInv, Records
  <1>2. \A i \in LiveStops(t) : stopPrice[i] \in Levels /\ stopPrice[i] \in Int
    <2> SUFFICES ASSUME NEW i \in LiveStops(t)
                 PROVE  stopPrice[i] \in Levels /\ stopPrice[i] \in Int
      OBVIOUS
    <2>1. PICK k \in 0 .. MaxHits : i \in DOMAIN orders /\ orders[i].client = StopId(t, k)
      BY DEF LiveStops, StopIds
    <2>2. stopPrice[i] \in Levels
      BY <2>1, <1>1 DEF Good, StopsGood
    <2> QED
      BY <2>2, PlanFacts
  <1>3. L # {} /\ (\A p \in L : p \in Int) /\ IsFiniteSet(L) /\ IsFiniteSet(N)
    <2>1. IsFiniteSet(LiveStops(t))
      <3>1. LiveStops(t) \subseteq DOMAIN orders
        BY DEF LiveStops
      <3> QED
        BY <3>1, <1>1, FiniteExtras, FS_Subset
    <2>2. [i \in LiveStops(t) |-> stopPrice[i]] \in Surjection(LiveStops(t), L)
      BY DEF Surjection
    <2>3. IsFiniteSet(L)
      <3> HIDE DEF L
      <3> QED
        BY <2>1, <2>2, FS_Surjection
    <2>4. [p \in L |-> -p] \in Surjection(L, N)
      BY DEF Surjection
    <2>5. IsFiniteSet(N)
      <3> HIDE DEF L, N
      <3> QED
        BY <2>3, <2>4, FS_Surjection
    <2> QED
      BY <2>3, <2>5, <1>2
  <1>4. \E p \in L : \A q \in L : Protects(side, q, p)
    <2>1. CASE side = "LONG"
      <3>1. \E m \in L : \A n \in L : m >= n
        <4> HIDE DEF L
        <4> QED
          BY <1>3, HasMaximum
      <3> HIDE DEF L
      <3> QED
        BY <3>1, <2>1 DEF Protects
    <2>2. CASE side = "SHORT"
      <3>1. N # {} /\ \A p \in N : p \in Int
        <4> HIDE DEF L
        <4> QED
          BY <1>3
      <3>2. PICK m \in N : \A n \in N : m >= n
        <4> HIDE DEF L, N
        <4> QED
          BY <3>1, <1>3, HasMaximum
      <3>3. PICK p \in L : m = -p
        OBVIOUS
      <3>4. \A q \in L : p <= q
        <4> SUFFICES ASSUME NEW q \in L PROVE p <= q
          OBVIOUS
        <4>1. m >= -q /\ p \in Int /\ q \in Int
          BY <3>2, <1>3
        <4> QED
          BY <4>1, <3>3
      <3> HIDE DEF L, N
      <3> QED
        BY <3>4, <2>2 DEF Protects
    <2> QED
      BY <2>1, <2>2, <1>1 DEF Sides
  <1>5. BestLevel(t) \in L /\ \A q \in L : Protects(side, q, BestLevel(t))
    <2>1. BestLevel(t) = CHOOSE p \in L : \A q \in L : Protects(side, q, p)
      BY DEF BestLevel
    <2> HIDE DEF L, side
    <2> QED
      BY <2>1, <1>4
  <1> QED
    BY <1>2, <1>5

(* A trade that goes on is guarded at least as well after a step.          *)
LEMMA GuardLasts ==
    ASSUME IInv, IInv', BestGood, BestGood', RecordedStopIsLive',
           NEW t \in Trades, Stepped(t), Lasting(t), ~Exited(t)', LiveStops(t) # {}
    PROVE  /\ LiveStops(t)' # {}
           /\ Protects(plan[t].side, BestLevel(t), BestLevel(t)')
  <1> DEFINE side == plan[t].side
  <1>1. /\ Book /\ Book' /\ Records /\ Good(t) /\ Good(t)' /\ Touches(t) /\ Accounted(t)
        /\ side \in Sides /\ plan' = plan /\ ExitSide(t)' = ExitSide(t)
        /\ StopIds(t)' = StopIds(t)
    BY PlansAssumption DEF IInv, Stepped, Touches, Records, ExitSide, EntrySide, StopIds
  <1>2. PICK i \in LiveStops(t) : BestLevel(t) = stopPrice[i]
    BY DEF BestGood
  <1>3. BestLevel(t) \in Int
    BY PlanFacts DEF BestGood
  <1>4. /\ i \in DOMAIN orders /\ orders[i].client \in StopIds(t)
        /\ orders[i].status = "NEW" /\ orders[i].side = ExitSide(t)
    BY DEF LiveStops
  <1>5. \E j \in LiveStops(t)' : /\ stopPrice'[j] \in Int
                                 /\ Protects(side, BestLevel(t), stopPrice'[j])
    <2>1. CASE orders'[i].status = "NEW"
      <3>1. i \in LiveStops(t)'
        BY <2>1, <1>1, <1>4 DEF LiveStops, Touches
      <3>2. stopPrice'[i] = stopPrice[i]
        BY <1>1, <1>4 DEF Touches
      <3> QED
        BY <3>1, <3>2, <1>1, <1>2, <1>3, ProtectsOrder
    <2>2. CASE orders'[i].status # "NEW"
      <3>1. i = trade[t].order /\ trade[t].order # 0
        BY <2>2, <1>1, <1>4 DEF Touches, Book
      <3>2. /\ trade[t].stop = BestLevel(t)
            /\ trade'[t].order # 0 /\ trade'[t].stop \in Int
            /\ Protects(side, BestLevel(t), trade'[t].stop)
        BY <3>1, <1>1, <1>2, RecordedIsOwn DEF Lasting
      <3>3. InPosition(t)'
        BY <3>2, <1>1 DEF InPosition, Good, RecordGood
      <3>4. GuardedAt(t, trade[t].stop)'
        BY NoneAssumption, <3>2, <3>3 DEF RecordedStopIsLive
      <3>5. PICK j \in LiveStops(t)' : Protects(side, trade'[t].stop, stopPrice'[j])
        BY <3>4, <1>1 DEF GuardedAt
      <3>6. stopPrice'[j] \in Int
        BY PlanFacts DEF BestGood
      <3> QED
        BY <3>2, <3>5, <3>6, <1>1, <1>3, ProtectsOrder
    <2> QED
      BY <2>1, <2>2
  <1>6. PICK j \in LiveStops(t)' : /\ stopPrice'[j] \in Int
                                   /\ Protects(side, BestLevel(t), stopPrice'[j])
    BY <1>5
  <1>7. BestLevel(t)' \in Int /\ Protects(side, stopPrice'[j], BestLevel(t)')
    BY <1>1, PlanFacts DEF BestGood
  <1> QED
    BY <1>1, <1>3, <1>6, <1>7, ProtectsOrder

View(t) ==
    IF Exited(t) \/ In(t, {"ARCHIVED"}) THEN Gone
    ELSE IF LiveStops(t) = {} THEN Unguarded ELSE BestLevel(t)

LEMMA ContractStep ==
    ASSUME IInv, IInv', BestGood, BestGood', RecordedStopIsLive',
           NEW t \in Trades, Stepped(t), Lasting(t)
    PROVE  [Contract!Next]_<<[u \in Trades |-> plan[u].side], GuardView>>
  <1>1. GuardView = [u \in Trades |-> View(u)] /\ GuardView' = [u \in Trades |-> View(u)']
    BY DEF GuardView, View
  <1>2. /\ plan' = plan /\ plan[t].side \in Sides
        /\ [u \in Trades |-> plan[u].side]' = [u \in Trades |-> plan[u].side]
    BY PlansAssumption DEF IInv, Records, Stepped, Touches
  <1>3. \A u \in Trades \ {t} : View(u)' = View(u)
    <2> SUFFICES ASSUME NEW u \in Trades \ {t} PROVE View(u)' = View(u)
      OBVIOUS
    <2>1. /\ LiveStops(u)' = LiveStops(u)
          /\ \A i \in LiveStops(u) : stopPrice'[i] = stopPrice[i]
          /\ Exited(u)' = Exited(u) /\ In(u, {"ARCHIVED"})' = In(u, {"ARCHIVED"})
      BY OtherStops
    <2>2. {stopPrice[i] : i \in LiveStops(u)}' = {stopPrice[i] : i \in LiveStops(u)}
      BY <2>1
    <2>3. BestLevel(u)' = BestLevel(u)
      BY <2>2, <1>2 DEF BestLevel
    <2> QED
      BY <2>1, <2>3 DEF View
  <1>4. GuardView' = [GuardView EXCEPT ![t] = View(t)']
    BY <1>1, <1>3
  <1>5. GuardView[t] = View(t) /\ DOMAIN GuardView = Trades
    BY <1>1
  <1>6. CASE View(t)' = View(t)
    <2>1. GuardView' = GuardView
      BY <1>1, <1>3, <1>6
    <2> QED
      BY <2>1, <1>2
  <1>7. CASE View(t)' = Gone
    <2>1. Contract!Release(t)
      BY <1>4, <1>7 DEF Contract!Release
    <2> QED
      BY <2>1, <1>2 DEF Contract!Next
  <1>8. CASE View(t)' # View(t) /\ View(t)' # Gone
    <2>1. ~Exited(t)' /\ ~In(t, {"ARCHIVED"})'
      BY <1>8 DEF View
    <2>2. ~Exited(t) /\ ~In(t, {"ARCHIVED"})
      BY <2>1 DEF Lasting
    <2>3. CASE LiveStops(t) = {}
      <3>1. View(t) = Unguarded /\ LiveStops(t)' # {} /\ View(t)' = BestLevel(t)'
        BY <2>1, <2>2, <2>3, <1>8 DEF View
      <3>2. View(t)' \in Levels
        BY <3>1 DEF BestGood
      <3>3. Contract!Guard(t, View(t)')
        BY <3>1, <1>4, <1>5 DEF Contract!Guard
      <3> QED
        BY <3>2, <3>3, <1>2 DEF Contract!Next
    <2>4. CASE LiveStops(t) # {}
      <3>1. /\ LiveStops(t)' # {}
            /\ Protects(plan[t].side, BestLevel(t), BestLevel(t)')
        BY <2>1, <2>4, GuardLasts
      <3>2. View(t) = BestLevel(t) /\ View(t)' = BestLevel(t)'
        BY <3>1, <2>1, <2>2, <2>4 DEF View
      <3>3. View(t) \in Levels /\ View(t)' \in Levels
        BY <3>1, <3>2, <2>4 DEF BestGood
      <3>4. Contract!Better(t, View(t)')
        BY <3>1, <3>2, <1>2, <1>5 DEF Contract!Better, Protects, Sides
      <3>5. Contract!Tighten(t, View(t)')
        BY <3>3, <3>4, <1>4, <1>5 DEF Contract!Tighten
      <3> QED
        BY <3>3, <3>5, <1>2 DEF Contract!Next
    <2> QED
      BY <2>3, <2>4
  <1> QED
    BY <1>6, <1>7, <1>8

LEMMA ContractInit == Init => Contract!Init
  <1> SUFFICES ASSUME Init PROVE Contract!Init
    OBVIOUS
  <1>1. /\ orders = <<>> /\ plan \in [Trades -> Plans]
        /\ trade = [t \in Trades |-> NewTrade]
    BY DEF Init, X!Init
  <1>2. DOMAIN orders = {}
    BY <1>1
  <1>3. \A t \in Trades : ~Exited(t) /\ ~In(t, {"ARCHIVED"}) /\ LiveStops(t) = {}
    BY <1>1, <1>2 DEF Exited, X!GetOrder, In, NewTrade, LiveStops
  <1>4. GuardView = [t \in Trades |-> Unguarded]
    BY <1>3 DEF GuardView
  <1>5. [t \in Trades |-> plan[t].side] \in [Trades -> {"LONG", "SHORT"}]
    BY PlansAssumption, <1>1 DEF Sides
  <1> QED
    BY <1>4, <1>5 DEF Contract!Init

LEMMA ContractNext ==
    ASSUME IInv, IInv', BestGood, BestGood', RecordedStopIsLive', [Next]_vars
    PROVE  [Contract!Next]_<<[t \in Trades |-> plan[t].side], GuardView>>
  <1>1. CASE UNCHANGED vars
    <2>1. /\ orders' = orders /\ byClient' = byClient /\ stopPrice' = stopPrice
          /\ plan' = plan /\ trade' = trade
      BY <1>1 DEF vars, exchangeVars
    <2>2. GuardView' = GuardView
      BY <2>1 DEF GuardView, Exited, X!GetOrder, In, LiveStops, BestLevel, ExitSide, EntrySide
    <2> QED
      BY <2>1, <2>2
  <1>2. ASSUME NEW t \in Trades, Acts(t)
        PROVE  [Contract!Next]_<<[u \in Trades |-> plan[u].side], GuardView>>
    <2>1. Stepped(t)
      BY <1>2, EnterStep, ExitStep, ProtectStep, AdjustStep, AdoptStep, ArchiveStep,
         HitStep, MoveStep DEF Acts
    <2>2. Lasting(t)
      BY <2>1, <1>2, LastingStep
    <2> QED
      BY <2>1, <2>2, ContractStep
  <1> QED
    BY <1>1, <1>2 DEF Next, Acts

(* Every trade that gets a stop keeps to StopContract: its guard moves in  *)
(* the protective direction only, and goes with the trade's position or    *)
(* its archiving, for good (core/protection/planner.py:5).                 *)
THEOREM ContractImplemented == Spec => ImplementsContract
  <1>1. Spec => []BestGood
    BY Inductive, IInvBest, PTL
  <1>2. IInv /\ IInv' /\ BestGood /\ BestGood' /\ RecordedStopIsLive' /\ [Next]_vars
           => [Contract!Next]_<<[t \in Trades |-> plan[t].side], GuardView>>
    BY ContractNext
  <1> QED
    BY <1>1, <1>2, ContractInit, Inductive, RecordedCorrect, PTL
       DEF Spec, ImplementsContract, Contract!Spec
=============================================================================
