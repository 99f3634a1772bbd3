--------------------------- MODULE ExchangeProofs ---------------------------
(***************************************************************************)
(* Theorems of Exchange, for every set of symbols, clients, quantities and *)
(* prices and every bound.  The inductive invariant IInv joins the types   *)
(* of the order book with ClientIndex, NoDoubleFill and                    *)
(* ProtectionIsNewest: a client id is executed once because the index,     *)
(* even when place_stop overwrites it, never forgets that the id was used. *)
(* AccountInv adds the positions, and PnLInv the profit and loss, on one   *)
(* denominator for all the fractions there are.                            *)
(***************************************************************************)
EXTENDS Exchange, Sums, TLAPS

USE SymbolsAssumption, TypesAssumption, NumbersAssumption, PositionAssumption

BookType ==
    /\ orders \in Seq(Order)
    /\ byClient \in [Clients -> Nat]
    /\ protection \in [Symbols -> Nat]
    /\ mark \in [Symbols -> Prices \cup {StartPrice}]

(* ClientIndex without its LET: what the provers work with.                *)
Index ==
    \A c \in Clients :
       /\ byClient[c] = 0 => \A i \in DOMAIN orders : orders[i].client # c
       /\ byClient[c] # 0 =>
             /\ byClient[c] \in DOMAIN orders
             /\ orders[byClient[c]].client = c
             /\ \A i \in DOMAIN orders : orders[i].client = c => i <= byClient[c]

IInv == BookType /\ Index /\ NoDoubleFill /\ ProtectionIsNewest

(* The two orders differ in their status at most.                          *)
SameOrder(x, y) == x.client = y.client /\ x.symbol = y.symbol /\ x.type = y.type

LEMMA IndexIsClientIndex == BookType /\ Index => ClientIndex
  <1> SUFFICES ASSUME BookType, Index, NEW c \in Clients
               PROVE  LET own == {i \in DOMAIN orders : orders[i].client = c}
                      IN  IF own = {} THEN byClient[c] = 0
                          ELSE byClient[c] \in own /\ \A i \in own : i <= byClient[c]
    BY DEF ClientIndex
  <1>1. CASE byClient[c] = 0
    BY <1>1 DEF Index
  <1>2. CASE byClient[c] # 0
    BY <1>2 DEF Index
  <1>3. QED
    BY <1>1, <1>2

(* Cancelling an order, or none, changes a status and nothing else.        *)
LEMMA WithStatusFacts ==
    ASSUME BookType, NEW id
    PROVE  LET os == WithStatus(orders, id, "CANCELED")
           IN  /\ os \in Seq(Order)
               /\ Len(os) = Len(orders)
               /\ DOMAIN os = DOMAIN orders
               /\ \A i \in DOMAIN orders : SameOrder(os[i], orders[i])
  <1>1. CASE id \in DOMAIN orders
    <2> DEFINE new == [orders[id] EXCEPT !.status = "CANCELED"]
               os == [orders EXCEPT ![id] = new]
    <2>1. orders \in Seq(Order) /\ orders[id] \in Order
      BY <1>1 DEF BookType
    <2>2. new \in Order /\ SameOrder(new, orders[id])
      BY <2>1 DEF Order, SameOrder
    <2> HIDE DEF new
    <2>3. /\ os \in Seq(Order) /\ Len(os) = Len(orders) /\ DOMAIN os = DOMAIN orders
          /\ \A i \in DOMAIN orders : os[i] = IF i = id THEN new ELSE orders[i]
      BY <1>1, <2>1, <2>2
    <2>4. \A i \in DOMAIN orders : SameOrder(os[i], orders[i])
      BY <2>2, <2>3 DEF SameOrder
    <2>5. WithStatus(orders, id, "CANCELED") = os
      BY <1>1 DEF WithStatus, new
    <2>6. QED
      BY <2>3, <2>4, <2>5
  <1>2. CASE id \notin DOMAIN orders
    BY <1>2 DEF WithStatus, BookType, SameOrder
  <1>3. QED
    BY <1>1, <1>2

(* Changing statuses only, and forgetting protections, keeps the invariant. *)
LEMMA StatusIInv ==
    ASSUME IInv, orders' \in Seq(Order), DOMAIN orders' = DOMAIN orders,
           \A i \in DOMAIN orders : SameOrder(orders'[i], orders[i]),
           byClient' = byClient, mark' \in [Symbols -> Prices \cup {StartPrice}],
           protection' \in [Symbols -> Nat],
           \A s \in Symbols : protection'[s] \in {0, protection[s]}
    PROVE  IInv'
  <1>1. BookType'
    BY DEF IInv, BookType
  <1>2. Index'
    <2> SUFFICES ASSUME NEW c \in Clients
                 PROVE  /\ byClient[c] = 0 => \A i \in DOMAIN orders : orders'[i].client # c
                        /\ byClient[c] # 0 =>
                              /\ byClient[c] \in DOMAIN orders
                              /\ orders'[byClient[c]].client = c
                              /\ \A i \in DOMAIN orders :
                                    orders'[i].client = c => i <= byClient[c]
      BY DEF Index
    <2>1. \A i \in DOMAIN orders : orders'[i].client = orders[i].client
      BY DEF SameOrder
    <2> QED
      BY <2>1 DEF IInv, Index
  <1>3. NoDoubleFill'
    BY DEF IInv, NoDoubleFill, Executed, SameOrder
  <1>4. ProtectionIsNewest'
    BY DEF IInv, ProtectionIsNewest, SameOrder
  <1>5. QED
    BY <1>1, <1>2, <1>3, <1>4 DEF IInv

(* Accepting an order, on a book whose statuses may have changed, keeps    *)
(* the invariant if an executed order has a client id the index lacks.     *)
LEMMA AcceptIInv ==
    ASSUME IInv, NEW os \in Seq(Order), Len(os) = Len(orders),
           \A i \in DOMAIN orders : SameOrder(os[i], orders[i]),
           NEW new \in Order,
           orders' = Append(os, new),
           byClient' = [byClient EXCEPT ![new.client] = NextId],
           Executed(new) => byClient[new.client] = 0,
           mark' = mark,
           IF new.type = "STOP_MARKET"
           THEN protection' = [protection EXCEPT ![new.symbol] = NextId]
           ELSE protection' = protection
    PROVE  IInv'
  <1>1. orders \in Seq(Order) /\ Len(orders) \in Nat
    BY DEF IInv, BookType
  <1>2. /\ orders' \in Seq(Order)
        /\ DOMAIN orders = 1 .. Len(orders)
        /\ DOMAIN orders' = 1 .. NextId
        /\ NextId = Len(orders) + 1
        /\ orders'[NextId] = new
        /\ \A i \in DOMAIN orders : SameOrder(orders'[i], orders[i])
    BY <1>1 DEF NextId
  <1>3. new.client \in Clients /\ new.symbol \in Symbols
    BY DEF Order
  <1>4. BookType'
    <2>1. byClient' \in [Clients -> Nat]
      BY <1>1, <1>2, <1>3 DEF IInv, BookType
    <2>2. protection' \in [Symbols -> Nat]
      <3>1. protection \in [Symbols -> Nat] /\ NextId \in Nat
        BY <1>1, <1>2 DEF IInv, BookType
      <3>2. CASE new.type = "STOP_MARKET"
        BY <1>3, <3>1, <3>2
      <3>3. CASE new.type # "STOP_MARKET"
        BY <3>1, <3>3
      <3>4. QED
        BY <3>2, <3>3
    <2>3. QED
      BY <1>2, <2>1, <2>2 DEF IInv, BookType
  <1>5. Index'
    <2> SUFFICES ASSUME NEW c \in Clients
                 PROVE  /\ byClient'[c] = 0 =>
                              \A i \in DOMAIN orders' : orders'[i].client # c
                        /\ byClient'[c] # 0 =>
                              /\ byClient'[c] \in DOMAIN orders'
                              /\ orders'[byClient'[c]].client = c
                              /\ \A i \in DOMAIN orders' :
                                    orders'[i].client = c => i <= byClient'[c]
      BY DEF Index
    <2>1. CASE c = new.client
      BY <1>1, <1>2, <2>1 DEF IInv, BookType
    <2>2. CASE c # new.client
      <3>1. byClient'[c] = byClient[c]
        BY <1>3, <2>2 DEF IInv, BookType
      <3>2. /\ byClient[c] = 0 => \A i \in DOMAIN orders : orders[i].client # c
            /\ byClient[c] # 0 =>
                  /\ byClient[c] \in DOMAIN orders
                  /\ orders[byClient[c]].client = c
                  /\ \A i \in DOMAIN orders :
                        orders[i].client = c => i <= byClient[c]
        BY DEF IInv, Index
      <3>3. \A i \in DOMAIN orders : orders'[i].client = orders[i].client
        BY <1>2 DEF SameOrder
      <3>4. \A i \in DOMAIN orders' :
               i \in DOMAIN orders \/ orders'[i].client # c
        BY <1>2, <2>2
      <3>5. DOMAIN orders \subseteq DOMAIN orders'
        BY <1>1, <1>2
      <3>6. QED
        BY <3>1, <3>2, <3>3, <3>4, <3>5
    <2>3. QED
      BY <2>1, <2>2
  <1>6. NoDoubleFill'
    <2>1. Executed(new) => \A i \in DOMAIN orders : orders[i].client # new.client
      BY <1>3 DEF IInv, Index
    <2>2. ASSUME NEW i \in DOMAIN orders', NEW j \in DOMAIN orders',
                 Executed(orders'[i]), Executed(orders'[j]),
                 orders'[i].client = orders'[j].client
          PROVE  i = j
      <3>1. CASE i \in DOMAIN orders /\ j \in DOMAIN orders
        BY <1>2, <2>2, <3>1 DEF IInv, NoDoubleFill, Executed, SameOrder
      <3>2. CASE i = NextId /\ j = NextId
        BY <3>2
      <3>3. CASE i = NextId /\ j \in DOMAIN orders
        BY <1>2, <2>1, <2>2, <3>3 DEF SameOrder
      <3>4. CASE i \in DOMAIN orders /\ j = NextId
        BY <1>2, <2>1, <2>2, <3>4 DEF SameOrder
      <3>5. QED
        BY <1>1, <1>2, <3>1, <3>2, <3>3, <3>4
    <2>3. QED
      BY <2>2 DEF NoDoubleFill
  <1>7. ProtectionIsNewest'
    <2> SUFFICES ASSUME NEW s \in Symbols, protection'[s] # 0
                 PROVE  /\ protection'[s] \in DOMAIN orders'
                        /\ orders'[protection'[s]].symbol = s
                        /\ \A i \in DOMAIN orders' :
                              orders'[i].type = "STOP_MARKET" /\ orders'[i].symbol = s
                              => i <= protection'[s]
      BY DEF ProtectionIsNewest
    <2>1. CASE new.type = "STOP_MARKET" /\ s = new.symbol
      <3>1. protection'[s] = NextId
        BY <2>1 DEF IInv, BookType
      <3>2. QED
        BY <1>1, <1>2, <2>1, <3>1
    <2>2. CASE ~(new.type = "STOP_MARKET" /\ s = new.symbol)
      <3>1. protection'[s] = protection[s]
        BY <2>2, <1>3 DEF IInv, BookType
      <3>2. /\ protection[s] \in DOMAIN orders
            /\ orders[protection[s]].symbol = s
            /\ \A i \in DOMAIN orders :
                  orders[i].type = "STOP_MARKET" /\ orders[i].symbol = s
                  => i <= protection[s]
        BY <3>1 DEF IInv, ProtectionIsNewest
      <3>3. ASSUME NEW i \in DOMAIN orders',
                   orders'[i].type = "STOP_MARKET", orders'[i].symbol = s
            PROVE  i <= protection[s]
        <4>1. i \in DOMAIN orders
          BY <1>1, <1>2, <2>2, <3>3
        <4>2. QED
          BY <1>2, <3>2, <3>3, <4>1 DEF SameOrder
      <3>4. QED
        BY <1>1, <1>2, <3>1, <3>2, <3>3 DEF SameOrder
    <2>3. QED
      BY <2>1, <2>2
  <1>8. QED
    BY <1>4, <1>5, <1>6, <1>7 DEF IInv

-----------------------------------------------------------------------------
LEMMA InitIInv == Init => IInv
  BY DEF Init, IInv, BookType, Index, NoDoubleFill, ProtectionIsNewest

LEMMA NewOrderType ==
    ASSUME BookType, NEW c \in Clients, NEW s \in Symbols, NEW side \in Sides,
           NEW type \in OrderTypes \cup {"STOP_MARKET"}, NEW q \in Quantities,
           NEW r \in BOOLEAN
    PROVE  /\ NewOrder(c, s, side, type, q, r) \in Order
           /\ NewOrder(c, s, side, type, q, r).client = c
           /\ NewOrder(c, s, side, type, q, r).symbol = s
           /\ NewOrder(c, s, side, type, q, r).type = type
  BY DEF NewOrder, InitialStatus, FillsAtOnce, Order, BookType

LEMMA PlaceOrderIInv ==
    ASSUME IInv, NEW c \in Clients, NEW s \in Symbols, NEW side \in Sides,
           NEW type \in OrderTypes, NEW q \in Quantities, NEW r \in BOOLEAN,
           PlaceOrder(c, s, side, type, q, r)
    PROVE  IInv'
  <1> DEFINE new == NewOrder(c, s, side, type, q, r)
  <1>1. new \in Order /\ new.client = c /\ new.symbol = s /\ new.type = type
    BY NewOrderType DEF IInv
  <1>2. /\ orders' = Append(orders, new)
        /\ byClient' = [byClient EXCEPT ![c] = NextId]
        /\ protection' = protection /\ mark' = mark /\ byClient[c] = 0
    BY DEF PlaceOrder, FillsAtOnce, KnownClient
  <1>3. type # "STOP_MARKET"
    OBVIOUS
  <1>4. orders \in Seq(Order) /\ \A i \in DOMAIN orders : SameOrder(orders[i], orders[i])
    BY DEF IInv, BookType, SameOrder
  <1> HIDE DEF new
  <1>5. QED
    BY <1>1, <1>2, <1>3, <1>4, AcceptIInv

LEMMA AddStopIInv ==
    ASSUME IInv, NEW os \in Seq(Order), Len(os) = Len(orders),
           \A i \in DOMAIN orders : SameOrder(os[i], orders[i]),
           NEW c \in Clients, NEW s \in Symbols, NEW side \in Sides,
           NEW q \in Quantities, AddStop(os, c, s, side, q)
    PROVE  IInv'
  <1> DEFINE new == NewOrder(c, s, side, "STOP_MARKET", q, TRUE)
  <1>0. BookType /\ "STOP_MARKET" \in OrderTypes \cup {"STOP_MARKET"} /\ TRUE \in BOOLEAN
    BY DEF IInv
  <1>1. new \in Order /\ new.client = c /\ new.symbol = s /\ new.type = "STOP_MARKET"
    BY <1>0 DEF NewOrder, InitialStatus, FillsAtOnce, Order, BookType
  <1>2. /\ orders' = Append(os, new)
        /\ byClient' = [byClient EXCEPT ![c] = NextId]
        /\ protection' = [protection EXCEPT ![s] = NextId]
        /\ mark' = mark
    BY DEF AddStop, StopIndexed, StopRecorded
  <1> HIDE DEF new
  <1>3. QED
    BY <1>1, <1>2, AcceptIInv DEF Executed

LEMMA NextIInv == IInv /\ [Next]_vars => IInv'
  <1> SUFFICES ASSUME IInv, [Next]_vars PROVE IInv'
    OBVIOUS
  <1> USE DEF IInv
  <1>1. \A i \in DOMAIN orders : SameOrder(orders[i], orders[i])
    BY DEF SameOrder
  <1>2. ASSUME NEW c \in Clients, NEW s \in Symbols, NEW side \in Sides,
               NEW q \in Quantities, NEW type \in OrderTypes, NEW r \in BOOLEAN,
               PlaceOrder(c, s, side, type, q, r)
        PROVE  IInv'
    BY <1>2, PlaceOrderIInv
  <1>3. ASSUME NEW c \in Clients, NEW s \in Symbols, NEW side \in Sides,
               NEW q \in Quantities, PlaceStop(c, s, side, q)
        PROVE  IInv'
    BY <1>1, <1>3, AddStopIInv DEF PlaceStop, BookType
  <1>4. ASSUME NEW id \in Named, NEW c \in Clients, NEW s \in Symbols,
               NEW q \in Quantities, ReplaceStop(id, c, s, q)
        PROVE  IInv'
    <2> DEFINE os == WithStatus(orders, id, "CANCELED")
               side == IF id \in DOMAIN orders THEN orders[id].side ELSE SELL
    <2>1. /\ os \in Seq(Order) /\ Len(os) = Len(orders)
          /\ \A i \in DOMAIN orders : SameOrder(os[i], orders[i])
      BY WithStatusFacts
    <2>2. side \in Sides
      <3>1. SELL \in Sides
        BY DEF Sides
      <3>2. id \in DOMAIN orders => orders[id].side \in Sides
        <4>1. orders \in Seq(Order)
          BY DEF BookType
        <4>2. id \in DOMAIN orders => orders[id] \in Order
          BY <4>1
        <4>3. QED
          BY <4>2 DEF Order
      <3>3. QED
        BY <3>1, <3>2
    <2>3. AddStop(os, c, s, side, q)
      BY <1>4 DEF ReplaceStop
    <2> HIDE DEF os, side
    <2>4. QED
      BY <2>1, <2>2, <2>3, AddStopIInv
  <1>5. ASSUME NEW id \in Named, NEW s \in Symbols, CancelProtection(s, id)
        PROVE  IInv'
    <2>1. /\ orders' \in Seq(Order) /\ DOMAIN orders' = DOMAIN orders
          /\ \A i \in DOMAIN orders : SameOrder(orders'[i], orders[i])
      BY <1>5, WithStatusFacts DEF CancelProtection
    <2>2. /\ byClient' = byClient /\ mark' = mark
          /\ protection' \in [Symbols -> Nat]
          /\ \A t \in Symbols : protection'[t] \in {0, protection[t]}
      BY <1>5 DEF CancelProtection, BookType
    <2>3. QED
      BY <2>1, <2>2, StatusIInv DEF BookType
  <1>6. ASSUME NEW id \in Named, CancelOrder(id)
        PROVE  IInv'
    <2>1. /\ orders' \in Seq(Order) /\ DOMAIN orders' = DOMAIN orders
          /\ \A i \in DOMAIN orders : SameOrder(orders'[i], orders[i])
      BY <1>6, WithStatusFacts DEF CancelOrder
    <2>2. byClient' = byClient /\ mark' = mark /\ protection' = protection
      BY <1>6 DEF CancelOrder
    <2>3. QED
      BY <2>1, <2>2, StatusIInv DEF BookType
  <1>7. ASSUME NEW s \in Symbols, NEW p \in Prices, SetMarkPrice(s, p)
        PROVE  IInv'
    BY <1>1, <1>7, StatusIInv DEF SetMarkPrice, BookType
  <1>8. ASSUME NEW b \in BOOLEAN, SetConnected(b)
        PROVE  IInv'
    BY <1>1, <1>8, StatusIInv DEF SetConnected, BookType
  <1>9. CASE UNCHANGED vars
    BY <1>1, <1>9, StatusIInv DEF vars, BookType
  <1>10. QED
    BY <1>2, <1>3, <1>4, <1>5, <1>6, <1>7, <1>8, <1>9 DEF Next

(* The inductive invariant holds for every behaviour of the exchange.      *)
THEOREM Inductive == Spec => []IInv
  BY InitIInv, NextIInv, PTL DEF Spec

(* A client id is executed at most once, whatever is retried, replaced or  *)
(* cancelled in between.                                                   *)
THEOREM FillCorrect == Spec => []NoDoubleFill
  BY Inductive, PTL DEF IInv

(* The index names the newest order of every client id that was used.      *)
THEOREM IndexCorrect == Spec => []ClientIndex
  <1>1. IInv => ClientIndex
    BY IndexIsClientIndex DEF IInv
  <1>2. QED
    BY <1>1, Inductive, PTL

(* A protection record is the newest stop placed for its symbol.           *)
THEOREM ProtectionCorrect == Spec => []ProtectionIsNewest
  BY Inductive, PTL DEF IInv

-----------------------------------------------------------------------------
(* What an accepted order keeps, and what moves positions.                 *)

(* os has every order of the book, cancelled at most.                      *)
Kept(os) ==
    \A i \in DOMAIN orders :
       /\ i \in DOMAIN os
       /\ os[i] \in {orders[i], [orders[i] EXCEPT !.status = "CANCELED"]}

LEMMA WithStatusKeeps ==
    ASSUME BookType, NEW id
    PROVE  Kept(WithStatus(orders, id, "CANCELED"))
  BY DEF WithStatus, BookType, Kept

LEMMA AppendKeeps ==
    ASSUME BookType, NEW os \in Seq(Order), Kept(os), NEW new, orders' = Append(os, new)
    PROVE  Kept(orders')
  BY DEF Kept, BookType

LEMMA StopKeeps ==
    ASSUME BookType, NEW os \in Seq(Order), Kept(os),
           NEW c, NEW s, NEW side, NEW q, AddStop(os, c, s, side, q)
    PROVE  Kept(orders')
  BY AppendKeeps DEF AddStop

LEMMA NextKeeps ==
    ASSUME BookType, [Next]_vars
    PROVE  Kept(orders')
  <1>0. Kept(orders) /\ orders \in Seq(Order)
    BY DEF Kept, BookType
  <1>1. ASSUME NEW c \in Clients, NEW s \in Symbols, NEW side \in Sides,
               NEW q \in Quantities, NEW type \in OrderTypes, NEW r \in BOOLEAN,
               PlaceOrder(c, s, side, type, q, r)
        PROVE  Kept(orders')
    BY <1>0, <1>1, AppendKeeps DEF PlaceOrder
  <1>2. ASSUME NEW c \in Clients, NEW s \in Symbols, NEW side \in Sides,
               NEW q \in Quantities, PlaceStop(c, s, side, q)
        PROVE  Kept(orders')
    BY <1>0, <1>2, StopKeeps DEF PlaceStop
  <1>3. ASSUME NEW id \in Named, NEW c \in Clients, NEW s \in Symbols,
               NEW q \in Quantities, ReplaceStop(id, c, s, q)
        PROVE  Kept(orders')
    <2> DEFINE os == WithStatus(orders, id, "CANCELED")
    <2>1. os \in Seq(Order) /\ Kept(os)
      BY WithStatusFacts, WithStatusKeeps
    <2> QED
      BY <1>3, <2>1, StopKeeps DEF ReplaceStop
  <1>4. ASSUME NEW id \in Named, NEW s \in Symbols, CancelProtection(s, id)
        PROVE  Kept(orders')
    BY <1>4, WithStatusKeeps DEF CancelProtection
  <1>5. ASSUME NEW id \in Named, CancelOrder(id)
        PROVE  Kept(orders')
    BY <1>5, WithStatusKeeps DEF CancelOrder
  <1>6. CASE UNCHANGED orders
    BY <1>0, <1>6 DEF Kept
  <1> QED
    BY <1>1, <1>2, <1>3, <1>4, <1>5, <1>6
       DEF Next, vars, SetMarkPrice, SetConnected

(* No order is forgotten or changed but to CANCELED, by any call           *)
(* (adapters/binance/mock.py 132-254).                                     *)
THEOREM FinalityCorrect == Spec => OrderFinality
  <1>1. BookType /\ [Next]_vars =>
          [\A i \in DOMAIN orders :
              /\ i \in DOMAIN orders'
              /\ orders'[i] \in {orders[i], [orders[i] EXCEPT !.status = "CANCELED"]}]_vars
    BY NextKeeps DEF Kept
  <1> QED
    BY <1>1, Inductive, PTL DEF Spec, IInv, OrderFinality

LEMMA InitHolds == Init => DOMAIN position = Symbols
  BY DEF Init

LEMMA NextHolds ==
    DOMAIN position = Symbols /\ [Next]_vars => (DOMAIN position = Symbols)'
  <1> SUFFICES ASSUME DOMAIN position = Symbols, [Next]_vars
               PROVE  (DOMAIN position = Symbols)'
    OBVIOUS
  <1>1. ASSUME NEW c, NEW s, NEW side, NEW type, NEW q, NEW r,
               PlaceOrder(c, s, side, type, q, r)
        PROVE  DOMAIN position' = DOMAIN position
    <2>1. CASE position' = position
      BY <2>1
    <2>2. CASE position' = [position EXCEPT ![s] = Filled(@, side * q, mark[s])]
      BY <2>2
    <2> QED
      BY <1>1, <2>1, <2>2 DEF PlaceOrder, ApplyFill, accountVars
  <1>2. position' = position \/ \E c \in Clients, s \in Symbols, side \in Sides,
           q \in Quantities, type \in OrderTypes, r \in BOOLEAN :
              PlaceOrder(c, s, side, type, q, r)
    BY DEF Next, vars, PlaceStop, ReplaceStop, AddStop, CancelProtection,
           CancelOrder, SetMarkPrice, SetConnected, accountVars
  <1> QED
    BY <1>1, <1>2

(* Positions and PnL move only with an order executed in that step, and on *)
(* its symbol (adapters/binance/mock.py 159-160 is the one call of         *)
(* _apply_fill).                                                           *)
THEOREM FillsMoveCorrect == Spec => OnlyFillsMovePositions
  <1> DEFINE Fill ==
        /\ Len(orders') = Len(orders) + 1
        /\ Executed(orders'[Len(orders')])
        /\ \A s \in Symbols \ {orders'[Len(orders')].symbol} :
              position'[s] = position[s]
  <1>1. ASSUME BookType, DOMAIN position = Symbols, [Next]_vars,
               position' # position \/ realized' # realized
        PROVE  Fill
    <2>1. PICK c \in Clients, s \in Symbols, side \in Sides, q \in Quantities,
               type \in OrderTypes, r \in BOOLEAN : PlaceOrder(c, s, side, type, q, r)
      BY <1>1 DEF Next, vars, PlaceStop, ReplaceStop, AddStop, CancelProtection,
                  CancelOrder, SetMarkPrice, SetConnected, accountVars
    <2>2. type = "MARKET" /\ ApplyFill(NextId, s, side * q, mark[s], r)
      BY <1>1, <2>1 DEF PlaceOrder, FillsAtOnce, accountVars
    <2>3. \A u \in Symbols \ {s} : position'[u] = position[u]
      BY <1>1, <2>2 DEF ApplyFill, accountVars
    <2> DEFINE new == NewOrder(c, s, side, type, q, r)
    <2>4. new \in Order /\ new.symbol = s /\ new.type = "MARKET"
      BY <1>1, <2>2, NewOrderType
    <2>5. orders' = Append(orders, new) /\ orders \in Seq(Order)
      BY <1>1, <2>1 DEF PlaceOrder, BookType
    <2> HIDE DEF new
    <2>6. Len(orders') = Len(orders) + 1 /\ orders'[Len(orders')] = new
      BY <2>4, <2>5
    <2> QED
      BY <2>3, <2>4, <2>6 DEF Executed
  <1>2. BookType /\ DOMAIN position = Symbols /\ [Next]_vars =>
          [position' # position \/ realized' # realized => Fill]_vars
    BY <1>1
  <1> QED
    BY <1>2, Inductive, InitHolds, NextHolds, PTL
       DEF Spec, IInv, OnlyFillsMovePositions

-----------------------------------------------------------------------------
(* Fractions: the greatest common divisor exists, so that every operation  *)
(* yields a fraction with a positive denominator.                          *)
LEMMA GcdType ==
    ASSUME NEW n \in Int, NEW d \in Nat \ {0}
    PROVE  Gcd(n, d) \in 1 .. d /\ Divides(Gcd(n, d), Abs(n)) /\ Divides(Gcd(n, d), d)
  <1> DEFINE C(g) == Divides(g, Abs(n)) /\ Divides(g, d)
             G == {g \in 1 .. d : C(g)}
  <1>1. 1 \in G
    <2>1. Abs(n) \in Nat
      BY DEF Abs
    <2>2. Abs(n) % 1 = 0 /\ d % 1 = 0 /\ 1 \in 1 .. d
      BY <2>1
    <2> QED
      BY <2>2 DEF Divides
  <1>2. PICK g \in G : \A h \in (g + 1) .. d : h \notin G
    <2>1. G \in SUBSET (1 .. d) /\ G # {}
      BY <1>1
    <2> HIDE DEF G
    <2> QED
      BY <2>1, Largest
  <1>3. g \in 1 .. d /\ C(g) /\ \A h \in (g + 1) .. d : ~C(h)
    BY <1>2
  <1>4. Gcd(n, d) = CHOOSE k \in 1 .. d : C(k) /\ \A h \in (k + 1) .. d : ~C(h)
    BY DEF Gcd
  <1>5. Gcd(n, d) \in 1 .. d /\ C(Gcd(n, d))
    <2> HIDE DEF C
    <2> QED
      BY <1>3, <1>4
  <1> QED
    BY <1>5

LEMMA RatioType ==
    ASSUME NEW n \in Int, NEW d \in Nat \ {0}
    PROVE  Ratio(n, d) \in Fraction
  <1> DEFINE g == Gcd(n, d)
  <1>1. g \in 1 .. d /\ d % g = 0
    BY GcdType DEF Divides
  <1> HIDE DEF g
  <1>2. n \div g \in Int /\ d \div g \in Nat \ {0}
    BY <1>1
  <1>3. Ratio(n, d) = [num |-> n \div g, den |-> d \div g]
    BY DEF Ratio, g
  <1> QED
    BY <1>2, <1>3 DEF Fraction

LEMMA FractionType ==
    /\ \A n \in Int : Whole(n) \in Fraction
    /\ Zero \in Fraction
    /\ \A x, y \in Fraction : Plus(x, y) \in Fraction /\ Minus(x, y) \in Fraction
    /\ \A x \in Fraction, k \in Int : Times(x, k) \in Fraction
  <1>1. \A n \in Int : Whole(n) \in Fraction
    BY DEF Whole, Fraction
  <1>2. ASSUME NEW x \in Fraction, NEW y \in Fraction PROVE Plus(x, y) \in Fraction
    <2>1. x.num \in Int /\ y.num \in Int /\ x.den \in Nat \ {0} /\ y.den \in Nat \ {0}
      BY DEF Fraction
    <2>2. x.num * y.den \in Int /\ y.num * x.den \in Int /\ x.den * y.den \in Nat \ {0}
      BY <2>1
    <2> QED
      BY <2>2, RatioType DEF Plus
  <1>3. ASSUME NEW x \in Fraction, NEW k \in Int PROVE Times(x, k) \in Fraction
    <2>1. x.num * k \in Int /\ x.den \in Nat \ {0}
      BY DEF Fraction
    <2> QED
      BY <2>1, RatioType DEF Times
  <1> QED
    BY <1>1, <1>2, <1>3 DEF Zero, Minus

-----------------------------------------------------------------------------
(* The account: types, and positions that the executed orders explain.     *)

Amount(p) == IF p = NoPosition THEN 0 ELSE p.amt

AccountType ==
    /\ position \in [Symbols -> Position \cup {NoPosition}]
    /\ realized \in Fraction /\ unbooked \in Fraction /\ misvalued \in Fraction
    /\ connected \in BOOLEAN
    /\ applied \subseteq DOMAIN orders

AccountInv == IInv /\ AccountType /\ PositionIsFills

(* A fill adds its quantity to the position, and yields fractions.         *)
LEMMA FilledFacts ==
    ASSUME NEW p \in Position \cup {NoPosition}, NEW signed \in Int, NEW price \in Nat
    PROVE  /\ Filled(p, signed, price) \in Position \cup {NoPosition}
           /\ Amount(Filled(p, signed, price)) = Amount(p) + signed
           /\ Booked(p, signed, price) \in Fraction
           /\ Unbooked(p, signed, price) \in Fraction
           /\ Misvalued(p, signed, price) \in Fraction
  <1>1. Whole(price) \in Fraction /\ Zero \in Fraction
    BY FractionType
  <1>2. p # NoPosition => p.amt \in Int /\ p.entry \in Fraction
                          /\ p.entry.num \in Int /\ p.entry.den \in Nat \ {0}
    BY DEF Position, Fraction
  <1>3. ASSUME p # NoPosition, SameWay(p.amt, signed)
        PROVE  Average(p, signed, price) \in Fraction
    <2>1. p.amt + signed # 0 /\ Abs(p.amt + signed) \in Nat \ {0}
          /\ Abs(p.amt) \in Nat /\ Abs(signed) \in Nat
      BY <1>2, <1>3 DEF SameWay, Abs
    <2>2. /\ Abs(p.amt) * p.entry.num \in Int
          /\ Abs(signed) * price * p.entry.den \in Int
          /\ p.entry.den * Abs(p.amt + signed) \in Nat \ {0}
      BY <2>1, <1>2, <1>3
    <2> QED
      BY <2>2, RatioType DEF Average
  <1>4. CASE p = NoPosition
    <2>1. Filled(p, signed, price) = [amt |-> signed, entry |-> Whole(price)]
      BY <1>4 DEF Filled
    <2>2. Filled(p, signed, price) \in Position
      BY <2>1, <1>1 DEF Position
    <2>3. Filled(p, signed, price) # NoPosition /\ Amount(p) = 0
      BY <2>2, <1>4 DEF Amount
    <2>4. /\ Booked(p, signed, price) = Zero /\ Unbooked(p, signed, price) = Zero
          /\ Misvalued(p, signed, price) = Zero
      BY <1>4 DEF Booked, Unbooked, Misvalued, EntryStays, Closes
    <2> QED
      BY <2>1, <2>2, <2>3, <2>4, <1>1 DEF Amount
  <1>5. CASE p # NoPosition
    <2>1. /\ Minus(Whole(price), p.entry) \in Fraction
          /\ Closed(p, signed) \in Int /\ Opened(p, signed) \in Int
      BY <1>1, <1>2, <1>5, FractionType DEF Closed, Opened
    <2>2. Booked(p, signed, price) \in Fraction
      BY <2>1, <1>1, <1>2, <1>5, FractionType DEF Booked
    <2>3. Unbooked(p, signed, price) \in Fraction /\ Misvalued(p, signed, price) \in Fraction
      BY <2>1, <1>1, FractionType DEF Unbooked, Misvalued
    <2>4. CASE Closes(p, signed)
      BY <2>2, <2>3, <2>4, <1>2, <1>5 DEF Filled, Closes, Amount
    <2>5. CASE ~Closes(p, signed)
      <3> DEFINE e == IF SameWay(p.amt, signed) THEN Average(p, signed, price) ELSE p.entry
      <3>1. e \in Fraction
        BY <1>2, <1>3, <1>5
      <3>2. Filled(p, signed, price) = [amt |-> p.amt + signed, entry |-> e]
        BY <2>5, <1>5 DEF Filled
      <3> HIDE DEF e
      <3>3. Filled(p, signed, price) \in Position
        BY <3>1, <3>2, <1>2, <1>5 DEF Position
      <3>4. Filled(p, signed, price) # NoPosition
        BY <3>3
      <3> QED
        BY <3>2, <3>3, <3>4, <2>2, <2>3, <1>5 DEF Amount
    <2> QED
      BY <2>4, <2>5
  <1> QED
    BY <1>4, <1>5

(* What an order adds to a position, and whether it does, stays the same.  *)
SameFill(x, y) ==
    /\ x.client = y.client /\ x.symbol = y.symbol /\ x.type = y.type
    /\ x.side = y.side /\ x.qty = y.qty /\ x.reduceOnly = y.reduceOnly

LEMMA KeptFills ==
    ASSUME BookType, Kept(orders')
    PROVE  \A i \in DOMAIN orders : SameFill(orders'[i], orders[i])
  <1> SUFFICES ASSUME NEW i \in DOMAIN orders
               PROVE  SameFill(orders'[i], orders[i])
    OBVIOUS
  <1>1. orders[i] \in Order
    BY DEF BookType
  <1>2. SameFill([orders[i] EXCEPT !.status = "CANCELED"], orders[i])
    BY <1>1 DEF SameFill, Order
  <1>3. orders'[i] \in {orders[i], [orders[i] EXCEPT !.status = "CANCELED"]}
    BY DEF Kept
  <1> QED
    BY <1>2, <1>3 DEF SameFill

LEMMA SignedType ==
    ASSUME BookType
    PROVE  \A i \in DOMAIN orders : SignedQuantities[i] = Signed(orders[i])
                                    /\ Signed(orders[i]) \in Int
  <1> SUFFICES ASSUME NEW i \in DOMAIN orders
               PROVE  SignedQuantities[i] = Signed(orders[i]) /\ Signed(orders[i]) \in Int
    OBVIOUS
  <1>1. orders[i] \in Order
    BY DEF BookType
  <1>2. orders[i].side \in {1, -1} /\ orders[i].qty \in Nat
    BY <1>1 DEF Order, Sides, BUY, SELL
  <1> QED
    BY <1>2 DEF SignedQuantities, Signed

(* Sums over the executed orders of the old book are what they were.       *)
LEMMA SameSums ==
    ASSUME BookType, BookType', Kept(orders')
    PROVE  \A S \in SUBSET DOMAIN orders :
              /\ IsFiniteSet(S)
              /\ SumFunctionOnSet(SignedQuantities, S) \in Int
              /\ SumFunctionOnSet(SignedQuantities', S)
                    = SumFunctionOnSet(SignedQuantities, S)
  <1>1. IsFiniteSet(DOMAIN orders) /\ DOMAIN orders \subseteq DOMAIN orders'
    <2>1. Len(orders) \in Nat /\ DOMAIN orders = 1 .. Len(orders)
      BY DEF BookType
    <2> QED
      BY <2>1, FS_Interval DEF Kept
  <1> DEFINE old == SignedQuantities
             new == SignedQuantities'
  <1>2. \A i \in DOMAIN orders : old[i] \in Int /\ old[i] = new[i]
    <2> SUFFICES ASSUME NEW i \in DOMAIN orders
                 PROVE  old[i] \in Int /\ old[i] = new[i]
      OBVIOUS
    <2>1. old[i] = Signed(orders[i]) /\ old[i] \in Int
      BY SignedType
    <2>2. new[i] = Signed(orders'[i])
      BY <1>1 DEF SignedQuantities
    <2>3. Signed(orders'[i]) = Signed(orders[i])
      BY KeptFills DEF SameFill, Signed
    <2> QED
      BY <2>1, <2>2, <2>3
  <1> SUFFICES ASSUME NEW S \in SUBSET DOMAIN orders
               PROVE  /\ IsFiniteSet(S)
                      /\ SumFunctionOnSet(old, S) \in Int
                      /\ SumFunctionOnSet(new, S) = SumFunctionOnSet(old, S)
    OBVIOUS
  <1> HIDE DEF old, new
  <1>3. IsFiniteSet(S)
    BY <1>1, FS_Subset
  <1>4. \A i \in S : old[i] \in Int /\ old[i] = new[i]
    BY <1>2
  <1> QED
    BY <1>3, <1>4, SumType, SumSame

(* Steps that apply no fill: positions still follow from the orders, if a  *)
(* new order that was executed is one reduce_only kept from it.            *)
LEMMA NoFill ==
    ASSUME AccountInv, IInv', Kept(orders'),
           UNCHANGED <<position, realized, applied, unbooked, misvalued>>,
           connected' \in BOOLEAN,
           \A i \in DOMAIN orders' \ DOMAIN orders :
              Executed(orders'[i]) => orders'[i].reduceOnly
    PROVE  AccountInv'
  <1>1. BookType /\ BookType' /\ DOMAIN orders \subseteq DOMAIN orders'
    BY DEF AccountInv, IInv, Kept
  <1>2. AccountType'
    BY <1>1 DEF AccountInv, AccountType
  <1>3. ASSUME NEW i \in DOMAIN orders
        PROVE  /\ Executed(orders'[i]) <=> Executed(orders[i])
               /\ orders'[i].symbol = orders[i].symbol
               /\ orders'[i].reduceOnly = orders[i].reduceOnly
    BY <1>1, KeptFills DEF SameFill, Executed
  <1>4. \A s \in Symbols : Fills(s)' \cap applied = Fills(s) \cap applied
    BY <1>1, <1>3 DEF AccountInv, AccountType, Fills
  <1>5. ASSUME NEW s \in Symbols
        PROVE  HeldQuantity(s)'
                  = SumFunctionOnSet(SignedQuantities', Fills(s)' \cap applied')
    <2>1. Fills(s) \cap applied \in SUBSET DOMAIN orders
      BY DEF Fills
    <2>2. SumFunctionOnSet(SignedQuantities', Fills(s) \cap applied)
             = SumFunctionOnSet(SignedQuantities, Fills(s) \cap applied)
      BY <1>1, <2>1, SameSums
    <2>3. HeldQuantity(s)' = HeldQuantity(s)
      BY DEF HeldQuantity
    <2>4. HeldQuantity(s) = SumFunctionOnSet(SignedQuantities, Fills(s) \cap applied)
      BY DEF AccountInv, PositionIsFills
    <2>5. Fills(s)' \cap applied' = Fills(s) \cap applied
      BY <1>4
    <2> QED
      BY <2>2, <2>3, <2>4, <2>5
  <1>6. ASSUME NEW i \in DOMAIN orders', Executed(orders'[i]), i \notin applied'
        PROVE  orders'[i].reduceOnly
    BY <1>3, <1>6 DEF AccountInv, PositionIsFills
  <1>7. PositionIsFills'
    BY <1>5, <1>6 DEF PositionIsFills
  <1> QED
    BY <1>2, <1>7 DEF AccountInv

(* The one step that applies a fill: a MARKET order is accepted.           *)
LEMMA OneFill ==
    ASSUME AccountInv, IInv', Kept(orders'),
           NEW new \in Order, orders' = Append(orders, new), new.type = "MARKET",
           ApplyFill(NextId, new.symbol, Signed(new), mark[new.symbol], new.reduceOnly),
           connected' = connected
    PROVE  AccountInv'
  <1> DEFINE s == new.symbol
             n == NextId
             p == position[s]
             signed == Signed(new)
  <1>1. /\ BookType /\ BookType' /\ s \in Symbols /\ signed \in Int
        /\ mark[s] \in Nat /\ p \in Position \cup {NoPosition}
    <2>1. new.side \in {1, -1} /\ new.qty \in Nat /\ s \in Symbols
      BY DEF Order, Sides, BUY, SELL
    <2>2. mark[s] \in Nat
      BY <2>1 DEF AccountInv, IInv, BookType
    <2> QED
      BY <2>1, <2>2 DEF AccountInv, IInv, AccountType, Signed
  <1>2. /\ DOMAIN orders' = DOMAIN orders \cup {n} /\ n \notin DOMAIN orders
        /\ orders'[n] = new
    BY <1>1 DEF BookType, NextId
  <1>3. CASE Ignored(p, new.reduceOnly)
    <2>1. UNCHANGED <<position, realized, applied, unbooked, misvalued>> /\ new.reduceOnly
      BY <1>3 DEF ApplyFill, accountVars, Ignored
    <2> QED
      BY <1>2, <2>1, NoFill DEF AccountInv, AccountType
  <1>4. CASE ~Ignored(p, new.reduceOnly)
    <2>1. /\ position' = [position EXCEPT ![s] = Filled(p, signed, mark[s])]
          /\ realized' = Plus(realized, Booked(p, signed, mark[s]))
          /\ unbooked' = Plus(unbooked, Unbooked(p, signed, mark[s]))
          /\ misvalued' = Plus(misvalued, Misvalued(p, signed, mark[s]))
          /\ applied' = applied \cup {n}
      BY <1>4 DEF ApplyFill
    <2> HIDE DEF n, p, signed, s
    <2>2. /\ Filled(p, signed, mark[s]) \in Position \cup {NoPosition}
          /\ Amount(Filled(p, signed, mark[s])) = Amount(p) + signed
          /\ Booked(p, signed, mark[s]) \in Fraction
          /\ Unbooked(p, signed, mark[s]) \in Fraction
          /\ Misvalued(p, signed, mark[s]) \in Fraction
      BY <1>1, FilledFacts
    <2>3. AccountType'
      BY <1>1, <1>2, <2>1, <2>2, FractionType DEF AccountInv, AccountType
    <2>4. ASSUME NEW i \in DOMAIN orders
          PROVE  /\ Executed(orders'[i]) <=> Executed(orders[i])
                 /\ orders'[i].symbol = orders[i].symbol
                 /\ orders'[i].reduceOnly = orders[i].reduceOnly
      BY <1>1, KeptFills DEF SameFill, Executed
    <2>5. ASSUME NEW u \in Symbols
          PROVE  /\ HeldQuantity(u) = SumFunctionOnSet(SignedQuantities, Fills(u) \cap applied)
                 /\ Fills(u) \cap applied \in SUBSET DOMAIN orders
                 /\ Fills(u)' \cap applied' = IF u = s THEN (Fills(u) \cap applied) \cup {n}
                                               ELSE Fills(u) \cap applied
      <3>1. HeldQuantity(u) = SumFunctionOnSet(SignedQuantities, Fills(u) \cap applied)
        BY DEF AccountInv, PositionIsFills
      <3>2. applied \subseteq DOMAIN orders
        BY DEF AccountInv, AccountType
      <3>3. Executed(orders'[n]) /\ orders'[n].symbol = s
        BY <1>2 DEF Executed, s
      <3>4. Fills(u)' = IF u = s THEN Fills(u) \cup {n} ELSE Fills(u)
        BY <1>2, <2>4, <3>3 DEF Fills
      <3>5. n \notin applied /\ n \notin Fills(u) /\ Fills(u) \subseteq DOMAIN orders
        BY <1>2, <3>2 DEF Fills
      <3> QED
        BY <2>1, <3>1, <3>4, <3>5
    <2>6. ASSUME NEW u \in Symbols, u # s
          PROVE  HeldQuantity(u)'
                    = SumFunctionOnSet(SignedQuantities', Fills(u)' \cap applied')
      <3>1. HeldQuantity(u)' = HeldQuantity(u)
        BY <1>1, <2>1, <2>6 DEF HeldQuantity, AccountInv, AccountType
      <3>2. SumFunctionOnSet(SignedQuantities', Fills(u) \cap applied)
               = SumFunctionOnSet(SignedQuantities, Fills(u) \cap applied)
        BY <1>1, <2>5, SameSums
      <3> QED
        BY <2>5, <2>6, <3>1, <3>2
    <2>7. HeldQuantity(s)' = SumFunctionOnSet(SignedQuantities', Fills(s)' \cap applied')
      <3> DEFINE S == Fills(s) \cap applied
                 g == SignedQuantities'
      <3>1. HeldQuantity(s) = Amount(p) /\ HeldQuantity(s)' = Amount(p) + signed
        BY <1>1, <2>1, <2>2 DEF HeldQuantity, Amount, AccountInv, AccountType, p
      <3>2. S \in SUBSET DOMAIN orders /\ n \notin S
        BY <1>1, <1>2, <2>5
      <3>3. \A i \in S \cup {n} : g[i] = Signed(orders'[i]) /\ g[i] \in Int
        <4>1. \A i \in DOMAIN orders' : g[i] = Signed(orders'[i])
          BY DEF SignedQuantities
        <4>2. g[n] = Signed(orders'[n]) /\ g[n] \in Int
          BY <4>1, <1>1, <1>2 DEF signed
        <4>3. ASSUME NEW i \in S PROVE g[i] = Signed(orders'[i]) /\ g[i] \in Int
          <5>1. i \in DOMAIN orders /\ i \in DOMAIN orders'
            BY <1>2, <3>2
          <5>2. Signed(orders[i]) \in Int
            BY <1>1, <5>1, SignedType
          <5>3. Signed(orders'[i]) = Signed(orders[i])
            BY <1>1, <5>1, KeptFills DEF SameFill, Signed
          <5> QED
            BY <4>1, <5>1, <5>2, <5>3
        <4> QED
          BY <4>2, <4>3
      <3>4. g[n] = signed
        BY <1>2, <3>3 DEF signed
      <3>5. IsFiniteSet(S) /\ SumFunctionOnSet(g, S) = HeldQuantity(s)
        BY <1>1, <2>5, <3>2, SameSums
      <3>6. Fills(s)' \cap applied' = S \cup {n}
        BY <1>1, <2>5
      <3>7. HeldQuantity(s) \in Int
        BY <1>1, <2>5, SameSums
      <3> HIDE DEF S, g
      <3>8. SumFunctionOnSet(g, S \cup {n}) = g[n] + SumFunctionOnSet(g, S)
        BY <3>2, <3>3, <3>5, SumInsert
      <3>9. SumFunctionOnSet(g, S \cup {n}) = HeldQuantity(s)'
        BY <1>1, <3>1, <3>4, <3>5, <3>7, <3>8
      <3> QED
        BY <3>6, <3>9 DEF g
    <2>8. ASSUME NEW i \in DOMAIN orders', Executed(orders'[i]), i \notin applied'
          PROVE  orders'[i].reduceOnly
      <3>1. i \in DOMAIN orders /\ i \notin applied
        BY <1>2, <2>1, <2>8
      <3> QED
        BY <2>4, <2>8, <3>1 DEF AccountInv, PositionIsFills
    <2>9. PositionIsFills'
      BY <2>6, <2>7, <2>8 DEF PositionIsFills
    <2> QED
      BY <2>3, <2>9 DEF AccountInv
  <1> QED
    BY <1>3, <1>4

LEMMA InitAccount == Init => AccountInv
  <1> SUFFICES ASSUME Init PROVE AccountInv
    OBVIOUS
  <1>1. IInv
    BY InitIInv
  <1>2. AccountType
    BY FractionType DEF Init, AccountType
  <1>3. \A s \in Symbols : Fills(s) \cap applied = {} /\ HeldQuantity(s) = 0
    BY DEF Init, HeldQuantity
  <1>4. PositionIsFills
    BY <1>3, SumEmpty DEF PositionIsFills, Init
  <1> QED
    BY <1>1, <1>2, <1>4 DEF AccountInv

(* The order book alone changes: by an order that is not executed, or by   *)
(* cancellations.                                                          *)
LEMMA StopAccount ==
    ASSUME AccountInv, IInv', NEW os \in Seq(Order), Kept(os), Len(os) = Len(orders),
           NEW c \in Clients, NEW s \in Symbols, NEW side \in Sides,
           NEW q \in Quantities, AddStop(os, c, s, side, q)
    PROVE  AccountInv'
  <1> DEFINE new == NewOrder(c, s, side, "STOP_MARKET", q, TRUE)
  <1>1. new.type = "STOP_MARKET" /\ orders' = Append(os, new)
    BY DEF NewOrder, AddStop
  <1> HIDE DEF new
  <1>2. BookType /\ Kept(orders')
    BY StopKeeps DEF AccountInv, IInv
  <1>3. DOMAIN orders' \ DOMAIN orders = {Len(os) + 1} /\ orders'[Len(os) + 1] = new
    BY <1>1, <1>2 DEF BookType
  <1>4. \A i \in DOMAIN orders' \ DOMAIN orders : ~Executed(orders'[i])
    BY <1>1, <1>3 DEF Executed
  <1>5. UNCHANGED <<position, realized, applied, unbooked, misvalued>> /\ connected' \in BOOLEAN
    BY DEF AddStop, accountVars, AccountInv, AccountType
  <1> QED
    BY <1>2, <1>4, <1>5, NoFill

LEMMA NextAccount == AccountInv /\ [Next]_vars => AccountInv'
  <1> SUFFICES ASSUME AccountInv, [Next]_vars PROVE AccountInv'
    OBVIOUS
  <1>1. BookType /\ IInv'
    BY NextIInv DEF AccountInv, IInv
  <1>2. Kept(orders) /\ orders \in Seq(Order)
    BY <1>1 DEF Kept, BookType
  <1>3. ASSUME NEW c \in Clients, NEW s \in Symbols, NEW side \in Sides,
               NEW q \in Quantities, NEW type \in OrderTypes, NEW r \in BOOLEAN,
               PlaceOrder(c, s, side, type, q, r)
        PROVE  AccountInv'
    <2> DEFINE new == NewOrder(c, s, side, type, q, r)
    <2>1. new \in Order /\ new.symbol = s /\ new.type = type
      BY <1>1, NewOrderType
    <2>2. new.reduceOnly = r /\ Signed(new) = side * q
      BY DEF NewOrder, Signed
    <2>3. orders' = Append(orders, new) /\ connected' = connected
      BY <1>3 DEF PlaceOrder
    <2> HIDE DEF new
    <2>4. Kept(orders')
      BY <1>1, <1>2, <2>3, AppendKeeps
    <2>5. CASE FillsAtOnce(type)
      <3>1. ApplyFill(NextId, s, side * q, mark[s], r)
        BY <1>3, <2>5 DEF PlaceOrder
      <3> QED
        BY <1>1, <2>1, <2>2, <2>3, <2>4, <2>5, <3>1, OneFill DEF FillsAtOnce
    <2>6. CASE ~FillsAtOnce(type)
      <3>1. UNCHANGED <<position, realized, applied, unbooked, misvalued>>
        BY <1>3, <2>6 DEF PlaceOrder, accountVars
      <3>2. DOMAIN orders' \ DOMAIN orders = {Len(orders) + 1}
            /\ orders'[Len(orders) + 1] = new
        BY <1>2, <2>3
      <3>3. \A i \in DOMAIN orders' \ DOMAIN orders : ~Executed(orders'[i])
        BY <2>1, <2>6, <3>2 DEF Executed, FillsAtOnce
      <3> QED
        BY <1>1, <2>3, <2>4, <3>1, <3>3, NoFill DEF AccountInv, AccountType
    <2> QED
      BY <2>5, <2>6
  <1>4. ASSUME NEW c \in Clients, NEW s \in Symbols, NEW side \in Sides,
               NEW q \in Quantities, PlaceStop(c, s, side, q)
        PROVE  AccountInv'
    BY <1>1, <1>2, <1>4, StopAccount DEF PlaceStop
  <1>5. ASSUME NEW id \in Named, NEW c \in Clients, NEW s \in Symbols,
               NEW q \in Quantities, ReplaceStop(id, c, s, q)
        PROVE  AccountInv'
    <2> DEFINE os == WithStatus(orders, id, "CANCELED")
               side == IF id \in DOMAIN orders THEN orders[id].side ELSE SELL
    <2>1. os \in Seq(Order) /\ Len(os) = Len(orders) /\ Kept(os)
      BY <1>1, WithStatusFacts, WithStatusKeeps
    <2>2. side \in Sides
      <3>1. id \in DOMAIN orders => orders[id] \in Order
        BY <1>2
      <3> QED
        BY <3>1 DEF Order, Sides
    <2>3. AddStop(os, c, s, side, q)
      BY <1>5 DEF ReplaceStop
    <2> HIDE DEF os, side
    <2> QED
      BY <1>1, <2>1, <2>2, <2>3, StopAccount
  <1>6. ASSUME NEW id, orders' = WithStatus(orders, id, "CANCELED"),
               UNCHANGED accountVars, connected' = connected
        PROVE  AccountInv'
    <2>1. DOMAIN orders' = DOMAIN orders /\ Kept(orders')
      BY <1>1, <1>6, WithStatusFacts, WithStatusKeeps
    <2> QED
      BY <1>1, <1>6, <2>1, NoFill DEF accountVars, AccountInv, AccountType
  <1>7. ASSUME UNCHANGED <<orders, accountVars>>, connected' \in BOOLEAN
        PROVE  AccountInv'
    BY <1>1, <1>2, <1>7, NoFill DEF accountVars
  <1>8. ASSUME NEW id \in Named, NEW s \in Symbols, CancelProtection(s, id)
        PROVE  AccountInv'
    BY <1>6, <1>8 DEF CancelProtection
  <1>9. ASSUME NEW id \in Named, CancelOrder(id)
        PROVE  AccountInv'
    BY <1>6, <1>9 DEF CancelOrder
  <1>10. ASSUME NEW s \in Symbols, NEW p \in Prices, SetMarkPrice(s, p)
         PROVE  AccountInv'
    BY <1>7, <1>10 DEF SetMarkPrice, AccountInv, AccountType
  <1>11. ASSUME NEW b \in BOOLEAN, SetConnected(b)
         PROVE  AccountInv'
    BY <1>7, <1>11 DEF SetConnected
  <1>12. CASE UNCHANGED vars
    BY <1>7, <1>12 DEF vars, AccountInv, AccountType
  <1> QED
    BY <1>3, <1>4, <1>5, <1>8, <1>9, <1>10, <1>11, <1>12 DEF Next

(* Book and account correspond in every reachable state.                   *)
THEOREM AccountInductive == Spec => []AccountInv
  BY InitAccount, NextAccount, PTL DEF Spec

(* Every fraction of the account has a positive denominator: averages are  *)
(* taken over quantities that are not zero (mock.py 300-331).              *)
THEOREM TypeCorrect == Spec => []TypeOK
  <1>1. AccountInv => TypeOK
    BY DEF AccountInv, IInv, BookType, AccountType, TypeOK
  <1> QED
    BY <1>1, AccountInductive, PTL

(* A position is the sum of its executed orders, through averaging,        *)
(* partial and full closes and reversals (mock.py 290-331), but for those  *)
(* that reduce_only kept from opening one.                                 *)
THEOREM PositionCorrect == Spec => []PositionIsFills
  BY AccountInductive, PTL DEF AccountInv

-----------------------------------------------------------------------------
(* Folds of fractions.                                                     *)

(* What a fold of fractions yields at s, from its results at smaller sets, *)
(* and the function the fold chooses on the subsets of S.                  *)
FoldStep(b, u, g, s) == IF s = {} THEN b ELSE Plus(u[First(s)], g[s \ {First(s)}])
Folded(b, u, S, g) == g = [s \in SUBSET S |-> FoldStep(b, u, g, s)]

LEMMA FoldIsChosen ==
    \A b, u, S : FoldFunctionOnSet(Plus, b, u, S) = (CHOOSE g : Folded(b, u, S, g))[S]
  BY DEF FoldFunctionOnSet, MapThenFoldSet, Folded, FoldStep, First

(* There is one: a largest family of subsets, closed under taking subsets, *)
(* on which there is, is all of them.                                      *)
LEMMA FoldExists ==
    ASSUME NEW S, IsFiniteSet(S), NEW b, NEW u
    PROVE  \E g : Folded(b, u, S, g)
  <1> DEFINE P == SUBSET S
             Good(F) == /\ \A s \in F : \A t \in SUBSET s : t \in F
                        /\ \E g : \A s \in F : g[s] = FoldStep(b, u, g, s)
             B == {C \in SUBSET P : Good(P \ C)}
  <1>1. PICK C \in B : \A v \in B : ~(v \subseteq C /\ v # C)
    <2>1. P \ P = {} /\ Good({})
      OBVIOUS
    <2>2. P \in B
      <3> HIDE DEF Good
      <3> QED
        BY <2>1
    <2>3. IsFiniteSet(P) /\ B \in SUBSET (SUBSET P)
      BY FS_SUBSET
    <2> HIDE DEF B, P
    <2> QED
      BY <2>2, <2>3, SmallestSubset
  <1> DEFINE F == P \ C
  <1>2. C \in SUBSET P /\ Good(F)
    BY <1>1
  <1>3. PICK g : \A s \in F : g[s] = FoldStep(b, u, g, s)
    BY <1>2
  <1>4. CASE C = {}
    <2> DEFINE h == [s \in P |-> g[s]]
    <2>1. ASSUME NEW s \in P PROVE g[s] = FoldStep(b, u, h, s)
      <3>1. g[s] = FoldStep(b, u, g, s) /\ s \ {First(s)} \in P
        BY <1>3, <1>4
      <3> QED
        BY <3>1 DEF FoldStep
    <2>2. h = [s \in P |-> FoldStep(b, u, h, s)]
      <3> HIDE DEF P
      <3>1. h = [s \in P |-> g[s]]
        OBVIOUS
      <3> HIDE DEF h
      <3> QED
        BY <2>1, <3>1
    <2> HIDE DEF h
    <2> QED
      BY <2>2 DEF Folded
  <1>5. CASE C # {}
    <2>1. PICK s \in C : \A t \in C : ~(t \subseteq s /\ t # s)
      BY <1>2, <1>5, SmallestSubset
    <2> DEFINE D == C \ {s}
               h == [t \in F \cup {s} |-> IF t = s THEN FoldStep(b, u, g, s) ELSE g[t]]
    <2>2. P \ D = F \cup {s} /\ s \notin F /\ s \in P
      BY <1>2, <2>1
    <2>3. \A t \in SUBSET s : t = s \/ t \in F
      BY <2>1, <2>2
    <2>4. \A r \in F \cup {s} : \A t \in SUBSET r : t \in F \cup {s}
      BY <1>2, <2>3
    <2>5. ASSUME NEW t \in F \cup {s} PROVE h[t] = FoldStep(b, u, h, t)
      <3>1. h[t] = FoldStep(b, u, g, t)
        BY <1>3, <2>2
      <3>2. ASSUME t # {} PROVE t \ {First(t)} \in F
        <4>1. First(t) \in t
          BY <3>2 DEF First
        <4> QED
          BY <4>1, <1>2, <2>3
      <3>3. t # {} => h[t \ {First(t)}] = g[t \ {First(t)}]
        BY <3>2, <2>2
      <3> HIDE DEF h
      <3> QED
        BY <3>1, <3>3 DEF FoldStep
    <2>6. \E k : \A t \in F \cup {s} : k[t] = FoldStep(b, u, k, t)
      <3> HIDE DEF h, F
      <3> QED
        BY <2>5
    <2>7. Good(F \cup {s})
      <3> HIDE DEF F
      <3> QED
        BY <2>4, <2>6
    <2>8. D \in B
      <3> HIDE DEF Good
      <3> QED
        BY <1>2, <2>2, <2>7
    <2>9. D \subseteq C /\ D # C
      BY <2>1
    <2> HIDE DEF B, D
    <2> QED
      BY <1>1, <2>8, <2>9
  <1> QED
    BY <1>4, <1>5

-----------------------------------------------------------------------------
(* The values of fractions, on a common denominator D.                     *)

(* x is X / D.                                                             *)
Val(x, D, X) == x.num * D = X * x.den

LEMMA Cancel ==
    ASSUME NEW a \in Int, NEW b \in Int, NEW k \in Nat \ {0}, a * k = b * k
    PROVE  a = b
  BY SMT

LEMMA Quotient ==
    ASSUME NEW n \in Int, NEW g \in Nat \ {0}, Divides(g, Abs(n))
    PROVE  n \div g \in Int /\ n = (n \div g) * g
  <1> DEFINE k == Abs(n) \div g
  <1>1. Abs(n) \in Nat /\ k \in Int /\ Abs(n) = g * k
    BY DEF Divides, Abs
  <1>2. n = g * k \/ n = g * (-k)
    BY <1>1 DEF Abs
  <1> HIDE DEF k
  <1>3. \A q \in Int : n = g * q => n \div g = q /\ n = q * g
    BY SMT
  <1>4. k \in Int /\ -k \in Int
    BY <1>1
  <1>5. PICK q \in Int : n = g * q
    BY <1>2, <1>4
  <1> QED
    BY <1>3, <1>5

LEMMA RatioVal ==
    ASSUME NEW n \in Int, NEW d \in Nat \ {0}, NEW D \in Nat \ {0}, NEW X \in Int,
           n * D = X * d
    PROVE  Ratio(n, d) \in Fraction /\ Val(Ratio(n, d), D, X)
  <1> DEFINE g == Gcd(n, d)
             a == n \div g
             c == d \div g
  <1>1. g \in Nat \ {0} /\ Divides(g, Abs(n)) /\ Divides(g, d)
    BY GcdType
  <1>2. Abs(d) = d
    BY DEF Abs
  <1> HIDE DEF g
  <1>3. a \in Int /\ c \in Int /\ n = a * g /\ d = c * g
    BY <1>1, <1>2, Quotient
  <1>4. Ratio(n, d) = [num |-> a, den |-> c]
    BY DEF Ratio, g
  <1>5. Ratio(n, d) \in Fraction
    BY RatioType
  <1> HIDE DEF a, c
  <1>6. (a * D) * g = (X * c) * g
    <2>1. (a * g) * D = X * (c * g)
      BY <1>3
    <2>2. (a * g) * D = (a * D) * g /\ X * (c * g) = (X * c) * g
      BY <1>1, <1>3
    <2> QED
      BY <2>1, <2>2
  <1>7. a * D = X * c
    <2>1. a * D \in Int /\ X * c \in Int
      BY <1>3
    <2> QED
      BY <1>1, <1>6, <2>1, Cancel
  <1> QED
    BY <1>4, <1>5, <1>7 DEF Val

LEMMA PlusVal ==
    ASSUME NEW x \in Fraction, NEW y \in Fraction, NEW D \in Nat \ {0},
           NEW X \in Int, NEW Y \in Int, Val(x, D, X), Val(y, D, Y)
    PROVE  Plus(x, y) \in Fraction /\ Val(Plus(x, y), D, X + Y)
  <1>1. PICK a, b \in Int, c, d \in Nat \ {0} :
           x.num = a /\ x.den = c /\ y.num = b /\ y.den = d
    BY DEF Fraction
  <1>2. a * D = X * c /\ b * D = Y * d
    BY <1>1 DEF Val
  <1>3. (a * d + b * c) * D = (X + Y) * (c * d)
    <2>1. (a * d + b * c) * D = (a * D) * d + (b * D) * c
      BY SMT
    <2>2. (X * c) * d + (Y * d) * c = (X + Y) * (c * d)
      BY SMT
    <2> QED
      BY <1>2, <2>1, <2>2
  <1>4. a * d + b * c \in Int /\ c * d \in Nat \ {0} /\ X + Y \in Int
    BY SMT
  <1>5. Plus(x, y) = Ratio(a * d + b * c, c * d)
    BY <1>1 DEF Plus
  <1> QED
    BY <1>3, <1>4, <1>5, RatioVal

LEMMA TimesVal ==
    ASSUME NEW x \in Fraction, NEW k \in Int, NEW D \in Nat \ {0},
           NEW X \in Int, Val(x, D, X)
    PROVE  Times(x, k) \in Fraction /\ Val(Times(x, k), D, X * k)
  <1>1. PICK a \in Int, c \in Nat \ {0} : x.num = a /\ x.den = c
    BY DEF Fraction
  <1>2. a * D = X * c
    BY <1>1 DEF Val
  <1>3. (a * k) * D = (X * k) * c
    <2>1. (a * k) * D = (a * D) * k /\ (X * c) * k = (X * k) * c
      BY SMT
    <2> QED
      BY <1>2, <2>1
  <1>4. a * k \in Int /\ X * k \in Int
    BY SMT
  <1> QED
    BY <1>1, <1>3, <1>4, RatioVal DEF Times

LEMMA WholeVal ==
    ASSUME NEW n \in Int, NEW D \in Nat \ {0}
    PROVE  Whole(n) \in Fraction /\ Val(Whole(n), D, n * D)
  BY DEF Whole, Fraction, Val

(* The difference to a price, times a quantity.                            *)
LEMMA GainVal ==
    ASSUME NEW m \in Int, NEW e \in Fraction, NEW k \in Int, NEW D \in Nat \ {0},
           NEW E \in Int, Val(e, D, E)
    PROVE  /\ Times(Minus(Whole(m), e), k) \in Fraction
           /\ Val(Times(Minus(Whole(m), e), k), D, (D * m - E) * k)
  <1>1. Whole(m) \in Fraction /\ Val(Whole(m), D, D * m)
    <2>1. m * D = D * m
      BY SMT
    <2> QED
      BY <2>1, WholeVal
  <1>2. Times(e, -1) \in Fraction /\ Val(Times(e, -1), D, -E)
    <2>1. E * (-1) = -E /\ -1 \in Int
      BY SMT
    <2> QED
      BY <2>1, TimesVal
  <1>3. Minus(Whole(m), e) \in Fraction /\ Val(Minus(Whole(m), e), D, D * m - E)
    <2>1. D * m \in Int /\ -E \in Int /\ D * m + (-E) = D * m - E
      BY SMT
    <2> QED
      BY <1>1, <1>2, <2>1, PlusVal DEF Minus
  <1>4. D * m - E \in Int
    BY SMT
  <1> QED
    BY <1>3, <1>4, TimesVal

LEMMA ScaleVal ==
    ASSUME NEW x \in Fraction, NEW D \in Nat \ {0}, NEW X \in Int, Val(x, D, X),
           NEW k \in Nat \ {0}
    PROVE  Val(x, D * k, X * k)
  <1>1. PICK a \in Int, c \in Nat \ {0} : x.num = a /\ x.den = c
    BY DEF Fraction
  <1>2. a * D = X * c
    BY <1>1 DEF Val
  <1>3. (a * D) * k = (X * c) * k
    BY <1>2
  <1>4. (a * D) * k = a * (D * k) /\ (X * c) * k = (X * k) * c
    BY SMT
  <1> QED
    BY <1>1, <1>3, <1>4 DEF Val

(* A sum whose value is a whole number is that number.                     *)
LEMMA WholeSum ==
    ASSUME NEW x \in Fraction, NEW y \in Fraction, NEW D \in Nat \ {0},
           NEW X \in Int, NEW Y \in Int, Val(x, D, X), Val(y, D, Y),
           NEW n \in Int, X + Y = D * n
    PROVE  Plus(x, y) = Whole(n)
  <1>1. PICK a, b \in Int, c, d \in Nat \ {0} :
           x.num = a /\ x.den = c /\ y.num = b /\ y.den = d
    BY DEF Fraction
  <1> DEFINE N == a * d + b * c
             M == c * d
  <1>2. a * D = X * c /\ b * D = Y * d
    BY <1>1 DEF Val
  <1>3. N \in Int /\ M \in Nat \ {0}
    BY SMT
  <1>4. N * D = (n * M) * D
    <2>1. N * D = (a * D) * d + (b * D) * c
      BY SMT
    <2>2. (X * c) * d + (Y * d) * c = (X + Y) * M
      BY SMT
    <2>3. (D * n) * M = (n * M) * D
      BY SMT
    <2> QED
      BY <1>2, <2>1, <2>2, <2>3
  <1>5. Plus(x, y) = Ratio(N, M)
    BY <1>1 DEF Plus
  <1> HIDE DEF N, M
  <1>6. N = n * M
    <2>1. n * M \in Int
      BY <1>3
    <2> QED
      BY <1>3, <1>4, <2>1, Cancel
  <1>7. Divides(M, Abs(N)) /\ Divides(M, M)
    <2>1. Abs(N) = n * M \/ Abs(N) = (-n) * M
      BY <1>3, <1>6 DEF Abs
    <2>2. \A k \in Int : (k * M) % M = 0
      BY <1>3
    <2>3. M = 1 * M
      BY <1>3
    <2> QED
      BY <2>1, <2>2, <2>3 DEF Divides
  <1>8. Gcd(N, M) = M
    <2> DEFINE C(g) == Divides(g, Abs(N)) /\ Divides(g, M)
    <2>1. M \in 1 .. M /\ C(M) /\ \A h \in (M + 1) .. M : ~C(h)
      BY <1>3, <1>7
    <2>2. \A g \in 1 .. M : g # M => M \in (g + 1) .. M
      BY <1>3
    <2>3. Gcd(N, M) = CHOOSE g \in 1 .. M : C(g) /\ \A h \in (g + 1) .. M : ~C(h)
      BY DEF Gcd
    <2> HIDE DEF C
    <2> QED
      BY <2>1, <2>2, <2>3
  <1>9. N \div M = n /\ M \div M = 1
    BY <1>3, <1>6
  <1> QED
    BY <1>5, <1>8, <1>9 DEF Ratio, Whole

-----------------------------------------------------------------------------
(* Profit and loss.                                                        *)

EntryVal(p, D, E) == IF p = NoPosition THEN E = 0 ELSE Val(p.entry, D, E)

(* What a fill books, loses, misvalues and leaves unrealized: on a         *)
(* denominator that the new average needs, they add up to what was         *)
(* unrealized before.                                                      *)
Balanced(p, signed, price, D, E, k, b, u, v, F) ==
    /\ Val(Booked(p, signed, price), D * k, b)
    /\ Val(Unbooked(p, signed, price), D * k, u)
    /\ Val(Misvalued(p, signed, price), D * k, v)
    /\ EntryVal(Filled(p, signed, price), D * k, F)
    /\ b + (u - v) + (D * k * price - F) * Amount(Filled(p, signed, price))
          = k * ((D * price - E) * Amount(p))

LEMMA HeldIsPosition ==
    \A a \in Int, e \in Fraction :
       [amt |-> a, entry |-> e] \in Position /\ [amt |-> a, entry |-> e] # NoPosition
  <1>1. \A a \in Int, e \in Fraction : [amt |-> a, entry |-> e] \in Position
    BY DEF Position
  <1> QED
    BY <1>1

LEMMA FillVal ==
    ASSUME NEW p \in Position \cup {NoPosition}, NEW signed \in Int,
           NEW price \in Nat, NEW D \in Nat \ {0}, NEW E \in Int, EntryVal(p, D, E)
    PROVE  \E k \in Nat \ {0}, b, u, v, F \in Int :
              Balanced(p, signed, price, D, E, k, b, u, v, F)
  <1>0. Val(Zero, D, 0) /\ D * 1 = D
    <2>1. D * 1 = D /\ 0 * D = 0 * 1
      BY SMT
    <2> QED
      BY <2>1 DEF Val, Zero, Whole
  <1>1. 1 \in Nat \ {0} /\ 0 \in Int
    OBVIOUS
  <1>2. CASE p = NoPosition
    <2>1. Filled(p, signed, price) = [amt |-> signed, entry |-> Whole(price)]
      BY <1>2 DEF Filled
    <2>2. /\ Booked(p, signed, price) = Zero /\ Unbooked(p, signed, price) = Zero
          /\ Misvalued(p, signed, price) = Zero /\ Amount(p) = 0 /\ E = 0
      BY <1>2 DEF Booked, Unbooked, Misvalued, EntryStays, Closes, Amount, EntryVal
    <2>3. PICK G \in Int : G = price * D /\ Val(Whole(price), D, G)
      BY WholeVal
    <2>4. Filled(p, signed, price) # NoPosition
      <3>1. price \in Int
        OBVIOUS
      <3>2. Whole(price) \in Fraction
        BY <3>1, FractionType
      <3> QED
        BY <2>1, <3>2, HeldIsPosition
    <2>5. EntryVal(Filled(p, signed, price), D, G)
      BY <2>1, <2>3, <2>4 DEF EntryVal
    <2>6. 0 + (0 - 0) + (D * price - G) * signed = 1 * ((D * price - 0) * 0)
      BY <2>3
    <2>7. Amount(Filled(p, signed, price)) = signed
      BY <2>1, <2>4 DEF Amount
    <2>8. Balanced(p, signed, price, D, E, 1, 0, 0, 0, G)
      BY <1>0, <2>2, <2>5, <2>6, <2>7 DEF Balanced
    <2> QED
      BY <1>1, <2>8
  <1>3. ASSUME p # NoPosition, NEW a \in Int, p.amt = a
        PROVE  \E k \in Nat \ {0}, b, u, v, F \in Int :
                  Balanced(p, signed, price, D, E, k, b, u, v, F)
    <2>1. p.entry \in Fraction /\ Val(p.entry, D, E) /\ Amount(p) = a
      BY <1>3 DEF Position, EntryVal, Amount
    <2>2. ASSUME NEW k \in Int
          PROVE  /\ Val(Times(Minus(Whole(price), p.entry), k), D, (D * price - E) * k)
                 /\ (D * price - E) * k \in Int
      BY <2>1, GainVal
    <2>3. CASE Closes(p, signed)
      <3>1. /\ Filled(p, signed, price) = NoPosition
            /\ Booked(p, signed, price) = Times(Minus(Whole(price), p.entry), a)
            /\ Unbooked(p, signed, price) = Zero /\ Misvalued(p, signed, price) = Zero
        BY <2>3, <1>3 DEF Filled, Booked, Unbooked, Misvalued, EntryStays
      <3>2. PICK b \in Int : b = (D * price - E) * a
        BY <2>2
      <3>3. EntryVal(Filled(p, signed, price), D, 0) /\ Amount(Filled(p, signed, price)) = 0
        BY <3>1 DEF EntryVal, Amount
      <3>4. b + (0 - 0) + (D * price - 0) * 0 = 1 * b
        BY SMT
      <3>5. Balanced(p, signed, price, D, E, 1, b, 0, 0, 0)
        BY <1>0, <2>1, <2>2, <3>1, <3>2, <3>3, <3>4 DEF Balanced
      <3> QED
        BY <1>1, <3>5
    <2>4. CASE ~Closes(p, signed) /\ ~SameWay(a, signed)
      <3>1. /\ Filled(p, signed, price) = [amt |-> a + signed, entry |-> p.entry]
            /\ Booked(p, signed, price) = Zero
            /\ Unbooked(p, signed, price)
                  = Times(Minus(Whole(price), p.entry), Closed(p, signed))
            /\ Misvalued(p, signed, price)
                  = Times(Minus(Whole(price), p.entry), Opened(p, signed))
        BY <2>4, <1>3 DEF Filled, Booked, Unbooked, Misvalued, EntryStays
      <3>2. PICK c \in Int : c = Closed(p, signed)
        BY <1>3 DEF Closed
      <3>3. PICK u, v \in Int : u = (D * price - E) * c /\ v = (D * price - E) * (signed + c)
        BY SMT
      <3>4. Filled(p, signed, price) # NoPosition
        <4>1. a + signed \in Int
          OBVIOUS
        <4> QED
          BY <3>1, <2>1, <4>1, HeldIsPosition
      <3>5. EntryVal(Filled(p, signed, price), D, E)
            /\ Amount(Filled(p, signed, price)) = a + signed
        BY <2>1, <3>1, <3>4 DEF EntryVal, Amount
      <3>6. 0 + (u - v) + (D * price - E) * (a + signed) = 1 * ((D * price - E) * a)
        <4>1. PICK x \in Int : x = D * price - E
          BY SMT
        <4>2. 0 + (x * c - x * (signed + c)) + x * (a + signed) = 1 * (x * a)
          BY SMT
        <4> QED
          BY <3>3, <4>1, <4>2
      <3>7. Val(Unbooked(p, signed, price), D, u) /\ Val(Misvalued(p, signed, price), D, v)
        <4>1. Opened(p, signed) = signed + c /\ signed + c \in Int
          BY <3>2 DEF Opened
        <4> QED
          BY <2>2, <3>1, <3>2, <3>3, <4>1
      <3>8. Balanced(p, signed, price, D, E, 1, 0, u, v, E)
        BY <1>0, <2>1, <3>1, <3>5, <3>6, <3>7 DEF Balanced
      <3> QED
        BY <1>1, <3>8
    <2>5. CASE ~Closes(p, signed) /\ SameWay(a, signed)
      <3>1. PICK k \in Nat \ {0}, v, w \in Nat :
               k = Abs(a + signed) /\ v = Abs(a) /\ w = Abs(signed)
        BY <2>5 DEF SameWay, Abs
      <3>2. PICK F \in Int : F = v * E + w * price * D
        BY SMT
      <3>3. /\ Filled(p, signed, price)
                  = [amt |-> a + signed, entry |-> Average(p, signed, price)]
            /\ Booked(p, signed, price) = Zero /\ Unbooked(p, signed, price) = Zero
            /\ Misvalued(p, signed, price) = Zero
        BY <2>5, <1>3 DEF Filled, Booked, Unbooked, Misvalued, EntryStays
      <3>4. PICK n \in Int, d \in Nat \ {0} : p.entry.num = n /\ p.entry.den = d
        BY <2>1 DEF Fraction
      <3>5. n * D = E * d
        BY <2>1, <3>4 DEF Val
      <3>6. Average(p, signed, price) = Ratio(v * n + w * price * d, d * k)
        BY <1>3, <3>1, <3>4 DEF Average
      <3>7. (v * n + w * price * d) * (D * k) = F * (d * k)
        <4>1. (v * n + w * price * d) * (D * k) = (v * (n * D) + w * price * d * D) * k
          BY SMT
        <4>2. (v * E + w * price * D) * (d * k) = (v * (E * d) + w * price * d * D) * k
          BY SMT
        <4> QED
          BY <3>2, <3>5, <4>1, <4>2
      <3>8. v * n + w * price * d \in Int /\ d * k \in Nat \ {0} /\ D * k \in Nat \ {0}
        BY SMT
      <3>9. Average(p, signed, price) \in Fraction
            /\ Val(Average(p, signed, price), D * k, F)
        BY <3>6, <3>7, <3>8, RatioVal
      <3>10. Filled(p, signed, price) # NoPosition
        <4>1. a + signed \in Int
          OBVIOUS
        <4> QED
          BY <3>3, <3>9, <4>1, HeldIsPosition
      <3>11. EntryVal(Filled(p, signed, price), D * k, F)
             /\ Amount(Filled(p, signed, price)) = a + signed
        BY <3>3, <3>9, <3>10 DEF EntryVal, Amount
      <3>12. Val(Zero, D * k, 0)
        BY <3>8 DEF Val, Zero, Whole
      <3>13. 0 + (0 - 0) + (D * k * price - F) * (a + signed) = k * ((D * price - E) * a)
        <4>1. CASE a > 0 /\ signed > 0
          <5>1. k = a + signed /\ v = a /\ w = signed
            BY <3>1, <4>1 DEF Abs
          <5>2. (D * (a + signed) * price - (a * E + signed * price * D)) * (a + signed)
                   = (a + signed) * ((D * price - E) * a)
            BY SMT
          <5> QED
            BY <3>2, <5>1, <5>2
        <4>2. CASE a < 0 /\ signed < 0
          <5>1. k = -(a + signed) /\ v = -a /\ w = -signed
            BY <3>1, <4>2 DEF Abs
          <5>2. (D * (-(a + signed)) * price - ((-a) * E + (-signed) * price * D)) * (a + signed)
                   = (-(a + signed)) * ((D * price - E) * a)
            BY SMT
          <5> QED
            BY <3>2, <5>1, <5>2
        <4> QED
          BY <2>5, <4>1, <4>2 DEF SameWay
      <3>14. Balanced(p, signed, price, D, E, k, 0, 0, 0, F)
        BY <2>1, <3>3, <3>11, <3>12, <3>13 DEF Balanced
      <3> QED
        BY <1>1, <3>14
    <2> QED
      BY <2>3, <2>4, <2>5
  <1>4. p # NoPosition => p.amt \in Int
    BY DEF Position
  <1> QED
    BY <1>2, <1>3, <1>4

(* Only executed orders are applied.                                       *)
AppliedExecuted == \A i \in applied : Executed(orders[i])

Gains == [i \in DOMAIN orders |-> Gain(orders[i])]

(* What is unrealized, on the denominator D with entry prices e; and all   *)
(* that the account holds on it.                                           *)
UnrealizedOn(D, e) == [s \in Symbols |-> (D * mark[s] - e[s]) * HeldQuantity(s)]

Valued(D, R, U, M, e) ==
    /\ Val(realized, D, R) /\ Val(unbooked, D, U) /\ Val(misvalued, D, M)
    /\ \A s \in Symbols : EntryVal(position[s], D, e[s])
    /\ R + (U - M) + SumFunctionOnSet(UnrealizedOn(D, e), Symbols) = D * LedgerPnL

Balance ==
    \E D \in Nat \ {0}, R, U, M \in Int, e \in [Symbols -> Int] : Valued(D, R, U, M, e)

PnLInv == AccountInv /\ AppliedExecuted /\ Balance

LEMMA SymbolTypes ==
    ASSUME AccountInv, NEW s \in Symbols
    PROVE  /\ mark[s] \in Nat /\ mark[s] \in Int
           /\ position[s] \in Position \cup {NoPosition} /\ HeldQuantity(s) \in Int
           /\ HeldQuantity(s) = Amount(position[s])
  <1>1. mark[s] \in Prices \cup {StartPrice}
    BY DEF AccountInv, IInv, BookType
  <1>2. position[s] \in Position \cup {NoPosition}
    BY DEF AccountInv, AccountType
  <1>3. HeldQuantity(s) = Amount(position[s]) /\ HeldQuantity(s) \in Int
    BY <1>2 DEF HeldQuantity, Amount, Position
  <1>4. mark[s] \in Nat
    BY <1>1
  <1> QED
    BY <1>2, <1>3, <1>4

LEMMA UnrealizedType ==
    ASSUME AccountInv, NEW D \in Nat \ {0}, NEW e \in [Symbols -> Int]
    PROVE  /\ \A s \in Symbols : UnrealizedOn(D, e)[s] \in Int
           /\ SumFunctionOnSet(UnrealizedOn(D, e), Symbols) \in Int
  <1>1. ASSUME NEW s \in Symbols PROVE UnrealizedOn(D, e)[s] \in Int
    <2>1. mark[s] \in Int /\ HeldQuantity(s) \in Int /\ e[s] \in Int
      BY SymbolTypes
    <2>2. \A m, h, x \in Int : (D * m - x) * h \in Int
      BY SMT
    <2> QED
      BY <2>1, <2>2 DEF UnrealizedOn
  <1> QED
    BY <1>1, SumType

LEMMA GainsType ==
    ASSUME AccountInv
    PROVE  /\ IsFiniteSet(applied)
           /\ \A i \in DOMAIN orders : Gains[i] = Gain(orders[i]) /\ Gains[i] \in Int
           /\ LedgerPnL = SumFunctionOnSet(Gains, applied) /\ LedgerPnL \in Int
  <1>1. IsFiniteSet(applied) /\ applied \subseteq DOMAIN orders
    <2>1. Len(orders) \in Nat /\ DOMAIN orders = 1 .. Len(orders)
      BY DEF AccountInv, IInv, BookType
    <2>2. IsFiniteSet(DOMAIN orders)
      BY <2>1, FS_Interval
    <2>3. applied \subseteq DOMAIN orders
      BY DEF AccountInv, AccountType
    <2> QED
      BY <2>2, <2>3, FS_Subset
  <1>2. ASSUME NEW i \in DOMAIN orders PROVE Gains[i] = Gain(orders[i]) /\ Gains[i] \in Int
    <2>1. orders[i] \in Order
      BY DEF AccountInv, IInv, BookType
    <2>2. Signed(orders[i]) \in Int
      BY SignedType DEF AccountInv, IInv
    <2>3. mark[orders[i].symbol] \in Int /\ orders[i].avg \in Int
      <3>1. orders[i].symbol \in Symbols /\ orders[i].avg \in Prices \cup {StartPrice, 0}
        BY <2>1 DEF Order
      <3>2. mark[orders[i].symbol] \in Int
        BY <3>1, SymbolTypes
      <3>3. Prices \cup {StartPrice, 0} \subseteq Int
        OBVIOUS
      <3> QED
        BY <3>1, <3>2, <3>3
    <2>4. \A x, y, z \in Int : x * (y - z) \in Int
      BY SMT
    <2> QED
      BY <2>2, <2>3, <2>4 DEF Gains, Gain
  <1>3. LedgerPnL = SumFunctionOnSet(Gains, applied)
    BY DEF LedgerPnL, Gains
  <1> QED
    BY <1>1, <1>2, <1>3, SumType

(* On any denominator that fits, the account is what it reports.           *)
LEMMA BalanceAccounts == PnLInv => PnLAccounting
  <1> SUFFICES ASSUME PnLInv PROVE PnLAccounting
    OBVIOUS
  <1>1. PICK D \in Nat \ {0}, R \in Int, U \in Int, M \in Int, e \in [Symbols -> Int] :
           Valued(D, R, U, M, e)
    BY DEF PnLInv, Balance
  <1> DEFINE un == [s \in Symbols |-> Unrealized(s)]
             w == UnrealizedOn(D, e)
             c == CHOOSE g : Folded(realized, un, Symbols, g)
  <1>2. /\ AccountInv /\ realized \in Fraction /\ unbooked \in Fraction
        /\ misvalued \in Fraction
        /\ Val(realized, D, R) /\ Val(unbooked, D, U) /\ Val(misvalued, D, M)
    BY <1>1 DEF PnLInv, AccountInv, AccountType, Valued
  <1>3. ASSUME NEW s \in Symbols
        PROVE  un[s] \in Fraction /\ Val(un[s], D, w[s]) /\ w[s] \in Int
    <2>1. position[s] \in Position \cup {NoPosition} /\ mark[s] \in Int /\ e[s] \in Int
      BY <1>2, SymbolTypes
    <2>2. EntryVal(position[s], D, e[s]) /\ w[s] \in Int
      BY <1>1, <1>2, UnrealizedType DEF Valued
    <2>3. un[s] = Unrealized(s) /\ w[s] = (D * mark[s] - e[s]) * HeldQuantity(s)
      BY DEF UnrealizedOn
    <2> HIDE DEF un, w
    <2>4. CASE position[s] = NoPosition
      <3>1. Unrealized(s) = Zero /\ HeldQuantity(s) = 0
        BY <2>4 DEF Unrealized, HeldQuantity
      <3>2. w[s] = 0
        BY <2>1, <2>3, <3>1
      <3>3. 0 * D = 0 * 1
        BY SMT
      <3> QED
        BY <2>3, <3>1, <3>2, <3>3, FractionType DEF Val, Zero, Whole
    <2>5. CASE position[s] # NoPosition
      <3>1. PICK k \in Int : position[s].amt = k
        BY <2>1, <2>5 DEF Position
      <3>2. position[s].entry \in Fraction /\ Val(position[s].entry, D, e[s])
        BY <2>1, <2>2, <2>5 DEF Position, EntryVal
      <3>3. /\ Unrealized(s) = Times(Minus(Whole(mark[s]), position[s].entry), k)
            /\ HeldQuantity(s) = k
        BY <2>5, <3>1 DEF Unrealized, HeldQuantity
      <3>4. /\ Times(Minus(Whole(mark[s]), position[s].entry), k) \in Fraction
            /\ Val(Times(Minus(Whole(mark[s]), position[s].entry), k), D,
                   (D * mark[s] - e[s]) * k)
        BY <2>1, <3>1, <3>2, GainVal
      <3> QED
        BY <2>2, <2>3, <3>3, <3>4
    <2> QED
      BY <2>4, <2>5
  <1> HIDE DEF un, w
  <1>4. Folded(realized, un, Symbols, c)
    BY FoldExists
  <1>5. ReportedPnL = c[Symbols]
    BY FoldIsChosen DEF ReportedPnL, un
  <1> HIDE DEF c
  <1> DEFINE Fits(T) == c[T] \in Fraction /\ Val(c[T], D, R + SumFunctionOnSet(w, T))
  <1>6. ASSUME NEW T \in SUBSET Symbols, \A V \in SUBSET T : V = T \/ Fits(V)
        PROVE  Fits(T)
    <2>1. c[T] = FoldStep(realized, un, c, T)
      BY <1>4 DEF Folded
    <2>2. CASE T = {}
      <3>1. c[T] = realized /\ SumFunctionOnSet(w, T) = 0
        BY <2>1, <2>2, SumEmpty DEF FoldStep
      <3>2. R + 0 = R
        OBVIOUS
      <3> QED
        BY <1>2, <3>1, <3>2
    <2>3. CASE T # {}
      <3> DEFINE x == First(T)
                 V == T \ {x}
      <3>1. x \in T /\ x \in Symbols
        BY <2>3 DEF First
      <3>2. c[T] = Plus(un[x], c[V])
        BY <2>1, <2>3 DEF FoldStep
      <3> HIDE DEF x
      <3>3. Fits(V)
        BY <1>6, <3>1
      <3>4. \A y \in T : w[y] \in Int
        BY <1>3
      <3>5. IsFiniteSet(T) /\ IsFiniteSet(V)
        BY FS_Subset
      <3>6. SumFunctionOnSet(w, T) = w[x] + SumFunctionOnSet(w, V)
        BY <3>1, <3>4, <3>5, SumRemove
      <3>7. SumFunctionOnSet(w, V) \in Int
        BY <3>4, <3>5, SumType
      <3> HIDE DEF V
      <3>8. PICK a \in Int, b \in Int : a = w[x] /\ b = R + SumFunctionOnSet(w, V)
        BY <1>3, <3>1, <3>7
      <3>9. R + SumFunctionOnSet(w, T) = a + b
        BY <3>6, <3>7, <3>8
      <3>10. /\ un[x] \in Fraction /\ c[V] \in Fraction
             /\ Val(un[x], D, a) /\ Val(c[V], D, b)
        BY <1>3, <3>1, <3>3, <3>8
      <3>11. Plus(un[x], c[V]) \in Fraction /\ Val(Plus(un[x], c[V]), D, a + b)
        BY <3>10, PlusVal
      <3> QED
        BY <3>2, <3>9, <3>11
    <2> QED
      BY <2>2, <2>3
  <1>7. Fits(Symbols)
    <2> DEFINE B == {T \in SUBSET Symbols : ~Fits(T)}
    <2> SUFFICES ASSUME B # {} PROVE FALSE
      OBVIOUS
    <2>1. PICK T \in B : \A v \in B : ~(v \subseteq T /\ v # T)
      <3>1. B \in SUBSET (SUBSET Symbols)
        OBVIOUS
      <3> HIDE DEF B
      <3> QED
        BY <3>1, SmallestSubset
    <2>2. T \in SUBSET Symbols /\ ~Fits(T)
      BY <2>1
    <2>3. \A V \in SUBSET T : V = T \/ Fits(V)
      BY <2>1
    <2> HIDE DEF Fits
    <2> QED
      BY <1>6, <2>2, <2>3
  <1>8. PICK x \in Fraction, X \in Int, n \in Int :
           /\ x = ReportedPnL /\ Val(x, D, X) /\ n = LedgerPnL /\ X + (U - M) = D * n
    <2>1. SumFunctionOnSet(w, Symbols) \in Int /\ LedgerPnL \in Int
      BY <1>2, UnrealizedType, GainsType DEF w
    <2>2. R + (U - M) + SumFunctionOnSet(w, Symbols) = D * LedgerPnL
      BY <1>1 DEF Valued, w
    <2>3. PICK X \in Int : X = R + SumFunctionOnSet(w, Symbols)
      BY <2>1
    <2>4. X + (U - M) = D * LedgerPnL
      BY <2>1, <2>2, <2>3
    <2> QED
      BY <1>5, <1>7, <2>1, <2>3, <2>4
  <1>9. PICK y \in Fraction, z \in Fraction, Y \in Int, Z \in Int :
           /\ y = Plus(x, unbooked) /\ Val(y, D, Y) /\ Y = X + U
           /\ z = Times(misvalued, -1) /\ Val(z, D, Z) /\ Z = -M
    <2>1. Plus(x, unbooked) \in Fraction /\ Val(Plus(x, unbooked), D, X + U)
      BY <1>2, <1>8, PlusVal
    <2>2. -1 \in Int /\ M * (-1) = -M
      BY SMT
    <2>3. Times(misvalued, -1) \in Fraction /\ Val(Times(misvalued, -1), D, -M)
      BY <1>2, <2>2, TimesVal
    <2> QED
      BY <2>1, <2>3
  <1>10. Plus(y, z) = Whole(n)
    <2>1. Y + Z = D * n
      BY <1>8, <1>9
    <2> QED
      BY <1>8, <1>9, <2>1, WholeSum
  <1> QED
    BY <1>8, <1>9, <1>10 DEF PnLAccounting, Minus

-----------------------------------------------------------------------------
(* Steps.                                                                  *)

(* The orders that were applied keep what they gained.                     *)
LEMMA SameGains ==
    ASSUME PnLInv, AccountInv', Kept(orders'), NEW i \in applied, mark' = mark
    PROVE  /\ i \in DOMAIN orders' /\ Gains'[i] = Gains[i]
           /\ Executed(orders'[i])
  <1>1. i \in DOMAIN orders /\ orders[i] \in Order /\ BookType
    BY DEF PnLInv, AccountInv, AccountType, IInv, BookType
  <1>2. i \in DOMAIN orders' /\ SameFill(orders'[i], orders[i])
    BY <1>1, KeptFills DEF Kept
  <1>3. orders'[i].avg = orders[i].avg
    <2>1. orders'[i] \in {orders[i], [orders[i] EXCEPT !.status = "CANCELED"]}
      BY <1>1 DEF Kept
    <2>2. [orders[i] EXCEPT !.status = "CANCELED"].avg = orders[i].avg
      BY <1>1 DEF Order
    <2> QED
      BY <2>1, <2>2
  <1>4. Gains'[i] = Signed(orders'[i]) * (mark'[orders'[i].symbol] - orders'[i].avg)
    BY <1>2 DEF Gains, Gain
  <1>5. Gains[i] = Signed(orders[i]) * (mark[orders[i].symbol] - orders[i].avg)
    BY <1>1 DEF Gains, Gain
  <1>6. Signed(orders'[i]) = Signed(orders[i]) /\ orders'[i].symbol = orders[i].symbol
    BY <1>2 DEF Signed, SameFill
  <1> QED
    BY <1>1, <1>2, <1>3, <1>4, <1>5, <1>6 DEF PnLInv, AppliedExecuted, Executed, SameFill

LEMMA SameLedger ==
    ASSUME PnLInv, AccountInv', Kept(orders'), mark' = mark
    PROVE  SumFunctionOnSet(Gains', applied) = LedgerPnL
  <1> DEFINE old == Gains
             new == Gains'
  <1>1. \A i \in applied : new[i] = old[i]
    BY SameGains
  <1>2. IsFiniteSet(applied) /\ LedgerPnL = SumFunctionOnSet(old, applied)
    BY GainsType DEF PnLInv
  <1>3. \A i \in applied : old[i] \in Int
    BY GainsType DEF PnLInv, AccountInv, AccountType
  <1> HIDE DEF old, new
  <1>4. \A i \in applied : old[i] \in Int /\ old[i] = new[i]
    BY <1>1, <1>3
  <1>5. SumFunctionOnSet(old, applied) = SumFunctionOnSet(new, applied)
    BY <1>2, <1>4, SumSame
  <1> QED
    BY <1>2, <1>5 DEF new

LEMMA QuietPnL ==
    ASSUME PnLInv, AccountInv', Kept(orders'), UNCHANGED <<accountVars, mark>>
    PROVE  PnLInv'
  <1> USE DEF accountVars
  <1>1. AppliedExecuted'
    BY SameGains DEF AppliedExecuted
  <1>2. LedgerPnL' = LedgerPnL
    <2>1. LedgerPnL' = SumFunctionOnSet(Gains', applied')
      BY DEF LedgerPnL, Gains
    <2> QED
      BY <2>1, SameLedger
  <1>3. PICK D \in Nat \ {0}, R \in Int, U \in Int, M \in Int, e \in [Symbols -> Int] :
           Valued(D, R, U, M, e)
    BY DEF PnLInv, Balance
  <1>4. Valued(D, R, U, M, e)'
    BY <1>2, <1>3 DEF Valued, UnrealizedOn, HeldQuantity
  <1>5. Balance'
    BY <1>4 DEF Balance
  <1> QED
    BY <1>1, <1>5 DEF PnLInv

(* A new mark moves the orders' gains by its difference for every unit of  *)
(* the symbol that was executed, so for every unit that is held.           *)
LEMMA MarkLedger ==
    ASSUME PnLInv, NEW s \in Symbols, NEW p \in Prices, SetMarkPrice(s, p)
    PROVE  LedgerPnL' = LedgerPnL + (p - mark[s]) * HeldQuantity(s)
  <1> DEFINE f == Gains
             h == Gains'
             q == [i \in applied |-> IF orders[i].symbol = s THEN SignedQuantities[i] ELSE 0]
  <1>1. /\ AccountInv /\ BookType /\ applied \subseteq DOMAIN orders
        /\ PositionIsFills /\ IsFiniteSet(applied)
    BY GainsType DEF PnLInv, AccountInv, IInv, AccountType
  <1>2. mark[s] \in Int /\ HeldQuantity(s) \in Int /\ p \in Int
    <2>1. Prices \subseteq Int
      OBVIOUS
    <2> QED
      BY <1>1, <2>1, SymbolTypes
  <1>3. PICK d \in Int : d = p - mark[s]
    BY <1>2
  <1>4. ASSUME NEW i \in applied
        PROVE  f[i] \in Int /\ q[i] \in Int /\ h[i] = 1 * f[i] + d * q[i]
    <2>1. i \in DOMAIN orders /\ orders[i] \in Order
      BY <1>1 DEF BookType
    <2>2. SignedQuantities[i] = Signed(orders[i]) /\ Signed(orders[i]) \in Int
      BY <1>1, <2>1, SignedType
    <2>3. orders[i].symbol \in Symbols /\ orders[i].avg \in Int
      <3>1. orders[i].symbol \in Symbols /\ orders[i].avg \in Prices \cup {StartPrice, 0}
        BY <2>1 DEF Order
      <3>2. Prices \cup {StartPrice, 0} \subseteq Int
        OBVIOUS
      <3> QED
        BY <3>1, <3>2
    <2>4. f[i] = Signed(orders[i]) * (mark[orders[i].symbol] - orders[i].avg)
      BY <2>1 DEF Gains, Gain
    <2>5. h[i] = Signed(orders[i]) * (mark'[orders[i].symbol] - orders[i].avg)
      <3>1. orders' = orders
        BY DEF SetMarkPrice
      <3> QED
        BY <2>1, <3>1 DEF Gains, Gain
    <2>6. mark'[orders[i].symbol] = IF orders[i].symbol = s THEN p ELSE mark[orders[i].symbol]
      BY <1>1, <2>3 DEF SetMarkPrice, BookType
    <2>7. PICK a, b, m \in Int : /\ a = Signed(orders[i]) /\ b = orders[i].avg
                                 /\ m = mark[orders[i].symbol]
      BY <1>1, <2>2, <2>3, SymbolTypes
    <2>8. f[i] \in Int /\ f[i] = a * (m - b)
      BY <2>4, <2>7
    <2>9. CASE orders[i].symbol = s
      <3>1. m = mark[s] /\ q[i] = a /\ h[i] = a * (p - b)
        BY <2>2, <2>5, <2>6, <2>7, <2>9
      <3>2. a * (p - b) = 1 * (a * (m - b)) + (p - m) * a
        BY <1>2
      <3> QED
        BY <1>3, <2>8, <3>1, <3>2
    <2>10. CASE orders[i].symbol # s
      <3>1. q[i] = 0 /\ h[i] = a * (m - b)
        BY <2>5, <2>6, <2>7, <2>10
      <3>2. 1 * (a * (m - b)) + d * 0 = a * (m - b)
        BY SMT
      <3> QED
        BY <2>8, <3>1, <3>2
    <2> QED
      BY <2>9, <2>10
  <1>5. SumFunctionOnSet(q, applied) = HeldQuantity(s)
    <2> DEFINE T == Fills(s) \cap applied
    <2>1. \A i \in T : q[i] = SignedQuantities[i]
      BY DEF Fills
    <2>2. \A i \in applied \ T : q[i] = 0
      <3>1. \A i \in applied : Executed(orders[i]) /\ i \in DOMAIN orders
        BY <1>1 DEF PnLInv, AppliedExecuted
      <3> QED
        BY <3>1 DEF Fills
    <2>3. HeldQuantity(s) = SumFunctionOnSet(SignedQuantities, T)
      BY <1>1 DEF PositionIsFills
    <2>4. T \in SUBSET applied
      OBVIOUS
    <2>5. \A i \in applied : q[i] \in Int
      BY <1>4
    <2> HIDE DEF T, q
    <2>6. SumFunctionOnSet(q, applied) = SumFunctionOnSet(q, T)
      BY <1>1, <2>2, <2>4, <2>5, SumSupport
    <2>7. IsFiniteSet(T) /\ \A i \in T : q[i] \in Int /\ q[i] = SignedQuantities[i]
      BY <1>1, <2>1, <2>4, <2>5, FS_Subset
    <2>8. SumFunctionOnSet(q, T) = SumFunctionOnSet(SignedQuantities, T)
      BY <2>7, SumSame
    <2> QED
      BY <2>3, <2>6, <2>8
  <1>6. LedgerPnL = SumFunctionOnSet(f, applied) /\ LedgerPnL \in Int
    BY <1>1, GainsType
  <1>7. LedgerPnL' = SumFunctionOnSet(h, applied)
    BY DEF LedgerPnL, Gains, SetMarkPrice, accountVars
  <1> HIDE DEF f, h, q
  <1>8. SumFunctionOnSet(h, applied)
           = 1 * SumFunctionOnSet(f, applied) + d * SumFunctionOnSet(q, applied)
    BY <1>1, <1>4, SumLinear
  <1> QED
    BY <1>2, <1>3, <1>5, <1>6, <1>7, <1>8

LEMMA MarkPnL ==
    ASSUME PnLInv, AccountInv', NEW s \in Symbols, NEW p \in Prices, SetMarkPrice(s, p)
    PROVE  PnLInv'
  <1>0. /\ UNCHANGED <<orders, position, realized, unbooked, misvalued, applied>>
        /\ AccountInv /\ mark' = [mark EXCEPT ![s] = p]
    BY DEF SetMarkPrice, accountVars, PnLInv
  <1>1. AppliedExecuted'
    BY <1>0 DEF PnLInv, AppliedExecuted
  <1>2. PICK D \in Nat \ {0}, R \in Int, U \in Int, M \in Int, e \in [Symbols -> Int] :
           Valued(D, R, U, M, e)
    BY DEF PnLInv, Balance
  <1> DEFINE w == UnrealizedOn(D, e)
             v == UnrealizedOn(D, e)'
  <1>3. PICK m \in Int, q \in Int, x \in Int, k \in Int :
           /\ m = mark[s] /\ q = HeldQuantity(s) /\ x = e[s] /\ k = p
    <2>1. Prices \subseteq Int
      OBVIOUS
    <2> QED
      BY <1>0, <2>1, SymbolTypes
  <1>4. \A u \in Symbols \ {s} : v[u] = w[u]
    BY <1>0 DEF UnrealizedOn, HeldQuantity, AccountInv, IInv, BookType
  <1>5. w[s] = (D * m - x) * q /\ v[s] = (D * k - x) * q
    <2>1. HeldQuantity(s)' = HeldQuantity(s) /\ mark'[s] = p
      BY <1>0 DEF HeldQuantity, AccountInv, IInv, BookType
    <2> QED
      BY <1>3, <2>1 DEF UnrealizedOn
  <1>6. /\ \A u \in Symbols : w[u] \in Int
        /\ SumFunctionOnSet(w, Symbols) \in Int /\ LedgerPnL \in Int
    BY <1>0, UnrealizedType, GainsType
  <1>7. v[s] \in Int
    <2>1. (D * k - x) * q \in Int
      BY SMT
    <2> QED
      BY <1>5, <2>1
  <1>8. PICK H \in Int :
           H = R + (U - M) /\ H + SumFunctionOnSet(w, Symbols) = D * LedgerPnL
    BY <1>2 DEF Valued
  <1> HIDE DEF w, v
  <1>9. SumFunctionOnSet(v, Symbols) = SumFunctionOnSet(w, Symbols) + v[s] - w[s]
    BY <1>4, <1>6, <1>7, OneSummand
  <1>10. LedgerPnL' = LedgerPnL + (k - m) * q
    BY <1>3, MarkLedger
  <1>11. R + (U - M) + SumFunctionOnSet(v, Symbols) = D * LedgerPnL'
    <2>1. PICK z, l \in Int : z = SumFunctionOnSet(w, Symbols) /\ l = LedgerPnL
      BY <1>6
    <2>2. (D * k - x) * q - (D * m - x) * q = D * ((k - m) * q)
      BY SMT
    <2>3. D * (l + (k - m) * q) = D * l + D * ((k - m) * q)
      BY SMT
    <2>4. PICK a, b, c \in Int : /\ a = (D * k - x) * q /\ b = (D * m - x) * q
                                 /\ c = D * ((k - m) * q)
      BY SMT
    <2>5. a - b = c /\ SumFunctionOnSet(v, Symbols) = z + a - b /\ H + z = D * l
      BY <1>5, <1>8, <1>9, <2>1, <2>2, <2>4
    <2>6. D * LedgerPnL' = D * l + c
      BY <1>10, <2>1, <2>3, <2>4
    <2>7. D * l \in Int
      BY SMT
    <2> QED
      BY <1>8, <2>5, <2>6, <2>7
  <1>12. Valued(D, R, U, M, e)'
    <2>1. /\ Val(realized, D, R)' /\ Val(unbooked, D, U)' /\ Val(misvalued, D, M)'
          /\ \A u \in Symbols : EntryVal(position[u], D, e[u])'
      BY <1>0, <1>2 DEF Valued
    <2> QED
      BY <1>11, <2>1 DEF Valued, v
  <1>13. Balance'
    BY <1>12 DEF Balance
  <1> QED
    BY <1>1, <1>13 DEF PnLInv

(* A fill gains nothing yet.                                               *)
LEMMA FillLedger ==
    ASSUME PnLInv, AccountInv', Kept(orders'), mark' = mark,
           NEW new \in Order, orders' = Append(orders, new),
           new.avg = mark[new.symbol], applied' = applied \cup {NextId}
    PROVE  LedgerPnL' = LedgerPnL
  <1> DEFINE n == NextId
             h == Gains'
  <1>1. /\ AccountInv /\ orders \in Seq(Order) /\ applied \subseteq DOMAIN orders
        /\ IsFiniteSet(applied) /\ LedgerPnL \in Int
    BY GainsType DEF PnLInv, AccountInv, IInv, BookType, AccountType
  <1>2. n \in DOMAIN orders' /\ n \notin applied /\ orders'[n] = new
    BY <1>1 DEF NextId
  <1>3. h[n] = 0
    <2>1. h[n] = Signed(new) * (mark[new.symbol] - new.avg)
      BY <1>2 DEF Gains, Gain
    <2>2. new.symbol \in Symbols /\ new.side \in {1, -1} /\ new.qty \in Nat
      BY DEF Order, Sides, BUY, SELL
    <2>3. Signed(new) \in Int /\ mark[new.symbol] \in Int
      BY <1>1, <2>2, SymbolTypes DEF Signed
    <2>4. PICK a, b \in Int : a = Signed(new) /\ b = mark[new.symbol]
      BY <2>3
    <2>5. a * (b - b) = 0
      BY SMT
    <2> QED
      BY <2>1, <2>4, <2>5
  <1>4. ASSUME NEW i \in applied PROVE h[i] \in Int
    <2>1. Gains[i] \in Int
      BY <1>1, GainsType
    <2> QED
      BY <2>1, SameGains
  <1>5. SumFunctionOnSet(h, applied) = LedgerPnL
    BY SameLedger
  <1>6. LedgerPnL' = SumFunctionOnSet(h, applied \cup {n})
    BY DEF LedgerPnL, Gains
  <1> HIDE DEF h, n
  <1>7. SumFunctionOnSet(h, applied \cup {n}) = h[n] + SumFunctionOnSet(h, applied)
    BY <1>1, <1>2, <1>3, <1>4, SumInsert
  <1> QED
    BY <1>1, <1>3, <1>5, <1>6, <1>7

LEMMA FillPnL ==
    ASSUME PnLInv, AccountInv', Kept(orders'), mark' = mark,
           NEW new \in Order, orders' = Append(orders, new), new.type = "MARKET",
           new.avg = mark[new.symbol],
           ApplyFill(NextId, new.symbol, Signed(new), mark[new.symbol], new.reduceOnly)
    PROVE  PnLInv'
  <1>1. CASE Ignored(position[new.symbol], new.reduceOnly)
    BY <1>1, QuietPnL DEF ApplyFill
  <1>2. CASE ~Ignored(position[new.symbol], new.reduceOnly)
    <2> DEFINE s == new.symbol
    <2>1. PICK p \in Position \cup {NoPosition}, q \in Int, m \in Nat :
             p = position[s] /\ q = Signed(new) /\ m = mark[s]
      <3>1. s \in Symbols /\ new.side \in {1, -1} /\ new.qty \in Nat
        BY DEF Order, Sides, BUY, SELL
      <3>2. Signed(new) \in Int
        BY <3>1 DEF Signed
      <3> QED
        BY <3>1, <3>2, SymbolTypes DEF PnLInv
    <2>2. /\ position' = [position EXCEPT ![s] = Filled(p, q, m)]
          /\ realized' = Plus(realized, Booked(p, q, m))
          /\ unbooked' = Plus(unbooked, Unbooked(p, q, m))
          /\ misvalued' = Plus(misvalued, Misvalued(p, q, m))
          /\ applied' = applied \cup {NextId}
      BY <1>2, <2>1 DEF ApplyFill
    <2>3. /\ s \in Symbols /\ AccountInv /\ position \in [Symbols -> Position \cup {NoPosition}]
          /\ realized \in Fraction /\ unbooked \in Fraction /\ misvalued \in Fraction
      BY DEF Order, PnLInv, AccountInv, AccountType
    <2>4. AppliedExecuted'
      <3>1. \A i \in applied : Executed(orders'[i])
        BY SameGains
      <3>2. orders'[NextId] = new
        BY <2>3 DEF AccountInv, IInv, BookType, NextId
      <3> QED
        BY <2>2, <3>1, <3>2 DEF AppliedExecuted, Executed
    <2>5. LedgerPnL' = LedgerPnL /\ LedgerPnL \in Int
      BY <2>2, <2>3, FillLedger, GainsType
    <2>6. PICK D \in Nat \ {0}, R \in Int, U \in Int, M \in Int, e \in [Symbols -> Int] :
             Valued(D, R, U, M, e)
      BY DEF PnLInv, Balance
    <2>7. PICK E \in Int : E = e[s] /\ EntryVal(p, D, E)
      BY <2>1, <2>3, <2>6 DEF Valued
    <2>8. PICK k \in Nat \ {0}, b \in Int, u \in Int, o \in Int, F \in Int :
             Balanced(p, q, m, D, E, k, b, u, o, F)
      BY <2>7, FillVal
    <2>9. PICK N \in Nat \ {0}, R1 \in Int, U1 \in Int, M1 \in Int :
             N = D * k /\ R1 = R * k /\ U1 = U * k /\ M1 = M * k
      <3>1. \A x \in Int : x * k \in Int
        BY SMT
      <3>2. D * k \in Nat \ {0}
        BY SMT
      <3> QED
        BY <3>1, <3>2
    <2> DEFINE f == [t \in Symbols |-> IF t = s THEN F ELSE e[t] * k]
               w == UnrealizedOn(D, e)
               z == [t \in Symbols |-> k * w[t]]
               v == UnrealizedOn(N, f)'
    <2>10. f \in [Symbols -> Int] /\ f[s] = F /\ \A t \in Symbols \ {s} : f[t] = e[t] * k
      <3>1. \A t \in Symbols : e[t] * k \in Int
        OBVIOUS
      <3> QED
        BY <2>3, <3>1
    <2>11. /\ Val(realized', N, R1 + b) /\ Val(unbooked', N, U1 + u)
           /\ Val(misvalued', N, M1 + o)
      <3>1. /\ Val(realized, N, R1) /\ Val(Booked(p, q, m), N, b)
            /\ Val(unbooked, N, U1) /\ Val(Unbooked(p, q, m), N, u)
            /\ Val(misvalued, N, M1) /\ Val(Misvalued(p, q, m), N, o)
        BY <2>3, <2>6, <2>8, <2>9, ScaleVal DEF Valued, Balanced
      <3>2. /\ Booked(p, q, m) \in Fraction /\ Unbooked(p, q, m) \in Fraction
            /\ Misvalued(p, q, m) \in Fraction
        BY FilledFacts
      <3> QED
        BY <2>2, <2>3, <3>1, <3>2, PlusVal
    <2>12. ASSUME NEW t \in Symbols PROVE EntryVal(position'[t], N, f[t])
      <3>1. CASE t = s
        BY <2>2, <2>3, <2>8, <2>9, <2>10, <3>1 DEF Balanced
      <3>2. CASE t # s
        <4>1. position'[t] = position[t] /\ f[t] = e[t] * k
          BY <2>2, <2>3, <2>10, <3>2
        <4>2. EntryVal(position[t], D, e[t]) /\ e[t] \in Int
          BY <2>6 DEF Valued
        <4>3. CASE position[t] = NoPosition
          <5>1. 0 * k = 0
            OBVIOUS
          <5> QED
            BY <4>1, <4>2, <4>3, <5>1 DEF EntryVal
        <4>4. CASE position[t] # NoPosition
          <5>1. position[t].entry \in Fraction /\ Val(position[t].entry, D, e[t])
            BY <2>3, <4>2, <4>4 DEF Position, EntryVal
          <5>2. Val(position[t].entry, N, e[t] * k)
            BY <2>9, <4>2, <5>1, ScaleVal
          <5> QED
            BY <4>1, <4>4, <5>2 DEF EntryVal
        <4> QED
          BY <4>3, <4>4
      <3> QED
        BY <3>1, <3>2
    <2>13. \A t \in Symbols : w[t] \in Int /\ k * w[t] \in Int
      BY <2>3, UnrealizedType
    <2>14. SumFunctionOnSet(w, Symbols) \in Int
      BY <2>3, UnrealizedType
    <2>15. \A t \in Symbols \ {s} : v[t] = z[t]
      <3> SUFFICES ASSUME NEW t \in Symbols, t # s PROVE v[t] = z[t]
        OBVIOUS
      <3>1. HeldQuantity(t)' = HeldQuantity(t) /\ mark'[t] = mark[t]
        BY <2>2, <2>3 DEF HeldQuantity
      <3>2. PICK c, x, a \in Int : c = mark[t] /\ x = e[t] /\ a = HeldQuantity(t)
        BY <2>3, SymbolTypes
      <3>3. v[t] = (D * k * c - x * k) * a
        BY <2>9, <2>10, <3>1, <3>2 DEF UnrealizedOn
      <3>4. z[t] = k * ((D * c - x) * a)
        BY <3>2 DEF UnrealizedOn
      <3>5. (D * k * c - x * k) * a = k * ((D * c - x) * a)
        BY SMT
      <3> QED
        BY <3>3, <3>4, <3>5
    <2>16. v[s] = (D * k * m - F) * Amount(Filled(p, q, m))
           /\ z[s] = k * ((D * m - E) * Amount(p))
      <3>1. HeldQuantity(s)' = Amount(Filled(p, q, m)) /\ HeldQuantity(s) = Amount(p)
        BY <2>1, <2>2, <2>3, SymbolTypes DEF HeldQuantity, Amount
      <3> QED
        BY <2>1, <2>3, <2>7, <2>9, <2>10, <3>1 DEF UnrealizedOn
    <2>17. /\ b + (u - o) + v[s] = z[s] /\ v[s] \in Int /\ z[s] \in Int
      <3>1. b + (u - o) + v[s] = z[s] /\ z[s] \in Int
        BY <2>3, <2>8, <2>13, <2>16 DEF Balanced
      <3>2. v[s] \in Int
        <4>1. Amount(Filled(p, q, m)) \in Int
          <5>1. Amount(Filled(p, q, m)) = Amount(p) + q
            BY FilledFacts
          <5>2. Amount(p) \in Int
            BY <2>1, <2>3, SymbolTypes
          <5> QED
            BY <5>1, <5>2
        <4>2. \A a \in Int : (D * k * m - F) * a \in Int
          BY SMT
        <4> QED
          BY <2>16, <4>1, <4>2
      <3> QED
        BY <3>1, <3>2
    <2>18. R + (U - M) + SumFunctionOnSet(w, Symbols) = D * LedgerPnL
      BY <2>6 DEF Valued
    <2>19. \A t \in Symbols : z[t] \in Int /\ z[t] = k * w[t] + 0 * w[t]
      BY <2>13
    <2> HIDE DEF w, z, v, f
    <2>20. SumFunctionOnSet(z, Symbols) = k * SumFunctionOnSet(w, Symbols)
      <3>1. \A t \in Symbols : w[t] \in Int /\ w[t] \in Int /\ z[t] = k * w[t] + 0 * w[t]
        BY <2>13, <2>19
      <3>2. k \in Int /\ 0 \in Int
        OBVIOUS
      <3>3. SumFunctionOnSet(z, Symbols)
               = k * SumFunctionOnSet(w, Symbols) + 0 * SumFunctionOnSet(w, Symbols)
        BY <3>1, <3>2, SumLinear
      <3> QED
        BY <2>14, <3>3
    <2>21. SumFunctionOnSet(v, Symbols) = SumFunctionOnSet(z, Symbols) + v[s] - z[s]
      <3>1. s \in Symbols /\ v[s] \in Int /\ \A t \in Symbols : z[t] \in Int
        BY <2>3, <2>17, <2>19
      <3> HIDE DEF s
      <3> QED
        BY <2>15, <3>1, OneSummand
    <2>22. (R1 + b) + ((U1 + u) - (M1 + o)) + SumFunctionOnSet(v, Symbols) = N * LedgerPnL
      <3>1. PICK x, l, y, c, g \in Int :
               /\ x = SumFunctionOnSet(w, Symbols) /\ l = LedgerPnL
               /\ y = v[s] /\ c = z[s] /\ g = k * x
        <4>1. \A x \in Int : k * x \in Int
          BY SMT
        <4> QED
          BY <2>5, <2>14, <2>17, <4>1
      <3>2. (R + (U - M) + x) * k = R * k + (U * k - M * k) + k * x /\ (D * l) * k = (D * k) * l
        BY SMT
      <3>3. R1 + (U1 - M1) + g = N * l
        BY <2>9, <2>18, <3>1, <3>2
      <3>4. PICK a \in Int : a = SumFunctionOnSet(v, Symbols) /\ a = g + y - c
        BY <2>17, <2>20, <2>21, <3>1
      <3>5. b + (u - o) + y = c
        BY <2>17, <3>1
      <3>6. PICK j \in Int : j = N * l
        BY SMT
      <3>7. R1 + (U1 - M1) + g = j
        BY <3>3, <3>6
      <3>8. (R1 + b) + ((U1 + u) - (M1 + o)) + a = j
        <4>1. (R1 + b) + ((U1 + u) - (M1 + o)) + (g + y - c)
                 = (R1 + (U1 - M1) + g) + (b + (u - o) + y) - c
          BY SMT
        <4> QED
          BY <3>4, <3>5, <3>7, <4>1
      <3> QED
        BY <3>1, <3>4, <3>6, <3>8
    <2>23. Valued(N, R1 + b, U1 + u, M1 + o, f)'
      BY <2>5, <2>11, <2>12, <2>22 DEF Valued, v
    <2>24. Balance'
      <3>1. R1 + b \in Int /\ U1 + u \in Int /\ M1 + o \in Int
        OBVIOUS
      <3> QED
        BY <2>10, <2>23, <3>1 DEF Balance
    <2> QED
      BY <2>4, <2>24 DEF PnLInv
  <1> QED
    BY <1>1, <1>2

LEMMA InitPnL == Init => PnLInv
  <1> SUFFICES ASSUME Init PROVE PnLInv
    OBVIOUS
  <1>1. AccountInv /\ AppliedExecuted
    BY InitAccount DEF AppliedExecuted, Init
  <1> DEFINE e == [s \in Symbols |-> 0]
             w == UnrealizedOn(1, e)
  <1>2. /\ Val(realized, 1, 0) /\ Val(unbooked, 1, 0) /\ Val(misvalued, 1, 0)
        /\ \A s \in Symbols : EntryVal(position[s], 1, 0)
    <2>1. 0 * 1 = 0
      OBVIOUS
    <2> QED
      BY <2>1 DEF Init, Val, Zero, Whole, EntryVal
  <1>3. ASSUME NEW s \in Symbols PROVE w[s] = 0
    <2>1. HeldQuantity(s) = 0 /\ mark[s] \in Int
      BY <1>1, SymbolTypes DEF Init, HeldQuantity
    <2> QED
      BY <2>1 DEF UnrealizedOn
  <1>4. LedgerPnL = 0
    BY SumEmpty DEF Init, LedgerPnL
  <1>5. e \in [Symbols -> Int] /\ \A s \in Symbols : e[s] = 0
    OBVIOUS
  <1> HIDE DEF e, w
  <1>6. SumFunctionOnSet(w, Symbols) = 0
    <2>1. SumFunctionOnSet(w, Symbols) = 0 * Cardinality(Symbols)
      BY <1>3, SumConstant
    <2>2. Cardinality(Symbols) \in Nat
      BY FS_CardinalityType
    <2> QED
      BY <2>1, <2>2
  <1>7. Valued(1, 0, 0, 0, e)
    BY <1>2, <1>4, <1>5, <1>6 DEF Valued, w
  <1>8. 1 \in Nat \ {0} /\ 0 \in Int
    OBVIOUS
  <1>9. Balance
    BY <1>5, <1>7, <1>8 DEF Balance
  <1> QED
    BY <1>1, <1>9 DEF PnLInv

LEMMA NextPnL == PnLInv /\ [Next]_vars => PnLInv'
  <1> SUFFICES ASSUME PnLInv, [Next]_vars PROVE PnLInv'
    OBVIOUS
  <1>1. AccountInv /\ BookType
    BY DEF PnLInv, AccountInv, IInv
  <1>2. AccountInv' /\ Kept(orders')
    BY <1>1, NextAccount, NextKeeps
  <1>3. ASSUME NEW c \in Clients, NEW s \in Symbols, NEW side \in Sides,
               NEW q \in Quantities, NEW type \in OrderTypes, NEW r \in BOOLEAN,
               PlaceOrder(c, s, side, type, q, r)
        PROVE  PnLInv'
    <2>1. CASE FillsAtOnce(type)
      <3> DEFINE new == NewOrder(c, s, side, type, q, r)
      <3>1. new \in Order /\ new.symbol = s /\ new.type = type
        BY <1>1, NewOrderType
      <3>2. new.reduceOnly = r /\ Signed(new) = side * q /\ new.avg = mark[s]
        BY <2>1 DEF NewOrder, Signed
      <3>3. /\ orders' = Append(orders, new) /\ mark' = mark
            /\ ApplyFill(NextId, s, side * q, mark[s], r)
        BY <1>3, <2>1 DEF PlaceOrder
      <3> HIDE DEF new
      <3> QED
        BY <1>2, <2>1, <3>1, <3>2, <3>3, FillPnL DEF FillsAtOnce
    <2>2. CASE ~FillsAtOnce(type)
      BY <1>2, <1>3, <2>2, QuietPnL DEF PlaceOrder
    <2> QED
      BY <2>1, <2>2
  <1>4. ASSUME NEW s \in Symbols, NEW p \in Prices, SetMarkPrice(s, p)
        PROVE  PnLInv'
    BY <1>2, <1>4, MarkPnL
  <1>5. CASE UNCHANGED <<position, realized, applied, unbooked, misvalued, mark>>
    BY <1>2, <1>5, QuietPnL DEF accountVars
  <1>6. ASSUME NEW os, NEW c, NEW s, NEW side, NEW q, AddStop(os, c, s, side, q)
        PROVE  PnLInv'
    BY <1>5, <1>6 DEF AddStop, accountVars
  <1>7. ASSUME NEW id, NEW s, CancelProtection(s, id) PROVE PnLInv'
    BY <1>5, <1>7 DEF CancelProtection, accountVars
  <1>8. ASSUME NEW id, CancelOrder(id) PROVE PnLInv'
    BY <1>5, <1>8 DEF CancelOrder, accountVars
  <1>9. ASSUME NEW b, SetConnected(b) PROVE PnLInv'
    BY <1>5, <1>9 DEF SetConnected, accountVars
  <1>10. CASE UNCHANGED vars
    BY <1>5, <1>10 DEF vars, accountVars
  <1> QED
    BY <1>3, <1>4, <1>6, <1>7, <1>8, <1>9, <1>10 DEF Next, PlaceStop, ReplaceStop

(* The reported PnL and the fills' differ by what the quantity closed in   *)
(* parts earned and by the stale entry price of quantity a fill opened     *)
(* (mock.py 314-320), and by nothing else, through any sequence of fills,  *)
(* on any number of symbols and at any marks: averages are exact, and a    *)
(* full close books what it stops reporting.                               *)
THEOREM PnLCorrect == Spec => []PnLAccounting
  BY InitPnL, NextPnL, BalanceAccounts, PTL DEF Spec
=============================================================================
