------------------------------ MODULE Exchange ------------------------------
(***************************************************************************)
(* MockBinanceAdapter (src/signal_bot/adapters/binance/mock.py), the only  *)
(* exchange adapter of the program: orders, the client-order-id index,     *)
(* positions, protection stops, realized and unrealized PnL.               *)
(*                                                                         *)
(* orders is the dict _orders; the counter _order_id_seq makes the n-th    *)
(* order's id n, its index here.  No method awaits anything that suspends, *)
(* so under asyncio each is one step.  An order keeps the fields that      *)
(* decide anything; stop prices and LIMIT prices decide nothing, because   *)
(* the mock never triggers a stop nor fills a LIMIT order.  Decimal prices *)
(* and quantities are integers; an average entry price is an exact         *)
(* fraction (Decimal rounds it to 28 digits).                              *)
(*                                                                         *)
(* A call that raises or returns an existing order is a stuttering step,   *)
(* except where the code has changed something before it raises.           *)
(***************************************************************************)
EXTENDS Integers, Sequences, FiniteSets, Functions

CONSTANTS
    Symbols,
    Clients,        \* client_order_ids
    OrderTypes,     \* the order types callers use, of MARKET and LIMIT
    Quantities,     \* order quantities; the mock does not reject zero
    Prices,         \* mark prices
    StartPrice,     \* default_mark_price
    NoPosition,     \* a symbol missing from _positions
    MaxOrders       \* bound: at most this many orders are ever accepted

ASSUME SymbolsAssumption == IsFiniteSet(Symbols)
ASSUME TypesAssumption == OrderTypes \subseteq {"MARKET", "LIMIT"}
ASSUME NumbersAssumption ==
    /\ Quantities \subseteq Nat
    /\ Prices \subseteq Nat \ {0} /\ StartPrice \in Nat \ {0}
    /\ MaxOrders \in Nat

VARIABLES
    orders,      \* _orders, by order id
    byClient,    \* _client_to_order; 0 for a client id that is not in it
    protection,  \* _protections: the order id of a symbol's stop, 0 if none
    position,    \* _positions
    realized,    \* _realized_pnl
    mark,        \* _mark_prices with the default filled in
    connected,   \* _connected
    applied,     \* history: the orders whose fill changed a position
    unbooked,    \* history: PnL of closed quantity that _apply_fill booked nowhere
    misvalued    \* history: PnL that quantity opened at an older entry price seems to have

accountVars == <<position, realized, applied, unbooked, misvalued>>
vars == <<orders, byClient, protection, accountVars, mark, connected>>

BUY == 1
SELL == -1
Sides == {BUY, SELL}

Order == [client : Clients, symbol : Symbols, side : Sides,
          type : OrderTypes \cup {"STOP_MARKET"}, qty : Quantities,
          status : {"NEW", "FILLED", "CANCELED"},
          avg : Prices \cup {StartPrice, 0},     \* avgPrice, 0 until filled
          reduceOnly : BOOLEAN]

Signed(order) == order.side * order.qty

-----------------------------------------------------------------------------
(* Fractions, in lowest terms with a positive denominator.                 *)

Abs(n) == IF n < 0 THEN -n ELSE n
Divides(d, n) == n % d = 0
Gcd(n, d) == CHOOSE g \in 1 .. d :
                /\ Divides(g, Abs(n)) /\ Divides(g, d)
                /\ \A h \in (g + 1) .. d : ~(Divides(h, Abs(n)) /\ Divides(h, d))
Ratio(n, d) == LET g == Gcd(n, d) IN [num |-> n \div g, den |-> d \div g]
Whole(n) == [num |-> n, den |-> 1]
Zero == Whole(0)
Plus(x, y) == Ratio(x.num * y.den + y.num * x.den, x.den * y.den)
Times(x, k) == Ratio(x.num * k, x.den)
Minus(x, y) == Plus(x, Times(y, -1))

-----------------------------------------------------------------------------
(* _apply_fill.                                                            *)

SameWay(amt, signed) == (amt > 0 /\ signed > 0) \/ (amt < 0 /\ signed < 0)

(* Slip: the plain average of the two prices.                              *)
AveragePlain(p, signed, price) ==
    Ratio(p.entry.num + price * p.entry.den, 2 * p.entry.den)

(* The entry price after adding to a position: the average by quantity.    *)
Average(p, signed, price) ==
    Ratio(Abs(p.amt) * p.entry.num + Abs(signed) * price * p.entry.den,
          p.entry.den * Abs(p.amt + signed))

(* reduce_only is looked at only when there is no position.                *)
Ignored(p, reduceOnly) == p = NoPosition /\ reduceOnly

(* Slip: only the sizes are compared.                                      *)
ClosesBySize(p, signed) == p # NoPosition /\ Abs(p.amt) = Abs(signed)

Closes(p, signed) == p # NoPosition /\ p.amt + signed = 0

Filled(p, signed, price) ==
    IF p = NoPosition THEN [amt |-> signed, entry |-> Whole(price)]
    ELSE IF Closes(p, signed) THEN NoPosition
    ELSE [amt |-> p.amt + signed,
          entry |-> IF SameWay(p.amt, signed) THEN Average(p, signed, price)
                                              ELSE p.entry]

Booked(p, signed, price) ==
    IF Closes(p, signed) THEN Times(Minus(Whole(price), p.entry), p.amt) ELSE Zero

(* How much of a position a fill against it closes, signed as the position *)
(* is, and how much of the fill is left to open one the other way.         *)
Closed(p, signed) ==
    IF p = NoPosition THEN 0
    ELSE IF p.amt * signed >= 0 THEN 0
    ELSE IF Abs(signed) >= Abs(p.amt) THEN p.amt ELSE -signed
Opened(p, signed) == signed + Closed(p, signed)

(* What the branch for a position that stays leaves out, by the formula of *)
(* the branch above it: the PnL of the quantity that a part of a fill      *)
(* closes is booked nowhere, and what a turn opens (or a fill of a         *)
(* position of zero) keeps the entry price of the position before it.      *)
EntryStays(p, signed) == p # NoPosition /\ ~Closes(p, signed) /\ ~SameWay(p.amt, signed)

Unbooked(p, signed, price) ==
    IF EntryStays(p, signed)
    THEN Times(Minus(Whole(price), p.entry), Closed(p, signed)) ELSE Zero

Misvalued(p, signed, price) ==
    IF EntryStays(p, signed)
    THEN Times(Minus(Whole(price), p.entry), Opened(p, signed)) ELSE Zero

ApplyFill(id, s, signed, price, reduceOnly) ==
    IF Ignored(position[s], reduceOnly) THEN UNCHANGED accountVars
    ELSE /\ position' = [position EXCEPT ![s] = Filled(@, signed, price)]
         /\ realized' = Plus(realized, Booked(position[s], signed, price))
         /\ unbooked' = Plus(unbooked, Unbooked(position[s], signed, price))
         /\ misvalued' = Plus(misvalued, Misvalued(position[s], signed, price))
         /\ applied' = applied \cup {id}

-----------------------------------------------------------------------------
(* One action per method that changes state.                               *)

Init ==
    /\ orders = <<>>
    /\ byClient = [c \in Clients |-> 0]
    /\ protection = [s \in Symbols |-> 0]
    /\ position = [s \in Symbols |-> NoPosition]
    /\ realized = Zero
    /\ mark = [s \in Symbols |-> StartPrice]
    /\ connected = FALSE
    /\ applied = {}
    /\ unbooked = Zero
    /\ misvalued = Zero

NextId == Len(orders) + 1

(* A MARKET order fills at once; nothing else ever fills.                  *)
FillsAtOnce(type) == type = "MARKET"

(* Slip: an open order gets a status no reader of it knows.                *)
StatusOpen(type) == IF FillsAtOnce(type) THEN "FILLED" ELSE "OPEN"

InitialStatus(type) == IF FillsAtOnce(type) THEN "FILLED" ELSE "NEW"

NewOrder(c, s, side, type, q, reduceOnly) ==
    [client |-> c, symbol |-> s, side |-> side, type |-> type, qty |-> q,
     status |-> InitialStatus(type),
     avg |-> IF FillsAtOnce(type) THEN mark[s] ELSE 0,
     reduceOnly |-> reduceOnly]

(* Slip: only an order that is still open is taken for a duplicate.        *)
KnownOpen(c) == byClient[c] # 0 /\ orders[byClient[c]].status = "NEW"

(* A client id the index knows returns the order it has.                   *)
KnownClient(c) == byClient[c] # 0

(* Slip: some order is answered for every client id.                       *)
GetOrderAny(c) == TRUE

(* get_order by client id: whether the exchange has an order for it.       *)
GetOrder(c) == byClient[c] \in DOMAIN orders

(* place_order: a MARKET order fills at once at the mark price.            *)
PlaceOrder(c, s, side, type, q, reduceOnly) ==
    /\ ~KnownClient(c)
    /\ Len(orders) < MaxOrders
    /\ orders' = Append(orders, NewOrder(c, s, side, type, q, reduceOnly))
    /\ byClient' = [byClient EXCEPT ![c] = NextId]
    /\ IF FillsAtOnce(type)
       THEN ApplyFill(NextId, s, side * q, mark[s], reduceOnly)
       ELSE UNCHANGED accountVars
    /\ UNCHANGED <<protection, mark, connected>>

(* Slip: cancelling an order forgets what it was filled at.                *)
WithStatusReset(os, id, st) ==
    IF id \in DOMAIN os THEN [os EXCEPT ![id].status = st, ![id].avg = 0] ELSE os

WithStatus(os, id, st) ==
    IF id \in DOMAIN os THEN [os EXCEPT ![id].status = st] ELSE os

(* cancel_order, once the order is found: by order id, else by client id.  *)
(* Neither the symbol nor the order's status is looked at.                 *)
CancelOrder(id) ==
    /\ id \in DOMAIN orders
    /\ orders' = WithStatus(orders, id, "CANCELED")
    /\ UNCHANGED <<byClient, protection, accountVars, mark, connected>>

(* Slips: the index misses the stop, or the first protection record stays. *)
NotIndexed(c) == byClient
RecordedFirst(s) == [protection EXCEPT ![s] = IF @ = 0 THEN NextId ELSE @]

StopIndexed(c) == [byClient EXCEPT ![c] = NextId]
StopRecorded(s) == [protection EXCEPT ![s] = NextId]

(* place_stop, on the orders os: it does not look its client id up.  (Its  *)
(* reduce_only flag is stored and never read; callers leave it at True.)   *)
AddStop(os, c, s, side, q) ==
    /\ Len(orders) < MaxOrders
    /\ orders' = Append(os, NewOrder(c, s, side, "STOP_MARKET", q, TRUE))
    /\ byClient' = StopIndexed(c)
    /\ protection' = StopRecorded(s)
    /\ UNCHANGED <<accountVars, mark, connected>>

PlaceStop(c, s, side, q) == AddStop(orders, c, s, side, q)

(* Slip: the stop that is replaced stays.                                  *)
ReplaceStopAdds(id, c, s, q) ==
    AddStop(orders, c, s, IF id \in DOMAIN orders THEN orders[id].side ELSE SELL, q)

(* replace_stop: cancels whatever order has that id, then places a stop on *)
(* the same side, or a SELL stop when there is no such order.              *)
ReplaceStop(id, c, s, q) ==
    AddStop(WithStatus(orders, id, "CANCELED"), c, s,
            IF id \in DOMAIN orders THEN orders[id].side ELSE SELL, q)

(* Slip: the recorded stop is cancelled instead of the one that was named. *)
CancelRecorded(s, id) ==
    /\ protection' = [protection EXCEPT ![s] = 0]
    /\ orders' = WithStatus(orders, protection[s], "CANCELED")
    /\ UNCHANGED <<byClient, accountVars, mark, connected>>

(* cancel_protection: the record goes first; then, if the caller named an  *)
(* order, cancel_order, which may raise and leave only the first half done. *)
CancelProtection(s, id) ==
    /\ protection' = [protection EXCEPT ![s] = 0]
    /\ orders' = WithStatus(orders, id, "CANCELED")
    /\ UNCHANGED <<byClient, accountVars, mark, connected>>

SetMarkPrice(s, p) ==
    /\ mark' = [mark EXCEPT ![s] = p]
    /\ UNCHANGED <<orders, byClient, protection, accountVars, connected>>

(* connect and disconnect.                                                 *)
SetConnected(b) ==
    /\ connected' = b
    /\ UNCHANGED <<orders, byClient, protection, accountVars, mark>>

(* The order a caller names, by order id or by a client id that the index  *)
(* resolves to one; 0 for none and for one that does not exist.            *)
Named == DOMAIN orders \cup {0}

Next ==
    \/ \E c \in Clients, s \in Symbols, side \in Sides, q \in Quantities :
          \/ \E type \in OrderTypes, r \in BOOLEAN : PlaceOrder(c, s, side, type, q, r)
          \/ PlaceStop(c, s, side, q)
    \/ \E id \in Named, s \in Symbols :
          \/ CancelProtection(s, id)
          \/ \E c \in Clients, q \in Quantities : ReplaceStop(id, c, s, q)
    \/ \E id \in Named : CancelOrder(id)
    \/ \E s \in Symbols, p \in Prices : SetMarkPrice(s, p)
    \/ \E b \in BOOLEAN : SetConnected(b)

Spec == Init /\ [][Next]_vars

-----------------------------------------------------------------------------
(* Properties.                                                             *)

Fraction == [num : Int, den : Nat \ {0}]
Position == [amt : Int, entry : Fraction]

ASSUME PositionAssumption == NoPosition \notin Position

TypeOK ==
    /\ orders \in Seq(Order)
    /\ byClient \in [Clients -> Nat]
    /\ protection \in [Symbols -> Nat]
    /\ position \in [Symbols -> Position \cup {NoPosition}]
    /\ realized \in Fraction /\ unbooked \in Fraction /\ misvalued \in Fraction
    /\ mark \in [Symbols -> Prices \cup {StartPrice}]
    /\ connected \in BOOLEAN
    /\ applied \subseteq DOMAIN orders

(* An order that was executed, cancelled afterwards or not.                *)
Executed(order) == order.type = "MARKET"

(* However often an order is submitted again, and whatever stops and       *)
(* cancellations come in between, a client id is executed at most once     *)
(* (mock.py 133-135 against the overwriting of the index at 217).          *)
NoDoubleFill ==
    \A i, j \in DOMAIN orders :
       /\ Executed(orders[i]) /\ Executed(orders[j])
       /\ orders[i].client = orders[j].client
       => i = j

(* The index finds the newest order of each client id and no other, so     *)
(* that get_order after a lost answer finds the order it asks for.         *)
ClientIndex ==
    \A c \in Clients :
       LET own == {i \in DOMAIN orders : orders[i].client = c}
       IN  IF own = {} THEN byClient[c] = 0
           ELSE byClient[c] \in own /\ \A i \in own : i <= byClient[c]

(* A symbol's protection record is the newest stop placed for it.          *)
ProtectionIsNewest ==
    \A s \in Symbols : protection[s] # 0 =>
       /\ protection[s] \in DOMAIN orders
       /\ orders[protection[s]].symbol = s
       /\ \A i \in DOMAIN orders :
             orders[i].type = "STOP_MARKET" /\ orders[i].symbol = s
             => i <= protection[s]

(* The order history explains the positions: what a symbol holds is the    *)
(* sum of its executed orders, minus those that were reported FILLED while *)
(* reduce_only kept them from opening a position (mock.py 295-297).        *)
HeldQuantity(s) == IF position[s] = NoPosition THEN 0 ELSE position[s].amt

Fills(s) == {i \in DOMAIN orders : Executed(orders[i]) /\ orders[i].symbol = s}
SignedQuantities == [i \in DOMAIN orders |-> Signed(orders[i])]

PositionIsFills ==
    /\ \A s \in Symbols :
          HeldQuantity(s) = SumFunctionOnSet(SignedQuantities, Fills(s) \cap applied)
    /\ \A i \in DOMAIN orders :
          Executed(orders[i]) /\ i \notin applied => orders[i].reduceOnly

(* What get_realized_pnl and get_unrealized_pnl report together.           *)
Unrealized(s) ==
    IF position[s] = NoPosition THEN Zero
    ELSE Times(Minus(Whole(mark[s]), position[s].entry), position[s].amt)

ReportedPnL ==
    FoldFunctionOnSet(Plus, realized, [s \in Symbols |-> Unrealized(s)], Symbols)

(* The same PnL worked out from the fills: every executed quantity, valued *)
(* at today's mark against the price it was filled at.                     *)
Gain(order) == Signed(order) * (mark[order.symbol] - order.avg)
LedgerPnL == SumFunctionOnSet([i \in DOMAIN orders |-> Gain(orders[i])], applied)

(* Through averaging, adding, closing, turning, reopening and moving       *)
(* marks, the reported PnL differs from the fills' in two things, and in   *)
(* nothing else (mock.py 314-320): it misses what the quantity closed in   *)
(* parts earned, and it has too much by the distance between the price and *)
(* the entry price for quantity that was opened without an entry price of  *)
(* its own.                                                                *)
PnLAccounting == Minus(Plus(ReportedPnL, unbooked), misvalued) = Whole(LedgerPnL)

(* What was accepted stays accepted: an order keeps its client, side,      *)
(* quantity and fill and is never forgotten; all that can change is that   *)
(* it becomes CANCELED, a FILLED one too (cancel_order, mock.py 164-177,   *)
(* does not look at the status), and then it still says what it filled.    *)
OrderFinality ==
    [][\A i \in DOMAIN orders :
          /\ i \in DOMAIN orders'
          /\ orders'[i] \in {orders[i], [orders[i] EXCEPT !.status = "CANCELED"]}]_vars

(* Positions and PnL move only in the step that accepts an executed order, *)
(* and only on its symbol: never by stops, cancellations, marks or retries. *)
OnlyFillsMovePositions ==
    [][position' # position \/ realized' # realized =>
          /\ Len(orders') = Len(orders) + 1
          /\ Executed(orders'[Len(orders')])
          /\ \A s \in Symbols \ {orders'[Len(orders')].symbol} :
                position'[s] = position[s]]_vars

-----------------------------------------------------------------------------
(* What the repository says of the mock and the mock does not do.          *)

(* docs/adr/0003: reduce_only is respected, that is, executing such an     *)
(* order never grows or turns a position.                                  *)
ReduceOnlyReduces ==
    [][\A s \in Symbols :
          /\ Len(orders') > Len(orders)
          /\ orders'[Len(orders')].reduceOnly
          /\ position'[s] # position[s]
          => /\ Abs(HeldQuantity(s)') <= Abs(HeldQuantity(s))
             /\ HeldQuantity(s)' * HeldQuantity(s) >= 0]_vars

(* mock.py 20: a full implementation of the account and the PnL, that is,  *)
(* a position that a fill opens, out of nothing or by turning the one that *)
(* was there, is entered at the price of that fill.                        *)
OpenedAtFillPrice ==
    [][\A s \in Symbols :
          position'[s] # position[s] /\ HeldQuantity(s)' # 0
             /\ HeldQuantity(s) * HeldQuantity(s)' <= 0
          => position'[s].entry = Whole(mark[s])]_vars
=============================================================================
