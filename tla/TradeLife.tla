----------------------------- MODULE TradeLife ------------------------------
(***************************************************************************)
(* A trade from its entry to the archive: ProtectionPlanner and            *)
(* TradeStateMachine decide, the exchange adapter carries out.             *)
(*                                                                         *)
(* Planner, state machine and exchange are the code's.  The manager that   *)
(* calls them is not in src/ yet; it is given what the interfaces are      *)
(* written for.  It places the stop once the entry is filled, replaces it  *)
(* after every take profit that is hit, and takes it off when the trade is *)
(* closed.  An answer of the exchange may be lost (or the manager crashes  *)
(* before it has recorded it): then it does not know what its call did,    *)
(* and makes it again, asks for the order, or moves the trade by what the  *)
(* exchange shows.                                                         *)
(***************************************************************************)
EXTENDS Protection, Sequences, FiniteSetsExt, Functions

CONSTANTS
    Trades,         \* open trades of one symbol
    Plans,          \* what trades are planned with: side, stop loss, take
                    \* profit prices and the snapshot's sl_mode
    EntryPrice,     \* the mark price at which entries fill
    NoPosition, Unguarded, Gone,
    MaxFaults,      \* bound: answers lost
    MaxOrders       \* bound: orders the exchange accepts

ASSUME FaultAssumption == MaxFaults \in Nat
ASSUME EntryAssumption == EntryPrice \in Nat \ {0}
ASSUME FiniteAssumption == IsFiniteSet(Trades) /\ IsFiniteSet(Plans)
ASSUME PlansAssumption ==
    \A p \in Plans : /\ p.side \in Sides /\ p.sl_mode \in SlModes
                     /\ p.stop_loss \in Int \cup {None}
                     /\ p.targets \in Seq(Int)

VARIABLES
    orders, byClient, protection, position,     \* the exchange
    realized, mark, connected, applied, unbooked, misvalued,
    stopPrice,  \* the stopPrice of each order; None where it has none
    plan,       \* trade -> its plan, fixed
    trade,      \* trade -> what the manager has recorded of it
    hits,       \* trade -> take profits the market has reached
    faults      \* answers that may still be lost

exchangeVars == <<orders, byClient, protection, position, realized, mark,
                  connected, applied, unbooked, misvalued>>
vars == <<exchangeVars, stopPrice, plan, trade, hits, faults>>

Symbol == "BTCUSDT"
Quantity == 1
MaxHits == Max({Len(p.targets) : p \in Plans} \cup {0})

Levels ==
    (UNION {{EntryPrice, p.stop_loss} \cup Range(p.targets) : p \in Plans}) \ {None}

(* A client id for every call that has an effect: entry, exit, the first   *)
(* stop and the stop after each take profit.                               *)
EntryId(t) == <<t, "entry", 0>>
ExitId(t) == <<t, "exit", 0>>
StopId(t, k) == <<t, "stop", k>>
StopIds(t) == {StopId(t, k) : k \in 0 .. MaxHits}
ClientIds == UNION {StopIds(t) \cup {EntryId(t), ExitId(t)} : t \in Trades}

X == INSTANCE Exchange WITH
    Symbols <- {Symbol}, Clients <- ClientIds, OrderTypes <- {"MARKET"},
    Quantities <- {Quantity}, Prices <- {EntryPrice}, StartPrice <- EntryPrice

ASSUME PositionAssumption == NoPosition \notin X!Position

EntrySide(t) == IF plan[t].side = "LONG" THEN X!BUY ELSE X!SELL
ExitSide(t) == -EntrySide(t)

NewTrade == [status |-> "PENDING_ENTRY", stop |-> None, order |-> 0, done |-> 0]

Init ==
    /\ X!Init
    /\ stopPrice = <<>>
    /\ plan \in [Trades -> Plans]
    /\ \A t, u \in Trades : plan[t].side = plan[u].side   \* Decision!OneDirection
    /\ trade = [t \in Trades |-> NewTrade]
    /\ hits = [t \in Trades |-> 0]
    /\ faults = MaxFaults

In(t, statuses) == trade[t].status \in statuses

(* The exchange carries a call out; its answer is recorded, or lost.       *)
Answered(t, answer) ==
    /\ \/ trade' = [trade EXCEPT ![t] = answer] /\ UNCHANGED faults
       \/ faults > 0 /\ faults' = faults - 1 /\ UNCHANGED trade
    /\ UNCHANGED <<plan, hits>>

Place(c, side, reduceOnly) ==
    IF X!KnownClient(c) THEN UNCHANGED <<exchangeVars, stopPrice>>
    ELSE /\ X!PlaceOrder(c, Symbol, side, "MARKET", Quantity, reduceOnly)
         /\ stopPrice' = Append(stopPrice, None)

-----------------------------------------------------------------------------
(* The manager.                                                            *)

Enter(t) ==
    /\ In(t, {"PENDING_ENTRY"})
    /\ Place(EntryId(t), EntrySide(t), FALSE)
    /\ Answered(t, [trade[t] EXCEPT !.status = "OPEN"])

(* The first stop, if the plan says the trade can be protected.            *)
Protect(t) ==
    LET first == initial_stop(plan[t].stop_loss) IN
    /\ In(t, {"OPEN"}) /\ trade[t].order = 0
    /\ first.is_protected
    /\ X!PlaceStop(StopId(t, 0), Symbol, ExitSide(t), Quantity)
    /\ stopPrice' = Append(stopPrice, first.initial_stop)
    /\ Answered(t, [trade[t] EXCEPT !.stop = first.initial_stop,
                                    !.order = X!NextId])

(* The stop that after_tp plans for the first hit not handled yet.         *)
NextStop(t) ==
    after_tp(plan[t].side, trade[t].stop, EntryPrice, plan[t].sl_mode,
             IF trade[t].done = 0 THEN None ELSE plan[t].targets[trade[t].done])

Adjust(t) ==
    /\ In(t, {"OPEN"}) /\ trade[t].order # 0
    /\ trade[t].done < hits[t]
    /\ X!ReplaceStop(trade[t].order, StopId(t, trade[t].done + 1), Symbol, Quantity)
    /\ stopPrice' = Append(stopPrice, NextStop(t))
    /\ Answered(t, [trade[t] EXCEPT !.stop = NextStop(t), !.order = X!NextId,
                                    !.done = @ + 1])

(* After a lost answer, get_order finds the stop it was about.             *)
Adopt(t) ==
    LET k == IF trade[t].order = 0 THEN 0 ELSE trade[t].done + 1
        found == byClient[StopId(t, k)]
    IN  /\ In(t, {"OPEN"}) /\ k <= MaxHits
        /\ X!GetOrder(StopId(t, k))
        /\ trade' = [trade EXCEPT ![t].stop = stopPrice[found],
                                  ![t].order = found, ![t].done = k]
        /\ UNCHANGED <<exchangeVars, stopPrice, plan, hits, faults>>

Exit(t) ==
    /\ In(t, {"CLOSING"})
    /\ Place(ExitId(t), ExitSide(t), TRUE)
    /\ Answered(t, [trade[t] EXCEPT !.status = "CLOSED"])

(* What the exchange shows allows a status, as far as it can tell.         *)
Entered(t) == X!GetOrder(EntryId(t))
Exited(t) == X!GetOrder(ExitId(t))
InPosition(t) == Entered(t) /\ ~Exited(t)
Fits(t, status) ==
    CASE status \in {"OPEN", "CLOSING"} -> InPosition(t)
      [] status = "CLOSED" -> Entered(t) <=> Exited(t)
      [] status = "MANUAL_REVIEW" -> TRUE

Move(t, status) ==
    /\ can_transition(trade[t].status, status)
    /\ Fits(t, status)
    /\ trade' = [trade EXCEPT ![t].status = status]
    /\ UNCHANGED <<exchangeVars, stopPrice, plan, hits, faults>>

(* The stop comes off with the trade's way into the archive.               *)
Archive(t) ==
    /\ can_transition(trade[t].status, "ARCHIVED")
    /\ Fits(t, "CLOSED")
    /\ X!CancelProtection(Symbol, trade[t].order)
    /\ Answered(t, [trade[t] EXCEPT !.status = "ARCHIVED"])
    /\ UNCHANGED stopPrice

(* The market reaches the next take profit of a position that is open.     *)
Hit(t) ==
    /\ InPosition(t)
    /\ hits[t] < Len(plan[t].targets)
    /\ hits' = [hits EXCEPT ![t] = @ + 1]
    /\ UNCHANGED <<exchangeVars, stopPrice, plan, trade, faults>>

Next ==
    \E t \in Trades :
       \/ Enter(t) \/ Protect(t) \/ Adjust(t) \/ Adopt(t) \/ Exit(t)
       \/ Archive(t) \/ Hit(t)
       \/ \E status \in {"OPEN", "CLOSING", "CLOSED", "MANUAL_REVIEW"} :
             Move(t, status)

Spec == Init /\ [][Next]_vars

-----------------------------------------------------------------------------
(* Properties.                                                             *)

(* The stops of a trade that are live and on the side that protects it.    *)
LiveStops(t) ==
    {i \in DOMAIN orders :
       /\ orders[i].client \in StopIds(t)
       /\ orders[i].status = "NEW" /\ orders[i].side = ExitSide(t)}

Protects(side, price, stop) ==
    IF side = "LONG" THEN stop >= price ELSE stop <= price
GuardedAt(t, price) ==
    \E i \in LiveStops(t) : Protects(plan[t].side, price, stopPrice[i])

(* The stop a trade is recorded with is there: as long as it is in the     *)
(* position, some live stop of its own protects it at that price or a      *)
(* better one, however many answers were lost and whatever other trades of *)
(* the symbol did.                                                         *)
RecordedStopIsLive ==
    \A t \in Trades :
       InPosition(t) /\ trade[t].stop # None => GuardedAt(t, trade[t].stop)

(* What a take profit has won is not given back: after the first one, the  *)
(* modes that go to break even hold a stop at the entry price or better,   *)
(* and after the k-th, MOVE_TO_PREVIOUS_TP one at take profit k-1.         *)
TargetsLockIn ==
    \A t \in Trades :
       LET done == trade[t].done
           mode == plan[t].sl_mode
       IN  InPosition(t) =>
              /\ done >= 1 /\ mode \in {"BREAK_EVEN", "LOCK_PROFIT_USDT"}
                 => GuardedAt(t, EntryPrice)
              /\ done >= 2 /\ mode = "MOVE_TO_PREVIOUS_TP"
                 => \A k \in 1 .. done - 1 : GuardedAt(t, plan[t].targets[k])

(* Stops left on the exchange when a trade is archived come from lost      *)
(* answers, and from nothing else, and are no more than these: a stop that *)
(* nobody has on record, or one more placed when the call was repeated     *)
(* (place_stop and replace_stop do not look their client id up, mock.py    *)
(* 203).                                                                   *)
OrphansAreRetries ==
    LET archived == {t \in Trades : In(t, {"ARCHIVED"})}
    IN  Cardinality(UNION {LiveStops(t) : t \in archived}) <= MaxFaults - faults

(* A trade's status tells what the exchange holds for it: OPEN trades are  *)
(* in the position, CLOSED and archived ones are out of it, and nothing    *)
(* else moves it, with lost answers, reviews and repeated calls.           *)
StatusTellsPosition ==
    /\ \A t \in Trades :
          /\ In(t, {"OPEN", "CLOSING"}) => Entered(t)
          /\ In(t, {"OPEN", "PENDING_ENTRY"}) => ~Exited(t)
          /\ In(t, {"CLOSED", "ARCHIVED"}) => (Entered(t) <=> Exited(t))
    /\ X!HeldQuantity(Symbol) =
          SumFunctionOnSet([t \in Trades |-> EntrySide(t) * Quantity],
                           {t \in Trades : InPosition(t)})

(* Each trade that gets a stop is protected as the contract has it: the    *)
(* best of its live stops never gets worse and never goes before its       *)
(* position does, and an archived trade never comes back.                  *)
BestLevel(t) ==
    LET levels == {stopPrice[i] : i \in LiveStops(t)}
    IN  CHOOSE p \in levels : \A q \in levels : Protects(plan[t].side, q, p)

GuardView ==
    [t \in Trades |->
       IF Exited(t) \/ In(t, {"ARCHIVED"}) THEN Gone
       ELSE IF LiveStops(t) = {} THEN Unguarded ELSE BestLevel(t)]

Contract == INSTANCE StopContract WITH
    Levels <- Levels, side <- [t \in Trades |-> plan[t].side], guard <- GuardView

ImplementsContract == Contract!Spec
=============================================================================
