---------------------------- MODULE StopContract ----------------------------
(***************************************************************************)
(* What the stop of a trade does, without orders, retries or planners: the *)
(* guard moves only in the protective direction (core/protection/          *)
(* planner.py 5) and goes only with the trade itself, for good.            *)
(* A trade has no guard until it gets one, and it may never get one: this  *)
(* is less than "Position never unprotected" (planner.py 4), which the     *)
(* code does not keep for a signal without a stop loss (planner.py 47-53). *)
(* TradeLife implements this under the mapping it states.                  *)
(***************************************************************************)
EXTENDS Integers

CONSTANTS Trades, Levels, Unguarded, Gone

VARIABLES
    side,    \* trade -> LONG or SHORT, fixed
    guard    \* trade -> the price it is protected at, Unguarded or Gone

Better(t, p) ==
    \/ side[t] = "LONG" /\ p >= guard[t]
    \/ side[t] = "SHORT" /\ p <= guard[t]

Init ==
    /\ side \in [Trades -> {"LONG", "SHORT"}]
    /\ guard = [t \in Trades |-> Unguarded]

Guard(t, p) == guard[t] = Unguarded /\ guard' = [guard EXCEPT ![t] = p]

Tighten(t, p) ==
    /\ guard[t] \in Levels /\ Better(t, p)
    /\ guard' = [guard EXCEPT ![t] = p]

Release(t) == guard' = [guard EXCEPT ![t] = Gone]

Next ==
    /\ \E t \in Trades :
          \/ \E p \in Levels : Guard(t, p) \/ Tighten(t, p)
          \/ Release(t)
    /\ UNCHANGED side

Spec == Init /\ [][Next]_<<side, guard>>
=============================================================================
