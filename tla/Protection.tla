----------------------------- MODULE Protection -----------------------------
(***************************************************************************)
(* ProtectionPlanner (core/protection/planner.py) and TradeStateMachine    *)
(* (core/position/state_machine.py): where a trade's stop loss may be, and *)
(* which status may follow which.  Both are pure; prices are integers.     *)
(***************************************************************************)
EXTENDS Integers

CONSTANT None       \* Python's None: no stop loss, no previous take profit

ASSUME NoneAssumption == None \notin Int

Sides == {"LONG", "SHORT"}
SlModes == {"NONE", "BREAK_EVEN", "FIXED_LOSS_USDT", "LOCK_PROFIT_USDT",
            "MOVE_TO_PREVIOUS_TP", "CUSTOM"}

_is_safer(side, current, candidate) ==
    \/ side = "LONG" /\ candidate >= current
    \/ side = "SHORT" /\ candidate <= current

(* Slip: the proposal is taken as it is.                                   *)
TakeProposed(side, current, proposed) == proposed

never_worsen(side, current, proposed) ==
    IF _is_safer(side, current, proposed) THEN proposed ELSE current

(* The stop the plan starts with, and whether it protects the position:    *)
(* without a stop loss in the signal it does not, whatever the sl_mode.    *)
initial_stop(stop_loss) ==
    [initial_stop |-> stop_loss, is_protected |-> stop_loss # None]

(* Slip: LOCK_PROFIT_USDT is not thought of.                               *)
CandidateNoLock(mode, current, entry, previous) ==
    CASE mode = "BREAK_EVEN" -> entry
      [] mode = "MOVE_TO_PREVIOUS_TP" /\ previous # None -> previous
      [] OTHER -> current

(* Where the sl_mode would like the stop after a take profit was hit.      *)
Candidate(mode, current, entry, previous) ==
    CASE mode \in {"BREAK_EVEN", "LOCK_PROFIT_USDT"} -> entry
      [] mode = "MOVE_TO_PREVIOUS_TP" /\ previous # None -> previous
      [] OTHER -> current

(* after_tp clamps the candidate itself, in the way of never_worsen.       *)
after_tp(side, current, entry, mode, previous) ==
    never_worsen(side, current, Candidate(mode, current, entry, previous))

-----------------------------------------------------------------------------
Statuses == {"PENDING_ENTRY", "OPEN", "CLOSING", "CLOSED", "ARCHIVED",
             "MANUAL_REVIEW"}

_TRANSITIONS(status) ==
    CASE status = "PENDING_ENTRY" -> {"OPEN", "CLOSED", "MANUAL_REVIEW"}
      [] status = "OPEN" -> {"CLOSING", "CLOSED", "MANUAL_REVIEW"}
      [] status = "CLOSING" -> {"CLOSED", "MANUAL_REVIEW", "OPEN"}
      [] status = "CLOSED" -> {"ARCHIVED"}
      [] status = "MANUAL_REVIEW" -> {"OPEN", "CLOSED", "ARCHIVED"}
      [] status = "ARCHIVED" -> {}

can_transition(current, target) == target \in _TRANSITIONS(current)
=============================================================================
