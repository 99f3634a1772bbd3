---------------------------- MODULE MCTradeLife -----------------------------
(* The instance of TradeLife that TLC checks: the entry fills at 5; stops  *)
(* and take profits lie below, at and above it, in and out of order.       *)
EXTENDS TradeLife, TLC

Plan(side, stop_loss, targets, sl_mode) ==
    [side |-> side, stop_loss |-> stop_loss, targets |-> targets,
     sl_mode |-> sl_mode]

PlanValues ==
    {Plan("LONG", 3, <<6, 8>>, "MOVE_TO_PREVIOUS_TP"),
     Plan("LONG", 6, <<7>>, "BREAK_EVEN"),
     Plan("SHORT", 8, <<4>>, "LOCK_PROFIT_USDT"),
     Plan("SHORT", None, <<3>>, "NONE")}

Symmetry == Permutations(Trades)
=============================================================================
