----------------------------- MODULE MCDecision -----------------------------
(* The instances of Decision that TLC checks.  The signals are what the    *)
(* parser makes of message texts.                                          *)
EXTENDS Decision

CONSTANT Malformed

P == INSTANCE SignalParser

Text(side, symbol, more) == <<P!SignalLine(side, symbol, None)>> \o more

Texts ==
    {Text("LONG", "BTC", <<P!EntryLine(4), P!StopLine(2), P!LeverageLine(5)>>),
     Text("SHORT", "BTC", <<P!EntryLine(5), P!LeverageLine(2)>>),
     Text("SHORT", "ETH", <<P!StopLine(9), P!LeverageLine(3)>>),
     Text("LONG", "ETH", <<>>)}

SourceValues == {"alpha", "beta"}
PriorityValues == [s \in SourceValues |-> IF s = "beta" THEN 1 ELSE 0]

Source(s, signal) ==
    [k \in DOMAIN signal \cup {"source_id"} |->
        IF k = "source_id" THEN s ELSE signal[k]]

SignalValues ==
    {Source(s, P!parse(t)) : s \in SourceValues, t \in Texts}

(* BTC as in the default rules, where the minimum is one step; ETH has no  *)
(* rules.                                                                  *)
RuleValues ==
    [s \in {<<"BTC", "USDT">>, <<"ETH", "USDT">>} |->
        IF s[1] = "BTC"
        THEN [step_size |-> 2, min_qty |-> 2, min_notional |-> 5]
        ELSE None]

MarkValues == {None, 3, 6}

Profile(id, leverage, notional, loss, policy, positions) ==
    [profile_id |-> id, max_leverage |-> leverage,
     max_notional_usdt |-> notional, max_loss_usdt |-> loss,
     conflict_policy |-> policy, max_open_positions |-> positions]

ProfileOfValues == [s \in SourceValues |-> IF s = "alpha" THEN "p1" ELSE "p2"]

(* Limits that bind one after the other, and every conflict policy but one *)
(* that is decided like SCALE_IN.                                          *)
ProfileValues ==
    UNION {{Profile(i, 3, 30, 10, "REJECT_SECOND", 3),
            Profile(i, 5, 50, 9, "SCALE_IN", 2),
            Profile(i, 2, None, 12, "SOURCE_PRIORITY", 3),
            Profile(i, 4, 40, 11, "MANUAL_REVIEW", 3)} : i \in {"p1", "p2"}}
=============================================================================
