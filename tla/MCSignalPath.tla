---------------------------- MODULE MCSignalPath ----------------------------
(* The instance of SignalPath that TLC checks.                             *)
EXTENDS SignalPath, TLC

CONSTANTS generic, v1

P == INSTANCE SignalParser

TextValues == {<<P!SignalLine("LONG", "BTC", "USDT"), P!EntryLine(65)>>}
ConfigValue == [parser_id |-> generic, parser_version |-> v1, enabled |-> TRUE]

Symmetry == Permutations(MessageIds)
=============================================================================
