---------------------------- MODULE MCIngestion -----------------------------
(* The instances of Ingestion that TLC checks.                             *)
EXTENDS Ingestion, TLC

GoodText ==
    <<SignalLine("LONG", "BTC", None), EntryLine(65), StopLine(64),
      TargetLine(1, 66, 50), TargetLine(2, 67, None), LeverageLine(10)>>

(* Two take profits with one index: parse raises.                          *)
TwiceTp1 ==
    <<SignalLine("LONG", "BTC", "USDT"), TargetLine(1, 66, None),
      TargetLine(1, 67, None)>>

LimitTypo == <<SignalLine("SHORT", "ETH", "USDT"), EntryLine(Malformed)>>

ManyTexts == {GoodText, TwiceTp1, <<OtherLine>>, <<>>}
TypoTexts == ManyTexts \cup {LimitTypo}

(* A caller may supply the hash of one text with another, or an empty one. *)
SuppliedHashes == {GoodText, <<>>}

(* Interchangeable values; used for safety only.                           *)
Symmetry ==
    Permutations(Sources) \cup Permutations(MessageIds) \cup Permutations(Versions)
=============================================================================
