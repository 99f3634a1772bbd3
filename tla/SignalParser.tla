---------------------------- MODULE SignalParser ----------------------------
(***************************************************************************)
(* The generic structured signal format (parsers/generic_structured.py):   *)
(* what the one concrete parser of the program makes of a message text.    *)
(*                                                                         *)
(* A text is the sequence of those of its lines that some pattern of the   *)
(* parser recognises, each as the fields its pattern captures; any other   *)
(* line is an OtherLine, kept where it tells two texts apart.  Spelling is *)
(* abstracted (case, white space, BUY for LONG, SELL for SHORT).  A        *)
(* captured number is a natural number, or Malformed when the characters   *)
(* [\d.]+ matched but Decimal refuses them, as in "65.000.5".              *)
(***************************************************************************)
EXTENDS Naturals, Sequences, FiniteSets

CONSTANTS
    None,           \* Python's None
    Malformed       \* digits and dots that are not a number

ASSUME MarksDiffer == None # Malformed /\ None \notin Nat /\ Malformed \notin Nat

(* The lines a text may have; a quote of None is a symbol without one.     *)
SignalLine(side, base, quote) ==
    [key |-> "SIGNAL", side |-> side, base |-> base, quote |-> quote]
EntryLine(price) == [key |-> "ENTRY", value |-> price]
StopLine(price) == [key |-> "SL", value |-> price]
TargetLine(index, price, pct) ==
    [key |-> "TP", index |-> index, value |-> price, pct |-> pct]
LeverageLine(leverage) == [key |-> "LEV", value |-> leverage]
OtherLine == [key |-> "OTHER"]

Lines(text, key) == SelectSeq(text, LAMBDA line : line.key = key)
Has(text, key) == \E k \in DOMAIN text : text[k].key = key

(* re.search takes the first match; _to_decimal turns Malformed into None. *)
Decimal(value) == IF value = Malformed THEN None ELSE value
FirstValue(text, key) ==
    IF Has(text, key) THEN Decimal(Lines(text, key)[1].value) ELSE None

_normalize_symbol(line) ==
    <<line.base, IF line.quote = None THEN "USDT" ELSE line.quote>>

(* The lines that give a take profit: one with a malformed price is skipped. *)
Targets(text) ==
    {k \in DOMAIN text : text[k].key = "TP" /\ text[k].value # Malformed}

can_parse(text) == Has(text, "SIGNAL")

(* The take profits of a signal have distinct indices: they are a function *)
(* of the index, which is also the order the parser sorts them in.         *)
TakeProfits(text) ==
    [i \in {text[k].index : k \in Targets(text)} |->
        LET tp == text[CHOOSE k \in Targets(text) : text[k].index = i] IN
        [price |-> tp.value, size_pct |-> Decimal(tp.pct)]]

(* What the models and validate() refuse: a percentage, an index that two  *)
(* take profits share, a leverage.                                         *)
PercentageRaises(text) ==
    \E k \in Targets(text) : Decimal(text[k].pct) \notin (1 .. 100) \cup {None}
IndicesRaise(text) ==
    \E k, m \in Targets(text) : k # m /\ text[k].index = text[m].index
LeverageRaises(text) == FirstValue(text, "LEV") \notin (1 .. 125) \cup {None}

(* Slip: the uniqueness of take profit indices is not validated.           *)
RaisesNoUnique(text) == PercentageRaises(text) \/ LeverageRaises(text)

(* What makes parse raise.                                                 *)
Raises(text) ==
    PercentageRaises(text) \/ IndicesRaise(text) \/ LeverageRaises(text)

(* What parse returns for a text that can be parsed and does not raise.    *)
parse(text) ==
    LET line == Lines(text, "SIGNAL")[1]
        entry == FirstValue(text, "ENTRY")
    IN  [symbol |-> _normalize_symbol(line),
         side |-> line.side,
         entry_type |-> IF entry # None THEN "LIMIT" ELSE "MARKET",
         entry_price |-> entry,
         stop_loss |-> FirstValue(text, "SL"),
         take_profits |-> TakeProfits(text),
         leverage |-> FirstValue(text, "LEV")]
=============================================================================
