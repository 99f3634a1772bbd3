----------------------------- MODULE Ingestion ------------------------------
(***************************************************************************)
(* From a raw message to a signal: the source registry, the parser         *)
(* registry, the dedup store and SignalIngestionPipeline.process, which    *)
(* ties them together (sources/registry.py, parsers/registry.py,           *)
(* ingestion/dedup.py, ingestion/pipeline.py).                             *)
(*                                                                         *)
(* process is synchronous, so it is one step; what interleaves with it is  *)
(* the delivery of messages (again, edited, copied, in any order) and the  *)
(* operators' changes to the registries.                                   *)
(*                                                                         *)
(* A hash stands for the text it is of (no two texts are taken to collide  *)
(* under the truncated SHA-256), <<>> for an empty one.  A message may     *)
(* bring a hash of the caller's own, which no code checks against its      *)
(* text; no caller in src/ does.                                           *)
(***************************************************************************)
EXTENDS SignalParser

CONSTANTS
    Sources, MessageIds,
    ParserIds, Versions,
    Texts,          \* the texts messages can have
    RawHashes,      \* the hashes that callers supply, of any text or of none
    NoSource,
    MaxMessages     \* bound: messages delivered

ASSUME TextAssumption == \A text \in Texts : IsFiniteSet(DOMAIN text)

VARIABLES
    sources,    \* SourceRegistry._sources: source_id -> config
    parsers,    \* ParserRegistry._parsers under "id@version": a set
    latest,     \* ParserRegistry._parsers under "id": the last registered
    _seen,      \* InMemoryDedupStore: handled <<source, message_id>>
    _hashes,    \* InMemoryDedupStore: handled <<source, hash>>
    log         \* history: every message with its result, since clear()

vars == <<sources, parsers, latest, _seen, _hashes, log>>

Parsers == [parser_id : ParserIds, parser_version : Versions]
SourceConfigs == [parser_id : ParserIds, parser_version : Versions,
                  enabled : BOOLEAN]
Messages == [source_id : Sources, message_id : MessageIds, text : Texts,
             is_edit : BOOLEAN, raw_hash : RawHashes \cup {None}]

-----------------------------------------------------------------------------
(* The registries.                                                         *)

RegisterSource(s, config) ==
    /\ sources' = [sources EXCEPT ![s] = config]
    /\ UNCHANGED <<parsers, latest, _seen, _hashes, log>>

(* disable and enable replace the frozen config by an updated copy.        *)
SetEnabled(s, enabled) ==
    /\ sources[s] # NoSource
    /\ sources' = [sources EXCEPT ![s].enabled = enabled]
    /\ UNCHANGED <<parsers, latest, _seen, _hashes, log>>

RegisterParser(p) ==
    /\ parsers' = parsers \cup {p}
    /\ latest' = [latest EXCEPT ![p.parser_id] = p]
    /\ UNCHANGED <<sources, _seen, _hashes, log>>

(* Slip: the last registered parser wins even over the bound version.      *)
ResolveLatest(config) == latest[config.parser_id]

(* The bound version if it is registered, else the latest of the same id.  *)
_resolve_parser(config) ==
    LET bound == [parser_id |-> config.parser_id,
                  parser_version |-> config.parser_version]
    IN  IF bound \in parsers THEN bound ELSE latest[config.parser_id]

-----------------------------------------------------------------------------
(* The dedup store.                                                        *)

SeenKey(msg) == <<msg.source_id, msg.message_id>>

(* process computes the hash of a text when the caller supplied none; an   *)
(* empty one is no key.                                                    *)
ContentHash(msg) == IF msg.raw_hash = None THEN msg.text ELSE msg.raw_hash
HashKeys(msg) ==
    IF ContentHash(msg) = <<>> THEN {} ELSE {<<msg.source_id, ContentHash(msg)>>}

(* Slip: the content check forgets which source the text came from.        *)
CopiesAcrossSources(msg) ==
    \/ SeenKey(msg) \in _seen
    \/ ContentHash(msg) \in {h[2] : h \in _hashes} /\ ~msg.is_edit

(* Slip: an edit is let pass before its message id is looked at.           *)
EditsPass(msg) ==
    (SeenKey(msg) \in _seen \/ HashKeys(msg) \cap _hashes # {}) /\ ~msg.is_edit

is_duplicate(msg) ==
    \/ SeenKey(msg) \in _seen
    \/ HashKeys(msg) \cap _hashes # {} /\ ~msg.is_edit

(* Slip: only the message id is remembered.                                *)
MarkIdOnly(msg) ==
    _seen' = _seen \cup {SeenKey(msg)} /\ UNCHANGED _hashes

mark_seen(msg) ==
    /\ _seen' = _seen \cup {SeenKey(msg)}
    /\ _hashes' = _hashes \cup HashKeys(msg)

Clear ==
    /\ _seen' = {} /\ _hashes' = {} /\ log' = <<>>
    /\ UNCHANGED <<sources, parsers, latest>>

-----------------------------------------------------------------------------
(* SignalIngestionPipeline.process.                                        *)

(* Slip: a source whose parser is missing is not noticed.                  *)
VerdictNoParser(msg, parser) ==
    IF ~can_parse(msg.text) THEN "PARSE_SKIPPED"
    ELSE IF Raises(msg.text) THEN "PARSE_FAILED" ELSE "PARSED"

(* The result of a message that passed the source and dedup checks.        *)
Verdict(msg, parser) ==
    IF parser = None \/ ~can_parse(msg.text) THEN "PARSE_SKIPPED"
    ELSE IF Raises(msg.text) THEN "PARSE_FAILED" ELSE "PARSED"

_out(msg, outcome, parser) ==
    log' = Append(log, [msg |-> msg, outcome |-> outcome, parser |-> parser])

Refuse(msg, outcome) == _out(msg, outcome, None) /\ UNCHANGED <<_seen, _hashes>>

(* Slip: a message is marked as seen only when it gave a signal.           *)
HandleMarkLate(msg) ==
    LET parser == _resolve_parser(sources[msg.source_id]) IN
    /\ IF Verdict(msg, parser) = "PARSED" THEN mark_seen(msg)
       ELSE UNCHANGED <<_seen, _hashes>>
    /\ _out(msg, Verdict(msg, parser), parser)

(* The message is marked as seen before it is parsed: whatever the parser  *)
(* makes of it, it is handled.                                             *)
Handle(msg) ==
    LET parser == _resolve_parser(sources[msg.source_id]) IN
    /\ mark_seen(msg)
    /\ _out(msg, Verdict(msg, parser), parser)

process(msg) ==
    LET config == sources[msg.source_id] IN
    /\ \/ config = NoSource /\ Refuse(msg, "SOURCE_UNKNOWN")
       \/ config # NoSource /\ ~config.enabled /\ Refuse(msg, "SOURCE_DISABLED")
       \/ /\ config # NoSource /\ config.enabled
          /\ \/ is_duplicate(msg) /\ Refuse(msg, "DUPLICATE")
             \/ ~is_duplicate(msg) /\ Handle(msg)
    /\ UNCHANGED <<sources, parsers, latest>>

Init ==
    /\ sources = [s \in Sources |-> NoSource]
    /\ parsers = {}
    /\ latest = [i \in ParserIds |-> None]
    /\ _seen = {} /\ _hashes = {}
    /\ log = <<>>

Next ==
    \/ \E s \in Sources, c \in SourceConfigs : RegisterSource(s, c)
    \/ \E s \in Sources, e \in BOOLEAN : SetEnabled(s, e)
    \/ \E p \in Parsers : RegisterParser(p)
    \/ \E msg \in Messages : Len(log) < MaxMessages /\ process(msg)
    \/ Clear

Spec == Init /\ [][Next]_vars

-----------------------------------------------------------------------------
(* Properties.                                                             *)

Outcomes == {"SOURCE_UNKNOWN", "SOURCE_DISABLED", "DUPLICATE",
             "PARSE_SKIPPED", "PARSE_FAILED", "PARSED"}

HandledOutcomes == {"PARSE_SKIPPED", "PARSE_FAILED", "PARSED"}
Handled(k) == log[k].outcome \in HandledOutcomes
Parsed(k) == log[k].outcome = "PARSED"

TypeOK ==
    /\ sources \in [Sources -> SourceConfigs \cup {NoSource}]
    /\ parsers \subseteq Parsers
    /\ latest \in [ParserIds -> Parsers \cup {None}]
    /\ _seen \subseteq Sources \X MessageIds
    /\ _hashes \subseteq Sources \X (Texts \cup RawHashes)
    /\ log \in Seq([msg : Messages, outcome : Outcomes,
                    parser : Parsers \cup {None}])
    /\ \A k \in DOMAIN log : Parsed(k) => log[k].parser \in parsers

(* The same message is never processed twice (ingestion/dedup.py:4): of    *)
(* all deliveries of a <<source, message_id>>, as an original or as an     *)
(* edit, at most one reaches the parser, whether or not it gave a signal,  *)
(* and whatever happened to the source's configuration in between.         *)
HandledOnce ==
    \A k, m \in DOMAIN log :
       Handled(k) /\ Handled(m) /\ SeenKey(log[k].msg) = SeenKey(log[m].msg)
       => k = m

(* The same content by the code's measure: the hash the caller supplied,   *)
(* or else that of the text.                                               *)
SameContent(a, b) ==
    /\ a.source_id = b.source_id
    /\ ContentHash(a) = ContentHash(b) /\ ContentHash(a) # <<>>

(* A source that posts a content again under a new id does not get a       *)
(* second signal for it: two signals of one source with one content hash   *)
(* are a message and a later explicit edit.  Where callers supply no hash  *)
(* this speaks of the texts; a caller that does (pipeline.py:58) decides   *)
(* itself what a copy is, and one text under two of its hashes may give    *)
(* two signals.                                                            *)
NoSecondSignal ==
    \A k, m \in DOMAIN log :
       k < m /\ Parsed(k) /\ Parsed(m) /\ SameContent(log[k].msg, log[m].msg)
       => log[m].msg.is_edit

(* No message is dropped as a duplicate of nothing: before every DUPLICATE *)
(* an earlier message of the same source with the same id or the same      *)
(* content hash reached the parser.  So a message refused because its      *)
(* source was not known or not enabled can be delivered again once it is.  *)
(* Where callers supply no hash the original has the same text; under one  *)
(* supplied hash a new text is dropped (pipeline.py:58).                   *)
DuplicateHasOriginal ==
    \A m \in DOMAIN log : log[m].outcome = "DUPLICATE" =>
       \E k \in 1 .. m - 1 :
          /\ Handled(k)
          /\ \/ SeenKey(log[k].msg) = SeenKey(log[m].msg)
             \/ SameContent(log[k].msg, log[m].msg)

(* A signal of a source is read by the version its source is bound to if   *)
(* that version is there; registering another version, or binding another  *)
(* source, never changes how an enabled source is read.                    *)
BoundVersionReads ==
    [][\A s \in Sources :
          /\ log' # log /\ log' # <<>> /\ log'[Len(log')].outcome = "PARSED"
          /\ log'[Len(log')].msg.source_id = s
          /\ \E p \in parsers : /\ p.parser_id = sources[s].parser_id
                                /\ p.parser_version = sources[s].parser_version
          => log'[Len(log')].parser.parser_version = sources[s].parser_version]_vars

(* A signal has every take profit that its text gives a price for: none    *)
(* shadows another of the same index (such a text fails to parse instead), *)
(* and its leverage, if any, is one the exchange knows.                    *)
SignalsKeepTargets ==
    \A k \in DOMAIN log : Parsed(k) =>
       LET signal == parse(log[k].msg.text) IN
       /\ Cardinality(DOMAIN signal.take_profits) =
             Cardinality(Targets(log[k].msg.text))
       /\ signal.leverage # None => signal.leverage \in 1 .. 125

(* What the format's description says (parsers/generic_structured.py:6):   *)
(* ENTRY is optional, and leaving it out makes a MARKET order.  Then a     *)
(* text that has an ENTRY line never becomes one.                          *)
MarketMeansNoEntry ==
    \A k \in DOMAIN log : Parsed(k) =>
       LET text == log[k].msg.text IN
       parse(text).entry_type = "MARKET" => ~Has(text, "ENTRY")
=============================================================================
