-------------------------- MODULE SignalPathProofs --------------------------
(***************************************************************************)
(* Theorems of Ingestion, and of SignalPath, which extends it, for any     *)
(* number of sources, message ids, texts, supplied hashes, parsers,        *)
(* deliveries, workers, trades, attempts and faults.  A message is handled *)
(* at most once, a copy gives no second signal, nothing is refused as a    *)
(* duplicate that has no original, and a signal has every take profit of   *)
(* its text (CopyInv).  And a message is filled at most once for each life *)
(* of the process and each attempt planned (PathInv).                      *)
(***************************************************************************)
EXTENDS SignalPath, Sums, FunctionTheorems, FiniteSetTheorems, TLAPS

Entry == [msg : Messages, outcome : Outcomes, parser : Parsers \cup {None}]

(* The part of TypeOK that the log needs.                                  *)
LogType ==
    /\ parsers \subseteq Parsers
    /\ latest \in [ParserIds -> Parsers \cup {None}]
    /\ sources \in [Sources -> SourceConfigs \cup {NoSource}]
    /\ log \in Seq(Entry)

(* What was handled is remembered.                                         *)
Remembered == \A k \in DOMAIN log : Handled(k) => SeenKey(log[k].msg) \in _seen

IInv == LogType /\ Remembered /\ HandledOnce

LEMMA InitIInv == Init => IInv
  BY DEF Init, IInv, LogType, Remembered, HandledOnce

(* The verdict on a message is one of a handled message, and the parser an *)
(* enabled source resolves to is a parser or none.                         *)
LEMMA HandleTypes ==
    ASSUME LogType, NEW msg \in Messages, sources[msg.source_id] # NoSource
    PROVE  LET parser == _resolve_parser(sources[msg.source_id]) IN
           /\ parser \in Parsers \cup {None}
           /\ Verdict(msg, parser) \in HandledOutcomes
  <1>1. msg.source_id \in Sources
    BY DEF Messages
  <1>2. sources[msg.source_id] \in SourceConfigs
    BY <1>1 DEF LogType
  <1>3. sources[msg.source_id].parser_id \in ParserIds
    BY <1>2 DEF SourceConfigs
  <1>4. _resolve_parser(sources[msg.source_id]) \in Parsers \cup {None}
    BY <1>3 DEF _resolve_parser, LogType
  <1> DEFINE parser == _resolve_parser(sources[msg.source_id])
  <1>5. Verdict(msg, parser) \in HandledOutcomes
    BY DEF Verdict, HandledOutcomes
  <1> QED
    BY <1>4, <1>5

(* A step that appends one entry keeps the invariant if it remembers more, *)
(* and handles only what was not seen.                                     *)
LEMMA AppendIInv ==
    ASSUME IInv, NEW e \in Entry, log' = Append(log, e),
           UNCHANGED <<sources, parsers, latest>>,
           _seen \subseteq _seen',
           e.outcome \in HandledOutcomes =>
              SeenKey(e.msg) \notin _seen /\ SeenKey(e.msg) \in _seen'
    PROVE  IInv'
  <1> USE DEF IInv
  <1>1. log \in Seq(Entry)
    BY DEF LogType
  <1>2. /\ log' \in Seq(Entry)
        /\ DOMAIN log' = DOMAIN log \cup {Len(log) + 1}
        /\ log'[Len(log) + 1] = e
        /\ Len(log) + 1 \notin DOMAIN log
        /\ \A k \in DOMAIN log : log'[k] = log[k]
    BY <1>1
  <1>3. LogType'
    BY <1>2 DEF LogType
  <1>4. Remembered'
    BY <1>2 DEF Remembered, Handled, SeenKey
  <1>5. HandledOnce'
    <2> SUFFICES ASSUME NEW k \in DOMAIN log', NEW m \in DOMAIN log',
                        Handled(k)', Handled(m)',
                        SeenKey(log'[k].msg) = SeenKey(log'[m].msg)
                 PROVE  k = m
      BY DEF HandledOnce, SeenKey
    <2>1. CASE k \in DOMAIN log /\ m \in DOMAIN log
      BY <2>1, <1>2 DEF HandledOnce, Handled, SeenKey
    <2>2. CASE k \in DOMAIN log /\ m = Len(log) + 1
      BY <2>2, <1>2 DEF Remembered, Handled
    <2>3. CASE k = Len(log) + 1 /\ m \in DOMAIN log
      BY <2>3, <1>2 DEF Remembered, Handled
    <2> QED
      BY <2>1, <2>2, <2>3, <1>2
  <1> QED
    BY <1>3, <1>4, <1>5

LEMMA RefuseIInv ==
    ASSUME IInv, NEW msg \in Messages, NEW outcome \in Outcomes \ HandledOutcomes,
           Refuse(msg, outcome), UNCHANGED <<sources, parsers, latest>>
    PROVE  IInv'
  <1> DEFINE e == [msg |-> msg, outcome |-> outcome, parser |-> None]
  <1>1. e \in Entry /\ e.outcome \notin HandledOutcomes
    BY DEF Entry
  <1>2. log' = Append(log, e) /\ _seen' = _seen
    BY DEF Refuse, _out
  <1> QED
    BY <1>1, <1>2, AppendIInv

LEMMA HandleIInv ==
    ASSUME IInv, NEW msg \in Messages, sources[msg.source_id] # NoSource,
           ~is_duplicate(msg), Handle(msg), UNCHANGED <<sources, parsers, latest>>
    PROVE  IInv'
  <1> DEFINE parser == _resolve_parser(sources[msg.source_id])
  <1> DEFINE e == [msg |-> msg, outcome |-> Verdict(msg, parser), parser |-> parser]
  <1>1. parser \in Parsers \cup {None} /\ Verdict(msg, parser) \in HandledOutcomes
    BY HandleTypes DEF IInv
  <1>2. HandledOutcomes \subseteq Outcomes
    BY DEF HandledOutcomes, Outcomes
  <1>3. log' = Append(log, e)
    BY DEF Handle, _out
  <1>4. SeenKey(msg) \notin _seen /\ _seen' = _seen \cup {SeenKey(msg)}
    BY DEF is_duplicate, Handle, mark_seen
  <1> HIDE DEF parser
  <1>5. e \in Entry /\ e.msg = msg
    BY <1>1, <1>2 DEF Entry
  <1> HIDE DEF e
  <1> QED
    BY <1>3, <1>4, <1>5, AppendIInv

LEMMA NextIInv == IInv /\ [Next]_vars => IInv'
  <1> SUFFICES ASSUME IInv, [Next]_vars PROVE IInv'
    OBVIOUS
  <1>1. ASSUME NEW s \in Sources, NEW c \in SourceConfigs, RegisterSource(s, c)
        PROVE  IInv'
    BY <1>1 DEF RegisterSource, IInv, LogType, Remembered, HandledOnce, Handled
  <1>2. ASSUME NEW s \in Sources, NEW b \in BOOLEAN, SetEnabled(s, b)
        PROVE  IInv'
    <2>1. sources[s] \in SourceConfigs
      BY <1>2 DEF SetEnabled, IInv, LogType
    <2>2. [sources[s] EXCEPT !.enabled = b] \in SourceConfigs
      BY <2>1 DEF SourceConfigs
    <2>3. sources' \in [Sources -> SourceConfigs \cup {NoSource}]
      BY <1>2, <2>2 DEF SetEnabled, IInv, LogType
    <2> QED
      BY <1>2, <2>3 DEF SetEnabled, IInv, LogType, Remembered, HandledOnce, Handled
  <1>3. ASSUME NEW p \in Parsers, RegisterParser(p)
        PROVE  IInv'
    BY <1>3 DEF RegisterParser, IInv, LogType, Remembered, HandledOnce, Handled
  <1>4. ASSUME NEW msg \in Messages, process(msg)
        PROVE  IInv'
    <2>1. UNCHANGED <<sources, parsers, latest>>
      BY <1>4 DEF process
    <2>2. CASE \E o \in {"SOURCE_UNKNOWN", "SOURCE_DISABLED", "DUPLICATE"} :
                  Refuse(msg, o)
      BY <2>1, <2>2, RefuseIInv DEF Outcomes, HandledOutcomes
    <2>3. CASE /\ sources[msg.source_id] # NoSource
               /\ ~is_duplicate(msg) /\ Handle(msg)
      BY <2>1, <2>3, HandleIInv
    <2> QED
      BY <1>4, <2>2, <2>3 DEF process
  <1>5. CASE Clear
    BY <1>5 DEF Clear, IInv, LogType, Remembered, HandledOnce
  <1>6. CASE UNCHANGED vars
    BY <1>6 DEF vars, IInv, LogType, Remembered, HandledOnce, Handled
  <1> QED
    BY <1>1, <1>2, <1>3, <1>4, <1>5, <1>6 DEF Next

(* The three parts of IInv hold in every reachable state.                  *)
THEOREM Inductive == Spec => []IInv
  BY InitIInv, NextIInv, PTL DEF Spec

(* The same message is never processed twice (ingestion/dedup.py:4).       *)
THEOREM HandledOnceCorrect == Spec => []HandledOnce
  BY Inductive, PTL DEF IInv

-----------------------------------------------------------------------------
(* What the dedup store remembers is what was handled, and nothing else.   *)

Kept == \A k \in DOMAIN log : Handled(k) => HashKeys(log[k].msg) \subseteq _hashes

SeenBacked ==
    \A x \in _seen : \E k \in DOMAIN log : Handled(k) /\ SeenKey(log[k].msg) = x

HashBacked ==
    \A x \in _hashes : \E k \in DOMAIN log :
       Handled(k) /\ x \in HashKeys(log[k].msg)

Registered == latest \in [ParserIds -> parsers \cup {None}]

CopyInv ==
    /\ IInv /\ TypeOK /\ Registered
    /\ Kept /\ SeenBacked /\ HashBacked
    /\ NoSecondSignal /\ DuplicateHasOriginal

LEMMA InitCopyInv == Init => CopyInv
  <1> SUFFICES ASSUME Init PROVE CopyInv
    OBVIOUS
  <1>1. TypeOK /\ Registered
    BY DEF Init, TypeOK, Registered
  <1>2. Kept /\ SeenBacked /\ HashBacked /\ NoSecondSignal /\ DuplicateHasOriginal
    BY DEF Init, Kept, SeenBacked, HashBacked, NoSecondSignal, DuplicateHasOriginal
  <1> QED
    BY <1>1, <1>2, InitIInv DEF CopyInv

(* The content keys of two messages meet exactly if the messages have the  *)
(* same content, and then they are the same.                               *)
LEMMA ContentKeys ==
    ASSUME NEW a, NEW b
    PROVE  /\ SameContent(a, b) => HashKeys(a) = HashKeys(b) /\ HashKeys(a) # {}
           /\ \A x : x \in HashKeys(a) /\ x \in HashKeys(b) => SameContent(a, b)
  <1>1. SameContent(a, b) => HashKeys(a) = HashKeys(b) /\ HashKeys(a) # {}
    BY DEF SameContent, HashKeys
  <1>2. ASSUME NEW x, x \in HashKeys(a), x \in HashKeys(b) PROVE SameContent(a, b)
    <2>1. /\ ContentHash(a) # <<>> /\ x = <<a.source_id, ContentHash(a)>>
          /\ ContentHash(b) # <<>> /\ x = <<b.source_id, ContentHash(b)>>
      BY <1>2 DEF HashKeys
    <2>2. \A s, h, t, g : <<s, h>> = <<t, g>> => s = t /\ h = g
      OBVIOUS
    <2>3. a.source_id = b.source_id /\ ContentHash(a) = ContentHash(b)
      BY <2>1, <2>2
    <2> QED
      BY <2>1, <2>3 DEF SameContent
  <1> QED
    BY <1>1, <1>2

(* A step that appends one entry, remembers what it handles, handles no    *)
(* duplicate and calls nothing else one.                                   *)
LEMMA AppendCopy ==
    ASSUME CopyInv, NEW e \in Entry, log' = Append(log, e),
           UNCHANGED <<sources, parsers, latest>>,
           e.outcome \in HandledOutcomes => ~is_duplicate(e.msg) /\ mark_seen(e.msg),
           e.outcome \notin HandledOutcomes => UNCHANGED <<_seen, _hashes>>,
           e.outcome = "DUPLICATE" => is_duplicate(e.msg),
           e.outcome = "PARSED" => can_parse(e.msg.text) /\ e.parser \in parsers
    PROVE  /\ TypeOK' /\ Registered'
           /\ Kept' /\ SeenBacked' /\ HashBacked'
           /\ NoSecondSignal' /\ DuplicateHasOriginal'
  <1>1. log \in Seq(Entry)
    BY DEF CopyInv, IInv, LogType
  <1>2. /\ log' \in Seq(Entry)
        /\ DOMAIN log = 1 .. Len(log) /\ Len(log) \in Nat
        /\ DOMAIN log' = DOMAIN log \cup {Len(log) + 1}
        /\ log'[Len(log) + 1] = e
        /\ Len(log) + 1 \notin DOMAIN log
        /\ \A k \in DOMAIN log : log'[k] = log[k]
    BY <1>1
  <1>3. _seen \subseteq _seen' /\ _hashes \subseteq _hashes'
    BY DEF mark_seen
  <1>4. TypeOK' /\ Registered'
    <2>1. e.msg \in Messages
      BY DEF Entry
    <2>2. /\ SeenKey(e.msg) \in Sources \X MessageIds
          /\ HashKeys(e.msg) \subseteq Sources \X (Texts \cup RawHashes)
      BY <2>1 DEF SeenKey, HashKeys, ContentHash, Messages
    <2>3. /\ _seen' \subseteq Sources \X MessageIds
          /\ _hashes' \subseteq Sources \X (Texts \cup RawHashes)
      BY <2>2 DEF CopyInv, TypeOK, mark_seen
    <2>4. \A k \in DOMAIN log' : Parsed(k)' => log'[k].parser \in parsers'
      BY <1>2 DEF CopyInv, TypeOK, Parsed
    <2>5. Registered'
      BY DEF CopyInv, Registered
    <2> QED
      BY <1>2, <2>3, <2>4, <2>5 DEF CopyInv, TypeOK, Entry
  <1>5. Kept'
    <2> SUFFICES ASSUME NEW k \in DOMAIN log', Handled(k)'
                 PROVE  HashKeys(log'[k].msg) \subseteq _hashes'
      BY DEF Kept, HashKeys, ContentHash
    <2>1. CASE k \in DOMAIN log
      BY <2>1, <1>2, <1>3 DEF CopyInv, Kept, Handled
    <2>2. CASE k = Len(log) + 1
      BY <2>2, <1>2 DEF Handled, mark_seen
    <2> QED
      BY <2>1, <2>2, <1>2
  <1>6. SeenBacked'
    <2> SUFFICES ASSUME NEW x \in _seen'
                 PROVE  \E k \in DOMAIN log' : Handled(k)' /\ SeenKey(log'[k].msg) = x
      BY DEF SeenBacked, SeenKey
    <2>1. CASE x \in _seen
      BY <2>1, <1>2 DEF CopyInv, SeenBacked, Handled
    <2>2. CASE x \notin _seen
      <3>1. e.outcome \in HandledOutcomes /\ x = SeenKey(e.msg)
        BY <2>2 DEF mark_seen
      <3> QED
        BY <3>1, <1>2 DEF Handled
    <2> QED
      BY <2>1, <2>2
  <1>7. HashBacked'
    <2> SUFFICES ASSUME NEW x \in _hashes'
                 PROVE  \E k \in DOMAIN log' : Handled(k)' /\ x \in HashKeys(log'[k].msg)
      BY DEF HashBacked, HashKeys, ContentHash
    <2>1. CASE x \in _hashes
      BY <2>1, <1>2 DEF CopyInv, HashBacked, Handled
    <2>2. CASE x \notin _hashes
      <3>1. e.outcome \in HandledOutcomes /\ x \in HashKeys(e.msg)
        BY <2>2 DEF mark_seen
      <3> QED
        BY <3>1, <1>2 DEF Handled
    <2> QED
      BY <2>1, <2>2
  <1>8. NoSecondSignal'
    <2> SUFFICES ASSUME NEW k \in DOMAIN log', NEW m \in DOMAIN log', k < m,
                        Parsed(k)', Parsed(m)',
                        SameContent(log'[k].msg, log'[m].msg)
                 PROVE  log'[m].msg.is_edit
      BY DEF NoSecondSignal, SameContent, ContentHash
    <2>1. k \in DOMAIN log
      BY <1>2
    <2>2. CASE m \in DOMAIN log
      BY <2>1, <2>2, <1>2 DEF CopyInv, NoSecondSignal, Parsed
    <2>3. CASE m = Len(log) + 1
      <3>1. e.outcome = "PARSED" /\ ~is_duplicate(e.msg)
        BY <2>3, <1>2 DEF Parsed, HandledOutcomes
      <3>2. Handled(k) /\ HashKeys(log[k].msg) \subseteq _hashes
        BY <2>1, <1>2 DEF CopyInv, Kept, Handled, Parsed, HandledOutcomes
      <3>3. SameContent(log[k].msg, e.msg)
        BY <2>1, <2>3, <1>2
      <3>4. HashKeys(log[k].msg) = HashKeys(e.msg) /\ HashKeys(e.msg) # {}
        BY <3>3, ContentKeys
      <3>5. HashKeys(e.msg) \cap _hashes # {}
        BY <3>2, <3>4
      <3> QED
        BY <3>1, <3>5, <2>3, <1>2 DEF is_duplicate
    <2> QED
      BY <2>2, <2>3, <1>2
  <1>9. DuplicateHasOriginal'
    <2> SUFFICES ASSUME NEW m \in DOMAIN log', log'[m].outcome = "DUPLICATE"
                 PROVE  \E k \in 1 .. m - 1 :
                           /\ Handled(k)'
                           /\ \/ SeenKey(log'[k].msg) = SeenKey(log'[m].msg)
                              \/ SameContent(log'[k].msg, log'[m].msg)
      BY DEF DuplicateHasOriginal, SeenKey, SameContent, ContentHash
    <2>1. CASE m \in DOMAIN log
      <3>1. log[m].outcome = "DUPLICATE"
        BY <2>1, <1>2
      <3>2. PICK k \in 1 .. m - 1 :
               /\ Handled(k)
               /\ \/ SeenKey(log[k].msg) = SeenKey(log[m].msg)
                  \/ SameContent(log[k].msg, log[m].msg)
        BY <2>1, <3>1 DEF CopyInv, DuplicateHasOriginal
      <3>3. k \in DOMAIN log
        BY <2>1, <1>2
      <3> QED
        BY <2>1, <3>2, <3>3, <1>2 DEF Handled
    <2>2. CASE m = Len(log) + 1
      <3>1. is_duplicate(e.msg)
        BY <2>2, <1>2
      <3>2. PICK k \in DOMAIN log :
               /\ Handled(k)
               /\ \/ SeenKey(log[k].msg) = SeenKey(e.msg)
                  \/ SameContent(log[k].msg, e.msg)
        <4>1. CASE SeenKey(e.msg) \in _seen
          BY <4>1 DEF CopyInv, SeenBacked
        <4>2. CASE HashKeys(e.msg) \cap _hashes # {}
          BY <4>2, ContentKeys DEF CopyInv, HashBacked
        <4> QED
          BY <3>1, <4>1, <4>2 DEF is_duplicate
      <3>3. k \in 1 .. m - 1
        BY <2>2, <1>2
      <3> QED
        BY <2>2, <3>2, <3>3, <1>2 DEF Handled
    <2> QED
      BY <2>1, <2>2, <1>2
  <1> QED
    BY <1>4, <1>5, <1>6, <1>7, <1>8, <1>9

LEMMA RefuseCopy ==
    ASSUME CopyInv, NEW msg \in Messages, NEW outcome \in Outcomes \ HandledOutcomes,
           outcome = "DUPLICATE" => is_duplicate(msg),
           Refuse(msg, outcome), UNCHANGED <<sources, parsers, latest>>
    PROVE  CopyInv'
  <1> DEFINE e == [msg |-> msg, outcome |-> outcome, parser |-> None]
  <1>1. e \in Entry /\ e.outcome = outcome /\ e.msg = msg
    BY DEF Entry
  <1>2. log' = Append(log, e) /\ UNCHANGED <<_seen, _hashes>>
    BY DEF Refuse, _out
  <1>3. outcome # "PARSED"
    BY DEF HandledOutcomes
  <1>4. IInv'
    BY RefuseIInv DEF CopyInv
  <1> HIDE DEF e
  <1> QED
    BY <1>1, <1>2, <1>3, <1>4, AppendCopy DEF CopyInv

LEMMA HandleCopy ==
    ASSUME CopyInv, NEW msg \in Messages, sources[msg.source_id] # NoSource,
           ~is_duplicate(msg), Handle(msg), UNCHANGED <<sources, parsers, latest>>
    PROVE  CopyInv'
  <1> DEFINE parser == _resolve_parser(sources[msg.source_id])
  <1> DEFINE e == [msg |-> msg, outcome |-> Verdict(msg, parser), parser |-> parser]
  <1>1. parser \in Parsers \cup {None} /\ Verdict(msg, parser) \in HandledOutcomes
    BY HandleTypes DEF CopyInv, IInv
  <1>2. log' = Append(log, e) /\ mark_seen(msg)
    BY DEF Handle, _out
  <1>3. parser \in parsers \cup {None}
    <2>1. sources[msg.source_id].parser_id \in ParserIds
      <3>1. sources[msg.source_id] \in SourceConfigs
        BY DEF CopyInv, TypeOK, Messages
      <3> QED
        BY <3>1 DEF SourceConfigs
    <2> QED
      BY <2>1 DEF _resolve_parser, CopyInv, Registered
  <1>4. Verdict(msg, parser) = "PARSED" => can_parse(msg.text) /\ parser # None
    BY DEF Verdict
  <1>5. HandledOutcomes \subseteq Outcomes /\ "DUPLICATE" \notin HandledOutcomes
    BY DEF HandledOutcomes, Outcomes
  <1>6. IInv'
    BY HandleIInv DEF CopyInv
  <1> HIDE DEF parser
  <1>7. /\ e \in Entry /\ e.msg = msg /\ e.parser = parser
        /\ e.outcome = Verdict(msg, parser)
    BY <1>1, <1>5 DEF Entry
  <1> HIDE DEF e
  <1> QED
    BY <1>1, <1>2, <1>3, <1>4, <1>5, <1>6, <1>7, AppendCopy DEF CopyInv

(* Steps that leave the log and the dedup store alone.                     *)
LEMMA SameCopy ==
    ASSUME CopyInv, UNCHANGED <<_seen, _hashes, log>>
    PROVE  /\ Kept' /\ SeenBacked' /\ HashBacked'
           /\ NoSecondSignal' /\ DuplicateHasOriginal'
  <1>1. Kept' /\ SeenBacked' /\ HashBacked'
    BY DEF CopyInv, Kept, SeenBacked, HashBacked, Handled
  <1>2. NoSecondSignal' /\ DuplicateHasOriginal'
    BY DEF CopyInv, NoSecondSignal, DuplicateHasOriginal, Handled, Parsed
  <1> QED
    BY <1>1, <1>2

LEMMA NextCopyInv == CopyInv /\ [Next]_vars => CopyInv'
  <1> SUFFICES ASSUME CopyInv, [Next]_vars PROVE CopyInv'
    OBVIOUS
  <1>0. IInv' /\ LogType'
    BY NextIInv DEF CopyInv, IInv
  <1>1. ASSUME NEW s \in Sources, NEW c \in SourceConfigs, RegisterSource(s, c)
        PROVE  CopyInv'
    BY <1>0, <1>1, SameCopy
       DEF RegisterSource, CopyInv, TypeOK, LogType, Registered, Parsed
  <1>2. ASSUME NEW s \in Sources, NEW b \in BOOLEAN, SetEnabled(s, b)
        PROVE  CopyInv'
    BY <1>0, <1>2, SameCopy
       DEF SetEnabled, CopyInv, TypeOK, LogType, Registered, Parsed
  <1>3. ASSUME NEW p \in Parsers, RegisterParser(p)
        PROVE  CopyInv'
    <2>1. TypeOK' /\ Registered'
      BY <1>3 DEF RegisterParser, CopyInv, TypeOK, Registered, Parsed, Parsers
    <2> QED
      BY <1>0, <1>3, <2>1, SameCopy DEF RegisterParser, CopyInv
  <1>4. ASSUME NEW msg \in Messages, process(msg)
        PROVE  CopyInv'
    <2>1. UNCHANGED <<sources, parsers, latest>>
      BY <1>4 DEF process
    <2>2. CASE Refuse(msg, "SOURCE_UNKNOWN") \/ Refuse(msg, "SOURCE_DISABLED")
      BY <2>1, <2>2, RefuseCopy DEF Outcomes, HandledOutcomes
    <2>3. CASE is_duplicate(msg) /\ Refuse(msg, "DUPLICATE")
      BY <2>1, <2>3, RefuseCopy DEF Outcomes, HandledOutcomes
    <2>4. CASE /\ sources[msg.source_id] # NoSource
               /\ ~is_duplicate(msg) /\ Handle(msg)
      BY <2>1, <2>4, HandleCopy
    <2> QED
      BY <1>4, <2>2, <2>3, <2>4 DEF process
  <1>5. CASE Clear
    <2>1. TypeOK' /\ Registered'
      BY <1>5 DEF Clear, CopyInv, TypeOK, Registered
    <2>2. Kept' /\ SeenBacked' /\ HashBacked' /\ NoSecondSignal' /\ DuplicateHasOriginal'
      BY <1>5 DEF Clear, Kept, SeenBacked, HashBacked, NoSecondSignal, DuplicateHasOriginal
    <2> QED
      BY <1>0, <2>1, <2>2 DEF CopyInv
  <1>6. CASE UNCHANGED vars
    BY <1>0, <1>6, SameCopy DEF vars, CopyInv, TypeOK, Registered, Parsed
  <1> QED
    BY <1>1, <1>2, <1>3, <1>4, <1>5, <1>6 DEF Next

(* Log, dedup store and registries correspond in every reachable state.    *)
THEOREM CopyInductive == Spec => []CopyInv
  BY InitCopyInv, NextCopyInv, PTL DEF Spec

(* The variables keep their types, and a signal has a registered parser.   *)
THEOREM TypeCorrect == Spec => []TypeOK
  BY CopyInductive, PTL DEF CopyInv

(* A content posted again under a new id gives no second signal, unless it *)
(* is an explicit edit (ingestion/dedup.py 27-43), for any hashes that     *)
(* callers supply with their messages (ingestion/pipeline.py:58); without  *)
(* any, for any texts.                                                     *)
THEOREM CopyCorrect == Spec => []NoSecondSignal
  BY CopyInductive, PTL DEF CopyInv

(* Nothing is refused as a duplicate unless a message of the same id or of *)
(* the same content hash was handled before (ingestion/pipeline.py 62-120  *)
(* marks a message only when it is handled), for any hashes that callers   *)
(* supply.                                                                 *)
THEOREM OriginalCorrect == Spec => []DuplicateHasOriginal
  BY CopyInductive, PTL DEF CopyInv

(* An enabled source is read by the version it is bound to, if it is there *)
(* (ingestion/pipeline.py, _resolve_parser).                               *)
THEOREM BoundCorrect == Spec => BoundVersionReads
  <1> DEFINE Read(s) ==
        /\ log' # log /\ log' # <<>> /\ log'[Len(log')].outcome = "PARSED"
        /\ log'[Len(log')].msg.source_id = s
        /\ \E p \in parsers : /\ p.parser_id = sources[s].parser_id
                              /\ p.parser_version = sources[s].parser_version
        => log'[Len(log')].parser.parser_version = sources[s].parser_version
  <1>1. ASSUME CopyInv, Next, NEW s \in Sources PROVE Read(s)
    <2> SUFFICES ASSUME log' # log, log' # <<>>, log'[Len(log')].outcome = "PARSED",
                        log'[Len(log')].msg.source_id = s,
                        NEW p \in parsers, p.parser_id = sources[s].parser_id,
                        p.parser_version = sources[s].parser_version
                 PROVE  log'[Len(log')].parser.parser_version = sources[s].parser_version
      OBVIOUS
    <2>1. PICK msg \in Messages : process(msg)
      BY <1>1 DEF Next, RegisterSource, SetEnabled, RegisterParser, Clear
    <2>2. \A m, o, q : LET e == [msg |-> m, outcome |-> o, parser |-> q] IN
             log' = Append(log, e) => log'[Len(log')] = e
      <3>1. Len(log) \in Nat /\ log \in Seq(Entry)
        BY <1>1 DEF CopyInv, IInv, LogType
      <3> QED
        BY <3>1
    <2>3. Handle(msg)
      <3>1. \A o \in Outcomes \ HandledOutcomes : ~Refuse(msg, o)
        BY <2>2 DEF Refuse, _out, HandledOutcomes
      <3> QED
        BY <2>1, <3>1 DEF process, Outcomes, HandledOutcomes
    <2>4. /\ log'[Len(log')].msg = msg
          /\ log'[Len(log')].parser = _resolve_parser(sources[msg.source_id])
      BY <2>2, <2>3 DEF Handle, _out
    <2>5. p = [parser_id |-> sources[s].parser_id,
               parser_version |-> sources[s].parser_version]
      BY <1>1 DEF CopyInv, TypeOK, Parsers
    <2> QED
      BY <2>4, <2>5 DEF _resolve_parser
  <1>2. CopyInv /\ [Next]_vars => [\A s \in Sources : Read(s)]_vars
    BY <1>1
  <1> QED
    BY <1>2, CopyInductive, PTL DEF Spec, BoundVersionReads

-----------------------------------------------------------------------------
(* Signals and their texts.                                                *)

(* A text that gave a signal is one for which parse does not raise.        *)
Accepted == \A k \in DOMAIN log : Parsed(k) => ~Raises(log[k].msg.text)

(* Take profits of distinct indices are as many as their lines.            *)
LEMMA EveryTarget ==
    ASSUME NEW text \in Texts, ~Raises(text)
    PROVE  Cardinality(DOMAIN TakeProfits(text)) = Cardinality(Targets(text))
  <1> DEFINE T == Targets(text)
             I == {text[k].index : k \in T}
             f == [k \in T |-> text[k].index]
  <1>1. IsFiniteSet(T)
    BY TextAssumption, FS_Subset DEF Targets
  <1>2. \A k, m \in T : text[k].index = text[m].index => k = m
    BY DEF Raises, IndicesRaise
  <1>3. f \in Bijection(T, I)
    <2>1. f \in [T -> I]
      OBVIOUS
    <2>2. \A k, m \in T : f[k] = f[m] => k = m
      BY <1>2
    <2>3. \A i \in I : \E k \in T : f[k] = i
      OBVIOUS
    <2> HIDE DEF T, I, f
    <2>4. f \in Injection(T, I)
      BY <2>1, <2>2 DEF Injection, IsInjective
    <2>5. f \in Surjection(T, I)
      BY <2>1, <2>3 DEF Surjection
    <2> QED
      BY <2>4, <2>5 DEF Bijection
  <1>4. Cardinality(I) = Cardinality(T)
    BY <1>1, <1>3, FS_Bijection DEF ExistsBijection
  <1> QED
    BY <1>4 DEF TakeProfits

LEMMA InitAccepted == Init => Accepted
  BY DEF Init, Accepted

LEMMA NextAccepted ==
    ASSUME IInv, Accepted, [Next]_vars
    PROVE  Accepted'
  <1>1. CASE UNCHANGED log
    BY <1>1 DEF Accepted, Parsed
  <1>2. CASE log' = <<>>
    BY <1>2 DEF Accepted
  <1>3. ASSUME NEW msg \in Messages, process(msg)
        PROVE  Accepted'
    <2>0. \A p : Verdict(msg, p) = "PARSED" => ~Raises(msg.text)
      BY DEF Verdict
    <2>1. PICK outcome, parser :
             /\ _out(msg, outcome, parser)
             /\ outcome = "PARSED" => ~Raises(msg.text)
      <3>1. CASE Handle(msg)
        BY <2>0, <3>1 DEF Handle
      <3>2. CASE \E o \in {"SOURCE_UNKNOWN", "SOURCE_DISABLED", "DUPLICATE"} :
                    Refuse(msg, o)
        BY <3>2 DEF Refuse
      <3> QED
        BY <1>3, <3>1, <3>2 DEF process
    <2> DEFINE e == [msg |-> msg, outcome |-> outcome, parser |-> parser]
    <2>2. e.outcome = "PARSED" => ~Raises(e.msg.text)
      BY <2>1
    <2>3. log' = Append(log, e) /\ log \in Seq(Entry)
      BY <2>1 DEF IInv, LogType, _out
    <2> HIDE DEF e
    <2>4. \A k \in DOMAIN log' :
             log'[k] = e \/ (k \in DOMAIN log /\ log'[k] = log[k])
      BY <2>3
    <2> QED
      BY <2>2, <2>4 DEF Accepted, Parsed
  <1> QED
    BY <1>1, <1>2, <1>3 DEF Next, vars, RegisterSource, SetEnabled,
                            RegisterParser, Clear

(* A signal has every take profit that its text gives a price for, and a   *)
(* leverage the exchange knows (parsers/generic_structured.py 78-150), for *)
(* any texts.                                                              *)
THEOREM TargetsCorrect == Spec => []SignalsKeepTargets
  <1>1. ASSUME IInv, Accepted, NEW k \in DOMAIN log, Parsed(k)
        PROVE  LET signal == parse(log[k].msg.text) IN
               /\ Cardinality(DOMAIN signal.take_profits) =
                     Cardinality(Targets(log[k].msg.text))
               /\ signal.leverage # None => signal.leverage \in 1 .. 125
    <2> DEFINE text == log[k].msg.text
    <2>0. log[k] \in Entry
      BY <1>1 DEF IInv, LogType
    <2>1. text \in Texts /\ ~Raises(text)
      BY <1>1, <2>0 DEF Entry, Messages, Accepted
    <2>2. FirstValue(text, "LEV") # None => FirstValue(text, "LEV") \in 1 .. 125
      BY <2>1 DEF Raises, LeverageRaises
    <2>3. /\ parse(text).take_profits = TakeProfits(text)
          /\ parse(text).leverage = FirstValue(text, "LEV")
      BY DEF parse
    <2> QED
      BY <2>1, <2>2, <2>3, EveryTarget
  <1>2. IInv /\ Accepted => SignalsKeepTargets
    BY <1>1 DEF SignalsKeepTargets
  <1>3. Spec => []Accepted
    BY InitAccepted, NextAccepted, Inductive, PTL DEF Spec
  <1> QED
    BY <1>2, <1>3, Inductive, PTL

-----------------------------------------------------------------------------
(* The order path, as far as it carries client ids.                        *)

JobRecord ==
    [coid : PlanIds, max : {MaxAttempts}, status : F!Q!Statuses,
     attempt : Int, owner : Workers \cup {NoOwner}, lease : Int \cup {NoLease}]

WorkerRecord ==
    [pc : {"idle", "claimed", "accepted", "unclear"}, job : Nat, left : Int]

FlowType ==
    /\ jobs \in Seq(JobRecord)
    /\ worker \in [Workers -> WorkerRecord]
    /\ \A w \in Workers : worker[w].pc # "idle" => worker[w].job \in DOMAIN jobs

(* A step that forgets, adds and renames no job.                           *)
JobsKept ==
    /\ jobs' \in Seq(JobRecord) /\ DOMAIN jobs' = DOMAIN jobs
    /\ \A j \in DOMAIN jobs : jobs'[j].coid = jobs[j].coid

(* One job is replaced by another of the same name.                        *)
Renewed(j, job) ==
    /\ jobs' = [jobs EXCEPT ![j] = job]
    /\ job \in JobRecord /\ job.coid = jobs[j].coid

LEMMA RenewedKept ==
    ASSUME FlowType, NEW j \in DOMAIN jobs, NEW job, Renewed(j, job)
    PROVE  JobsKept
  BY DEF FlowType, Renewed, JobsKept

LEMMA UpdateKeeps ==
    ASSUME NEW job \in JobRecord
    PROVE  /\ \A w \in Workers :
                 /\ F!Q!Granted(job, w, LeaseSeconds) \in JobRecord
                 /\ F!Q!Granted(job, w, LeaseSeconds).coid = job.coid
           /\ [job EXCEPT !.lease = LeaseSeconds] \in JobRecord
           /\ [job EXCEPT !.lease = LeaseSeconds].coid = job.coid
           /\ \A st \in F!Q!Statuses : /\ F!Q!Released(job, st) \in JobRecord
                                       /\ F!Q!Released(job, st).coid = job.coid
           /\ F!Q!AfterFail(job) \in F!Q!Statuses
           /\ F!Q!Aged(job) \in JobRecord /\ F!Q!Aged(job).coid = job.coid
  <1>1. ASSUME NEW w \in Workers
        PROVE  /\ F!Q!Granted(job, w, LeaseSeconds) \in JobRecord
               /\ F!Q!Granted(job, w, LeaseSeconds).coid = job.coid
    <2>1. F!Q!Bump(job.attempt) \in Int
      BY DEF F!Q!Bump, JobRecord
    <2>2. "CLAIMED" \in F!Q!Statuses /\ LeaseSeconds \in Int
      BY PathAssumption DEF F!Q!Statuses
    <2>3. \A n \in Int :
             LET new == [job EXCEPT !.status = "CLAIMED", !.owner = w,
                                    !.lease = LeaseSeconds, !.attempt = n]
             IN  new \in JobRecord /\ new.coid = job.coid
      BY <2>2 DEF JobRecord
    <2> QED
      BY <2>1, <2>3 DEF F!Q!Granted
  <1>2. /\ [job EXCEPT !.lease = LeaseSeconds] \in JobRecord
        /\ [job EXCEPT !.lease = LeaseSeconds].coid = job.coid
    BY PathAssumption DEF JobRecord
  <1>3. ASSUME NEW st \in F!Q!Statuses
        PROVE  /\ F!Q!Released(job, st) \in JobRecord
               /\ F!Q!Released(job, st).coid = job.coid
    BY DEF F!Q!Released, JobRecord
  <1>4. F!Q!AfterFail(job) \in F!Q!Statuses
    BY DEF F!Q!AfterFail, F!Q!Statuses
  <1>5. F!Q!Aged(job) \in JobRecord /\ F!Q!Aged(job).coid = job.coid
    BY DEF F!Q!Aged, JobRecord
  <1> QED
    BY <1>1, <1>2, <1>3, <1>4, <1>5

LEMMA BeginKeeps ==
    ASSUME FlowType, NEW w \in Workers, F!Begin(w)
    PROVE  JobsKept /\ FlowType'
  <1>1. PICK j \in DOMAIN jobs :
           /\ F!Q!Claim(j, w, LeaseSeconds)
           /\ F!Becomes(w, [pc |-> "claimed", job |-> j, left |-> LeaseSeconds])
    BY DEF F!Begin
  <1> DEFINE job == F!Q!Granted(jobs[j], w, LeaseSeconds)
             s == [pc |-> "claimed", job |-> j, left |-> LeaseSeconds]
  <1>2. jobs[j] \in JobRecord /\ j \in Nat
    BY DEF FlowType
  <1>3. Renewed(j, job)
    BY <1>1, <1>2, UpdateKeeps DEF F!Q!Claim, Renewed
  <1>4. s \in WorkerRecord /\ worker' = [worker EXCEPT ![w] = s]
    BY <1>1, <1>2, PathAssumption DEF WorkerRecord, F!Becomes
  <1>5. JobsKept
    BY <1>3, RenewedKept
  <1> QED
    BY <1>4, <1>5 DEF FlowType, JobsKept

(* A worker with a job that goes on with it or drops it.                   *)
LEMMA WorkerMoves ==
    ASSUME FlowType, JobsKept, NEW w \in Workers, NEW s \in WorkerRecord,
           worker' = [worker EXCEPT ![w] = s],
           s.pc # "idle" => s.job \in DOMAIN jobs
    PROVE  FlowType'
  BY DEF FlowType, JobsKept

LEMMA SameJobs == ASSUME FlowType, UNCHANGED jobs PROVE JobsKept
  BY DEF FlowType, JobsKept

LEMMA IdleWorker == F!Idle \in WorkerRecord /\ F!Idle.pc = "idle"
  BY DEF F!Idle, WorkerRecord

LEMMA GoesOn ==
    ASSUME FlowType, UNCHANGED jobs, NEW w \in Workers, ~F!At(w, {"idle"}),
           NEW pc \in {"claimed", "accepted", "unclear"}, F!GoTo(w, pc)
    PROVE  JobsKept /\ FlowType'
  <1> DEFINE s == [worker[w] EXCEPT !.pc = pc]
  <1>1. worker' = [worker EXCEPT ![w] = s]
    BY DEF F!GoTo
  <1>2. s \in WorkerRecord /\ s.job = worker[w].job /\ s.job \in DOMAIN jobs
    BY DEF FlowType, WorkerRecord, F!At
  <1> QED
    BY <1>1, <1>2, SameJobs, WorkerMoves

LEMMA ReportKeeps ==
    ASSUME FlowType, NEW w \in Workers, F!Finish(w) \/ F!GiveUp(w) \/ F!Escalate(w)
    PROVE  JobsKept /\ FlowType'
  <1>1. worker[w].pc # "idle" /\ F!Becomes(w, F!Idle)
    BY DEF F!Finish, F!GiveUp, F!Escalate, F!Report, F!At
  <1>2. F!Job(w) \in DOMAIN jobs /\ jobs[F!Job(w)] \in JobRecord
    BY <1>1 DEF FlowType, F!Job
  <1>3. \/ UNCHANGED jobs
        \/ F!Q!Complete(F!Job(w), w) \/ F!Q!Fail(F!Job(w), w)
        \/ F!Q!MarkManualReview(F!Job(w), w)
    BY DEF F!Finish, F!GiveUp, F!Escalate, F!Report, F!queueVars
  <1>4. ASSUME \/ F!Q!Complete(F!Job(w), w) \/ F!Q!Fail(F!Job(w), w)
               \/ F!Q!MarkManualReview(F!Job(w), w)
        PROVE  JobsKept
    <2>1. PICK st \in F!Q!Statuses :
             jobs' = [jobs EXCEPT ![F!Job(w)] = F!Q!Released(jobs[F!Job(w)], st)]
      <3>1. F!Q!AfterFail(jobs[F!Job(w)]) \in F!Q!Statuses
        BY <1>2, UpdateKeeps
      <3> QED
        BY <1>4, <3>1
           DEF F!Q!Complete, F!Q!Fail, F!Q!MarkManualReview, F!Q!Statuses
    <2>2. Renewed(F!Job(w), F!Q!Released(jobs[F!Job(w)], st))
      BY <1>2, <2>1, UpdateKeeps DEF Renewed
    <2> QED
      BY <1>2, <2>2, RenewedKept
  <1>5. JobsKept
    BY <1>3, <1>4, SameJobs
  <1> QED
    BY <1>1, <1>5, IdleWorker, WorkerMoves DEF F!Becomes

LEMMA BeatKeeps ==
    ASSUME FlowType, NEW w \in Workers, F!Beat(w)
    PROVE  JobsKept /\ FlowType'
  <1>1. worker[w].pc # "idle"
    BY DEF F!Beat, F!At
  <1>2. F!Job(w) \in DOMAIN jobs /\ jobs[F!Job(w)] \in JobRecord
    BY <1>1 DEF FlowType, F!Job
  <1>3. CASE F!Becomes(w, F!Idle) /\ UNCHANGED F!queueVars
    <2>1. JobsKept
      BY <1>3, SameJobs DEF F!queueVars
    <2> QED
      BY <1>3, <2>1, IdleWorker, WorkerMoves DEF F!Becomes
  <1>4. CASE /\ F!Q!Heartbeat(F!Job(w), w, LeaseSeconds)
             /\ worker' = [worker EXCEPT ![w].left = LeaseSeconds]
    <2> DEFINE s == [worker[w] EXCEPT !.left = LeaseSeconds]
               job == [jobs[F!Job(w)] EXCEPT !.lease = LeaseSeconds]
    <2>1. Renewed(F!Job(w), job)
      BY <1>2, <1>4, UpdateKeeps DEF F!Q!Heartbeat, Renewed
    <2>2. JobsKept
      BY <1>2, <2>1, RenewedKept
    <2>3. s \in WorkerRecord /\ s.job = F!Job(w)
      BY PathAssumption DEF FlowType, WorkerRecord, F!Job
    <2>4. worker' = [worker EXCEPT ![w] = s]
      BY <1>4
    <2> HIDE DEF s
    <2> QED
      BY <1>2, <2>2, <2>3, <2>4, WorkerMoves
  <1> QED
    BY <1>3, <1>4 DEF F!Beat

(* The sweep and the clock.                                                *)
LEMMA PassKeeps ==
    ASSUME FlowType, F!Recover \/ F!Tick
    PROVE  JobsKept /\ FlowType'
  <1>1. ASSUME NEW j \in DOMAIN jobs
        PROVE  /\ jobs'[j] \in JobRecord /\ jobs'[j].coid = jobs[j].coid
               /\ DOMAIN jobs' = DOMAIN jobs
    <2>1. jobs[j] \in JobRecord /\ "PENDING" \in F!Q!Statuses
      BY DEF FlowType, F!Q!Statuses
    <2>2. CASE F!Recover
      BY <2>1, <2>2, UpdateKeeps DEF F!Recover, F!Q!RecoverExpired
    <2>3. CASE F!Tick
      BY <2>1, <2>3, UpdateKeeps DEF F!Tick, F!Q!Tick
    <2> QED
      BY <2>2, <2>3
  <1>2. /\ Len(jobs) \in Nat /\ DOMAIN jobs = 1 .. Len(jobs)
        /\ jobs' = [j \in DOMAIN jobs |-> jobs'[j]]
    BY DEF FlowType, F!Recover, F!Q!RecoverExpired, F!Tick, F!Q!Tick
  <1>3. JobsKept
    <2>1. jobs' \in [1 .. Len(jobs) -> JobRecord]
      BY <1>1, <1>2
    <2>2. jobs' \in Seq(JobRecord) /\ DOMAIN jobs' = DOMAIN jobs
      BY <1>2, <2>1
    <2> QED
      BY <1>1, <2>2 DEF JobsKept
  <1>4. CASE F!Recover
    BY <1>3, <1>4 DEF F!Recover, FlowType, JobsKept
  <1>5. CASE F!Tick
    <2>1. ASSUME NEW w \in Workers
          PROVE  /\ worker'[w] \in WorkerRecord
                 /\ worker'[w].pc = worker[w].pc /\ worker'[w].job = worker[w].job
      <3>1. worker[w] \in WorkerRecord
        BY DEF FlowType
      <3>2. \/ worker'[w] = worker[w]
            \/ worker'[w] = [worker[w] EXCEPT !.left = worker[w].left - 1]
        BY <1>5 DEF F!Tick
      <3> QED
        BY <3>1, <3>2 DEF WorkerRecord
    <2>2. worker' = [w \in Workers |-> worker'[w]]
      BY <1>5 DEF F!Tick
    <2> QED
      BY <1>3, <2>1, <2>2 DEF FlowType, JobsKept
  <1> QED
    BY <1>3, <1>4, <1>5

-----------------------------------------------------------------------------
(* The exchange under this path: one order for a client id.                *)

Book ==
    /\ orders \in Seq(F!X!Order)
    /\ byClient \in [PlanIds -> Nat]
    /\ mark[F!Symbol] = 1
    /\ \A i \in DOMAIN orders : F!X!KnownClient(orders[i].client)
    /\ \A i, j \in DOMAIN orders : orders[i].client = orders[j].client => i = j

(* Every order there is now was there, or is c's.                          *)
Adds(c) ==
    \A i \in DOMAIN orders' :
       \/ orders'[i].client = c
       \/ i \in DOMAIN orders /\ orders'[i] = orders[i]

LEMMA ClientPlan ==
    ASSUME Book, NEW i \in DOMAIN orders
    PROVE  orders[i].client \in PlanIds
  <1>1. orders[i] \in F!X!Order
    BY DEF Book
  <1> QED
    BY <1>1 DEF F!X!Order

LEMMA PlaceBook ==
    ASSUME Book, NEW c \in PlanIds, F!Place(c)
    PROVE  Book' /\ Adds(c)
  <1>1. CASE F!X!KnownClient(c)
    BY <1>1 DEF F!Place, F!exchangeVars, Book, Adds, F!X!KnownClient
  <1>2. CASE ~F!X!KnownClient(c)
    <2> DEFINE o == F!X!NewOrder(c, F!Symbol, F!X!BUY, "MARKET", F!Quantity, FALSE)
    <2>1. /\ orders' = Append(orders, o) /\ byClient' = [byClient EXCEPT ![c] = F!X!NextId]
          /\ mark' = mark
      BY <1>2 DEF F!Place, F!X!PlaceOrder
    <2>2. o \in F!X!Order /\ o.client = c
      BY DEF F!X!NewOrder, F!X!Order,  F!X!FillsAtOnce, F!X!InitialStatus, Book,
             F!X!BUY, F!X!Sides, F!Quantity, F!Symbol
    <2>3. F!X!NextId \in Nat \ {0}
      BY DEF Book, F!X!NextId
    <2> HIDE DEF o
    <2>4. /\ orders' \in Seq(F!X!Order) /\ Len(orders) \in Nat
          /\ DOMAIN orders = 1 .. Len(orders) /\ DOMAIN orders' = 1 .. Len(orders) + 1
          /\ orders'[Len(orders) + 1] = o
          /\ \A i \in DOMAIN orders : orders'[i] = orders[i]
      BY <2>1, <2>2 DEF Book
    <2>5. /\ byClient' \in [PlanIds -> Nat] /\ byClient'[c] # 0
          /\ \A d \in PlanIds : byClient[d] # 0 => byClient'[d] # 0
      BY <2>1, <2>3 DEF Book
    <2>6. \A i \in DOMAIN orders : /\ orders[i].client \in PlanIds
                                   /\ byClient[orders[i].client] # 0
      BY ClientPlan DEF Book, F!X!KnownClient
    <2>7. \A i \in DOMAIN orders : orders[i].client # c
      BY <1>2, <2>6 DEF F!X!KnownClient
    <2>8. \A i \in DOMAIN orders' : i \in DOMAIN orders \/ i = Len(orders) + 1
      BY <2>4
    <2>9. \A i \in DOMAIN orders' : byClient'[orders'[i].client] # 0
      BY <2>2, <2>4, <2>5, <2>6, <2>8
    <2>10. \A i, j \in DOMAIN orders' : orders'[i].client = orders'[j].client => i = j
      BY <2>2, <2>4, <2>7, <2>8 DEF Book
    <2>11. Adds(c)
      BY <2>2, <2>4, <2>8 DEF Adds
    <2> QED
      BY <2>1, <2>4, <2>5, <2>9, <2>10, <2>11 DEF Book, F!X!KnownClient
  <1> QED
    BY <1>1, <1>2

LEMMA SameBook ==
    ASSUME Book, UNCHANGED F!exchangeVars
    PROVE  Book' /\ orders' = orders
  BY DEF F!exchangeVars, Book, F!X!KnownClient

(* What a worker does: no job is renamed, and no order comes but that of   *)
(* a job.                                                                  *)
LEMMA WorkKeeps ==
    ASSUME FlowType, Book, NEW w \in Workers, Work(w)
    PROVE  /\ JobsKept /\ FlowType' /\ Book'
           /\ orders' = orders \/ \E j \in DOMAIN jobs : Adds(jobs[j].coid)
  <1>1. ASSUME UNCHANGED F!exchangeVars
        PROVE  Book' /\ orders' = orders
    BY <1>1, SameBook
  <1>2. CASE F!Begin(w)
    BY <1>1, <1>2, BeginKeeps DEF F!Begin
  <1>3. CASE F!Execute(w) \/ F!ExecuteUnclear(w)
    <2>1. /\ ~F!At(w, {"idle"}) /\ UNCHANGED jobs
          /\ F!GoTo(w, "accepted") \/ F!GoTo(w, "unclear")
      BY <1>3 DEF F!Execute, F!ExecuteUnclear, F!At, F!queueVars
    <2>2. JobsKept /\ FlowType'
      BY <2>1, GoesOn
    <2>3. F!Job(w) \in DOMAIN jobs /\ F!Client(w) = jobs[F!Job(w)].coid
      BY <2>1 DEF FlowType, F!Job, F!Client, F!At
    <2>4. F!Client(w) \in PlanIds
      <3>1. jobs[F!Job(w)] \in JobRecord
        BY <2>3 DEF FlowType
      <3> QED
        BY <2>3, <3>1 DEF JobRecord
    <2>5. F!Place(F!Client(w)) \/ UNCHANGED F!exchangeVars
      BY <1>3 DEF F!Execute, F!ExecuteUnclear
    <2>6. CASE F!Place(F!Client(w))
      BY <2>2, <2>3, <2>4, <2>6, PlaceBook
    <2> QED
      BY <1>1, <2>2, <2>5, <2>6
  <1>4. CASE F!Ask(w)
    <2>1. /\ ~F!At(w, {"idle"}) /\ UNCHANGED jobs
          /\ F!GoTo(w, "accepted") \/ F!GoTo(w, "claimed")
      BY <1>4 DEF F!Ask, F!At, F!queueVars
    <2> QED
      BY <1>1, <1>4, <2>1, GoesOn DEF F!Ask
  <1>5. CASE F!Finish(w) \/ F!GiveUp(w) \/ F!Escalate(w)
    <2>1. UNCHANGED F!exchangeVars
      BY <1>5 DEF F!Finish, F!GiveUp, F!Escalate, F!Report
    <2> QED
      BY <1>1, <1>5, <2>1, ReportKeeps
  <1>6. CASE F!Beat(w)
    BY <1>1, <1>6, BeatKeeps DEF F!Beat
  <1>7. CASE F!Crash(w)
    <2>1. UNCHANGED jobs /\ UNCHANGED F!exchangeVars /\ F!Becomes(w, F!Idle)
      BY <1>7 DEF F!Crash, F!queueVars
    <2> QED
      BY <1>1, <2>1, SameJobs, IdleWorker, WorkerMoves DEF F!Becomes
  <1> QED
    BY <1>2, <1>3, <1>4, <1>5, <1>6, <1>7 DEF Work, F!Step

-----------------------------------------------------------------------------
(* The trades planned, and the client ids of theirs.                       *)

Key(n) == SeenKey(trades[n].msg)

Trade == [msg : Messages, attempt : 0 .. MaxAttempt]

PlansType ==
    /\ trades \in Seq(Trade)
    /\ Len(trades) <= MaxTrades
    /\ epochs \in Seq(Nat)
    /\ \A e \in DOMAIN epochs : epochs[e] <= Len(trades)

(* What the running process made a trade of, it remembers.                 *)
CurrentSeen == \A n \in Current : Key(n) \in _seen

(* Between two trades of a message there was a restart.                    *)
Separated ==
    \A n, m \in DOMAIN trades :
       n < m /\ Key(n) = Key(m)
       => \E e \in DOMAIN epochs : n <= epochs[e] /\ epochs[e] < m

(* The id is that of an attempt of a trade in ts.                          *)
PlannedIn(id, ts) == id[1] \in DOMAIN ts /\ id[2] \in 0 .. ts[id[1]].attempt

AllPlanned ==
    /\ \A j \in DOMAIN jobs : PlannedIn(jobs[j].coid, trades)
    /\ \A i \in DOMAIN orders : PlannedIn(orders[i].client, trades)

PlansInv == PlansType /\ CurrentSeen /\ Separated
PathInv == IInv /\ FlowType /\ Book /\ PlansInv /\ AllPlanned

LEMMA InitPathInv == PathInit => PathInv
  <1> SUFFICES ASSUME PathInit PROVE PathInv
    OBVIOUS
  <1>1. IInv
    BY InitIInv DEF PathInit
  <1>2. /\ jobs = <<>> /\ orders = <<>> /\ worker = [w \in Workers |-> F!Idle]
        /\ byClient = [c \in PlanIds |-> 0] /\ mark = [s \in {F!Symbol} |-> 1]
        /\ trades = <<>> /\ epochs = <<>>
    BY DEF PathInit, F!Init, F!Q!Init, F!X!Init
  <1>3. FlowType
    BY <1>2, IdleWorker DEF FlowType
  <1>4. Book
    BY <1>2 DEF Book
  <1>5. PlansInv
    BY <1>2, PlanAssumption DEF PlansInv, PlansType, CurrentSeen, Current, Separated
  <1>6. AllPlanned
    BY <1>2 DEF AllPlanned
  <1> QED
    BY <1>1, <1>3, <1>4, <1>5, <1>6 DEF PathInv

(* A message becomes a trade only if its id was not seen; then it is.      *)
LEMMA ProcessSees ==
    ASSUME LogType, NEW msg \in Messages, process(msg)
    PROVE  /\ _seen \subseteq _seen'
           /\ log'[Len(log')].outcome = "PARSED" =>
                 SeenKey(msg) \notin _seen /\ SeenKey(msg) \in _seen'
  <1>1. log \in Seq(Entry)
    BY DEF LogType
  <1>2. ASSUME NEW outcome, outcome # "PARSED", Refuse(msg, outcome)
        PROVE  _seen' = _seen /\ log'[Len(log')].outcome # "PARSED"
    BY <1>1, <1>2 DEF Refuse, _out
  <1>3. ASSUME ~is_duplicate(msg), Handle(msg)
        PROVE  SeenKey(msg) \notin _seen /\ _seen' = _seen \cup {SeenKey(msg)}
    BY <1>3 DEF is_duplicate, Handle, mark_seen
  <1> QED
    BY <1>2, <1>3 DEF process

(* Steps that leave trades and epochs as they are and forget no id.        *)
LEMMA SamePlans ==
    ASSUME PlansInv, UNCHANGED <<trades, epochs>>, _seen \subseteq _seen'
    PROVE  PlansInv'
  <1>1. PlansType' /\ Separated'
    BY DEF PlansInv, PlansType, Separated, Key, SeenKey
  <1>2. CurrentSeen'
    BY DEF PlansInv, CurrentSeen, Current, Key, SeenKey
  <1> QED
    BY <1>1, <1>2 DEF PlansInv

StillPlanned == \A id : PlannedIn(id, trades) => PlannedIn(id, trades')

LEMMA NewTrade ==
    ASSUME PlansInv, NEW msg \in Messages, Len(trades) < MaxTrades,
           trades' = Append(trades, [msg |-> msg, attempt |-> 0]),
           epochs' = epochs, _seen \subseteq _seen',
           SeenKey(msg) \notin _seen, SeenKey(msg) \in _seen'
    PROVE  PlansInv' /\ StillPlanned
  <1> DEFINE trade == [msg |-> msg, attempt |-> 0]
             new == Len(trades) + 1
  <1>1. trade \in Trade /\ trade.msg = msg
    BY PlanAssumption DEF Trade
  <1> HIDE DEF trade
  <1>2. trades' = Append(trades, trade)
    BY DEF trade
  <1>3. /\ Len(trades) \in Nat /\ Len(trades') = new /\ new \in Nat
        /\ DOMAIN trades = 1 .. Len(trades) /\ DOMAIN trades' = 1 .. new
        /\ trades' \in Seq(Trade)
        /\ trades'[new] = trade
        /\ \A n \in DOMAIN trades : trades'[n] = trades[n]
    BY <1>1, <1>2 DEF PlansInv, PlansType
  <1>4. \A e \in DOMAIN epochs : epochs[e] \in Nat /\ epochs[e] <= Len(trades)
    BY DEF PlansInv, PlansType
  <1>5. \A n \in DOMAIN trades' : n \in DOMAIN trades \/ n = new
    BY <1>3
  <1> HIDE DEF new
  <1>6. PlansType'
    BY <1>3, <1>4, PlanAssumption DEF PlansInv, PlansType, new
  <1>7. \A n \in DOMAIN trades : SeenKey(trades'[n].msg) = Key(n)
    BY <1>3 DEF Key
  <1>8. CurrentSeen'
    <2> SUFFICES ASSUME NEW n \in Current' PROVE SeenKey(trades'[n].msg) \in _seen'
      BY DEF CurrentSeen, Key, SeenKey
    <2>1. CASE n = new
      BY <2>1, <1>1, <1>3
    <2>2. CASE n \in DOMAIN trades
      <3>1. n \in Current
        BY <2>2 DEF Current
      <3> QED
        BY <2>2, <3>1, <1>7 DEF PlansInv, CurrentSeen
    <2> QED
      BY <2>1, <2>2, <1>5 DEF Current
  <1>9. Separated'
    <2> SUFFICES ASSUME NEW n \in DOMAIN trades', NEW m \in DOMAIN trades', n < m,
                        SeenKey(trades'[n].msg) = SeenKey(trades'[m].msg)
                 PROVE  \E e \in DOMAIN epochs : n <= epochs[e] /\ epochs[e] < m
      BY DEF Separated, Key, SeenKey
    <2>1. n \in DOMAIN trades
      BY <1>3, <1>5 DEF new
    <2>2. CASE m \in DOMAIN trades
      BY <2>1, <2>2, <1>7 DEF PlansInv, Separated
    <2>3. CASE m = new
      <3>1. Key(n) \notin _seen
        BY <2>1, <2>3, <1>1, <1>3, <1>7
      <3>2. n \notin Current
        BY <3>1 DEF PlansInv, CurrentSeen
      <3>3. epochs # <<>> /\ ~(n > epochs[Len(epochs)])
        BY <2>1, <3>2 DEF Current
      <3>4. Len(epochs) \in DOMAIN epochs
        BY <3>3 DEF PlansInv, PlansType
      <3> QED
        BY <3>3, <3>4, <2>1, <2>3, <1>3, <1>4 DEF new
    <2> QED
      BY <2>2, <2>3, <1>5
  <1>10. StillPlanned
    BY <1>3, <1>5 DEF StillPlanned, PlannedIn
  <1> QED
    BY <1>6, <1>8, <1>9, <1>10 DEF PlansInv

(* PlanAgain: a later attempt of a trade, on the same message.             *)
LEMMA NextAttempt ==
    ASSUME PlansInv, NEW n \in DOMAIN trades, trades[n].attempt < MaxAttempt,
           trades' = [trades EXCEPT ![n].attempt = @ + 1],
           epochs' = epochs, _seen' = _seen
    PROVE  PlansInv' /\ StillPlanned
  <1> DEFINE trade == [trades[n] EXCEPT !.attempt = @ + 1]
  <1>1. /\ trades \in Seq(Trade)
        /\ trades[n] \in Trade
    BY DEF PlansInv, PlansType
  <1>2. /\ trade \in Trade
        /\ trade.msg = trades[n].msg /\ trade.attempt >= trades[n].attempt
    BY <1>1, PlanAssumption DEF Trade
  <1>3. trades' = [trades EXCEPT ![n] = trade]
    OBVIOUS
  <1> HIDE DEF trade
  <1>4. /\ trades' \in Seq(Trade)
        /\ DOMAIN trades' = DOMAIN trades /\ Len(trades') = Len(trades)
        /\ \A m \in DOMAIN trades : trades'[m].msg = trades[m].msg
    BY <1>1, <1>2, <1>3
  <1>5. \A m \in DOMAIN trades : SeenKey(trades'[m].msg) = Key(m)
    BY <1>4 DEF Key
  <1>6. PlansType'
    BY <1>4 DEF PlansInv, PlansType
  <1>7. CurrentSeen'
    <2> SUFFICES ASSUME NEW m \in Current' PROVE SeenKey(trades'[m].msg) \in _seen
      BY DEF CurrentSeen, Key, SeenKey
    <2>1. m \in Current /\ m \in DOMAIN trades
      BY <1>4 DEF Current
    <2> QED
      BY <2>1, <1>5 DEF PlansInv, CurrentSeen
  <1>8. Separated'
    <2> SUFFICES ASSUME NEW k \in DOMAIN trades', NEW m \in DOMAIN trades', k < m,
                        SeenKey(trades'[k].msg) = SeenKey(trades'[m].msg)
                 PROVE  \E e \in DOMAIN epochs : k <= epochs[e] /\ epochs[e] < m
      BY DEF Separated, Key, SeenKey
    <2> QED
      BY <1>4, <1>5 DEF PlansInv, Separated
  <1>9. \A m \in DOMAIN trades : /\ trades[m].attempt \in Nat /\ trades'[m].attempt \in Nat
                                 /\ trades[m].attempt <= trades'[m].attempt
    <2>1. \A m \in DOMAIN trades :
             trades[m] \in Trade
      BY <1>1
    <2> QED
      BY <2>1, <1>1, <1>2, <1>3, PlanAssumption DEF Trade
  <1>10. StillPlanned
    BY <1>4, <1>9 DEF StillPlanned, PlannedIn
  <1> QED
    BY <1>6, <1>7, <1>8, <1>10 DEF PlansInv

(* A restart ends the epoch of every trade there is.                       *)
LEMMA NewEpoch ==
    ASSUME PlansInv, trades' = trades, epochs' = Append(epochs, Len(trades))
    PROVE  PlansInv'
  <1>1. /\ Len(epochs) \in Nat /\ epochs' \in Seq(Nat)
        /\ Len(epochs') = Len(epochs) + 1 /\ epochs'[Len(epochs) + 1] = Len(trades)
        /\ DOMAIN epochs = 1 .. Len(epochs)
        /\ DOMAIN epochs' = 1 .. Len(epochs) + 1
        /\ \A e \in DOMAIN epochs : epochs'[e] = epochs[e]
        /\ Len(trades) \in Nat /\ DOMAIN trades = 1 .. Len(trades)
    BY DEF PlansInv, PlansType
  <1>2. \A e \in DOMAIN epochs' : e \in DOMAIN epochs \/ e = Len(epochs) + 1
    BY <1>1
  <1>3. PlansType'
    BY <1>1, <1>2 DEF PlansInv, PlansType
  <1>4. Current' = {}
    BY <1>1 DEF Current
  <1>5. Separated'
    BY <1>1 DEF PlansInv, Separated, Key, SeenKey
  <1> QED
    BY <1>3, <1>4, <1>5 DEF PlansInv, CurrentSeen

-----------------------------------------------------------------------------
(* Client ids come from plans.                                             *)

LEMMA KeepPlanned ==
    ASSUME AllPlanned, StillPlanned, JobsKept,
           orders' = orders \/ \E j \in DOMAIN jobs : Adds(jobs[j].coid)
    PROVE  AllPlanned'
  <1>1. \A j \in DOMAIN jobs' : PlannedIn(jobs'[j].coid, trades')
    BY DEF AllPlanned, StillPlanned, JobsKept
  <1>2. \A i \in DOMAIN orders' : PlannedIn(orders'[i].client, trades')
    BY DEF AllPlanned, StillPlanned, Adds
  <1> QED
    BY <1>1, <1>2 DEF AllPlanned

(* A job submitted for a trade of this process.                            *)
LEMMA SubmitPlanned ==
    ASSUME FlowType, Book, PlansInv, AllPlanned, NEW n \in DOMAIN trades, Submit(n)
    PROVE  FlowType' /\ Book' /\ AllPlanned'
  <1> DEFINE c == client_order_id(n)
             job == F!Q!NewJob(c, MaxAttempts)
  <1>1. /\ n \in 1 .. MaxTrades /\ trades[n].attempt \in 0 .. MaxAttempt
    <2>1. /\ trades[n] \in Trade
          /\ Len(trades) \in Nat /\ n \in 1 .. Len(trades) /\ Len(trades) <= MaxTrades
      BY DEF PlansInv, PlansType
    <2> QED
      BY <2>1, PlanAssumption DEF Trade
  <1>2. c \in PlanIds /\ c[1] = n /\ c[2] = trades[n].attempt
    BY <1>1 DEF client_order_id, _deterministic_client_order_id, PlanIds
  <1>3. PlannedIn(c, trades)
    BY <1>1, <1>2 DEF PlannedIn
  <1> HIDE DEF c
  <1>4. job \in JobRecord /\ job.coid = c
    BY <1>2 DEF F!Q!NewJob, JobRecord, F!Q!Statuses
  <1>5. /\ jobs' = Append(jobs, job) /\ worker' = worker /\ trades' = trades
        /\ UNCHANGED F!exchangeVars
    BY DEF Submit, F!Submit, F!Q!Enqueue, c
  <1> HIDE DEF job
  <1>6. /\ jobs' \in Seq(JobRecord) /\ Len(jobs) \in Nat
        /\ DOMAIN jobs = 1 .. Len(jobs) /\ DOMAIN jobs' = 1 .. Len(jobs) + 1
        /\ jobs'[Len(jobs) + 1] = job
        /\ \A j \in DOMAIN jobs : jobs'[j] = jobs[j]
    BY <1>4, <1>5 DEF FlowType
  <1>7. \A j \in DOMAIN jobs' : j \in DOMAIN jobs \/ j = Len(jobs) + 1
    BY <1>6
  <1>8. FlowType'
    BY <1>5, <1>6 DEF FlowType
  <1>9. Book' /\ orders' = orders
    BY <1>5, SameBook
  <1>10. AllPlanned'
    BY <1>3, <1>4, <1>5, <1>6, <1>7, <1>9 DEF AllPlanned
  <1> QED
    BY <1>8, <1>9, <1>10

(* What the ingestion side does, the order path does not notice.           *)
LEMMA SameFlow ==
    ASSUME FlowType, Book, AllPlanned, UNCHANGED flowVars, StillPlanned
    PROVE  FlowType' /\ Book' /\ AllPlanned'
  <1>1. jobs' = jobs /\ worker' = worker /\ UNCHANGED F!exchangeVars
    BY DEF flowVars, exchangeVars, F!exchangeVars
  <1>2. Book' /\ orders' = orders
    BY <1>1, SameBook
  <1>3. AllPlanned'
    BY <1>1, <1>2, SameJobs, KeepPlanned
  <1> QED
    BY <1>1, <1>2, <1>3 DEF FlowType

LEMMA NextPathInv == PathInv /\ [PathNext]_pathVars => PathInv'
  <1> SUFFICES ASSUME PathInv, [PathNext]_pathVars PROVE PathInv'
    OBVIOUS
  <1>1. /\ IInv /\ LogType /\ FlowType /\ Book /\ PlansInv /\ AllPlanned
        /\ StillPlanned \/ trades' # trades
    BY DEF PathInv, IInv, StillPlanned
  <1>2. CASE Register
    <2>1. [Next]_vars
      BY <1>2, ConfigAssumption DEF Register, Next
    <2>2. UNCHANGED <<trades, epochs, _seen>> /\ UNCHANGED flowVars
      BY <1>2 DEF Register, RegisterParser, RegisterSource
    <2> QED
      BY <1>1, <2>1, <2>2, NextIInv, SamePlans, SameFlow DEF PathInv
  <1>3. ASSUME NEW msg \in Messages, Deliver(msg)
        PROVE  PathInv'
    <2>1. [Next]_vars
      BY <1>3 DEF Deliver, Next
    <2>2. /\ _seen \subseteq _seen'
          /\ log'[Len(log')].outcome = "PARSED" =>
                SeenKey(msg) \notin _seen /\ SeenKey(msg) \in _seen'
      BY <1>1, <1>3, ProcessSees DEF Deliver
    <2>3. /\ epochs' = epochs /\ UNCHANGED flowVars /\ Len(trades) < MaxTrades
          /\ trades' = IF log'[Len(log')].outcome = "PARSED"
                       THEN Append(trades, [msg |-> msg, attempt |-> 0])
                       ELSE trades
      BY <1>3 DEF Deliver
    <2>4. PlansInv' /\ StillPlanned
      <3>1. CASE log'[Len(log')].outcome = "PARSED"
        BY <1>1, <2>2, <2>3, <3>1, NewTrade
      <3>2. CASE log'[Len(log')].outcome # "PARSED"
        BY <1>1, <2>2, <2>3, <3>2, SamePlans
      <3> QED
        BY <3>1, <3>2
    <2> QED
      BY <1>1, <2>1, <2>3, <2>4, NextIInv, SameFlow DEF PathInv
  <1>4. ASSUME UNCHANGED vars PROVE IInv' /\ _seen' = _seen
    BY <1>1, <1>4, NextIInv DEF vars
  <1>5. ASSUME NEW n \in Current, Submit(n)
        PROVE  PathInv'
    <2>1. n \in DOMAIN trades
      BY DEF Current
    <2>2. UNCHANGED vars /\ UNCHANGED <<trades, epochs>>
      BY <1>5 DEF Submit
    <2> QED
      BY <1>1, <1>4, <1>5, <2>1, <2>2, SubmitPlanned, SamePlans DEF PathInv
  <1>6. ASSUME NEW n \in Current, PlanAgain(n)
        PROVE  PathInv'
    <2>1. /\ n \in DOMAIN trades /\ trades[n].attempt < MaxAttempt
          /\ trades' = [trades EXCEPT ![n].attempt = @ + 1]
          /\ UNCHANGED vars /\ UNCHANGED flowVars /\ epochs' = epochs
      BY <1>6 DEF Current, PlanAgain
    <2>2. PlansInv' /\ StillPlanned
      BY <1>1, <1>4, <2>1, NextAttempt
    <2> QED
      BY <1>1, <1>4, <2>1, <2>2, SameFlow DEF PathInv
  <1>7. ASSUME NEW w \in Workers, Work(w)
        PROVE  PathInv'
    <2>1. UNCHANGED vars /\ UNCHANGED <<trades, epochs>>
      BY <1>7 DEF Work
    <2>2. AllPlanned' /\ FlowType' /\ Book'
      BY <1>1, <1>7, <2>1, WorkKeeps, KeepPlanned
    <2> QED
      BY <1>1, <1>4, <2>1, <2>2, SamePlans DEF PathInv
  <1>8. CASE Restart
    <2>1. [Next]_vars
      BY <1>8 DEF Restart, Next
    <2>2. /\ jobs' = <<>> /\ worker' = [w \in Workers |-> F!Idle]
          /\ epochs' = Append(epochs, Len(trades)) /\ trades' = trades
          /\ UNCHANGED F!exchangeVars
      BY <1>8 DEF Restart, exchangeVars, F!exchangeVars
    <2>3. PlansInv'
      BY <1>1, <2>2, NewEpoch
    <2>4. Book' /\ orders' = orders
      BY <1>1, <2>2, SameBook
    <2>5. FlowType'
      BY <2>2, IdleWorker DEF FlowType
    <2>6. AllPlanned'
      BY <1>1, <2>2, <2>4 DEF AllPlanned
    <2> QED
      BY <1>1, <2>1, <2>3, <2>4, <2>5, <2>6, NextIInv DEF PathInv
  <1>9. CASE Pass
    <2>1. /\ UNCHANGED vars /\ UNCHANGED <<trades, epochs>>
          /\ F!Recover \/ F!Tick
      BY <1>9 DEF Pass, F!Tick, F!Recover
    <2>2. JobsKept /\ FlowType'
      BY <1>1, <2>1, PassKeeps
    <2>3. Book' /\ orders' = orders
      BY <1>1, <1>9, SameBook DEF Pass, F!Tick, F!Recover
    <2>4. AllPlanned'
      BY <1>1, <2>1, <2>2, <2>3, KeepPlanned
    <2> QED
      BY <1>1, <1>4, <2>1, <2>2, <2>3, <2>4, SamePlans DEF PathInv
  <1>10. CASE UNCHANGED pathVars
    <2>1. UNCHANGED vars /\ UNCHANGED flowVars /\ UNCHANGED <<trades, epochs>>
      BY <1>10 DEF pathVars
    <2> QED
      BY <1>1, <1>4, <2>1, SamePlans, SameFlow DEF PathInv
  <1> QED
    BY <1>2, <1>3, <1>5, <1>6, <1>7, <1>8, <1>9, <1>10 DEF PathNext

(* What ingestion remembers, the trades planned, the jobs and the orders   *)
(* correspond in every reachable state.                                    *)
THEOREM PathInductive == PathSpec => []PathInv
  BY InitPathInv, NextPathInv, PTL DEF PathSpec

(* The path implements Ingestion: whatever producers, workers, restarts    *)
(* and plans do, registries, dedup store and pipeline take the steps that  *)
(* they take alone (ingestion/pipeline.py 55-140), so that all that holds  *)
(* of them alone, HandledOnce among it, holds of them on the path.         *)
THEOREM IngestionImplemented == PathSpec => Spec
  <1>1. PathInit => Init
    BY DEF PathInit
  <1>2. [PathNext]_pathVars => [Next]_vars
    <2> SUFFICES ASSUME [PathNext]_pathVars PROVE [Next]_vars
      OBVIOUS
    <2>1. CASE Register
      BY <2>1, ConfigAssumption DEF Register, Next
    <2>2. ASSUME NEW msg \in Messages, Deliver(msg) PROVE [Next]_vars
      BY <2>2 DEF Deliver, Next
    <2>3. CASE Restart
      BY <2>3 DEF Restart, Next
    <2>4. ASSUME NEW n, Submit(n) \/ PlanAgain(n) PROVE UNCHANGED vars
      BY <2>4 DEF Submit, PlanAgain
    <2>5. ASSUME NEW w, Work(w) PROVE UNCHANGED vars
      BY <2>5 DEF Work
    <2>6. CASE Pass
      BY <2>6 DEF Pass
    <2>7. CASE UNCHANGED pathVars
      BY <2>7 DEF pathVars
    <2> QED
      BY <2>1, <2>2, <2>3, <2>4, <2>5, <2>6, <2>7 DEF PathNext
  <1> QED
    BY <1>1, <1>2, PTL DEF PathSpec, Spec

-----------------------------------------------------------------------------
(* Counting: a trade for each process, a fill for each attempt of a trade. *)

(* The restarts before trade n.                                            *)
Before(n) == {e \in DOMAIN epochs : epochs[e] < n}

LEMMA EpochsFinite ==
    ASSUME PlansInv
    PROVE  /\ Len(epochs) \in Nat /\ IsFiniteSet(DOMAIN epochs)
           /\ Cardinality(DOMAIN epochs) = Len(epochs)
           /\ \A n : /\ IsFiniteSet(Before(n))
                     /\ Cardinality(Before(n)) \in 0 .. Len(epochs)
  <1>1. Len(epochs) \in Nat /\ DOMAIN epochs = 1 .. Len(epochs)
    BY DEF PlansInv, PlansType
  <1>2. IsFiniteSet(DOMAIN epochs) /\ Cardinality(DOMAIN epochs) = Len(epochs)
    <2>1. /\ IsFiniteSet(1 .. Len(epochs))
          /\ Cardinality(1 .. Len(epochs))
                = IF 1 > Len(epochs) THEN 0 ELSE Len(epochs) - 1 + 1
      BY <1>1, FS_Interval
    <2> QED
      BY <1>1, <2>1
  <1>3. ASSUME NEW n
        PROVE  IsFiniteSet(Before(n)) /\ Cardinality(Before(n)) \in 0 .. Len(epochs)
    <2>1. Before(n) \in SUBSET (DOMAIN epochs)
      BY DEF Before
    <2>2. IsFiniteSet(Before(n)) /\ Cardinality(Before(n)) <= Cardinality(DOMAIN epochs)
      BY <1>2, <2>1, FS_Subset
    <2>3. Cardinality(Before(n)) \in Nat
      BY <2>2, FS_CardinalityType
    <2> QED
      BY <1>1, <1>2, <2>2, <2>3
  <1> QED
    BY <1>1, <1>2, <1>3

(* Trades of one message are told apart by the restarts before them.       *)
LEMMA RestartsBetween ==
    ASSUME PlansInv, NEW n \in DOMAIN trades, NEW m \in DOMAIN trades,
           n < m, Key(n) = Key(m)
    PROVE  Cardinality(Before(n)) # Cardinality(Before(m))
  <1>1. PICK e \in DOMAIN epochs : n <= epochs[e] /\ epochs[e] < m
    BY DEF PlansInv, Separated
  <1>2. n \in Nat /\ m \in Nat /\ \A d \in DOMAIN epochs : epochs[d] \in Nat
    BY DEF PlansInv, PlansType
  <1>3. e \in Before(m) /\ e \notin Before(n)
    BY <1>1, <1>2 DEF Before
  <1>4. Before(n) \in SUBSET Before(m)
    BY <1>2 DEF Before
  <1>5. IsFiniteSet(Before(m))
    BY EpochsFinite
  <1>6. Before(n) # Before(m)
    BY <1>3
  <1> QED
    BY <1>4, <1>5, <1>6, FS_Subset

LEMMA TradesBounded ==
    ASSUME PlansInv, NEW key
    PROVE  /\ IsFiniteSet(TradesOf(key))
           /\ Cardinality(TradesOf(key)) <= 1 + Len(epochs)
  <1> DEFINE f == [n \in TradesOf(key) |-> Cardinality(Before(n))]
  <1>1. \A n \in TradesOf(key) : f[n] \in 0 .. Len(epochs)
    BY EpochsFinite
  <1>2. ASSUME NEW n \in TradesOf(key), NEW m \in TradesOf(key), f[n] = f[m]
        PROVE  n = m
    <2>1. n \in DOMAIN trades /\ m \in DOMAIN trades /\ Key(n) = Key(m)
      BY DEF TradesOf, Key
    <2>2. n \in Nat /\ m \in Nat
      BY <2>1 DEF PlansInv, PlansType
    <2>3. Cardinality(Before(n)) = Cardinality(Before(m))
      BY <1>2
    <2>4. ~(n < m) /\ ~(m < n)
      BY <2>1, <2>3, RestartsBetween
    <2> QED
      BY <2>2, <2>4
  <1>3. Len(epochs) \in Nat
    BY EpochsFinite
  <1>4. IsFiniteSet(0 .. Len(epochs)) /\ Cardinality(0 .. Len(epochs)) = Len(epochs) + 1
    BY <1>3, FS_Interval
  <1> HIDE DEF f
  <1>5. /\ IsFiniteSet(TradesOf(key))
        /\ Cardinality(TradesOf(key)) <= Cardinality(0 .. Len(epochs))
    BY <1>1, <1>2, <1>4, OneToOne
  <1> QED
    BY <1>3, <1>4, <1>5

(* The fills of a trade are told apart by their attempts.                  *)
LEMMA FillsOfTrade ==
    ASSUME PathInv, NEW n \in DOMAIN trades,
           NEW S \in SUBSET {i \in DOMAIN orders : orders[i].client[1] = n}
    PROVE  /\ IsFiniteSet(S) /\ trades[n].attempt \in Nat
           /\ Cardinality(S) <= trades[n].attempt + 1
  <1> DEFINE a == trades[n].attempt
             f == [i \in S |-> orders[i].client[2]]
  <1>1. a \in Nat
    <2>1. trades[n] \in Trade
      BY DEF PathInv, PlansInv, PlansType
    <2> QED
      BY <2>1, PlanAssumption DEF Trade
  <1>2. ASSUME NEW i \in S
        PROVE  /\ i \in DOMAIN orders /\ f[i] \in 0 .. a
               /\ orders[i].client = <<n, f[i]>>
    <2>1. i \in DOMAIN orders /\ orders[i].client[1] = n
      OBVIOUS
    <2>2. orders[i].client \in PlanIds
      BY <2>1, ClientPlan DEF PathInv
    <2>3. PlannedIn(orders[i].client, trades)
      BY <2>1 DEF PathInv, AllPlanned
    <2> QED
      BY <2>1, <2>2, <2>3 DEF PlanIds, PlannedIn
  <1> HIDE DEF a, f
  <1>3. \A i, j \in S : f[i] = f[j] => i = j
    BY <1>2 DEF PathInv, Book
  <1>4. IsFiniteSet(0 .. a) /\ Cardinality(0 .. a) = a + 1
    BY <1>1, FS_Interval
  <1>5. IsFiniteSet(S) /\ Cardinality(S) <= Cardinality(0 .. a)
    BY <1>2, <1>3, <1>4, OneToOne
  <1> QED
    BY <1>1, <1>4, <1>5 DEF a

LEMMA FillsCounted ==
    ASSUME PathInv, NEW key
    PROVE  Cardinality(Fills(key)) <= 1 + Len(epochs) + PlannedAgain(key)
  <1> DEFINE N == TradesOf(key)
             of == [n \in N |-> {i \in Fills(key) : orders[i].client[1] = n}]
             c == [n \in N |-> trades[n].attempt + 1]
             one == [n \in N |-> 1]
  <1>1. IsFiniteSet(N) /\ Cardinality(N) <= 1 + Len(epochs) /\ Len(epochs) \in Nat
    BY TradesBounded, EpochsFinite DEF PathInv
  <1>2. ASSUME NEW n \in N
        PROVE  /\ IsFiniteSet(of[n]) /\ c[n] \in Nat /\ Cardinality(of[n]) <= c[n]
               /\ Attempts[n] \in Int /\ one[n] \in Int
               /\ c[n] = 1 * Attempts[n] + 1 * one[n]
    <2>1. n \in DOMAIN trades
      BY DEF TradesOf
    <2>2. of[n] \in SUBSET {i \in DOMAIN orders : orders[i].client[1] = n}
      BY DEF Fills
    <2>3. /\ IsFiniteSet(of[n]) /\ trades[n].attempt \in Nat
          /\ Cardinality(of[n]) <= trades[n].attempt + 1
      BY <2>1, <2>2, FillsOfTrade
    <2>4. c[n] = trades[n].attempt + 1 /\ Attempts[n] = trades[n].attempt /\ one[n] = 1
      BY <2>1 DEF Attempts
    <2> HIDE DEF of, c, one
    <2> QED
      BY <2>3, <2>4
  <1>3. Fills(key) = UNION {of[n] : n \in N}
    <2>1. ASSUME NEW i \in Fills(key)
          PROVE  orders[i].client[1] \in N
      BY DEF PathInv, AllPlanned, PlannedIn, Fills, TradesOf
    <2>2. \A i \in Fills(key) : i \in of[orders[i].client[1]]
      BY <2>1
    <2> QED
      BY <2>1, <2>2
  <1>4. \A n \in N : one[n] = 1
    OBVIOUS
  <1> HIDE DEF N, of, c, one
  <1>5. /\ IsFiniteSet(UNION {of[n] : n \in N})
        /\ Cardinality(UNION {of[n] : n \in N}) <= SumFunctionOnSet(c, N)
    BY <1>1, <1>2, CountUnion
  <1>6. /\ IsFiniteSet(Fills(key))
        /\ Cardinality(Fills(key)) <= SumFunctionOnSet(c, N)
    BY <1>3, <1>5
  <1>7. SumFunctionOnSet(c, N)
           = 1 * SumFunctionOnSet(Attempts, N) + 1 * SumFunctionOnSet(one, N)
    <2>1. 1 \in Int
      OBVIOUS
    <2> QED
      BY <2>1, <1>1, <1>2, SumLinear
  <1>8. SumFunctionOnSet(one, N) = 1 * Cardinality(N)
    <2>1. 1 \in Int
      OBVIOUS
    <2> QED
      BY <2>1, <1>1, <1>4, SumConstant
  <1>9. SumFunctionOnSet(Attempts, N) \in Int
    BY <1>1, <1>2, SumType
  <1>10. Cardinality(Fills(key)) \in Nat /\ Cardinality(N) \in Nat
    BY <1>1, <1>6, FS_CardinalityType
  <1>11. PlannedAgain(key) = SumFunctionOnSet(Attempts, N)
    BY DEF PlannedAgain, N
  <1> QED
    BY <1>1, <1>6, <1>7, <1>8, <1>9, <1>10, <1>11

(* From the message to the position: however often a message is delivered, *)
(* and whatever is lost, retried, taken over, crashes or restarts on the   *)
(* way, it is filled at most once for each life of the process and each    *)
(* attempt planned (ingestion/dedup.py 33-52, entry/planner.py 33-37,      *)
(* queue/memory.py 45-49, mock.py 133-135), for any number of messages,    *)
(* trades, attempts, workers and faults.                                   *)
THEOREM FilledOnceCorrect == PathSpec => []FilledOncePerProcess
  <1>1. PathInv => FilledOncePerProcess
    BY FillsCounted DEF FilledOncePerProcess
  <1> QED
    BY <1>1, PathInductive, PTL
=============================================================================
