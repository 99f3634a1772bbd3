\* Two sources, two message ids, four texts, each with its own hash or a supplied one, a parser in two versions, two deliveries.
CONSTANTS
    None = None
    Malformed = Malformed
    NoSource = NoSource
    ParserIds = {generic}
    Sources = {s1, s2}
    MessageIds = {m1, m2}
    Versions = {v1, v2}
    Texts <- ManyTexts
    RawHashes <- SuppliedHashes
    MaxMessages = 2
SPECIFICATION Spec
SYMMETRY Symmetry
INVARIANTS TypeOK HandledOnce NoSecondSignal DuplicateHasOriginal SignalsKeepTargets
PROPERTIES BoundVersionReads
