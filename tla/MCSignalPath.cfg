\* One source, two message ids, one text, one worker, two faults, one attempt more.
CONSTANTS
    None = None
    Malformed = Malformed
    NoSource = NoSource
    NoId = NoId
    NoOwner = NoOwner
    NoLease = NoLease
    NoPosition = NoPosition
    generic = generic
    v1 = v1
    Sources = {s1}
    MessageIds = {m1, m2}
    ParserIds = {generic}
    Versions = {v1}
    Texts <- TextValues
    RawHashes = {}
    Config <- ConfigValue
    Workers = {w1}
    MaxAttempts = 1
    LeaseSeconds = 1
    CountCap = 2
    MaxFaults = 2
    MaxMessages = 2
    MaxTrades = 2
    MaxAttempt = 1
SPECIFICATION PathSpec
SYMMETRY Symmetry
INVARIANTS FilledOncePerProcess
CHECK_DEADLOCK FALSE
