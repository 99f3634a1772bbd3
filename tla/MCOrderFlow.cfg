\* Two trades, two workers that may be slow, two faults of any kind.
CONSTANTS
    Workers = {w1, w2}
    ClientIds = {c1, c2}
    NoId = NoId
    NoOwner = NoOwner
    NoLease = NoLease
    NoPosition = NoPosition
    MaxAttempts = 2
    LeaseSeconds = 1
    CountCap = 2
    MaxFaults = 2
    Prompt = FALSE
SPECIFICATION Spec
SYMMETRY Symmetry
INVARIANTS LeaseIsTrusted CompletedMeansFilled OneFillPerTrade
CHECK_DEADLOCK FALSE
