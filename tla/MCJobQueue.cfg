\* Two jobs (every property is about one or two jobs), two workers, a retry limit that
\* the first failure reaches and one it does not, a lease that the next second ends.
CONSTANTS
    Owners = {w1, w2}
    ClientIds = {c1, c2}
    NoId = NoId
    NoOwner = NoOwner
    NoLease = NoLease
    MaxAttempts = {1, 2}
    LeaseTimes = {0, 1}
    MaxJobs = 2
    CountCap = 3
SPECIFICATION Spec
SYMMETRY Symmetry
INVARIANTS TypeOK HeldIffClaimed ClientIdUnique RetryBudget
PROPERTIES SettledForever HandoverCounts ImplementsContract
CHECK_DEADLOCK FALSE
