\* Two trades of one symbol under four plans, one lost answer.
CONSTANTS
    None = None
    NoPosition = NoPosition
    Unguarded = Unguarded
    Gone = Gone
    Trades = {t1, t2}
    Plans <- PlanValues
    EntryPrice = 5
    MaxFaults = 1
    MaxOrders = 11
SPECIFICATION Spec
SYMMETRY Symmetry
INVARIANTS RecordedStopIsLive TargetsLockIn OrphansAreRetries StatusTellsPosition
PROPERTIES ImplementsContract
CHECK_DEADLOCK FALSE
