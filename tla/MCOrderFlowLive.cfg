\* Two trades and two workers that renew in time, one fault: everything settles.
CONSTANTS
    Workers = {w1, w2}
    ClientIds = {c1, c2}
    NoId = NoId
    NoOwner = NoOwner
    NoLease = NoLease
    NoPosition = NoPosition
    MaxAttempts = 2
    LeaseSeconds = 1
    CountCap = 2
    MaxFaults = 1
    Prompt = TRUE
SPECIFICATION FairSpec
PROPERTIES EveryTradeSettles
CHECK_DEADLOCK FALSE
