\* Three callers of two names, two jobs at a time, two launches, a lease of one second.
CONSTANTS
    ann = ann
    bob = bob
    eve = eve
    Callers <- CallerValues
    NameOf <- NameValues
    Names = {"demo-worker", "eve-worker"}
    ClientIds = {c1}
    NoId = NoId
    NoName = NoName
    NoLease = NoLease
    NotRead = NotRead
    Nobody = Nobody
    Environments <- EnvironmentValues
    MaxAttempts = 3
    LeaseSeconds = 1
    CountCap = 3
    MaxJobs = 2
    MaxStarts = 2
SPECIFICATION Spec
SYMMETRY Symmetry
INVARIANTS ServesAsChecked ClaimIsKept DoneOncePerStart
CHECK_DEADLOCK FALSE
