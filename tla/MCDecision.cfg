\* Two sources, four profiles under each of two ids, up to three open trades.
CONSTANTS
    None = None
    Malformed = Malformed
    Sources <- SourceValues
    Signals <- SignalValues
    Profiles <- ProfileValues
    ProfileOf <- ProfileOfValues
    Rules <- RuleValues
    Priority <- PriorityValues
    Marks <- MarkValues
    Cent = 5
    MaxTrades = 3
SPECIFICATION Spec
INVARIANTS TypeOK ExposureBounded MarginWithinLoss CountBounded OneDirection
    JoinedByPolicy OrderLegal
