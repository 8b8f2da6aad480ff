SPECIFICATION Spec
CONSTANTS
    Ranks <- MCRanks
    Poison <- MCPoison
    Publishers = {p1, p2}
    Consumers = {c1, c2}
    BatchSize = 2
    MaxRetries = 2
    QueueDeclared = TRUE
    MaxFaults = 2
INVARIANTS
    PublishedIsKept
    OneCopyUnlessFault
    RetryBudget
CHECK_DEADLOCK FALSE
SYMMETRY Symmetry
