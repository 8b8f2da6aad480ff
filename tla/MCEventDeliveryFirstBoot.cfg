SPECIFICATION Spec
CONSTANTS
    Ranks <- MCRanks
    Poison <- MCPoison
    Publishers = {p1}
    Consumers = {c1}
    BatchSize = 1
    MaxRetries = 1
    QueueDeclared = FALSE
    MaxFaults = 0
INVARIANTS
    PublishedIsKept
CHECK_DEADLOCK FALSE
