SPECIFICATION FairSpec
CONSTANTS
    Ranks <- MCRanks
    Poison <- MCPoison
    Publishers = {p1, p2}
    Consumers = {c1, c2}
    BatchSize = 2
    MaxRetries = 1
    QueueDeclared = TRUE
    MaxFaults = 1
PROPERTIES
    ImplementsContract
CHECK_DEADLOCK FALSE
