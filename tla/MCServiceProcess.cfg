SPECIFICATION FairSpec
CONSTANTS
    Services <- MCServices
    Rows <- MCRows
    Attempts = 2
    MaxStarts = 2
    MaxFaults = 2
INVARIANTS
    MarkedRowsWereConfirmed
    ThreadsFindTheirTables
    StopReachesConsumer
    OneKindOfFaultIsSurvived
PROPERTIES
    StartsEnd
    ProcessExits
    ConsumerComesBack
    RowsArePublished
CHECK_DEADLOCK FALSE
