SPECIFICATION FairSpec
CONSTANTS
    first = first
    second = second
    Rows <- MCRows
    Timeout = 2
    Grace = 1
    Size = 2
INVARIANT TypeOK
PROPERTY StalledMadeNoProgress
PROPERTY DeadIsEvicted
