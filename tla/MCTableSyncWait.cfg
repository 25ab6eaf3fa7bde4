SPECIFICATION FairSpec
CONSTANTS
    CreateSeq = 1
    MaxSeq = 4
    slices <- MCslices
    Span = 2
    MAX_CONN_RETRY_COUNT = 1
    MaxFail = 0
    MaxCrash = 0
PROPERTY WaitEnds
CHECK_DEADLOCK FALSE
