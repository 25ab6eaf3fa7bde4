SPECIFICATION FairSpec
CONSTANTS
    CreateSeq = 1
    MaxSeq = 4
    slices <- MCslices
    Span = 2
    MAX_CONN_RETRY_COUNT = 1
    MaxFail = 1
    MaxCrash = 1
INVARIANTS TypeOK ExecutedInOrder NothingSkipped
PROPERTIES  QueueTaken
CHECK_DEADLOCK FALSE
