SPECIFICATION Spec
CONSTANTS
    a = a
    b = b
    e = e
    o = o
    None = None
    N = 2
    Observer = {}
    TxSet = {a, b, e}
    Empty = e
    PreStart = {"proposing", "observing"}
    timeoutCOUNT_ROLLBACK = 1
    MaxSeq = 1
    MaxView = 1
    MaxViewChange = 2
SYMMETRY Symmetry
CHECK_DEADLOCK FALSE
INVARIANTS
    TypeOK
    VotesAreReal
    VoteFollowsLeader
    ClosedByConsensus
    
    NoViewSkipped
PROPERTY DecisionStands
