SPECIFICATION Spec
CONSTANTS
    a = a
    b = b
    e = e
    o = o
    None = None
    N = 1
    Observer = {o}
    TxSet = {a}
    Empty = e
    PreStart = {"proposing"}
    timeoutCOUNT_ROLLBACK = 1
    MaxSeq = 2
    MaxView = 2
    MaxViewChange = 2
CHECK_DEADLOCK FALSE
INVARIANTS
    SignedWasVoted
    
