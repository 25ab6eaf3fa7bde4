SPECIFICATION Spec
CONSTANTS
    a = a
    b = b
    e = e
    o = o
    None = None
    N = 2
    Observer = {o}
    TxSet = {a, b}
    Empty = e
    PreStart = {"proposing"}
    timeoutCOUNT_ROLLBACK = 0
    MaxSeq = 1
    MaxView = 1
    MaxViewChange = 2
SYMMETRY Symmetry
CHECK_DEADLOCK FALSE
INVARIANTS
    ResultIsConsensus
