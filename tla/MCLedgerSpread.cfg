SPECIFICATION FairSpec
CONSTANTS
    v1 = v1
    v2 = v2
    a = a
    b = b
    Node = {v1, v2}
    Validator = {v1, v2}
    TxSet = {a, b}
    MaxSeq = 1
    MayForget = {}
    MaxViewChange = 2
INVARIANT ValidIsBacked
PROPERTY ValidatedSpreads
