SPECIFICATION Spec
CONSTANTS
    v1 = v1
    v2 = v2
    a = a
    b = b
    Node = {v1, v2}
    Validator = {v1, v2}
    TxSet = {a, b}
    MaxSeq = 1
    MayForget = {v1, v2}
    MaxViewChange = 0
SYMMETRY Symmetry
INVARIANT TypeOK
PROPERTY ImplementsQuorum
