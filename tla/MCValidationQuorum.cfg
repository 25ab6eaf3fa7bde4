SPECIFICATION Spec
CONSTANTS
    v1 = v1
    v2 = v2
    v3 = v3
    v4 = v4
    a = a
    b = b
    Node = {v1, v2, v3, v4}
    Validator = {v1, v2, v3, v4}
    Quorums <- MCQuorums
    Ledger = {a, b}
    seqOf <- MCseqOf
SYMMETRY Symmetry
INVARIANT Agreement
