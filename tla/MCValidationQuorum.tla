------------------------- MODULE MCValidationQuorum -------------------------
EXTENDS ValidationQuorum, FiniteSets, TLC

CONSTANTS v1, v2, v3, v4, a, b

\* Three of four, which is what calculateQuorum asks for.
MCQuorums == {S \in SUBSET Validator : Cardinality(S) >= 3}
MCseqOf == (a :> 1) @@ (b :> 1)

Symmetry == Permutations(Validator)
=============================================================================
