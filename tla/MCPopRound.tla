----------------------------- MODULE MCPopRound -----------------------------
(* Instances of PopRound.                                                  *)
EXTENDS PopRound, TLC

CONSTANTS a, b, e, o

Symmetry == Permutations({a, b})

\* Behaviours in which the validators' view changes and validations do not reach
\* each other, and no proposal comes early.
Unheard ==
    \A n \in Node :
        /\ \A r \in viewChangeReq[n] : r.from = n
        /\ proposalCache[n] = {}
        /\ valid[n] = <<>>
=============================================================================
