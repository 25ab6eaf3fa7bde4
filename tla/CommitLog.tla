----------------------------- MODULE CommitLog -----------------------------
(***************************************************************************)
(* What the HotStuff consensus promises to the ledger layer, without how   *)
(* it gets there: each validator commits blocks of higher and higher       *)
(* rounds, takes none of them back, and what it commits lies on one chain  *)
(* with everything committed anywhere, as long as no validator has signed  *)
(* two blocks of one round.  HotStuff implements it.                       *)
(***************************************************************************)
EXTENDS Integers, Sequences

CONSTANT Validator

VARIABLES
    committed,  \* the blocks each validator committed
    safe        \* no validator has signed two blocks of a round

vars == <<committed, safe>>

\* A block is the sequence of its chain's authors, its round is its length.
prefix(b, c) == Len(b) <= Len(c) /\ b = SubSeq(c, 1, Len(b))

OneChain(log) ==
    \A m, n \in Validator : \A b \in log[m], c \in log[n] : prefix(b, c) \/ prefix(c, b)

Init == committed = [n \in Validator |-> {<<>>}] /\ safe = TRUE

\* One message may make a validator commit more than one block.
Commit(n) ==
    LET new == committed'[n] \ committed[n]
    IN  /\ committed' = [committed EXCEPT ![n] = @ \cup new]
        /\ \A b \in new, c \in committed[n] : Len(c) < Len(b)
        /\ UNCHANGED safe /\ (safe => OneChain(committed'))

\* Signatures are not taken back.
Sign == UNCHANGED committed /\ safe' \in {FALSE, safe}

Next == Sign \/ \E n \in Validator : Commit(n)

Spec == Init /\ [][Next]_vars
=============================================================================
