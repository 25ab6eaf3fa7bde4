---------------------------- MODULE TableReplay ----------------------------
(***************************************************************************)
(* What the synchronisation of a table promises to those who query the     *)
(* database: the table grows by the slices of the ledgers, in the order of *)
(* the ledgers, and is not dropped once its creation is complete.  Each    *)
(* commit that fails may spoil one step of it, and no more than one.       *)
(* TableSync implements it.                                                *)
(***************************************************************************)
EXTENDS Integers, Sequences, FiniteSets

CONSTANTS CreateSeq, MaxSeq, slices

VARIABLES
    table,    \* the slices the table is made of
    created,  \* some ledger was executed to its end
    failures  \* the number of commits that failed

vars == <<table, created, failures>>

Ledger == CreateSeq + 1 .. MaxSeq
Creation == <<CreateSeq + 1, 1>>

\* q is the slice that comes after p.
Follows(p, q) ==
    \/ q[1] = p[1] /\ q[2] = p[2] + 1
    \/ /\ q[1] > p[1] /\ q[2] = 1 /\ p[2] = slices[p[1]]
       /\ \A s \in Ledger : p[1] < s /\ s < q[1] => slices[s] = 0

\* The places of t where the order of the ledgers is broken.
Breaks(t) ==
    {k \in 1 .. Len(t) : IF k = 1 THEN t[1] # Creation ELSE ~Follows(t[k - 1], t[k])}

breaks(t) == Cardinality(Breaks(t))

Init == table = <<>> /\ created = FALSE /\ failures = 0

\* The creation drops the table first.
Execute(q) ==
    /\ table' = IF q = Creation THEN <<q>> ELSE Append(table, q)
    /\ created' = (created \/ q[2] = slices[q[1]])
    /\ breaks(table') <= failures
    /\ q = Creation /\ created => breaks(table) < failures

Slice == \E s \in Ledger : \E i \in 1 .. slices[s] : Execute(<<s, i>>)

Replay == Slice /\ UNCHANGED failures

\* The failed commit itself may have been carried out.
Fail == failures' = failures + 1 /\ (Slice \/ UNCHANGED <<table, created>>)

Next == Replay \/ Fail

Spec == Init /\ [][Next]_vars
=============================================================================
