-------------------------- MODULE ValidationQuorum --------------------------
(***************************************************************************)
(* What the validation layer promises, without how a node gets there:      *)
(* each validator signs validations under the control of its SeqEnforcer,  *)
(* whose memory may be lost, and a node may fully validate a ledger once a *)
(* quorum has signed it.  LedgerValidation implements it.                  *)
(***************************************************************************)
EXTENDS Integers

CONSTANTS
    Node,           \* the nodes that validate ledgers
    Validator,      \* the trusted validators among them, which sign validations
    Quorums,        \* the sets of validators that are enough
    Ledger,         \* ledgers
    seqOf           \* their sequences

ASSUME QuorumAssumption ==
    /\ Validator \subseteq Node /\ Quorums \subseteq SUBSET Validator
    /\ \A Q, R \in Quorums : Q \cap R # {}
    /\ \A Q \in Quorums, R \in SUBSET Validator : Q \subseteq R => R \in Quorums
ASSUME LedgerAssumption == seqOf \in [Ledger -> Nat]

VARIABLES
    enforcer,       \* Validations::localSeqEnforcer_ of each validator
    sent,           \* validations sent, <<validator, ledger>>
    validated,      \* history: <<node, ledger>> fully validated
    forgot          \* history: the validators whose enforcer was reset

vars == <<enforcer, sent, validated, forgot>>

TypeOK ==
    /\ enforcer \in [Validator -> Nat]
    /\ sent \in SUBSET (Validator \X Ledger)
    /\ validated \in SUBSET (Node \X Ledger)
    /\ forgot \in SUBSET Validator

Init ==
    /\ enforcer = [v \in Validator |-> 0]
    /\ sent = {} /\ validated = {} /\ forgot = {}

\* Validations::getTrustedForLedger, of the validations V.
trustedFor(V, L) == {v \in Validator : <<v, L>> \in V}

enough(V, L) == trustedFor(V, L) \in Quorums

\* Mutant: the enforcer lets a validator sign its last sequence again.
validateAgain(v, L) ==
    /\ seqOf[L] >= enforcer[v]
    /\ enforcer' = [enforcer EXCEPT ![v] = seqOf[L]]
    /\ sent' = sent \cup {<<v, L>>}
    /\ UNCHANGED <<validated, forgot>>

\* canValidateSeq, then validate; a partial validation counts for nobody.
validate(v, L) ==
    /\ seqOf[L] > enforcer[v]
    /\ enforcer' = [enforcer EXCEPT ![v] = seqOf[L]]
    /\ sent' = sent \cup {<<v, L>>} \/ sent' = sent
    /\ UNCHANGED <<validated, forgot>>

\* checkLedgerAccept and doValid.
doValid(n, L) ==
    /\ enough(sent, L)
    /\ validated' = validated \cup {<<n, L>>}
    /\ UNCHANGED <<enforcer, sent, forgot>>

\* The enforcer expires, or the node restarts.
reset(v) ==
    /\ enforcer' = [enforcer EXCEPT ![v] = 0]
    /\ forgot' = forgot \cup {v}
    /\ UNCHANGED <<sent, validated>>

Next ==
    \/ \E v \in Validator : reset(v) \/ \E L \in Ledger : validate(v, L)
    \/ \E n \in Node, L \in Ledger : doValid(n, L)

Spec == Init /\ [][Next]_vars

Conflict(L, M) == seqOf[L] = seqOf[M] /\ L # M

\* Two nodes that fully validate, by validations, different ledgers of one
\* sequence do so only because some validator signed both, and that validator
\* had lost the memory of its enforcer (it expired, or the node restarted): the
\* quorums and SeqEnforcer keep the network from forking,
\* whatever ledgers are closed, whichever way the last closed ledgers jump and
\* roll back, and however validations are lost and reordered.
Agreement ==
    \A p, q \in validated :
        Conflict(p[2], q[2]) =>
            \E v \in Validator :
                v \in forgot /\ <<v, p[2]>> \in sent /\ <<v, q[2]>> \in sent
=============================================================================
