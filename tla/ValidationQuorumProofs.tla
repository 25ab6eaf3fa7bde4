----------------------- MODULE ValidationQuorumProofs -----------------------
(***************************************************************************)
(* Agreement on fully validated ledgers, for every family of quorums.      *)
(***************************************************************************)
EXTENDS ValidationQuorum, TLAPS

\* More validations never undo a quorum.
LEMMA EnoughMonotone ==
    ASSUME NEW V, NEW W, V \subseteq W, NEW L, enough(V, L)
    PROVE  enough(W, L)
<1>1. trustedFor(V, L) \subseteq trustedFor(W, L) /\ trustedFor(W, L) \in SUBSET Validator
  BY DEF trustedFor
<1> QED  BY <1>1, QuorumAssumption DEF enough

\* The inductive invariant: a validated ledger has a quorum; while an enforcer
\* was never reset, it bounds what its validator signed, and the validator
\* signed no two ledgers of one sequence.
IInv ==
    /\ TypeOK
    /\ \A p \in validated : enough(sent, p[2])
    /\ \A v \in Validator, L \in Ledger :
         <<v, L>> \in sent /\ v \notin forgot => seqOf[L] <= enforcer[v]
    /\ \A v \in Validator, L, M \in Ledger :
         <<v, L>> \in sent /\ <<v, M>> \in sent /\ Conflict(L, M) => v \in forgot

LEMMA Inductive == IInv /\ [Next]_vars => IInv'
<1> SUFFICES ASSUME IInv, [Next]_vars PROVE IInv'  OBVIOUS
<1> USE LedgerAssumption DEF IInv, TypeOK
<1>1. ASSUME NEW v \in Validator, NEW L \in Ledger, validate(v, L)
      PROVE IInv'
  <2>1. seqOf[L] \in Nat  OBVIOUS
  <2>2. TypeOK'  BY <1>1, <2>1 DEF validate
  <2>3. \A p \in validated' : enough(sent', p[2])
    <3>1. sent \subseteq sent' /\ validated' = validated  BY <1>1 DEF validate
    <3> QED  BY <3>1, EnoughMonotone
  <2>4. \A w \in Validator, M \in Ledger :
          <<w, M>> \in sent' => <<w, M>> \in sent \/ (w = v /\ M = L)
    <3>1. sent' \subseteq sent \cup {<<v, L>>}  BY <1>1 DEF validate
    <3> QED  BY <3>1, Zenon
  <2>5. \A w \in Validator, M \in Ledger :
          <<w, M>> \in sent' /\ w \notin forgot' => seqOf[M] <= enforcer'[w]
    BY <1>1, <2>1, <2>4 DEF validate
  <2>6. \A w \in Validator, M, K \in Ledger :
          <<w, M>> \in sent' /\ <<w, K>> \in sent' /\ Conflict(M, K) => w \in forgot'
    BY <1>1, <2>1, <2>4 DEF validate, Conflict
  <2> QED  BY <2>2, <2>3, <2>5, <2>6, Zenon
<1>2. ASSUME NEW n \in Node, NEW L \in Ledger, doValid(n, L)
      PROVE IInv'
  BY <1>2 DEF doValid
<1>3. ASSUME NEW v \in Validator, reset(v)
      PROVE IInv'
  BY <1>3 DEF reset
<1>4. CASE UNCHANGED vars
  BY <1>4, Zenon DEF vars, enough, trustedFor, Conflict
<1> QED  BY <1>1, <1>2, <1>3, <1>4, Zenon DEF Next

LEMMA InvImpliesAgreement == IInv => Agreement
<1> SUFFICES ASSUME IInv, NEW p \in validated, NEW q \in validated, Conflict(p[2], q[2])
             PROVE  \E v \in Validator :
                      v \in forgot /\ <<v, p[2]>> \in sent /\ <<v, q[2]>> \in sent
  BY DEF Agreement
<1>1. p[2] \in Ledger /\ q[2] \in Ledger BY DEF IInv, TypeOK
<1>2. trustedFor(sent, p[2]) \cap trustedFor(sent, q[2]) # {}
  BY QuorumAssumption DEF IInv, enough
<1>3. PICK v \in Validator : <<v, p[2]>> \in sent /\ <<v, q[2]>> \in sent
  BY <1>2 DEF trustedFor
<1> QED  BY <1>1, <1>3 DEF IInv

\* The network never fully validates two ledgers of one sequence unless a
\* validator that had lost its enforcer's memory signed both.
THEOREM AgreementHolds == Spec => []Agreement
<1>1. Init => IInv
  BY LedgerAssumption DEF Init, IInv, TypeOK
<1> QED  BY <1>1, Inductive, InvImpliesAgreement, PTL DEF Spec
=============================================================================
