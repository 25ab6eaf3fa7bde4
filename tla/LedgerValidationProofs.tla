----------------------- MODULE LedgerValidationProofs -----------------------
(***************************************************************************)
(* LedgerValidation implements ValidationQuorum, for any number of nodes   *)
(* and validators and any bounds.                                          *)
(***************************************************************************)
EXTENDS LedgerValidation, FiniteSetTheorems, SequenceTheorems, TLAPS

LEMMA LedgerFacts ==
    /\ genesis \in Ledger /\ Len(genesis) = 0
    /\ \A L \in Ledger : L \in Seq(TxSet) /\ Len(L) \in 0..MaxSeq /\ (Len(L) = 0 => L = genesis)
    /\ \A L \in Seq(TxSet) : Len(L) <= MaxSeq => L \in Ledger
<1> USE BoundAssumption
<1>1. \A L \in Seq(TxSet) : Len(L) <= MaxSeq => L \in Ledger
  <2> TAKE L \in Seq(TxSet)
  <2> HAVE Len(L) <= MaxSeq
  <2>1. Len(L) \in 0..MaxSeq /\ L \in [1..Len(L) -> TxSet]  BY LenProperties
  <2> QED  BY <2>1, Zenon DEF Ledger
<1>2. genesis \in Ledger /\ Len(genesis) = 0
  <2>1. genesis \in Seq(TxSet) /\ Len(genesis) = 0  BY EmptySeq DEF genesis
  <2>2. Len(genesis) <= MaxSeq  BY <2>1
  <2> QED  BY <1>1, <2>1, <2>2, Zenon
<1>3. ASSUME NEW L \in Ledger
      PROVE L \in Seq(TxSet) /\ Len(L) \in 0..MaxSeq /\ (Len(L) = 0 => L = genesis)
  <2>1. PICK k \in 0..MaxSeq : L \in [1..k -> TxSet]  BY DEF Ledger
  <2>2. L \in Seq(TxSet) /\ Len(L) = k  BY <2>1, SeqDef, LenProperties
  <2>3. ASSUME Len(L) = 0 PROVE L = genesis  BY <2>2, <2>3, EmptySeq DEF genesis
  <2> QED  BY <2>1, <2>2, <2>3
<1> QED  BY <1>1, <1>2, <1>3

\* A ledger closed on top of another one.
LEMMA AppendLedger ==
    ASSUME NEW L \in Ledger, NEW set \in TxSet, Len(Append(L, set)) <= MaxSeq
    PROVE  Append(L, set) \in Ledger /\ Len(Append(L, set)) \in 1..MaxSeq
<1>1. L \in Seq(TxSet) /\ Len(L) \in Nat  BY LedgerFacts
<1>2. Append(L, set) \in Seq(TxSet) /\ Len(Append(L, set)) = Len(L) + 1
  BY <1>1, AppendProperties
<1>3. Append(L, set) \in Ledger  BY <1>2, LedgerFacts, Zenon
<1> QED  BY <1>1, <1>2, <1>3, BoundAssumption

\* More validations never undo a quorum.
LEMMA EnoughMonotone ==
    ASSUME NEW V, NEW W, V \subseteq W, NEW L, enough(V, L)
    PROVE  enough(W, L)
<1> DEFINE S(X) == trustedFor(X, L)
<1>1. S(V) \in SUBSET S(W) /\ S(W) \in SUBSET Validator  BY DEF trustedFor
<1>2. IsFiniteSet(S(W))  BY <1>1, ValidatorAssumption, FS_Subset
<1>3. /\ Cardinality(S(V)) <= Cardinality(S(W))
      /\ Cardinality(S(V)) \in Nat /\ Cardinality(S(W)) \in Nat
  BY <1>1, <1>2, FS_Subset, FS_CardinalityType
<1>4. quorum \in Int
  <2>1. Cardinality(Validator) \in Nat  BY ValidatorAssumption, FS_CardinalityType
  <2> QED  BY <2>1 DEF quorum, calculateQuorum
<1> QED  BY <1>3, <1>4 DEF enough

\* The inductive invariant: what a node has received was sent, and every ledger
\* that a thread is about to validate, that the cache holds or that was validated
\* has a quorum among the validations sent.
Backed ==
    /\ \A n \in Node : vals[n] \subseteq sent
    /\ \A p \in pend : enough(sent, p[3])
    /\ \A n \in Node : cache[n] = genesis \/ enough(sent, cache[n])
    /\ \A p \in validated : enough(sent, p[2])
    /\ ValidIsBacked

LInv == TypeOK /\ Backed

\* checkLedgerAccept passes on to doValid, and files in the cache, only ledgers
\* with a quorum.
LEMMA CheckAcceptBacked ==
    ASSUME LInv, sent \subseteq sent', NEW n \in Node, NEW th \in Thread, NEW L \in Ledger,
           NEW cond, NEW V, V \subseteq sent', NEW H, checkAccept(n, th, L, cond, V, H)
    PROVE  /\ pend' \in SUBSET (Node \X Thread \X Ledger)
           /\ cache' \in [Node -> Ledger]
           /\ \A p \in pend' : enough(sent', p[3])
           /\ \A m \in Node : cache'[m] = genesis \/ enough(sent', cache'[m])
<1>0. /\ pend \in SUBSET (Node \X Thread \X Ledger) /\ cache \in [Node -> Ledger]
      /\ valid \in [Node -> Ledger]
  BY DEF LInv, TypeOK
<1>1. /\ \A p \in pend : enough(sent', p[3])
      /\ \A m \in Node : cache[m] = genesis \/ enough(sent', cache[m])
  BY EnoughMonotone DEF LInv, Backed
<1>2. CASE cond /\ accepts(n, L, V, cache[n], H)
  <2>1. pend' = pend \cup {<<n, th, L>>} /\ cache' = [cache EXCEPT ![n] = cacheAfter(n, L)]
    BY <1>2 DEF checkAccept
  <2>2. enough(sent', L)
    <3>1. L # genesis
      <4>1. Len(L) \in Nat /\ Len(valid[n]) \in Nat /\ Len(L) > Len(valid[n])
        BY <1>0, <1>2, LedgerFacts, BoundAssumption DEF accepts
      <4> QED  BY <4>1, LedgerFacts
    <3>2. CASE enough(V, L)  BY <3>2, EnoughMonotone
    <3>3. CASE cache[n] = L  BY <3>1, <3>3, <1>1
    <3>4. CASE <<n, L>> \in validated
      BY <3>4, EnoughMonotone DEF LInv, Backed
    <3> QED  BY <1>2, <3>2, <3>3, <3>4 DEF accepts, getLastValidations
  <2>3. cacheAfter(n, L) \in {L, cache[n]}  BY DEF cacheAfter
  <2> QED  BY <1>0, <1>1, <2>1, <2>2, <2>3
<1>3. CASE ~(cond /\ accepts(n, L, V, cache[n], H))
  BY <1>0, <1>1, <1>3 DEF checkAccept
<1> QED  BY <1>2, <1>3

LEMMA InitInv == Init => LInv
<1> SUFFICES ASSUME Init PROVE LInv  OBVIOUS
<1> USE LedgerFacts, BoundAssumption DEF Init
<1>1. TypeOK  BY DEF TypeOK
<1>2. Backed  BY DEF Backed, ValidIsBacked
<1> QED  BY <1>1, <1>2 DEF LInv

\* The steps that only move a node within its rounds.
LEMMA RoundSteps ==
    ASSUME LInv, NEW n \in Node,
           \/ setBuildingLedger(n)
           \/ \E L \in Ledger : handleWrongLedger(n, L) \/ switchLastClosedLedger(n, L)
           \/ rollback(n)
           \/ expireEnforcer(n)
    PROVE  LInv' /\ UNCHANGED <<sent, validated>>
<1>1. /\ UNCHANGED <<valid, lastValid, vals, cache, have, accepting, pend, waiting,
                     sent, vcs, validated>>
      /\ lcl' \in [Node -> Ledger] /\ building' \in [Node -> 0..(MaxSeq + 1)]
      /\ enforcer' \in [Validator -> 0..MaxSeq] /\ forgot' \in SUBSET Validator
  <2> USE BoundAssumption DEF LInv, TypeOK
  <2>1. CASE setBuildingLedger(n)
    <3>1. Len(lcl[n]) \in 0..MaxSeq  BY LedgerFacts
    <3>2. Len(lcl[n]) + 1 \in 0..(MaxSeq + 1)  BY <3>1
    <3> QED  BY <2>1, <3>2 DEF setBuildingLedger
  <2>2. ASSUME NEW L \in Ledger, setLcl(n, L)
        PROVE /\ UNCHANGED <<valid, lastValid, vals, cache, have, accepting, pend, waiting,
                             sent, vcs, validated, enforcer, forgot>>
              /\ lcl' \in [Node -> Ledger] /\ building' \in [Node -> 0..(MaxSeq + 1)]
    BY <2>2 DEF setLcl
  <2>3. CASE \E L \in Ledger : handleWrongLedger(n, L) \/ switchLastClosedLedger(n, L)
    BY <2>2, <2>3 DEF handleWrongLedger, switchLastClosedLedger
  <2>4. CASE rollback(n)  BY <2>2, <2>4 DEF rollback
  <2>5. CASE expireEnforcer(n)  BY <2>5 DEF expireEnforcer
  <2> QED  BY <2>1, <2>3, <2>4, <2>5
<1>2. TypeOK'  BY <1>1 DEF LInv, TypeOK
<1>3. Backed'  BY <1>1 DEF LInv, Backed, ValidIsBacked, enough, trustedFor
<1> QED  BY <1>1, <1>2, <1>3 DEF LInv

\* What remains when a step only runs checkLedgerAccept: the quorums behind the
\* ledgers that were there before.
LEMMA StillBacked ==
    ASSUME LInv, sent \subseteq sent', vcs \subseteq vcs', UNCHANGED <<valid, validated>>
    PROVE  /\ \A p \in validated' : enough(sent', p[2])
           /\ ValidIsBacked'
BY EnoughMonotone DEF LInv, Backed, ValidIsBacked

\* doAccept validates as ValidationQuorum allows, or not at all.
LEMMA AcceptStep ==
    ASSUME LInv, NEW n \in Node, NEW set \in TxSet, NEW how \in {"full", "partial", "none"},
           doAccept(n, set, how)
    PROVE  /\ LInv'
           /\ \/ n \in Validator /\ \E L \in Ledger : VQ!validate(n, L)
              \/ UNCHANGED <<enforcer, sent, validated, forgot>>
<1> DEFINE L == Append(lcl[n], set)
           V == IF how = "full" THEN vals[n] \cup {<<n, L>>} ELSE vals[n]
           H == have[n] \cup {L}
<1>1. L \in Ledger /\ Len(L) \in 1..MaxSeq
  BY AppendLedger DEF doAccept, LInv, TypeOK
<1>2. /\ how # "none" => n \in Validator /\ Len(L) > enforcer[n]
      /\ enforcer' = IF how = "none" THEN enforcer ELSE [enforcer EXCEPT ![n] = Len(L)]
      /\ sent' = IF how = "full" THEN sent \cup {<<n, L>>} ELSE sent
      /\ vals' = [vals EXCEPT ![n] = V]
      /\ lastValid' = IF how = "full" THEN [lastValid EXCEPT ![n] = lastValidAfter(n, L, V)]
                      ELSE lastValid
      /\ have' = [have EXCEPT ![n] = H]
      /\ accepting' = [accepting EXCEPT ![n] = L]
      /\ building' = [building EXCEPT ![n] = 0]
      /\ consensusBuilt(n, L, V, H)
      /\ UNCHANGED <<lcl, valid, waiting, vcs, validated, forgot>>
  BY DEF doAccept
<1> HIDE DEF L, V, H
<1>3. sent \subseteq sent' /\ V \subseteq sent' /\ V \in SUBSET (Validator \X Ledger)
      /\ sent' \in SUBSET (Validator \X Ledger)
  BY <1>1, <1>2 DEF LInv, TypeOK, Backed, V
<1>4. PICK M \in Ledger : checkAccept(n, "accept", M, TRUE, V, H)
  BY <1>1, <1>2, Zenon DEF consensusBuilt, savedUp
<1>5. /\ pend' \in SUBSET (Node \X Thread \X Ledger)
      /\ cache' \in [Node -> Ledger]
      /\ \A p \in pend' : enough(sent', p[3])
      /\ \A m \in Node : cache'[m] = genesis \/ enough(sent', cache'[m])
  BY <1>3, <1>4, CheckAcceptBacked, Zenon DEF Thread
<1>6. TypeOK'
  <2>1. lastValidAfter(n, L, V) \in Ledger
    BY <1>1 DEF lastValidAfter, LInv, TypeOK
  <2>2. /\ lastValid' \in [Node -> Ledger] /\ vals' \in [Node -> SUBSET (Validator \X Ledger)]
        /\ have' \in [Node -> SUBSET Ledger] /\ accepting' \in [Node -> Ledger]
    BY <1>1, <1>2, <1>3, <2>1 DEF LInv, TypeOK, H
  <2>3. building' \in [Node -> 0..(MaxSeq + 1)] /\ enforcer' \in [Validator -> 0..MaxSeq]
    BY <1>1, <1>2, BoundAssumption DEF LInv, TypeOK
  <2> QED  BY <1>2, <1>3, <1>5, <2>2, <2>3 DEF LInv, TypeOK
<1>7. Backed'
  <2>1. \A m \in Node : vals'[m] \subseteq sent'  BY <1>2, <1>3 DEF LInv, TypeOK, Backed
  <2>2. (\A p \in validated' : enough(sent', p[2])) /\ ValidIsBacked'
    BY <1>2, <1>3, StillBacked, Zenon
  <2> QED  BY <1>5, <2>1, <2>2 DEF Backed
<1>8. CASE how = "none"  BY <1>2, <1>6, <1>7, <1>8 DEF LInv
<1>9. CASE how # "none"
  <2>1. VQ!validate(n, L)  BY <1>1, <1>2, <1>9 DEF VQ!validate
  <2> QED  BY <1>1, <1>2, <1>6, <1>7, <1>9, <2>1 DEF LInv
<1> QED  BY <1>8, <1>9

\* The steps that only run checkLedgerAccept.
LEMMA CheckSteps ==
    ASSUME LInv, NEW n \in Node,
           \/ switchLCL(n)
           \/ \E v \in Validator, L \in Ledger, current \in BOOLEAN :
                handleNewValidation(n, v, L, current)
           \/ \E L \in Ledger : acquisitionDone(n, L) \/ peerValidationSetData(n, L)
    PROVE  LInv' /\ UNCHANGED <<enforcer, sent, validated, forgot>>
<1> USE DEF Thread
<1>0. TypeOK /\ Backed  BY DEF LInv
<1>1. CASE switchLCL(n)
  <2>1. checkAccept(n, "accept", accepting[n], TRUE, vals[n], have[n])
        /\ UNCHANGED <<valid, lastValid, enforcer, have, waiting, vals, sent, vcs, validated, forgot>>
    BY <1>1, Zenon DEF switchLCL
  <2>2. accepting[n] \in Ledger /\ vals[n] \subseteq sent  BY <1>0 DEF TypeOK, Backed
  <2>3. /\ pend' \in SUBSET (Node \X Thread \X Ledger) /\ cache' \in [Node -> Ledger]
        /\ \A p \in pend' : enough(sent', p[3])
        /\ \A m \in Node : cache'[m] = genesis \/ enough(sent', cache'[m])
    BY <2>1, <2>2, CheckAcceptBacked, Zenon
  <2>4. TypeOK'
    <3>1. /\ lcl' \in [Node -> Ledger] /\ accepting' \in [Node -> Ledger]
          /\ building' \in [Node -> 0..(MaxSeq + 1)]
      BY <1>0, <1>1, <2>2, LedgerFacts, BoundAssumption DEF switchLCL, TypeOK
    <3> QED  BY <1>0, <2>1, <2>3, <3>1 DEF TypeOK
  <2>5. Backed'  BY <1>0, <2>1, <2>3, StillBacked DEF Backed
  <2> QED  BY <2>1, <2>4, <2>5 DEF LInv
<1>2. ASSUME NEW v \in Validator, NEW L \in Ledger, NEW current \in BOOLEAN,
             handleNewValidation(n, v, L, current)
      PROVE  LInv' /\ UNCHANGED <<enforcer, sent, validated, forgot>>
  <2> DEFINE V == vals[n] \cup {<<v, L>>}
  <2>1. /\ checkAccept(n, "peer", L, current /\ Len(L) # building[n], V, have[n])
        /\ <<v, L>> \in sent
        /\ vals' = [vals EXCEPT ![n] = V]
        /\ lastValid' = IF current THEN [lastValid EXCEPT ![n] = lastValidAfter(n, L, V)]
                        ELSE lastValid
        /\ UNCHANGED <<lcl, valid, building, enforcer, have, accepting, waiting,
                       sent, vcs, validated, forgot>>
    BY <1>2 DEF handleNewValidation
  <2>2. V \subseteq sent  BY <1>0, <2>1, Zenon DEF TypeOK, Backed
  <2> HIDE DEF V
  <2>3. /\ pend' \in SUBSET (Node \X Thread \X Ledger) /\ cache' \in [Node -> Ledger]
        /\ \A p \in pend' : enough(sent', p[3])
        /\ \A m \in Node : cache'[m] = genesis \/ enough(sent', cache'[m])
    BY <2>1, <2>2, CheckAcceptBacked
  <2>4. TypeOK'
    <3>1. lastValidAfter(n, L, V) \in Ledger  BY <1>0 DEF lastValidAfter, TypeOK
    <3>2. lastValid' \in [Node -> Ledger] /\ vals' \in [Node -> SUBSET (Validator \X Ledger)]
      BY <1>0, <2>1, <2>2, <3>1 DEF TypeOK
    <3> QED  BY <1>0, <2>1, <2>3, <3>2 DEF TypeOK
  <2>5. Backed'
    <3>1. \A m \in Node : vals'[m] \subseteq sent'  BY <1>0, <2>1, <2>2 DEF TypeOK, Backed
    <3> QED  BY <2>1, <2>3, <3>1, StillBacked DEF Backed
  <2> QED  BY <2>1, <2>4, <2>5 DEF LInv
<1>3. ASSUME NEW L \in Ledger, acquisitionDone(n, L)
      PROVE  LInv' /\ UNCHANGED <<enforcer, sent, validated, forgot>>
  <2>1. /\ checkAccept(n, "acquire", L, TRUE, vals[n], have[n] \cup {L})
        /\ have' = [have EXCEPT ![n] = @ \cup {L}]
        /\ UNCHANGED <<lcl, valid, lastValid, building, enforcer, accepting, waiting,
                       vals, sent, vcs, validated, forgot>>
    BY <1>3, Zenon DEF acquisitionDone
  <2>2. vals[n] \subseteq sent  BY <1>0 DEF Backed
  <2>3. /\ pend' \in SUBSET (Node \X Thread \X Ledger) /\ cache' \in [Node -> Ledger]
        /\ \A p \in pend' : enough(sent', p[3])
        /\ \A m \in Node : cache'[m] = genesis \/ enough(sent', cache'[m])
    BY <2>1, <2>2, CheckAcceptBacked, Zenon
  <2>4. TypeOK'  BY <1>0, <2>1, <2>3, Zenon DEF TypeOK
  <2>5. Backed'  BY <1>0, <2>1, <2>3, StillBacked DEF Backed
  <2> QED  BY <2>1, <2>4, <2>5 DEF LInv
<1>4. ASSUME NEW L \in Ledger, peerValidationSetData(n, L)
      PROVE  LInv' /\ UNCHANGED <<enforcer, sent, validated, forgot>>
  <2>1. /\ \E m \in Node : <<m, L>> \in validated
        /\ cache' = [cache EXCEPT ![n] = cacheAfter(n, L)]
        /\ pend' = pend \/ pend' = pend \cup {<<n, "peer", L>>}
        /\ UNCHANGED <<lcl, valid, lastValid, building, enforcer, have, accepting, waiting,
                       vals, sent, vcs, validated, forgot>>
    BY <1>4 DEF peerValidationSetData
  <2>2. enough(sent, L)  BY <1>0, <2>1 DEF Backed
  <2>3. cacheAfter(n, L) \in {L, cache[n]}  BY DEF cacheAfter
  <2>4. pend' \in SUBSET (Node \X Thread \X Ledger) /\ cache' \in [Node -> Ledger]
    BY <1>0, <2>1, <2>3 DEF TypeOK
  <2>5. TypeOK'  BY <1>0, <2>1, <2>4 DEF TypeOK
  <2>6. \A p \in pend' : enough(sent', p[3])  BY <1>0, <2>1, <2>2 DEF Backed
  <2>7. \A m \in Node : cache'[m] = genesis \/ enough(sent', cache'[m])
    BY <1>0, <2>1, <2>2, <2>3 DEF Backed, TypeOK
  <2>8. Backed'  BY <1>0, <2>1, <2>6, <2>7, StillBacked DEF Backed
  <2> QED  BY <2>1, <2>5, <2>8 DEF LInv
<1> QED  BY <1>1, <1>2, <1>3, <1>4

LEMMA ValidStep ==
    ASSUME LInv, NEW n \in Node, NEW th \in Thread, NEW L \in Ledger, doValid(n, th, L)
    PROVE  LInv' /\ VQ!doValid(n, L)
<1>0. TypeOK /\ Backed  BY DEF LInv
<1>1. enough(sent, L)  BY <1>0 DEF Backed, doValid
<1>2. VQ!doValid(n, L)
  <2>1. trustedFor(sent, L) \in SUBSET Validator  BY DEF trustedFor
  <2>2. VQ!enough(sent, L)  BY <1>1, <2>1 DEF enough, trustedFor, VQ!enough, VQ!trustedFor
  <2> QED  BY <2>2 DEF doValid, VQ!doValid
<1>3. TypeOK'  BY <1>0 DEF doValid, TypeOK
<1>4. Backed'
  <2>1. sent' = sent /\ vcs' = vcs /\ vals' = vals /\ cache' = cache
        /\ pend' \subseteq pend /\ validated' = validated \cup {<<n, L>>}
    BY DEF doValid
  <2>2. ValidIsBacked'
    BY <1>0, <1>1 DEF doValid, Backed, ValidIsBacked, TypeOK
  <2>3. \A p \in validated' : enough(sent', p[2])  BY <1>0, <1>1, <2>1 DEF Backed
  <2> QED  BY <1>0, <2>1, <2>2, <2>3 DEF Backed
<1> QED  BY <1>2, <1>3, <1>4 DEF LInv

LEMMA ViewChangeSteps ==
    ASSUME LInv, NEW n \in Node, launchViewChange(n) \/ onViewChange(n)
    PROVE  LInv' /\ UNCHANGED <<enforcer, sent, validated, forgot>>
<1>0. TypeOK /\ Backed  BY DEF LInv
<1>1. CASE launchViewChange(n)
  <2>1. UNCHANGED <<nodeVars, vals, pend, sent, validated, forgot>> /\ vcs \subseteq vcs'
    BY <1>1 DEF launchViewChange
  <2>2. TypeOK'  BY <1>0, <1>1 DEF launchViewChange, nodeVars, TypeOK
  <2>3. Backed'
    <3>1. \A p \in validated' : enough(sent', p[2])  BY <1>0, <2>1 DEF Backed
    <3>2. ValidIsBacked'  BY <2>1, StillBacked DEF nodeVars
    <3> QED  BY <1>0, <2>1, <3>1, <3>2 DEF Backed, nodeVars
  <2> QED  BY <2>1, <2>2, <2>3 DEF LInv, nodeVars
<1>2. CASE onViewChange(n)
  <2>1. /\ enough(vcs, lcl[n])
        /\ valid' = valid \/ valid' = [valid EXCEPT ![n] = lcl[n]]
        /\ UNCHANGED <<lcl, lastValid, building, enforcer, cache, have, accepting,
                       vals, pend, sent, vcs, validated, forgot>>
    BY <1>2 DEF onViewChange
  <2>2. TypeOK'
    <3>1. waiting' \in [Node -> BOOLEAN]  BY <1>0, <1>2 DEF onViewChange, TypeOK
    <3>2. valid' \in [Node -> Ledger]  BY <1>0, <2>1 DEF TypeOK
    <3> QED  BY <1>0, <2>1, <3>1, <3>2 DEF TypeOK
  <2>3. Backed'  BY <1>0, <2>1 DEF Backed, ValidIsBacked, TypeOK
  <2> QED  BY <2>1, <2>2, <2>3 DEF LInv
<1> QED  BY <1>1, <1>2

LEMMA RestartStep ==
    ASSUME LInv, NEW n \in Node, restart(n)
    PROVE  LInv' /\ UNCHANGED <<sent, validated>>
<1>0. TypeOK /\ Backed  BY DEF LInv
<1>1. UNCHANGED <<valid, have, sent, vcs, validated>>  BY DEF restart
<1>2. TypeOK'
  <2> USE LedgerFacts, BoundAssumption DEF TypeOK
  <2>1. /\ lcl' \in [Node -> Ledger] /\ lastValid' \in [Node -> Ledger]
        /\ cache' \in [Node -> Ledger] /\ accepting' \in [Node -> Ledger]
    BY <1>0 DEF restart
  <2>2. building' \in [Node -> 0..(MaxSeq + 1)] /\ waiting' \in [Node -> BOOLEAN]
    BY <1>0 DEF restart
  <2>3. enforcer' \in [Validator -> 0..MaxSeq] /\ forgot' \in SUBSET Validator
    BY <1>0 DEF restart
  <2>4. vals' \in [Node -> SUBSET (Validator \X Ledger)]  BY <1>0 DEF restart
  <2>5. pend' \in SUBSET (Node \X Thread \X Ledger)  BY <1>0 DEF restart
  <2> QED  BY <1>0, <1>1, <2>1, <2>2, <2>3, <2>4, <2>5, Zenon
<1>3. Backed'
  <2>1. \A m \in Node : vals'[m] \subseteq sent'  BY <1>0 DEF restart, Backed, TypeOK
  <2>2. \A p \in pend' : enough(sent', p[3])  BY <1>0, <1>1 DEF restart, Backed
  <2>3. \A m \in Node : cache'[m] = genesis \/ enough(sent', cache'[m])
    BY <1>0 DEF restart, Backed, TypeOK
  <2> QED  BY <1>1, <2>1, <2>2, <2>3, StillBacked DEF Backed
<1> QED  BY <1>1, <1>2, <1>3 DEF LInv

\* Every step keeps the invariant and is a step of ValidationQuorum.
LEMMA StepRefines == LInv /\ [Next]_vars => LInv' /\ [VQ!Next]_VQ!vars
<1> SUFFICES ASSUME LInv, [Next]_vars PROVE LInv' /\ [VQ!Next]_VQ!vars  OBVIOUS
<1> USE DEF VQ!vars
<1>1. CASE UNCHANGED vars
  <2>1. LInv'
    BY <1>1 DEF vars, nodeVars, LInv, TypeOK, Backed, ValidIsBacked, enough, trustedFor
  <2> QED  BY <1>1, <2>1 DEF vars, nodeVars
<1>2. CASE Next
  <2>0. PICK n \in Node :
          \/ setBuildingLedger(n)
          \/ \E set \in TxSet, how \in {"full", "partial", "none"} : doAccept(n, set, how)
          \/ switchLCL(n)
          \/ \E th \in Thread, L \in Ledger : doValid(n, th, L)
          \/ \E v \in Validator, L \in Ledger, current \in BOOLEAN :
               handleNewValidation(n, v, L, current)
          \/ \E L \in Ledger : acquisitionDone(n, L)
          \/ \E L \in Ledger : peerValidationSetData(n, L)
          \/ \E L \in Ledger : handleWrongLedger(n, L)
          \/ \E L \in Ledger : switchLastClosedLedger(n, L)
          \/ rollback(n)
          \/ launchViewChange(n)
          \/ onViewChange(n)
          \/ expireEnforcer(n)
          \/ restart(n)
    BY <1>2 DEF Next
  <2>1. CASE \E set \in TxSet, how \in {"full", "partial", "none"} : doAccept(n, set, how)
    BY <2>1, AcceptStep DEF VQ!Next
  <2>2. CASE \E th \in Thread, L \in Ledger : doValid(n, th, L)
    BY <2>2, ValidStep DEF VQ!Next
  <2>3. CASE \/ switchLCL(n)
             \/ \E v \in Validator, L \in Ledger, current \in BOOLEAN :
                  handleNewValidation(n, v, L, current)
             \/ \E L \in Ledger : acquisitionDone(n, L)
             \/ \E L \in Ledger : peerValidationSetData(n, L)
    BY <2>3, CheckSteps
  <2>4. CASE \/ setBuildingLedger(n)
             \/ \E L \in Ledger : handleWrongLedger(n, L)
             \/ \E L \in Ledger : switchLastClosedLedger(n, L)
             \/ rollback(n)
    <3>1. LInv' /\ UNCHANGED <<sent, validated>>  BY <2>4, RoundSteps
    <3>2. UNCHANGED <<enforcer, forgot>>
      BY <2>4 DEF setBuildingLedger, handleWrongLedger, switchLastClosedLedger, rollback, setLcl
    <3> QED  BY <3>1, <3>2
  <2>5. CASE launchViewChange(n) \/ onViewChange(n)
    BY <2>5, ViewChangeSteps
  <2>6. CASE expireEnforcer(n)
    <3>1. LInv' /\ n \in Validator  BY <2>6, RoundSteps, Zenon DEF expireEnforcer
    <3>2. VQ!reset(n)  BY <2>6 DEF expireEnforcer, VQ!reset
    <3> QED  BY <3>1, <3>2 DEF VQ!Next
  <2>7. CASE restart(n)
    <3>1. LInv' /\ UNCHANGED <<sent, validated>>  BY <2>7, RestartStep
    <3>2. CASE n \in Validator
      <4>1. enforcer' = [enforcer EXCEPT ![n] = 0] /\ forgot' = forgot \cup {n}
        BY <2>7, <3>2, Zenon DEF restart, LInv, TypeOK
      <4>2. VQ!reset(n)  BY <3>1, <4>1 DEF VQ!reset
      <4> QED  BY <3>1, <3>2, <4>2 DEF VQ!Next
    <3>3. CASE n \notin Validator
      <4>1. enforcer' = enforcer /\ forgot' = forgot
        BY <2>7, <3>3 DEF restart, LInv, TypeOK
      <4> QED  BY <3>1, <4>1
    <3> QED  BY <3>2, <3>3
  <2> QED  BY <2>0, <2>1, <2>2, <2>3, <2>4, <2>5, <2>6, <2>7
<1> QED  BY <1>1, <1>2

\* The validation layer implements ValidationQuorum with the quorums of
\* calculateQuorum, for every number of validators and every bound.
THEOREM Refinement == Spec => ImplementsQuorum
<1>1. Init => VQ!Init  BY DEF Init, VQ!Init
<1> QED  BY <1>1, InitInv, StepRefines, PTL DEF Spec, ImplementsQuorum, VQ!Spec

\* Every ledger that a node takes as fully validated has a quorum behind it.
THEOREM ValidAlwaysBacked == Spec => []ValidIsBacked
<1>1. LInv => ValidIsBacked  BY DEF LInv, Backed
<1> QED  BY <1>1, InitInv, StepRefines, PTL DEF Spec

\* Every state is well typed.
THEOREM TypeCorrect == Spec => []TypeOK
<1>1. LInv => TypeOK  BY DEF LInv
<1> QED  BY <1>1, InitInv, StepRefines, PTL DEF Spec

\* Any two quorums of calculateQuorum have a validator in common.
LEMMA QuorumsIntersect ==
    ASSUME NEW S \in SUBSET Validator, NEW T \in SUBSET Validator,
           Cardinality(S) >= quorum, Cardinality(T) >= quorum
    PROVE  S \cap T # {}
<1> DEFINE n == Cardinality(Validator)
<1>1. n \in Nat /\ n # 0
  BY ValidatorAssumption, FS_CardinalityType, FS_EmptySet
<1>2. Cardinality(S) \in Nat /\ Cardinality(T) \in Nat
  BY ValidatorAssumption, FS_Subset, FS_CardinalityType
<1>3. quorum \in Nat /\ quorum + quorum > n
  <2> HIDE DEF n
  <2>1. CASE n < 4  BY <1>1, <2>1 DEF quorum, calculateQuorum, n
  <2>2. CASE n >= 4
    <3>1. quorum = n - ((n - 1) \div 3)  BY <1>1, <2>2 DEF quorum, calculateQuorum, n
    <3>2. (n - 1) \div 3 \in Nat /\ 3 * ((n - 1) \div 3) <= n - 1  BY <1>1, <2>2
    <3> QED  BY <1>1, <2>2, <3>1, <3>2
  <2> QED  BY <1>1, <2>1, <2>2
<1>4. Cardinality(S) + Cardinality(T) > n
  BY <1>1, <1>2, <1>3
<1> QED  BY <1>4, ValidatorAssumption, FS_MajoritiesIntersect

P == INSTANCE ValidationQuorumProofs WITH
        Quorums <- {S \in SUBSET Validator : Cardinality(S) >= quorum},
        seqOf <- [L \in Ledger |-> Len(L)]

\* No two nodes fully validate different ledgers of one sequence by validations,
\* unless a validator whose enforcer expired or that restarted signed both.
THEOREM NoFork == Spec => []VQ!Agreement
<1>1. P!QuorumAssumption
  <2>1. \A S, T \in SUBSET Validator : S \subseteq T => Cardinality(S) <= Cardinality(T)
    BY ValidatorAssumption, FS_Subset
  <2>2. \A S \in SUBSET Validator : Cardinality(S) \in Nat
    BY ValidatorAssumption, FS_Subset, FS_CardinalityType
  <2>3. quorum \in Int
    <3>1. Cardinality(Validator) \in Nat  BY ValidatorAssumption, FS_CardinalityType
    <3> QED  BY <3>1 DEF quorum, calculateQuorum
  <2> QED  BY <2>1, <2>2, <2>3, ValidatorAssumption, QuorumsIntersect DEF P!QuorumAssumption
<1>2. P!LedgerAssumption  BY LedgerFacts, BoundAssumption DEF P!LedgerAssumption
<1>3. Init => P!IInv
  BY LedgerFacts DEF Init, P!IInv, P!TypeOK
<1>4. P!IInv /\ [VQ!Next]_VQ!vars => P!IInv'
  BY <1>1, <1>2, P!Inductive, Zenon
  DEF VQ!Next, VQ!vars, VQ!validate, VQ!doValid, VQ!reset, VQ!enough, VQ!trustedFor,
      P!Next, P!vars, P!validate, P!doValid, P!reset, P!enough, P!trustedFor
<1>5. P!IInv => VQ!Agreement
  BY <1>1, <1>2, P!InvImpliesAgreement DEF VQ!Agreement, P!Agreement, VQ!Conflict, P!Conflict
<1> QED  BY <1>3, <1>4, <1>5, InitInv, StepRefines, PTL DEF Spec
=============================================================================
