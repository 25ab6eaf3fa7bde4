---------------------------- MODULE TxPoolProofs ----------------------------
(***************************************************************************)
(* Proofs about TxPool: its type invariant, the consistency of the pool    *)
(* with its index, the release of the avoid set and the meaning of         *)
(* isAvailable, for every set of transactions, capacity and set of threads.*)
(***************************************************************************)
EXTENDS TxPool, FiniteSetTheorems, WellFoundedInduction, TLAPS

\* A non-empty set of ledger sequences has a highest element: the reflection
\* of the set about MaxSeq has a least one.
LEMMA HasHighest ==
    ASSUME NEW S \in SUBSET LedgerIndex, S # {}
    PROVE  \E i \in S : \A j \in S : j <= i
<1> DEFINE R == {ss \in Nat \X Nat : ss[1] < ss[2]}
           T == {n \in Nat : MaxSeq - n \in S}
<1>1. T # {}
  <2>1. PICK i \in S : TRUE  OBVIOUS
  <2>2. i \in Nat /\ MaxSeq - i \in Nat /\ MaxSeq - (MaxSeq - i) = i
    BY <2>1, BoundAssumption DEF LedgerIndex
  <2>3. MaxSeq - (MaxSeq - i) \in S  BY <2>1, <2>2
  <2> QED  BY <2>2, <2>3
<1>2. \E x \in T : \A y \in T : ~ (<<y, x>> \in R)
  <2>1. IsWellFoundedOn(R, Nat)  BY NatLessThanWellFounded, Zenon DEF OpToRel
  <2> HIDE DEF R
  <2>2. T \subseteq Nat  OBVIOUS
  <2> HIDE DEF T
  <2> QED  BY <1>1, <2>1, <2>2, WFMin, Zenon
<1>3. PICK x \in T : \A y \in T : ~ (<<y, x>> \in R)  BY <1>2
<1>4. \A y \in T : x <= y
  <2> SUFFICES ASSUME NEW y \in T PROVE x <= y  OBVIOUS
  <2>1. x \in Nat /\ y \in Nat  OBVIOUS
  <2>2. <<y, x>> \notin R  BY <1>3
  <2>3. ~ (y < x)  BY <2>1, <2>2
  <2> QED  BY <2>1, <2>3
<1>5. \A j \in S : j <= MaxSeq - x
  <2> SUFFICES ASSUME NEW j \in S PROVE j <= MaxSeq - x  OBVIOUS
  <2>1. j \in Nat /\ MaxSeq - j \in Nat /\ MaxSeq - (MaxSeq - j) = j
    BY BoundAssumption DEF LedgerIndex
  <2>2. MaxSeq - (MaxSeq - j) \in S  BY <2>1
  <2>3. MaxSeq - j \in T  BY <2>1, <2>2
  <2>4. x <= MaxSeq - j  BY <1>4, <2>3
  <2> QED  BY <2>1, <2>4, BoundAssumption
<1> QED  BY <1>3, <1>5

LEMMA HighestIn ==
    ASSUME NEW S \in SUBSET LedgerIndex, S # {}
    PROVE  Highest(S) \in S
  BY HasHighest DEF Highest

-----------------------------------------------------------------------------
(* Type correctness.                                                       *)

\* What checkSyncStatus computes is a sync_status.
LEMMA SyncStatusType ==
    ASSUME mSyncStatus \in SyncStatus, NEW s \in LedgerIndex
    PROVE  syncStatusAfter(s) \in SyncStatus
<1> DEFINE max == IF mSyncStatus.max_advance_seq < s THEN s ELSE mSyncStatus.max_advance_seq
           map == mSyncStatus.mapSynced \cup {s}
           missing == Missing(mSyncStatus.pool_start_seq, max, map)
<1>1. max \in 0..MaxSeq /\ max + 1 \in 0..(MaxSeq + 1)
  BY BoundAssumption DEF SyncStatus, LedgerIndex
<1>2. map \in SUBSET LedgerIndex  BY DEF SyncStatus
<1>3. missing # {} => Highest(missing) \in 0..MaxSeq
  <2>1. missing \in SUBSET LedgerIndex  BY DEF Missing
  <2>2. LedgerIndex \subseteq 0..MaxSeq  BY BoundAssumption DEF LedgerIndex
  <2> QED  BY <2>1, <2>2, HighestIn
<1>4. syncStatusAfter(s) = IF missing = {} \/ Highest(missing) + 1 \notin map
        THEN sync_status(max + 1, max, mSyncStatus.prevHash, {})
        ELSE sync_status(mSyncStatus.pool_start_seq, max, Highest(missing), map)
  BY DEF syncStatusAfter
<1> HIDE DEF max, map, missing
<1> QED  BY <1>1, <1>2, <1>3, <1>4 DEF SyncStatus, sync_status

\* Every step of the pool keeps its state well typed.
LEMMA TypeStep == TypeOK /\ [Next]_vars => TypeOK'
<1> SUFFICES ASSUME TypeOK, [Next]_vars PROVE TypeOK'  OBVIOUS
<1> USE DEF TypeOK
<1>0. LedgerIndex \subseteq 0..MaxSeq /\ 0 \in 0..MaxSeq /\ 0 \in 0..(MaxSeq + 1)
  BY BoundAssumption DEF LedgerIndex
<1>1. ASSUME NEW t \in Tx, NEW s \in LedgerIndex, doTransactionCheck(t, s)
      PROVE TypeOK'
  <2>1. mSyncStatus' \in SyncStatus
    BY <1>1, BoundAssumption
       DEF doTransactionCheck, insertTx, syncVars, sync_status, SyncStatus, LedgerIndex
  <2> QED  BY <1>0, <1>1, <2>1, Zenon
       DEF doTransactionCheck, insertTx, poolVars, syncVars, envVars, avoidVars
<1>2. ASSUME NEW th \in Thread, NEW s \in LedgerIndex, doValid(th, s)
      PROVE TypeOK'
  BY <1>0, <1>2 DEF doValid, removeTxs, at, ThreadState, poolVars, syncVars, avoidVars
<1>3. ASSUME NEW th \in Thread, NEW t \in Tx, removeTxsItem(th, t)
      PROVE TypeOK'
  BY <1>3 DEF removeTxsItem, at, ThreadState, envVars, syncVars, avoidVars
<1>4. ASSUME NEW th \in Thread, removeTxsClearAvoid(th)
      PROVE TypeOK'
  BY <1>0, <1>4, Zenon
     DEF removeTxsClearAvoid, clearAvoid, at, ThreadState, envVars, syncVars, poolVars
<1>5. ASSUME NEW th \in Thread, checkSyncStatus(th)
      PROVE TypeOK'
  <2>1. thr[th].ledger \in LedgerIndex  BY <1>5 DEF checkSyncStatus
  <2>2. syncStatusAfter(thr[th].ledger) \in SyncStatus  BY <2>1, SyncStatusType
  <2>3. mSyncStatus' \in SyncStatus  BY <1>5, <2>2 DEF checkSyncStatus, syncVars
  <2>4. /\ at("init", thr[th].ledger, {}) \in ThreadState
        /\ idle \in ThreadState
        /\ idle.pc = "idle"
        /\ at("init", thr[th].ledger, {}).ledger \in LedgerIndex
    BY <1>0, <2>1 DEF at, idle, ThreadState
  <2>5. /\ thr' \in [Thread -> ThreadState]
        /\ \A o \in Thread : thr'[o].pc # "idle" => thr'[o].ledger \in LedgerIndex
    BY <1>5, <2>4 DEF checkSyncStatus
  <2>6. firstSeq' = firstSeq /\ synced' \in SUBSET LedgerIndex
    BY <1>5, <2>1 DEF checkSyncStatus, syncVars
  <2> QED  BY <1>5, <2>3, <2>5, <2>6
       DEF checkSyncStatus, envVars, poolVars, avoidVars
<1>6. ASSUME NEW th \in Thread, checkSyncStatusInit(th)
      PROVE TypeOK'
  BY <1>0, <1>6 DEF checkSyncStatusInit, sync_status_init, sync_status, SyncStatus,
                    at, idle, ThreadState, envVars, poolVars, avoidVars
<1>7. ASSUME NEW txs \in SUBSET Tx, NEW s \in LedgerIndex, updateAvoid(txs, s)
      PROVE TypeOK'
  BY <1>0, <1>7 DEF updateAvoid, envVars, poolVars, syncVars
<1>8. ASSUME NEW s \in LedgerIndex, clearAvoidOfLedger(s)
      PROVE TypeOK'
  BY <1>0, <1>8 DEF clearAvoidOfLedger, clearAvoid, envVars, poolVars, syncVars
<1>9. CASE clearAllAvoid
  BY <1>0, <1>9 DEF clearAllAvoid, envVars, poolVars, syncVars
<1>10. CASE timerEntry
  <2>1. have \in SUBSET (0..MaxSeq) /\ Timer \in Thread  BY <1>0, BoundAssumption
  <2>2. /\ thr' \in [Thread -> ThreadState]
        /\ \A o \in Thread : thr'[o].pc # "idle" => thr'[o].ledger \in LedgerIndex
    <3>1. CASE UNCHANGED thr  BY <3>1
    <3>2. CASE mSyncStatus.prevHash \in have /\ removeTxs(Timer, mSyncStatus.prevHash)
      <4>1. at("items", mSyncStatus.prevHash, chain[mSyncStatus.prevHash]) \in ThreadState
        BY <2>1, <3>2, Zenon DEF at, ThreadState
      <4>2. at("items", mSyncStatus.prevHash, chain[mSyncStatus.prevHash]).ledger \in LedgerIndex
        BY <3>2 DEF at
      <4> QED  BY <2>1, <3>2, <4>1, <4>2 DEF removeTxs
    <3> QED  BY <1>10, <3>1, <3>2 DEF timerEntry
  <2> QED  BY <1>10, <2>2 DEF timerEntry, envVars, avoidVars, syncVars
<1>11. ASSUME NEW t \in Tx, removeTx(t)
       PROVE TypeOK'
  BY <1>0, <1>11 DEF removeTx, envVars, syncVars, avoidVars
<1>12. CASE sweep
  BY <1>0, <1>12 DEF sweep, envVars, syncVars
<1>13. ASSUME NEW s \in LedgerIndex, acquireLedger(s)
       PROVE TypeOK'
  BY <1>13 DEF acquireLedger, poolVars, avoidVars, syncVars
<1>14. CASE UNCHANGED vars
  BY <1>14 DEF vars, envVars, poolVars, avoidVars, syncVars
<1> QED  BY <1>1, <1>2, <1>3, <1>4, <1>5, <1>6, <1>7, <1>8, <1>9, <1>10, <1>11,
            <1>12, <1>13, <1>14, Zenon DEF Next, removeTxsStep

LEMMA TypeInit == Init => TypeOK
  BY BoundAssumption DEF Init, TypeOK, LedgerIndex, SyncStatus, sync_status_init,
     sync_status, ThreadState, idle, at

\* The pool's containers, bookkeeping and threads stay well typed: no ledger
\* sequence that checkSyncStatus computes leaves the range of the chain.
THEOREM TypeCorrect == Spec => []TypeOK
  BY TypeInit, TypeStep, PTL DEF Spec

-----------------------------------------------------------------------------
(* The pool and its index.                                                 *)

\* Removing transactions from both containers keeps them consistent.
LEMMA PoolShrinks ==
    ASSUME TypeOK, PoolConsistent, NEW S, mTxsSet' = mTxsSet \ S, mTxsHash' = mTxsHash \ S
    PROVE  PoolConsistent'
<1>1. IsFiniteSet(mTxsSet)  BY TxAssumption, FS_Subset DEF TypeOK
<1>2. mTxsSet' \in SUBSET mTxsSet  OBVIOUS
<1>3. /\ Cardinality(mTxsSet') <= Cardinality(mTxsSet)
      /\ Cardinality(mTxsSet') \in Nat /\ Cardinality(mTxsSet) \in Nat
  BY <1>1, <1>2, FS_Subset, FS_CardinalityType
<1> QED  BY <1>2, <1>3, BoundAssumption DEF PoolConsistent

LEMMA PoolStep == TypeOK /\ PoolConsistent /\ [Next]_vars => PoolConsistent'
<1> SUFFICES ASSUME TypeOK, PoolConsistent, [Next]_vars PROVE PoolConsistent'  OBVIOUS
<1>1. ASSUME NEW t \in Tx, NEW s \in LedgerIndex, doTransactionCheck(t, s)
      PROVE PoolConsistent'
  <2>1. CASE UNCHANGED poolVars  BY <2>1 DEF poolVars, PoolConsistent
  <2>2. CASE /\ ~(Cardinality(mTxsSet) >= mMaxTxsInPool)
             /\ ~SlotTaken(t)
             /\ mTxsSet' = mTxsSet \cup {t} /\ mTxsHash' = mTxsHash \cup {t}
    <3>1. IsFiniteSet(mTxsSet)  BY TxAssumption, FS_Subset DEF TypeOK
    <3>2. Cardinality(mTxsSet) \in Nat  BY <3>1, FS_CardinalityType
    <3>3. Cardinality(mTxsSet \cup {t}) =
            IF t \in mTxsSet THEN Cardinality(mTxsSet) ELSE Cardinality(mTxsSet) + 1
      BY <3>1, FS_AddElement
    <3>4. Cardinality(mTxsSet') \in Nat
      BY <2>2, <3>1, FS_AddElement, FS_CardinalityType
    <3>5. Cardinality(mTxsSet') <= mMaxTxsInPool
      BY <2>2, <3>2, <3>3, <3>4, BoundAssumption
    <3>6. \A u, v \in mTxsSet' : slotOf[u] = slotOf[v] => u = v
      BY <2>2 DEF SlotTaken, PoolConsistent
    <3> QED  BY <2>2, <3>5, <3>6 DEF PoolConsistent
  <2> QED  BY <1>1, <2>1, <2>2 DEF doTransactionCheck, insertTx, poolVars
<1>2. ASSUME NEW th \in Thread, NEW t \in Tx, removeTxsItem(th, t)
      PROVE PoolConsistent'
  <2>1. CASE t \notin mTxsHash  BY <1>2, <2>1 DEF removeTxsItem, PoolConsistent
  <2>2. CASE t \in mTxsHash  BY <1>2, <2>2, PoolShrinks, Zenon DEF removeTxsItem
  <2> QED  BY <2>1, <2>2
<1>3. ASSUME NEW t \in Tx, removeTx(t)
      PROVE PoolConsistent'
  BY <1>3, PoolShrinks, Zenon DEF removeTx
<1>4. CASE sweep
  BY <1>4, PoolShrinks, Zenon DEF sweep
<1>5. CASE UNCHANGED <<mTxsSet, mTxsHash>>
  BY <1>5 DEF PoolConsistent
<1>6. \/ UNCHANGED <<mTxsSet, mTxsHash>>
      \/ \E t \in Tx, s \in LedgerIndex : doTransactionCheck(t, s)
      \/ \E th \in Thread, t \in Tx : removeTxsItem(th, t)
      \/ \E t \in Tx : removeTx(t)
      \/ sweep
  BY DEF Next, vars, poolVars, doValid, removeTxsStep, removeTxsClearAvoid, checkSyncStatus,
         checkSyncStatusInit, updateAvoid, clearAvoidOfLedger, clearAllAvoid, timerEntry,
         acquireLedger
<1> QED  BY <1>1, <1>2, <1>3, <1>4, <1>5, <1>6

\* mTxsSet and mTxsHash agree, hold one transaction per (account, sequence) and
\* stay within the capacity, for any number of threads inside removeTxs.
THEOREM PoolAlwaysConsistent == Spec => []PoolConsistent
<1>1. Init => PoolConsistent
  BY FS_EmptySet, BoundAssumption DEF Init, PoolConsistent
<1> QED  BY <1>1, PoolStep, TypeCorrect, PTL DEF Spec

-----------------------------------------------------------------------------
(* The avoid set.                                                          *)

\* AvoidReleased needs that only validated sequences are cleared, and that the
\* threads of doValid work on validated sequences.
AvoidInv ==
    /\ AvoidFiled
    /\ AvoidReleased
    /\ \A s \in cleared : s <= validSeq
    /\ \A th \in Thread \ {Timer} : thr[th].ledger <= validSeq

LEMMA AvoidStep == TypeOK /\ AvoidInv /\ [Next]_vars => AvoidInv'
<1> SUFFICES ASSUME TypeOK, AvoidInv, [Next]_vars PROVE AvoidInv'  OBVIOUS
<1>0. LedgerIndex \in SUBSET Nat /\ 0 \notin LedgerIndex /\ validSeq \in Nat
  BY BoundAssumption DEF LedgerIndex, TypeOK
<1> USE DEF TypeOK, AvoidInv, AvoidFiled, AvoidReleased
<1>1. ASSUME NEW th \in Thread, NEW s \in LedgerIndex, doValid(th, s)
      PROVE AvoidInv'
  <2>1. \A o \in Thread \ {Timer} : thr'[o].ledger = s \/ thr'[o] = thr[o]
    BY <1>1 DEF doValid, removeTxs, at
  <2>2. \A o \in Thread \ {Timer} : thr'[o].ledger <= validSeq'
    BY <1>0, <1>1, <2>1 DEF doValid, ThreadState
  <2>3. AvoidFiled' /\ AvoidReleased'  BY <1>1 DEF doValid, avoidVars
  <2>4. \A c \in cleared' : c <= validSeq'
    <3>1. cleared' = cleared /\ cleared \in SUBSET Nat /\ validSeq < validSeq' /\ validSeq' \in Nat
      BY <1>0, <1>1 DEF doValid
    <3> QED  BY <1>0, <3>1
  <2> QED  BY <2>2, <2>3, <2>4
<1>2. ASSUME NEW th \in Thread, NEW t \in Tx, removeTxsItem(th, t)
      PROVE AvoidInv'
  BY <1>2 DEF removeTxsItem, at, avoidVars, envVars
<1>3. ASSUME NEW th \in Thread, removeTxsClearAvoid(th)
      PROVE AvoidInv'
  <2>1. thr[th].ledger \in LedgerIndex  BY <1>3 DEF removeTxsClearAvoid
  <2>2. AvoidFiled'  BY <1>0, <1>3, <2>1 DEF removeTxsClearAvoid, clearAvoid
  <2>3. AvoidReleased'
    BY <1>0, <1>3, <2>1 DEF removeTxsClearAvoid, clearAvoid
  <2>4. \A s \in cleared' : s <= validSeq'
    BY <1>3 DEF removeTxsClearAvoid, envVars
  <2>5. \A o \in Thread \ {Timer} : thr'[o].ledger <= validSeq'
    BY <1>3 DEF removeTxsClearAvoid, at, envVars
  <2> QED  BY <2>2, <2>3, <2>4, <2>5
<1>4. ASSUME NEW th \in Thread, checkSyncStatus(th) \/ checkSyncStatusInit(th)
      PROVE AvoidInv'
  BY <1>0, <1>4 DEF checkSyncStatus, checkSyncStatusInit, at, idle, avoidVars, envVars
<1>5. ASSUME NEW txs \in SUBSET Tx, NEW s \in LedgerIndex, updateAvoid(txs, s)
      PROVE AvoidInv'
  <2>1. AvoidFiled'  BY <1>0, <1>5 DEF updateAvoid
  <2>2. s \notin cleared  BY <1>0, <1>5 DEF updateAvoid
  <2> QED  BY <1>5, <2>1, <2>2 DEF updateAvoid, envVars
<1>6. ASSUME NEW s \in LedgerIndex, clearAvoidOfLedger(s)
      PROVE AvoidInv'
  BY <1>0, <1>6 DEF clearAvoidOfLedger, clearAvoid, envVars
<1>7. CASE clearAllAvoid
  BY <1>0, <1>7 DEF clearAllAvoid, envVars
<1>8. CASE timerEntry
  BY <1>8 DEF timerEntry, removeTxs, avoidVars, envVars
<1>9. ASSUME NEW t \in Tx, removeTx(t)
      PROVE AvoidInv'
  <2>1. CASE mAvoidByHash[t] = 0  BY <1>9, <2>1 DEF removeTx, avoidVars, envVars
  <2>2. CASE mAvoidByHash[t] # 0
    <3>1. \A u \in Tx : mAvoidByHash'[u] = IF u = t THEN 0 ELSE mAvoidByHash[u]
      BY <1>9, <2>2 DEF removeTx
    <3>2. \A s \in LedgerIndex : mAvoidBySeq[s] \ {t} \subseteq mAvoidBySeq'[s]
      BY <1>9, <2>2 DEF removeTx
    <3>3. AvoidFiled'
      <4> SUFFICES ASSUME NEW u \in Tx, mAvoidByHash'[u] # 0
                   PROVE  u \in mAvoidBySeq'[mAvoidByHash'[u]]
        OBVIOUS
      <4>1. u # t /\ mAvoidByHash'[u] = mAvoidByHash[u]  BY <3>1
      <4>2. mAvoidByHash[u] \in LedgerIndex  BY <4>1, BoundAssumption DEF LedgerIndex
      <4> QED  BY <3>2, <4>1, <4>2
    <3>4. AvoidReleased'  BY <1>0, <1>9, <3>1 DEF removeTx
    <3> QED  BY <1>9, <3>3, <3>4 DEF removeTx, envVars
  <2> QED  BY <2>1, <2>2
<1>10. CASE sweep
  <2> DEFINE old == {t \in Tx : mAvoidByHash[t] # 0 /\ mAvoidByHash[t] < validSeq}
  <2>1. /\ \A t \in Tx : mAvoidByHash'[t] = IF t \in old THEN 0 ELSE mAvoidByHash[t]
        /\ \A s \in LedgerIndex :
              mAvoidBySeq'[s] = IF \E t \in old : mAvoidByHash[t] = s THEN {} ELSE mAvoidBySeq[s]
    BY <1>10 DEF sweep
  <2>2. AvoidFiled'
    <3> SUFFICES ASSUME NEW u \in Tx, mAvoidByHash'[u] # 0
                 PROVE  u \in mAvoidBySeq'[mAvoidByHash'[u]]
      OBVIOUS
    <3>1. u \notin old /\ mAvoidByHash'[u] = mAvoidByHash[u]  BY <2>1
    <3>2. mAvoidByHash[u] \in LedgerIndex  BY <3>1, BoundAssumption DEF LedgerIndex
    <3>3. ~ \E t \in old : mAvoidByHash[t] = mAvoidByHash[u]  BY <3>1
    <3> QED  BY <2>1, <3>1, <3>2, <3>3
  <2>3. AvoidReleased'  BY <1>0, <1>10, <2>1 DEF sweep
  <2> QED  BY <1>10, <2>2, <2>3 DEF sweep, envVars
<1>11. CASE UNCHANGED <<avoidVars, validSeq, thr, cleared>>
  BY <1>11 DEF avoidVars
<1>12. \/ UNCHANGED <<avoidVars, validSeq, thr, cleared>>
       \/ \E th \in Thread, s \in LedgerIndex : doValid(th, s)
       \/ \E th \in Thread : removeTxsStep(th)
       \/ \E txs \in SUBSET Tx, s \in LedgerIndex : updateAvoid(txs, s)
       \/ \E s \in LedgerIndex : clearAvoidOfLedger(s)
       \/ clearAllAvoid \/ timerEntry \/ sweep
       \/ \E t \in Tx : removeTx(t)
  BY DEF Next, vars, envVars, doTransactionCheck, insertTx, acquireLedger
<1> QED  BY <1>1, <1>2, <1>3, <1>4, <1>5, <1>6, <1>7, <1>8, <1>9, <1>10, <1>11, <1>12, Zenon
         DEF removeTxsStep

LEMMA AvoidInit == Init => AvoidInv
  BY BoundAssumption DEF Init, AvoidInv, AvoidFiled, AvoidReleased, idle, at

\* Every avoided hash is filed under the sequence its index names, so that clearing
\* that sequence releases it (updateAvoid, clearAvoid, removeTx and the sweep).
THEOREM AvoidAlwaysFiled == Spec => []AvoidFiled
<1>1. AvoidInv => AvoidFiled  BY DEF AvoidInv
<1> QED  BY <1>1, AvoidInit, AvoidStep, TypeCorrect, PTL DEF Spec

\* Once the validation of a ledger cleared its avoid set, nothing is avoided on
\* account of it again, for any interleaving of the accept job's updateAvoid
\* with the validating threads and the timer.
THEOREM AvoidAlwaysReleased == Spec => []AvoidReleased
<1>1. AvoidInv => AvoidReleased  BY DEF AvoidInv
<1> QED  BY <1>1, AvoidInit, AvoidStep, TypeCorrect, PTL DEF Spec

-----------------------------------------------------------------------------
(* The meaning of isAvailable.                                             *)

\* A pool without a start has the initial status.  Otherwise the ledgers below
\* the start and those in mapSynced have been removed, and so has the highest
\* one, whose entry is in mapSynced as long as the start is not past it.
SyncInv ==
    /\ mSyncStatus.pool_start_seq = 0 => mSyncStatus = sync_status_init
    /\ mSyncStatus.pool_start_seq > 0 =>
         /\ firstSeq \in LedgerIndex
         /\ \A s \in LedgerIndex :
               firstSeq <= s /\ s < mSyncStatus.pool_start_seq => s \in synced
         /\ mSyncStatus.mapSynced \subseteq synced
         /\ mSyncStatus.max_advance_seq # 0 => mSyncStatus.max_advance_seq \in synced
         /\ mSyncStatus.pool_start_seq <= mSyncStatus.max_advance_seq =>
               /\ mSyncStatus.pool_start_seq < mSyncStatus.max_advance_seq
               /\ mSyncStatus.max_advance_seq \in mSyncStatus.mapSynced

LEMMA SyncStep == TypeOK /\ SyncInv /\ [Next]_vars => SyncInv'
<1> SUFFICES ASSUME TypeOK, SyncInv, [Next]_vars PROVE SyncInv'  OBVIOUS
<1>0. LedgerIndex \in SUBSET Nat /\ 0 \notin LedgerIndex
  BY BoundAssumption DEF LedgerIndex
<1>t. /\ mSyncStatus \in SyncStatus /\ synced \in SUBSET LedgerIndex
      /\ mSyncStatus.pool_start_seq \in Nat /\ mSyncStatus.max_advance_seq \in 0..MaxSeq
      /\ mSyncStatus.mapSynced \in SUBSET LedgerIndex
      /\ MaxSeq \in Nat
  BY BoundAssumption DEF TypeOK, SyncStatus
<1>1. ASSUME NEW t \in Tx, NEW s \in LedgerIndex, doTransactionCheck(t, s)
      PROVE SyncInv'
  <2>1. CASE UNCHANGED syncVars  BY <2>1 DEF SyncInv, syncVars
  <2>2. CASE /\ mSyncStatus.pool_start_seq = 0
             /\ mSyncStatus' = sync_status(s, mSyncStatus.max_advance_seq,
                                           mSyncStatus.prevHash, mSyncStatus.mapSynced)
             /\ firstSeq' = s /\ synced' = {}
    <3>1. mSyncStatus' = sync_status(s, 0, 0, {})
      BY <2>2 DEF SyncInv, sync_status_init, sync_status
    <3> QED  BY <1>0, <2>2, <3>1 DEF SyncInv, sync_status
  <2> QED  BY <1>1, <2>1, <2>2 DEF doTransactionCheck, insertTx
<1>2. ASSUME NEW th \in Thread, checkSyncStatus(th)
      PROVE SyncInv'
  <2>1. CASE UNCHANGED syncVars  BY <2>1 DEF SyncInv, syncVars
  <2>2. CASE /\ mSyncStatus.pool_start_seq > 0
             /\ mSyncStatus' = syncStatusAfter(thr[th].ledger)
             /\ synced' = synced \cup {thr[th].ledger}
             /\ UNCHANGED firstSeq
    <3> DEFINE l == thr[th].ledger
               start == mSyncStatus.pool_start_seq
               max == IF mSyncStatus.max_advance_seq < l THEN l ELSE mSyncStatus.max_advance_seq
               map == mSyncStatus.mapSynced \cup {l}
               missing == Missing(start, max, map)
    <3>1. l \in LedgerIndex  BY <1>2 DEF checkSyncStatus, TypeOK
    <3>2. max \in LedgerIndex /\ max \in synced'
      BY <1>0, <1>t, <2>2, <3>1 DEF SyncInv, LedgerIndex
    <3>3. map \subseteq synced'  BY <2>2 DEF SyncInv
    <3>4. start <= max => max \in map
      BY <1>0, <1>t, <2>2, <3>1 DEF SyncInv
    <3>5. \A s \in LedgerIndex : firstSeq' <= s /\ s < start => s \in synced'
      BY <2>2 DEF SyncInv
    <3>6. missing # {} => /\ Highest(missing) + 1 \in map
                          /\ start < max
      <4> SUFFICES ASSUME missing # {}
                   PROVE  Highest(missing) + 1 \in map /\ start < max
        OBVIOUS
      <4>1. missing \in SUBSET LedgerIndex  BY DEF Missing
      <4>2. Highest(missing) \in missing  BY <4>1, HighestIn, Zenon
      <4>3. \A j \in missing : j <= Highest(missing)
        <5>1. \E i \in missing : \A j \in missing : j <= i
          BY <4>1, HasHighest
        <5> QED  BY <5>1 DEF Highest
      <4> HIDE DEF missing
      <4> DEFINE h == Highest(missing)
      <4>4. h \in LedgerIndex /\ start <= h /\ h < max
        BY <4>2, Zenon DEF missing, Missing
      <4>n. start \in Nat /\ max \in Nat /\ h \in Nat  BY <1>0, <1>t, <3>2, <4>4, Zenon
      <4> HIDE DEF h, start, max
      <4>5. start < max  BY <4>4, <4>n
      <4>6. CASE h + 1 = max  BY <3>4, <4>5, <4>6, <4>n DEF h
      <4>7. CASE h + 1 # max
        <5>1. h + 1 \in LedgerIndex /\ start <= h + 1 /\ h + 1 < max
          BY <1>t, <3>2, <4>4, <4>7, <4>n DEF LedgerIndex
        <5>2. h + 1 \notin missing
          <6>1. h + 1 \in missing => h + 1 <= h  BY <4>3 DEF h
          <6> QED  BY <4>n, <6>1
        <5> QED  BY <4>5, <5>1, <5>2 DEF h, missing, Missing
      <4> QED  BY <4>6, <4>7
    <3>7. mSyncStatus' = IF missing = {} \/ Highest(missing) + 1 \notin map
                         THEN sync_status(max + 1, max, mSyncStatus.prevHash, {})
                         ELSE sync_status(start, max, Highest(missing), map)
      BY <2>2 DEF syncStatusAfter
    <3>8. missing = {} => \A s \in LedgerIndex : firstSeq' <= s /\ s < max + 1 => s \in synced'
      <4> SUFFICES ASSUME missing = {}, NEW s \in LedgerIndex, firstSeq' <= s, s < max + 1
                   PROVE  s \in synced'
        OBVIOUS
      <4>1. CASE s < start  BY <3>5, <4>1
      <4>2. CASE s = max  BY <3>2, <4>2
      <4>3. CASE start <= s /\ s < max  BY <3>3, <4>3 DEF Missing
      <4> QED  BY <1>0, <1>t, <3>2, <4>1, <4>2, <4>3
    <3>9. start > 0 /\ firstSeq' \in LedgerIndex  BY <2>2 DEF SyncInv
    <3> HIDE DEF l, max, map, missing
    <3>10. CASE missing = {}
      <4>1. mSyncStatus' = sync_status(max + 1, max, mSyncStatus.prevHash, {})
        BY <3>7, <3>10
      <4> QED  BY <1>0, <3>2, <3>8, <3>9, <3>10, <4>1 DEF SyncInv, sync_status
    <3>11. CASE missing # {}
      <4>1. mSyncStatus' = sync_status(start, max, Highest(missing), map)
        BY <3>6, <3>7, <3>11
      <4> QED  BY <1>0, <3>2, <3>3, <3>4, <3>5, <3>6, <3>9, <3>11, <4>1
               DEF SyncInv, sync_status
    <3> QED  BY <3>10, <3>11
  <2> QED  BY <1>2, <2>1, <2>2 DEF checkSyncStatus
<1>3. ASSUME NEW th \in Thread, checkSyncStatusInit(th)
      PROVE SyncInv'
  BY <1>3 DEF checkSyncStatusInit, SyncInv, sync_status_init, sync_status
<1>4. CASE UNCHANGED syncVars  BY <1>4 DEF SyncInv, syncVars
<1>5. \/ UNCHANGED syncVars
      \/ \E t \in Tx, s \in LedgerIndex : doTransactionCheck(t, s)
      \/ \E th \in Thread : checkSyncStatus(th) \/ checkSyncStatusInit(th)
  BY Zenon DEF Next, vars, doValid, removeTxsStep, removeTxsItem, removeTxsClearAvoid,
         updateAvoid, clearAvoidOfLedger, clearAllAvoid, timerEntry, removeTx, sweep,
         acquireLedger
<1> QED  BY <1>1, <1>2, <1>3, <1>4, <1>5

\* An available pool has taken out every ledger from the first pooled
\* transaction's open ledger up to the highest validated one it has seen: what
\* checkSyncStatus infers from mapSynced is right for any order of ledgers.
THEOREM AvailableAlwaysSynced == Spec => []AvailableMeansSynced
<1>1. Init => SyncInv
  BY DEF Init, SyncInv, sync_status_init, sync_status
<1>2. TypeOK /\ SyncInv => AvailableMeansSynced
  <2> SUFFICES ASSUME TypeOK, SyncInv, mSyncStatus.pool_start_seq > 0, isAvailable,
                      NEW s \in firstSeq..mSyncStatus.max_advance_seq
               PROVE  s \in synced
    BY DEF AvailableMeansSynced
  <2>1. /\ mSyncStatus.pool_start_seq \in Nat /\ mSyncStatus.max_advance_seq \in 0..MaxSeq
        /\ firstSeq \in LedgerIndex
    BY BoundAssumption DEF TypeOK, SyncStatus, SyncInv
  <2>2. s \in LedgerIndex /\ s < mSyncStatus.pool_start_seq
    BY <2>1, BoundAssumption DEF LedgerIndex, SyncInv, isAvailable
  <2> QED  BY <2>1, <2>2, BoundAssumption DEF SyncInv, LedgerIndex
<1> QED  BY <1>1, <1>2, SyncStep, TypeCorrect, PTL DEF Spec

-----------------------------------------------------------------------------
(* The ledger that is asked for.                                           *)

\* The scan of checkSyncStatus stops at a missing ledger with none missing above it.
LEMMA HighestMissing ==
    ASSUME NEW start \in Nat, NEW max \in Nat, NEW map, Missing(start, max, map) # {}
    PROVE  LET h == Highest(Missing(start, max, map))
           IN  /\ h \in LedgerIndex /\ start <= h /\ h < max /\ h \notin map
               /\ \A s \in LedgerIndex : h < s /\ s < max => s \in map
<1> DEFINE missing == Missing(start, max, map)
           h == Highest(missing)
<1>1. missing \in SUBSET LedgerIndex /\ missing # {}  BY DEF Missing
<1>2. PICK i \in missing : \A j \in missing : j <= i
  <2> HIDE DEF missing
  <2>1. \E i \in missing : \A j \in missing : j <= i  BY <1>1, HasHighest, Zenon
  <2> QED  BY <2>1
<1>3. h \in missing /\ \A j \in missing : j <= h
  <2> HIDE DEF missing
  <2> QED  BY <1>2 DEF Highest
<1> HIDE DEF h
<1>4. h \in LedgerIndex /\ start <= h /\ h < max /\ h \notin map  BY <1>3 DEF Missing
<1>5. ASSUME NEW s \in LedgerIndex, h < s, s < max  PROVE s \in map
  <2>1. start <= s /\ ~(s <= h)
    BY <1>4, <1>5, BoundAssumption DEF LedgerIndex
  <2>2. s \notin missing  BY <1>3, <2>1
  <2> QED  BY <1>5, <2>1, <2>2 DEF Missing
<1> QED  BY <1>4, <1>5 DEF h

\* Only validated ledgers are stored, removed and recorded.
FetchInv ==
    /\ \A s \in have : s <= validSeq
    /\ \A th \in Thread : thr[th].ledger <= validSeq
    /\ mSyncStatus.max_advance_seq <= validSeq

\* What was removed is below the start or in mapSynced, and while the start is not past
\* the highest ledger prevHash is the highest one missing between the two.
AskInv ==
    mSyncStatus.pool_start_seq > 0 =>
        /\ \A s \in synced : s <= mSyncStatus.max_advance_seq
        /\ \A s \in synced : s < mSyncStatus.pool_start_seq \/ s \in mSyncStatus.mapSynced
        /\ ~isAvailable =>
             LET asked == mSyncStatus.prevHash
             IN  /\ asked \in LedgerIndex /\ asked \notin mSyncStatus.mapSynced
                 /\ mSyncStatus.pool_start_seq <= asked /\ asked < mSyncStatus.max_advance_seq
                 /\ \A s \in LedgerIndex :
                       asked < s /\ s < mSyncStatus.max_advance_seq => s \in mSyncStatus.mapSynced

LEMMA FetchStep == TypeOK /\ SyncInv /\ FetchInv /\ [Next]_vars => FetchInv'
<1> SUFFICES ASSUME TypeOK, SyncInv, FetchInv, [Next]_vars PROVE FetchInv'  OBVIOUS
<1>0. /\ LedgerIndex \in SUBSET Nat /\ validSeq \in Nat /\ have \in SUBSET LedgerIndex
      /\ mSyncStatus.max_advance_seq \in Nat
      /\ \A th \in Thread : thr[th].ledger \in Nat
      /\ thr \in [Thread -> ThreadState]
  BY BoundAssumption DEF LedgerIndex, TypeOK, SyncStatus, ThreadState
<1>1. ASSUME NEW th \in Thread, NEW s \in LedgerIndex, doValid(th, s)
      PROVE  FetchInv'
  <2>1. s > validSeq /\ validSeq' = s /\ have' = have \cup {s} /\ mSyncStatus' = mSyncStatus
        /\ thr' = [thr EXCEPT ![th] = at("items", s, chain[s])] /\ s \in Nat
    BY <1>0, <1>1 DEF doValid, removeTxs, syncVars
  <2>2. \A o \in Thread : thr'[o].ledger \in {s, thr[o].ledger}  BY <1>0, <2>1 DEF at
  <2>3. \A o \in Thread : thr'[o].ledger <= validSeq'  BY <1>0, <2>1, <2>2 DEF FetchInv
  <2>4. \A k \in have' : k <= validSeq'  BY <1>0, <2>1 DEF FetchInv
  <2> QED  BY <1>0, <2>1, <2>3, <2>4 DEF FetchInv
<1>2. ASSUME NEW th \in Thread, removeTxsStep(th)  PROVE FetchInv'
  <2>1. UNCHANGED <<have, validSeq>>
    BY <1>2 DEF removeTxsStep, removeTxsItem, removeTxsClearAvoid, checkSyncStatus,
                checkSyncStatusInit, envVars
  <2>2. \A o \in Thread : thr'[o].ledger \in {0, thr[o].ledger}
    BY <1>0, <1>2 DEF removeTxsStep, removeTxsItem, removeTxsClearAvoid, checkSyncStatus,
                checkSyncStatusInit, at, idle
  <2>3. \A o \in Thread : thr'[o].ledger <= validSeq'  BY <1>0, <2>1, <2>2 DEF FetchInv
  <2>4. mSyncStatus'.max_advance_seq \in {0, mSyncStatus.max_advance_seq, thr[th].ledger}
    <3>1. CASE UNCHANGED mSyncStatus  BY <3>1
    <3>2. CASE mSyncStatus' = sync_status_init  BY <3>2 DEF sync_status_init, sync_status
    <3>3. CASE mSyncStatus' = syncStatusAfter(thr[th].ledger)
      <4>1. syncStatusAfter(thr[th].ledger).max_advance_seq
              \in {mSyncStatus.max_advance_seq, thr[th].ledger}
        BY DEF syncStatusAfter, sync_status
      <4> QED  BY <3>3, <4>1
    <3> QED  BY <1>2, <3>1, <3>2, <3>3
             DEF removeTxsStep, removeTxsItem, removeTxsClearAvoid, checkSyncStatus,
                 checkSyncStatusInit, syncVars
  <2>5. mSyncStatus'.max_advance_seq <= validSeq  BY <1>0, <2>4 DEF FetchInv
  <2>6. \A s \in have' : s <= validSeq'  BY <2>1 DEF FetchInv
  <2> QED  BY <2>1, <2>3, <2>5, <2>6 DEF FetchInv
<1>3. CASE timerEntry
  <2>1. UNCHANGED <<have, validSeq, mSyncStatus>>  BY <1>3 DEF timerEntry, envVars, syncVars
  <2>2. \A o \in Thread : thr'[o].ledger = thr[o].ledger \/ thr'[o].ledger \in have
    BY <1>0, <1>3 DEF timerEntry, removeTxs, at
  <2> QED  BY <2>1, <2>2 DEF FetchInv
<1>4. ASSUME NEW t \in Tx, NEW s \in LedgerIndex, doTransactionCheck(t, s)
      PROVE  FetchInv'
  <2>1. UNCHANGED <<have, validSeq, thr>>
    BY <1>4 DEF doTransactionCheck, insertTx, envVars
  <2>2. mSyncStatus'.max_advance_seq = mSyncStatus.max_advance_seq
    BY <1>4 DEF doTransactionCheck, insertTx, syncVars, sync_status
  <2> QED  BY <2>1, <2>2 DEF FetchInv
<1>5. ASSUME NEW s \in LedgerIndex, acquireLedger(s)  PROVE FetchInv'
  BY <1>5 DEF acquireLedger, syncVars, FetchInv
<1>6. CASE UNCHANGED <<have, validSeq, thr, mSyncStatus>>  BY <1>6 DEF FetchInv
<1>7. \/ UNCHANGED <<have, validSeq, thr, mSyncStatus>>
      \/ \E t \in Tx, s \in LedgerIndex : doTransactionCheck(t, s)
      \/ \E th \in Thread, s \in LedgerIndex : doValid(th, s)
      \/ \E th \in Thread : removeTxsStep(th)
      \/ timerEntry
      \/ \E s \in LedgerIndex : acquireLedger(s)
  BY DEF Next, vars, envVars, syncVars, updateAvoid, clearAvoidOfLedger, clearAllAvoid,
         removeTx, sweep
<1> QED  BY <1>1, <1>2, <1>3, <1>4, <1>5, <1>6, <1>7

LEMMA AskStep == TypeOK /\ SyncInv /\ AskInv /\ [Next]_vars => AskInv'
<1> SUFFICES ASSUME TypeOK, SyncInv, AskInv, [Next]_vars PROVE AskInv'  OBVIOUS
<1>0. /\ LedgerIndex \in SUBSET Nat /\ 0 \notin LedgerIndex
      /\ synced \in SUBSET LedgerIndex
      /\ mSyncStatus.pool_start_seq \in Nat /\ mSyncStatus.max_advance_seq \in Nat
  BY BoundAssumption DEF LedgerIndex, TypeOK, SyncStatus
<1>1. ASSUME NEW t \in Tx, NEW s \in LedgerIndex, doTransactionCheck(t, s)
      PROVE  AskInv'
  <2>1. CASE UNCHANGED syncVars  BY <2>1 DEF AskInv, isAvailable, syncVars
  <2>2. CASE /\ mSyncStatus.pool_start_seq = 0
             /\ mSyncStatus' = sync_status(s, mSyncStatus.max_advance_seq,
                                           mSyncStatus.prevHash, mSyncStatus.mapSynced)
             /\ synced' = {}
    <3>1. mSyncStatus' = sync_status(s, 0, 0, {})
      BY <2>2 DEF SyncInv, sync_status_init, sync_status
    <3> QED  BY <1>0, <2>2, <3>1 DEF AskInv, isAvailable, sync_status
  <2> QED  BY <1>1, <2>1, <2>2 DEF doTransactionCheck, insertTx
<1>2. ASSUME NEW th \in Thread, checkSyncStatus(th)
      PROVE  AskInv'
  <2>1. CASE UNCHANGED syncVars  BY <2>1 DEF AskInv, isAvailable, syncVars
  <2>2. CASE /\ mSyncStatus.pool_start_seq > 0
             /\ mSyncStatus' = syncStatusAfter(thr[th].ledger)
             /\ synced' = synced \cup {thr[th].ledger}
    <3> DEFINE l == thr[th].ledger
               start == mSyncStatus.pool_start_seq
               max == IF mSyncStatus.max_advance_seq < l THEN l ELSE mSyncStatus.max_advance_seq
               map == mSyncStatus.mapSynced \cup {l}
               missing == Missing(start, max, map)
    <3>1. l \in LedgerIndex  BY <1>2 DEF checkSyncStatus, TypeOK
    <3>2. max \in Nat /\ \A s \in synced' : s \in Nat /\ s <= max
      <4>n. l \in Nat  BY <1>0, <3>1
      <4>1. max \in Nat /\ mSyncStatus.max_advance_seq <= max /\ l <= max /\ l \in Nat
        <5> HIDE DEF l
        <5> QED  BY <1>0, <4>n
      <4>2. \A s \in synced : s \in Nat /\ s <= mSyncStatus.max_advance_seq
        BY <1>0, <2>2 DEF AskInv
      <4> HIDE DEF l, max
      <4>3. \A s \in synced : s <= max  BY <1>0, <4>1, <4>2
      <4> QED  BY <2>2, <4>1, <4>2, <4>3 DEF l
    <3>3. \A s \in synced' : s < start \/ s \in map  BY <2>2 DEF AskInv
    <3>4. CASE mSyncStatus' = sync_status(max + 1, max, mSyncStatus.prevHash, {})
      <4> HIDE DEF max
      <4>1. mSyncStatus'.pool_start_seq = max + 1 /\ mSyncStatus'.max_advance_seq = max
        BY <3>4 DEF sync_status
      <4>2. isAvailable'  BY <3>2, <4>1 DEF isAvailable
      <4>3. \A s \in synced' : s < max + 1  BY <3>2
      <4> QED  BY <3>2, <4>1, <4>2, <4>3 DEF AskInv
    <3>5. CASE missing # {} /\ mSyncStatus' = sync_status(start, max, Highest(missing), map)
      <4>1. LET h == Highest(missing)
            IN  /\ h \in LedgerIndex /\ start <= h /\ h < max /\ h \notin map
                /\ \A s \in LedgerIndex : h < s /\ s < max => s \in map
        <5>1. start \in Nat  BY <1>0
        <5> HIDE DEF l, start, max, map
        <5> QED  BY <3>2, <3>5, <5>1, HighestMissing
      <4> HIDE DEF l, start, max, map, missing
      <4>2. /\ mSyncStatus'.pool_start_seq = start /\ mSyncStatus'.max_advance_seq = max
            /\ mSyncStatus'.prevHash = Highest(missing) /\ mSyncStatus'.mapSynced = map
        BY <3>5 DEF sync_status
      <4> QED  BY <3>2, <3>3, <4>1, <4>2 DEF AskInv
    <3>6. mSyncStatus' = IF missing = {} \/ Highest(missing) + 1 \notin map
                         THEN sync_status(max + 1, max, mSyncStatus.prevHash, {})
                         ELSE sync_status(start, max, Highest(missing), map)
      BY <2>2 DEF syncStatusAfter
    <3> QED  BY <3>4, <3>5, <3>6
  <2> QED  BY <1>2, <2>1, <2>2 DEF checkSyncStatus
<1>3. ASSUME NEW th \in Thread, checkSyncStatusInit(th)
      PROVE  AskInv'
  BY <1>3 DEF checkSyncStatusInit, AskInv, sync_status_init, sync_status
<1>4. CASE UNCHANGED syncVars  BY <1>4 DEF AskInv, isAvailable, syncVars
<1>5. \/ UNCHANGED syncVars
      \/ \E t \in Tx, s \in LedgerIndex : doTransactionCheck(t, s)
      \/ \E th \in Thread : checkSyncStatus(th) \/ checkSyncStatusInit(th)
  BY Zenon DEF Next, vars, doValid, removeTxsStep, removeTxsItem, removeTxsClearAvoid,
         updateAvoid, clearAvoidOfLedger, clearAllAvoid, timerEntry, removeTx, sweep,
         acquireLedger
<1> QED  BY <1>1, <1>2, <1>3, <1>4, <1>5

\* A pool that is not available asks for the highest ledger it misses, one that was
\* validated and that it has not removed before (checkSyncStatus, timerEntry), for any
\* chain and any number of threads inside removeTxs.
THEOREM AlwaysAsksForMissing == Spec => []AsksForMissing
<1>1. Init => FetchInv /\ AskInv
  BY BoundAssumption DEF Init, FetchInv, AskInv, sync_status_init, sync_status, idle, at
<1>2. TypeOK /\ SyncInv /\ FetchInv /\ AskInv => AsksForMissing
  <2> SUFFICES ASSUME TypeOK, SyncInv, FetchInv, AskInv, ~isAvailable  PROVE AsksForMissing
    BY DEF AsksForMissing
  <2> DEFINE asked == mSyncStatus.prevHash
             start == mSyncStatus.pool_start_seq
             max == mSyncStatus.max_advance_seq
  <2>1. start \in Nat /\ max \in Nat /\ validSeq \in Nat /\ LedgerIndex \in SUBSET Nat
    BY BoundAssumption DEF TypeOK, SyncStatus, LedgerIndex
  <2>2. start > 0
    BY <2>1 DEF SyncInv, sync_status_init, sync_status, isAvailable
  <2>3. /\ asked \in LedgerIndex /\ asked \notin mSyncStatus.mapSynced
        /\ start <= asked /\ asked < max
        /\ \A s \in LedgerIndex : asked < s /\ s < max => s \in mSyncStatus.mapSynced
    BY <2>2 DEF AskInv
  <2>4. /\ \A s \in synced : s < start \/ s \in mSyncStatus.mapSynced
        /\ mSyncStatus.mapSynced \subseteq synced /\ (max # 0 => max \in synced)
    BY <2>2 DEF AskInv, SyncInv
  <2>5. max <= validSeq  BY DEF FetchInv
  <2> HIDE DEF asked, start, max
  <2>6. asked \in Nat /\ max # 0 /\ asked < validSeq /\ ~(asked < start)
    BY <2>1, <2>3, <2>5
  <2>7. asked \notin synced  BY <2>3, <2>4, <2>6
  <2>8. ASSUME NEW s \in LedgerIndex, asked < s, s <= max  PROVE s \in synced
    <3>1. s < max \/ s = max  BY <2>1, <2>8
    <3> QED  BY <2>3, <2>4, <2>6, <2>8, <3>1
  <2> QED  BY <2>3, <2>6, <2>7, <2>8 DEF AsksForMissing, asked, start, max
<1>3. Init => SyncInv
  BY DEF Init, SyncInv, sync_status_init, sync_status
<1> QED  BY <1>1, <1>2, <1>3, FetchStep, AskStep, SyncStep, TypeCorrect, PTL DEF Spec
=============================================================================
