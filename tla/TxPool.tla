------------------------------- MODULE TxPool -------------------------------
(***************************************************************************)
(* The transaction pool of a node, peersafe/app/misc/TxPool.{h,cpp}: the   *)
(* transactions waiting for a ledger (mTxsSet and its index mTxsHash), the *)
(* transactions a built but not yet validated ledger already holds         *)
(* (mAvoidBySeq, mAvoidByHash), the recent transactions met in a ledger    *)
(* before they were submitted (mInLedgerCache), and the bookkeeping that   *)
(* tells whether every validated ledger since the first pooled transaction *)
(* has been taken out of the pool (mSyncStatus).                           *)
(*                                                                         *)
(* removeTxs is not atomic: it takes mutexSet_ once per transaction, then  *)
(* mutexAvoid_, then mutexMapSynced_, and it runs both on the thread that  *)
(* validates a ledger and on the heartbeat timer.  A thread's progress is  *)
(* thr[th].  Every other operation holds its lock throughout and is one    *)
(* action.  The validated chain is a single one: the ledger of sequence s  *)
(* has the transactions chain[s], and s also stands for its hash.          *)
(***************************************************************************)
EXTENDS Integers, FiniteSets

CONSTANTS
    Tx,             \* transaction identifiers
    Slot,           \* (account, sequence) pairs, what transactionCompare compares
    slotOf,         \* the pair a transaction carries
    lastLedgerSeq,  \* sfLastLedgerSequence of a transaction, 0 when absent
    mMaxTxsInPool,  \* txPOOL_CAPACITY
    MaxSeq,         \* the highest ledger sequence considered
    Thread,         \* the threads that run removeTxs
    Timer           \* the one of them that is the heartbeat timer

ASSUME TxAssumption ==
    /\ slotOf \in [Tx -> Slot]
    /\ lastLedgerSeq \in [Tx -> Nat]
    /\ IsFiniteSet(Tx)
ASSUME BoundAssumption ==
    /\ mMaxTxsInPool \in Nat
    /\ MaxSeq \in Nat
    /\ Timer \in Thread

VARIABLES
    chain,           \* transactions of each validated ledger
    have,            \* sequences of the validated ledgers stored locally
    validSeq,        \* LedgerMaster::getValidLedgerIndex
    mTxsSet, mTxsHash,
    mInLedgerCache,
    mAvoidBySeq,     \* {} stands for an absent entry
    mAvoidByHash,    \* 0 stands for an absent entry
    mSyncStatus,     \* pool_start_seq, max_advance_seq, prevHash, mapSynced
    thr,             \* where each thread is in removeTxs
    firstSeq,        \* history: pool_start_seq when the pool last became non-empty
    synced,          \* history: ledgers removed since then
    cleared          \* history: ledgers whose validation cleared the avoid set

poolVars == <<mTxsSet, mTxsHash, mInLedgerCache>>
avoidVars == <<mAvoidBySeq, mAvoidByHash>>
syncVars == <<mSyncStatus, firstSeq, synced>>
envVars == <<chain, have, validSeq>>
vars == <<envVars, poolVars, avoidVars, syncVars, thr, cleared>>

LedgerIndex == 1..MaxSeq

at(pc, ledger, todo) == [pc |-> pc, ledger |-> ledger, todo |-> todo]
idle == at("idle", 0, {})

sync_status(start, max, hash, map) ==
    [pool_start_seq |-> start, max_advance_seq |-> max, prevHash |-> hash, mapSynced |-> map]

\* sync_status::init
sync_status_init == sync_status(0, 0, 0, {})

SyncStatus ==
    [pool_start_seq : 0..(MaxSeq + 1), max_advance_seq : 0..MaxSeq,
     prevHash : 0..MaxSeq, mapSynced : SUBSET LedgerIndex]

ThreadState ==
    [pc : {"idle", "items", "check", "init"}, ledger : 0..MaxSeq, todo : SUBSET Tx]

TypeOK ==
    /\ chain \in [LedgerIndex -> SUBSET Tx]
    /\ have \in SUBSET LedgerIndex
    /\ validSeq \in 0..MaxSeq
    /\ mTxsSet \in SUBSET Tx
    /\ mTxsHash \in SUBSET Tx
    /\ mInLedgerCache \in SUBSET Tx
    /\ mAvoidBySeq \in [LedgerIndex -> SUBSET Tx]
    /\ mAvoidByHash \in [Tx -> 0..MaxSeq]
    /\ mSyncStatus \in SyncStatus
    /\ thr \in [Thread -> ThreadState]
    /\ \A th \in Thread : thr[th].pc # "idle" => thr[th].ledger \in LedgerIndex
    /\ firstSeq \in 0..MaxSeq
    /\ synced \in SUBSET LedgerIndex
    /\ cleared \in SUBSET LedgerIndex

\* A transaction is in at most one validated ledger.
Init ==
    /\ chain \in {c \in [LedgerIndex -> SUBSET Tx] :
                    \A s1, s2 \in LedgerIndex : s1 # s2 => c[s1] \cap c[s2] = {}}
    /\ have = {}
    /\ validSeq = 0
    /\ mTxsSet = {} /\ mTxsHash = {} /\ mInLedgerCache = {}
    /\ mAvoidBySeq = [s \in LedgerIndex |-> {}]
    /\ mAvoidByHash = [t \in Tx |-> 0]
    /\ mSyncStatus = sync_status_init
    /\ thr = [th \in Thread |-> idle]
    /\ firstSeq = 0 /\ synced = {} /\ cleared = {}

-----------------------------------------------------------------------------
(* Submission.                                                             *)

\* Mutant: the pool tells transactions apart by hash only.
SlotTakenByHash(t) == t \in mTxsSet

\* transactionCompare: two transactions of one account and sequence are equal.
SlotTaken(t) == \E u \in mTxsSet : slotOf[u] = slotOf[t]

\* insertTx: full pool, already applied, inserted (its index entry added, or the
\* insertion undone when the index has one), or a transaction of the same slot.
insertTx(t, ledgerSeq) ==
    /\ IF \/ Cardinality(mTxsSet) >= mMaxTxsInPool
          \/ t \in mInLedgerCache
          \/ SlotTaken(t)
          \/ t \in mTxsHash
       THEN UNCHANGED <<poolVars, syncVars>>
       ELSE /\ mTxsSet' = mTxsSet \cup {t}
            /\ mTxsHash' = mTxsHash \cup {t}
            /\ IF mSyncStatus.pool_start_seq = 0
               THEN /\ mSyncStatus' = sync_status(ledgerSeq, mSyncStatus.max_advance_seq,
                                                  mSyncStatus.prevHash, mSyncStatus.mapSynced)
                    /\ firstSeq' = ledgerSeq
                    /\ synced' = {}
               ELSE UNCHANGED syncVars
            /\ UNCHANGED mInLedgerCache
    /\ UNCHANGED <<envVars, avoidVars, thr, cleared>>

\* NetworkOPsImp::doTransactionCheck: a transaction the pool has is refused; the
\* others are inserted if their check against the open ledger succeeds, which
\* fails for a transaction that the chain below the open ledger has.
doTransactionCheck(t, ledgerSeq) ==
    /\ t \notin mTxsHash
    /\ \A s \in LedgerIndex : s < ledgerSeq => t \notin chain[s]
    /\ insertTx(t, ledgerSeq)

-----------------------------------------------------------------------------
(* Removal of the transactions of a validated ledger.                      *)

\* Mutant: clearAvoid forgets the index.
clearAvoidKeepsIndex(seq) ==
    /\ mAvoidBySeq' = [mAvoidBySeq EXCEPT ![seq] = {}]
    /\ UNCHANGED mAvoidByHash

\* clearAvoid(seq): drops the index entry of every hash filed under seq, then
\* the file.
clearAvoid(seq) ==
    /\ mAvoidByHash' = [t \in Tx |-> IF t \in mAvoidBySeq[seq] THEN 0 ELSE mAvoidByHash[t]]
    /\ mAvoidBySeq' = [mAvoidBySeq EXCEPT ![seq] = {}]

removeTxs(th, seq) ==
    thr' = [thr EXCEPT ![th] = at("items", seq, chain[seq])]

\* One iteration of removeTxs' loop, under mutexSet_.
removeTxsItem(th, t) ==
    /\ thr[th].pc = "items" /\ t \in thr[th].todo
    /\ IF t \notin mTxsHash
       THEN /\ mInLedgerCache' = mInLedgerCache \cup {t}
            /\ UNCHANGED <<mTxsSet, mTxsHash>>
       ELSE /\ mTxsHash' = mTxsHash \ {t}
            /\ mTxsSet' = mTxsSet \ {t}
            /\ UNCHANGED mInLedgerCache
    /\ thr' = [thr EXCEPT ![th] = at("items", thr[th].ledger, thr[th].todo \ {t})]
    /\ UNCHANGED <<envVars, avoidVars, syncVars, cleared>>

\* The loop is over: removeTxs clears the avoid set of the ledger.
removeTxsClearAvoid(th) ==
    /\ thr[th].pc = "items" /\ thr[th].todo = {}
    /\ clearAvoid(thr[th].ledger)
    /\ thr' = [thr EXCEPT ![th] = at("check", thr[th].ledger, {})]
    /\ cleared' = IF th = Timer THEN cleared ELSE cleared \cup {thr[th].ledger}
    /\ UNCHANGED <<envVars, poolVars, syncVars>>

\* Mutant: the scan stops one ledger above the start.
MissingAboveStart(start, max, map) ==
    {i \in LedgerIndex : start < i /\ i < max /\ i \notin map}

\* The sequences below max_advance_seq that checkSyncStatus finds missing.
Missing(start, max, map) ==
    {i \in LedgerIndex : start <= i /\ i < max /\ i \notin map}

\* The highest of a non-empty set of sequences.
Highest(S) == CHOOSE i \in S : \A j \in S : j <= i

\* Mutant: the start moves two past the ledger.
syncStatusSkipsOne(ledgerSeq) ==
    sync_status(ledgerSeq + 2, ledgerSeq, mSyncStatus.prevHash, {})

\* Mutant: asks again for the ledger it has instead of a missing one.
syncStatusAsksAgain(ledgerSeq) ==
    LET max == IF mSyncStatus.max_advance_seq < ledgerSeq
               THEN ledgerSeq ELSE mSyncStatus.max_advance_seq
        map == mSyncStatus.mapSynced \cup {ledgerSeq}
    IN  IF Missing(mSyncStatus.pool_start_seq, max, map) = {}
        THEN sync_status(max + 1, max, mSyncStatus.prevHash, {})
        ELSE sync_status(mSyncStatus.pool_start_seq, max, ledgerSeq, map)

\* checkSyncStatus for a non-empty pool: records the ledger, then either asks
\* for the highest missing one, by the parent hash of its successor, or, when
\* none is missing or the successor's entry is absent (mapSynced[i + 1] is then
\* the zero hash), moves the start past the ledgers seen.
syncStatusAfter(ledgerSeq) ==
    LET max == IF mSyncStatus.max_advance_seq < ledgerSeq
               THEN ledgerSeq ELSE mSyncStatus.max_advance_seq
        map == mSyncStatus.mapSynced \cup {ledgerSeq}
        missing == Missing(mSyncStatus.pool_start_seq, max, map)
    IN  IF missing = {} \/ Highest(missing) + 1 \notin map
        THEN sync_status(max + 1, max, mSyncStatus.prevHash, {})
        ELSE sync_status(mSyncStatus.pool_start_seq, max, Highest(missing), map)

\* checkSyncStatus holds mutexMapSynced_, but reads the size of mTxsSet without
\* mutexSet_: a transaction may be inserted before init() runs.
checkSyncStatus(th) ==
    /\ thr[th].pc = "check"
    /\ \A other \in Thread : thr[other].pc # "init"
    /\ IF mTxsSet = {}
       THEN /\ thr' = [thr EXCEPT ![th] = at("init", thr[th].ledger, {})]
            /\ UNCHANGED syncVars
       ELSE /\ thr' = [thr EXCEPT ![th] = idle]
            /\ IF mSyncStatus.pool_start_seq > 0
               THEN /\ mSyncStatus' = syncStatusAfter(thr[th].ledger)
                    /\ synced' = synced \cup {thr[th].ledger}
                    /\ UNCHANGED firstSeq
               ELSE UNCHANGED syncVars
    /\ UNCHANGED <<envVars, poolVars, avoidVars, cleared>>

\* Mutant: init() forgets to reset the highest sequence.
checkSyncStatusInitKeepsMax(th) ==
    /\ thr[th].pc = "init"
    /\ mSyncStatus' = sync_status(0, mSyncStatus.max_advance_seq, 0, {})
    /\ firstSeq' = 0 /\ synced' = {}
    /\ thr' = [thr EXCEPT ![th] = idle]
    /\ UNCHANGED <<envVars, poolVars, avoidVars, cleared>>

checkSyncStatusInit(th) ==
    /\ thr[th].pc = "init"
    /\ mSyncStatus' = sync_status_init
    /\ firstSeq' = 0 /\ synced' = {}
    /\ thr' = [thr EXCEPT ![th] = idle]
    /\ UNCHANGED <<envVars, poolVars, avoidVars, cleared>>

\* LedgerMaster::doValid: the validated sequence moves before removeTxs starts.
doValid(th, seq) ==
    /\ th # Timer /\ thr[th] = idle
    /\ seq > validSeq
    /\ validSeq' = seq
    /\ have' = have \cup {seq}
    /\ removeTxs(th, seq)
    /\ UNCHANGED <<chain, poolVars, avoidVars, syncVars, cleared>>

-----------------------------------------------------------------------------
(* The avoid set, the timer and the sweep.                                 *)

\* Mutant: a ledger built after its sequence was validated is avoided as well.
updateAvoidAlways(txs, seq) ==
    /\ mAvoidBySeq' = [mAvoidBySeq EXCEPT ![seq] = @ \cup txs]
    /\ mAvoidByHash' = [t \in Tx |-> IF t \in txs /\ mAvoidByHash[t] = 0
                                     THEN seq ELSE mAvoidByHash[t]]
    /\ UNCHANGED <<envVars, poolVars, syncVars, thr, cleared>>

\* updateAvoid: nothing for a sequence already validated; a hash already filed
\* under another sequence keeps that sequence in the index.
updateAvoid(txs, seq) ==
    /\ validSeq < seq
    /\ mAvoidBySeq' = [mAvoidBySeq EXCEPT ![seq] = @ \cup txs]
    /\ mAvoidByHash' = [t \in Tx |-> IF t \in txs /\ mAvoidByHash[t] = 0
                                     THEN seq ELSE mAvoidByHash[t]]
    /\ UNCHANGED <<envVars, poolVars, syncVars, thr, cleared>>

\* clearAvoid(seq), from PopConsensus::handleWrongLedger.
clearAvoidOfLedger(seq) ==
    clearAvoid(seq) /\ UNCHANGED <<envVars, poolVars, syncVars, thr, cleared>>

\* clearAvoid(), from the rollback of PopConsensus::timerEntry.
clearAllAvoid ==
    /\ mAvoidByHash' = [t \in Tx |-> 0]
    /\ mAvoidBySeq' = [s \in LedgerIndex |-> {}]
    /\ UNCHANGED <<envVars, poolVars, syncVars, thr, cleared>>

isAvailable == mSyncStatus.max_advance_seq <= mSyncStatus.pool_start_seq

\* timerEntry: while ledgers are missing, removes the one of hash prevHash if it
\* is stored.  Otherwise only entries of mInLedgerCache older than 60s go.
timerEntry ==
    /\ thr[Timer] = idle
    /\ IF ~isAvailable /\ mSyncStatus.prevHash \in have
       THEN removeTxs(Timer, mSyncStatus.prevHash) /\ UNCHANGED mInLedgerCache
       ELSE mInLedgerCache' \in SUBSET mInLedgerCache /\ UNCHANGED thr
    /\ UNCHANGED <<envVars, mTxsSet, mTxsHash, avoidVars, syncVars, cleared>>

\* removeTx: out of the pool, then out of the file its index entry names.
removeTx(t) ==
    /\ mTxsHash' = mTxsHash \ {t}
    /\ mTxsSet' = mTxsSet \ {t}
    /\ IF mAvoidByHash[t] # 0
       THEN /\ mAvoidBySeq' = [mAvoidBySeq EXCEPT ![mAvoidByHash[t]] = @ \ {t}]
            /\ mAvoidByHash' = [mAvoidByHash EXCEPT ![t] = 0]
       ELSE UNCHANGED avoidVars
    /\ UNCHANGED <<envVars, mInLedgerCache, syncVars, thr, cleared>>

\* sweep, removeExpired: transactions whose last ledger has passed, and index
\* entries of sequences below the validated one with the files they name.
sweep ==
    LET expired == {t \in mTxsSet : lastLedgerSeq[t] # 0 /\ lastLedgerSeq[t] < validSeq}
        old == {t \in Tx : mAvoidByHash[t] # 0 /\ mAvoidByHash[t] < validSeq}
    IN  /\ mTxsSet' = mTxsSet \ expired
        /\ mTxsHash' = mTxsHash \ expired
        /\ mAvoidByHash' = [t \in Tx |-> IF t \in old THEN 0 ELSE mAvoidByHash[t]]
        /\ mAvoidBySeq' = [s \in LedgerIndex |->
                             IF \E t \in old : mAvoidByHash[t] = s THEN {} ELSE mAvoidBySeq[s]]
        /\ UNCHANGED <<envVars, mInLedgerCache, syncVars, thr, cleared>>

\* InboundLedgers delivers a validated ledger that was skipped.
acquireLedger(seq) ==
    /\ seq <= validSeq /\ seq \notin have
    /\ have' = have \cup {seq}
    /\ UNCHANGED <<chain, validSeq, poolVars, avoidVars, syncVars, thr, cleared>>

-----------------------------------------------------------------------------
removeTxsStep(th) ==
    \/ \E t \in Tx : removeTxsItem(th, t)
    \/ removeTxsClearAvoid(th)
    \/ checkSyncStatus(th)
    \/ checkSyncStatusInit(th)

Next ==
    \/ \E t \in Tx, s \in LedgerIndex : doTransactionCheck(t, s)
    \/ \E th \in Thread, s \in LedgerIndex : doValid(th, s)
    \/ \E th \in Thread : removeTxsStep(th)
    \/ \E txs \in SUBSET Tx, s \in LedgerIndex : updateAvoid(txs, s)
    \/ \E s \in LedgerIndex : clearAvoidOfLedger(s)
    \/ clearAllAvoid
    \/ timerEntry
    \/ \E t \in Tx : removeTx(t)
    \/ sweep
    \/ \E s \in LedgerIndex : acquireLedger(s)

Spec == Init /\ [][Next]_vars

\* The heartbeat timer keeps firing, a thread inside removeTxs goes on, and the
\* ledger history fetch of LedgerMaster delivers the ledgers that were skipped.
FairSpec ==
    /\ Spec
    /\ WF_vars(timerEntry)
    /\ \A th \in Thread : WF_vars(removeTxsStep(th))
    /\ \A s \in LedgerIndex : WF_vars(acquireLedger(s))

-----------------------------------------------------------------------------
(* Properties.                                                             *)

\* mTxsSet and its index mTxsHash hold the same transactions, never two of one
\* (account, sequence), and never more than the capacity, although insertTx,
\* removeTxs, removeTx and removeExpired each update both containers by hand.
PoolConsistent ==
    /\ mTxsHash = mTxsSet
    /\ \A t, u \in mTxsSet : slotOf[t] = slotOf[u] => t = u
    /\ Cardinality(mTxsSet) <= mMaxTxsInPool

\* Every entry of mAvoidByHash is filed in mAvoidBySeq under the sequence it
\* names: clearAvoid(seq), which walks the file, can therefore release it.
AvoidFiled ==
    \A t \in Tx : mAvoidByHash[t] # 0 => t \in mAvoidBySeq[mAvoidByHash[t]]

\* Once the validation of a ledger has cleared its avoid set, no transaction is
\* avoided on account of that ledger again, however updateAvoid (on the accept
\* job), doValid and the timer interleave: no transaction stays hidden from
\* topTransactions for a ledger that will not be validated a second time.
AvoidReleased ==
    \A t \in Tx : mAvoidByHash[t] \notin cleared

\* When the pool calls itself available (the leader may propose from it), every
\* ledger from the first pooled transaction's open ledger up to the highest
\* validated one seen has been removed from it, whatever ledgers were skipped
\* and in whatever order the two threads removed them.
AvailableMeansSynced ==
    mSyncStatus.pool_start_seq > 0 /\ isAvailable
        => \A s \in firstSeq..mSyncStatus.max_advance_seq : s \in synced

\* A pool that is not available asks, by prevHash, for the highest ledger it misses:
\* one below the last validated ledger, which can be fetched, and never one it has
\* removed already, in whatever order the two threads removed ledgers and however
\* often checkSyncStatus moved the start between.
AsksForMissing ==
    ~isAvailable =>
        LET asked == mSyncStatus.prevHash
        IN  /\ mSyncStatus.pool_start_seq <= asked /\ asked < validSeq /\ asked \notin synced
            /\ \A s \in LedgerIndex : asked < s /\ s <= mSyncStatus.max_advance_seq => s \in synced

\* A pool that has fallen behind asks, by prevHash, for each ledger it misses
\* and becomes available again: timerEntry never waits for a ledger it has.
PoolRecovers == ~isAvailable ~> isAvailable
=============================================================================
