----------------------------- MODULE TableSync -----------------------------
(***************************************************************************)
(* Table synchronisation of peersafe/app/table (TableSync, TableSyncItem): *)
(* a node replays into its database the transactions that the published    *)
(* ledgers hold for one table.  Three jobs run in parallel:                *)
(*   TableSyncThread   drives the item's state;                            *)
(*   LocalSyncThread   reads ledgers and queues what they hold;            *)
(*   OperateSQLThread  executes the queue in the database.                 *)
(* The ledgers come from the node's own store: [remote_sync] is off, as it *)
(* is by default.                                                          *)
(*                                                                         *)
(* A ledger's transactions for the table are cut into slices, one database *)
(* transaction each (fetchLedgerTxSlices); <<s, i>> is slice i of ledger s *)
(* and also stands for the hash of its last transaction.  A ledger number  *)
(* stands for the ledger's hash as well: published ledgers form one chain. *)
(* A slice that is rolled back (a failed SQLTransaction) counts as         *)
(* executed.  The data of a slice and the table's row of SyncTableState    *)
(* are committed by one database transaction.  A crash may come at any     *)
(* time, the connection may be lost at any statement, a commit may fail.   *)
(***************************************************************************)
EXTENDS Integers, Sequences, FiniteSets

CONSTANTS
    CreateSeq,  \* createLgrSeq: the ledger before the one that creates the table
    MaxSeq,     \* bound: the last ledger
    slices,     \* the number of slices of each ledger, 0: the table is not touched
    Span,       \* the 256 of getCandidateLedger
    MAX_CONN_RETRY_COUNT,
    MaxFail,    \* bound: failed commits
    MaxCrash    \* bound: crashes

ASSUME TableAssumption ==
    /\ CreateSeq \in Nat \ {0} /\ MaxSeq \in Nat /\ MaxSeq > CreateSeq
    /\ slices \in [CreateSeq + 1 .. MaxSeq -> Nat]
    /\ slices[CreateSeq + 1] > 0
    /\ Span \in Nat \ {0}
    /\ MAX_CONN_RETRY_COUNT \in Nat /\ MaxFail \in Nat /\ MaxCrash \in Nat

VARIABLES
    published,  \* sequence number of the published ledger
    have,       \* mCompleteLedgers
    advancing,  \* ledgers were published, TryTableSync is still to be called
    row,        \* the table's row of SyncTableState, in the database
    contents,   \* history: the slices the table in the database is made of
    item,       \* the TableSyncItem
    listed,     \* the item is in listTableInfo_
    syncJob,    \* TableSyncThread; its pc is "idle" iff bTableSyncThread_ is false
    localJob,   \* LocalSyncThread; likewise for bLocalSyncThread_
    sqlJob,     \* OperateSQLThread; likewise for bOperateSQL_
    failed,     \* history: number of commits and row updates that failed
    crashed     \* number of crashes

ledgerVars == <<published, have, advancing>>
dbVars == <<row, contents>>
vars == <<ledgerVars, dbVars, item, listed, syncJob, localJob, sqlJob, failed, crashed>>

Ledger == CreateSeq + 1 .. MaxSeq
Seqs == 0 .. MaxSeq
NoTx == <<0, 0>>
Slice == Seqs \X Nat

\* The slice that creates the table: DealWithEveryTx drops the table first.
Creation == <<CreateSeq + 1, 1>>

Touches(s) == s > CreateSeq /\ slices[s] > 0
Untouched(a, b) == \A s \in Ledger : a < s /\ s <= b => ~Touches(s)

\* The table's entry in ledger k: txn is the last ledger that touched the table,
\* prev the one before it, or 0.
TableEntry(k, txn, prev) ==
    /\ txn <= k /\ Touches(txn) /\ Untouched(txn, k)
    /\ prev < txn /\ (prev = 0 \/ Touches(prev)) /\ Untouched(prev, txn - 1)

getCandidateLedger(k) == ((k + Span - 1) \div Span) * Span

haveLedger(a, b) == \A s \in a .. b : s \in have

Data == [ledgerseq : Seqs, lastledgerseq : Seqs, txs : BOOLEAN]

\* A reply of MakeSeekEndReply: the ledgers up to seq hold nothing more.
SeekEnd(seq, last) == [ledgerseq |-> seq, lastledgerseq |-> last, txs |-> FALSE]
TableData(seq, last) == [ledgerseq |-> seq, lastledgerseq |-> last, txs |-> TRUE]

NewRow == [LedgerSeq |-> CreateSeq, TxnLedgerSeq |-> 0, TxnUpdateHash |-> NoTx]

NewItem == [eState_ |-> "INIT", u32SeqLedger_ |-> 0, uTxSeq_ |-> 0,
            uTxDBUpdateHash_ |-> NoTx, aWholeData_ |-> <<>>, aBlockData_ |-> <<>>]

Idle == "idle"
NoSync == [pc |-> Idle, bNeedLocalSync |-> FALSE, bNeedReSync |-> FALSE]
NoSeek == [pc |-> Idle, i |-> 0, pub |-> 0, last |-> 0, tx |-> 0, check |-> 0,
           cur |-> 0, sent |-> FALSE]
NoSQL == [pc |-> Idle, vec |-> <<>>, i |-> 0, countTry |-> 0]

Init ==
    /\ published = CreateSeq + 1 /\ have = {CreateSeq + 1} /\ advancing = TRUE
    /\ row = NewRow /\ contents = <<>>
    /\ item = NewItem /\ listed = TRUE
    /\ syncJob = NoSync /\ localJob = NoSeek /\ sqlJob = NoSQL
    /\ failed = 0 /\ crashed = 0

----------------------------------------------------------------------------
(* The ledgers of the node. *)

\* A node that fell far behind publishes the newest ledger and leaves a gap.
Publish ==
    /\ \E k \in published + 1 .. MaxSeq :
          published' = k /\ have' = have \cup {k}
    /\ advancing' = TRUE
    /\ UNCHANGED <<dbVars, item, listed, syncJob, localJob, sqlJob, failed, crashed>>

FetchHistory ==
    /\ \E k \in (CreateSeq + 1 .. published) \ have : have' = have \cup {k}
    /\ UNCHANGED <<published, advancing, dbVars, item, listed, syncJob, localJob,
                   sqlJob, failed, crashed>>

----------------------------------------------------------------------------
(* TableSyncThread. *)

\* STOP is never left.
SetSyncState(it, state) ==
    IF it.eState_ = "STOP" THEN it ELSE [it EXCEPT !.eState_ = state]

ClearNotSyncItem == listed /\ item.eState_ # "STOP"

queueSync(job) == IF ClearNotSyncItem /\ job.pc = Idle
                  THEN [NoSync EXCEPT !.pc = "queued"] ELSE job

TryTableSync ==
    /\ advancing
    /\ advancing' = FALSE
    /\ listed' = ClearNotSyncItem
    /\ syncJob' = queueSync(syncJob)
    /\ UNCHANGED <<published, have, dbVars, item, localJob, sqlJob, failed, crashed>>

\* Mutant: the comparison with the table's creation is the wrong way round.
StatusRowOther == IF CreateSeq < row.TxnLedgerSeq THEN NewRow ELSE row

\* What SYNC_INIT starts from: the row, or a new one when there is none of this
\* creation of the table.
StatusRow == IF CreateSeq > row.TxnLedgerSeq THEN NewRow ELSE row

\* Mutant: the update hash is not taken over.
SetParaNoHash(it, r) == [it EXCEPT !.u32SeqLedger_ = r.LedgerSeq,
                                   !.uTxSeq_ = r.TxnLedgerSeq]

SetPara(it, r) == [it EXCEPT !.u32SeqLedger_ = r.LedgerSeq, !.uTxSeq_ = r.TxnLedgerSeq,
                             !.uTxDBUpdateHash_ = r.TxnUpdateHash]

\* InitPassphrase fails when the table is encrypted and no key opens it.
SyncInit ==
    /\ item.eState_ = "INIT"
    /\ row' = StatusRow
    /\ \E ok \in BOOLEAN :
         /\ item' = SetSyncState(SetPara(item, StatusRow), IF ok THEN "BLOCK_STOP" ELSE "STOP")
         /\ syncJob' = [NoSync EXCEPT !.pc = "ending", !.bNeedReSync = ok]

SyncBlockStop ==
    LET next == item.u32SeqLedger_ + 1
        local == next \in have \/ \A s \in have : s <= next   \* lastCompleteIndex
    IN  /\ item.eState_ = "BLOCK_STOP"
        /\ item' = IF local THEN SetSyncState(item, "WAIT_LOCAL_ACQUIRE") ELSE item
        /\ syncJob' = [NoSync EXCEPT !.pc = "ending", !.bNeedLocalSync = local]
        /\ UNCHANGED row

\* A stopped item that is still in the list is looked at for ever.
TableSyncThread ==
    /\ syncJob.pc = "queued"
    /\ \/ listed /\ (SyncInit \/ SyncBlockStop)
       \/ /\ ~listed \/ item.eState_ \in {"WAIT_LOCAL_ACQUIRE", "LOCAL_ACQUIRING"}
          /\ syncJob' = [NoSync EXCEPT !.pc = "ending"]
          /\ UNCHANGED <<item, row>>
       \/ /\ listed /\ item.eState_ = "STOP"
          /\ syncJob' = [NoSync EXCEPT !.pc = "endless"]
          /\ UNCHANGED <<item, row>>
    /\ UNCHANGED <<ledgerVars, contents, listed, localJob, sqlJob, failed, crashed>>

TryLocalSync ==
    IF localJob.pc = Idle THEN [NoSeek EXCEPT !.pc = "queued"] ELSE localJob

TableSyncEnd ==
    /\ syncJob.pc = "ending"
    /\ localJob' = IF syncJob.bNeedLocalSync THEN TryLocalSync ELSE localJob
    /\ IF syncJob.bNeedReSync
       THEN listed' = ClearNotSyncItem /\ syncJob' = queueSync(NoSync)
       ELSE listed' = listed /\ syncJob' = NoSync
    /\ UNCHANGED <<ledgerVars, dbVars, item, sqlJob, failed, crashed>>

----------------------------------------------------------------------------
(* LocalSyncThread. *)

\* Insertion into aBlockData_.
PushDataByOrder(s, d) ==
    LET below == {k \in 1 .. Len(s) : s[k].ledgerseq <= d.ledgerseq}
        first == CHOOSE k \in below : \A j \in below : k <= j
    IN  IF Len(s) = 0 \/ d.ledgerseq > s[Len(s)].ledgerseq THEN Append(s, d)
        ELSE IF Len(s) = 1 THEN <<d>> \o s
        ELSE IF below = {} \/ s[first].ledgerseq = d.ledgerseq THEN s
        ELSE SubSeq(s, 1, first - 1) \o <<d>> \o SubSeq(s, first, Len(s))

PushDataToWholeDataQueue(it, d) ==
    [it EXCEPT !.aWholeData_ = Append(@, d),
               !.u32SeqLedger_ = d.ledgerseq,
               !.uTxSeq_ = IF d.txs THEN d.ledgerseq ELSE @]

\* The blocked replies that continue ledger seq join the queue; continuing is the
\* number of them.
continuing(s, seq) ==
    LET continues(j) == s[j].lastledgerseq = IF j = 1 THEN seq ELSE s[j - 1].ledgerseq
    IN  Cardinality({k \in 1 .. Len(s) : \A j \in 1 .. k : continues(j)})

TransBlock2Whole(it, seq) ==
    LET s == it.aBlockData_
        n == continuing(s, seq)
        tx == {j \in 1 .. n : s[j].txs}
    IN  [it EXCEPT !.aWholeData_ = @ \o SubSeq(s, 1, n),
                   !.aBlockData_ = SubSeq(s, n + 1, Len(s)),
                   !.u32SeqLedger_ = IF n = 0 THEN @ ELSE s[n].ledgerseq,
                   !.uTxSeq_ = IF tx = {} THEN @
                               ELSE s[CHOOSE j \in tx : \A k \in tx : k <= j].ledgerseq]

consecutive(it, d) ==
    d.lastledgerseq = IF d.txs THEN it.uTxSeq_ ELSE it.u32SeqLedger_

SendData(it, d) ==
    LET pushed == PushDataToWholeDataQueue(it, d)
    IN  IF ~consecutive(it, d)
        THEN [it EXCEPT !.aBlockData_ = PushDataByOrder(@, d)]
        ELSE IF d.txs THEN TransBlock2Whole(pushed, d.ledgerseq) ELSE pushed

\* The call that ends SendData.
TryOperateSQL(it, d) ==
    IF consecutive(it, d) /\ sqlJob.pc = Idle THEN [NoSQL EXCEPT !.pc = "queued"] ELSE sqlJob

LocalSyncThread ==
    /\ localJob.pc = "queued"
    /\ IF listed /\ item.eState_ = "WAIT_LOCAL_ACQUIRE"
       THEN /\ item' = SetSyncState(item, "LOCAL_ACQUIRING")
            /\ localJob' = [pc |-> "seek", i |-> item.u32SeqLedger_ + 1, pub |-> published,
                            last |-> item.u32SeqLedger_, tx |-> item.uTxSeq_,
                            check |-> item.u32SeqLedger_, cur |-> 0, sent |-> FALSE]
       ELSE localJob' = [NoSeek EXCEPT !.pc = "ending"] /\ UNCHANGED item
    /\ UNCHANGED <<ledgerVars, dbVars, listed, syncJob, sqlJob, failed, crashed>>

\* SeekTableTxLedger looks at the last ledger of a span before the ledgers in it.
uStopIndex == LET k == getCandidateLedger(localJob.i)
              IN  IF k < localJob.pub THEN k ELSE localJob.pub

checksSpan == localJob.i > localJob.check /\ haveLedger(localJob.i, uStopIndex)

\* Mutant: the first change after the last one known is missed.
changedSinceOther(k, last) == \E txn, prev \in Seqs : TableEntry(k, txn, prev) /\ prev > last

\* isTableSLEChanged, not strict.
changedSince(k, last) == \E txn, prev \in Seqs : TableEntry(k, txn, prev) /\ prev >= last

seeking == localJob.pc = "seek" /\ localJob.i <= localJob.pub /\ localJob.i \in have

SeekSkip ==
    LET d == SeekEnd(uStopIndex, localJob.last)
    IN  /\ seeking
        /\ checksSpan /\ ~changedSince(uStopIndex, localJob.tx)
        /\ item' = SendData(item, d)
        /\ sqlJob' = TryOperateSQL(item, d)
        /\ localJob' = [localJob EXCEPT !.i = uStopIndex + 1, !.last = uStopIndex,
                                        !.sent = TRUE]
        /\ UNCHANGED <<ledgerVars, dbVars, listed, syncJob, failed, crashed>>

\* The last ledger of the span may turn out to be unreadable: looked is false.
looksInto(looked) ==
    seeking /\ (looked => checksSpan /\ changedSince(uStopIndex, localJob.tx))

ReadLedger(looked, txn, prev) ==
    LET d == TableData(txn, prev)
        changed == prev = localJob.tx     \* isTableSLEChanged, strict
    IN  /\ looksInto(looked)
        /\ TableEntry(localJob.i, txn, prev)
        /\ item' = IF changed THEN SendData(item, d) ELSE item
        /\ sqlJob' = IF changed THEN TryOperateSQL(item, d) ELSE sqlJob
        /\ localJob' =
             [localJob EXCEPT
                !.pc = IF getCandidateLedger(localJob.i) = localJob.i
                       THEN "candidate" ELSE "seek",
                !.i = localJob.i + 1,
                !.check = IF looked THEN uStopIndex ELSE @,
                !.last = IF changed THEN localJob.i ELSE @,
                !.tx = IF changed THEN localJob.i ELSE @,
                !.cur = localJob.i,
                !.sent = FALSE]

SeekLedger ==
    /\ \E looked \in BOOLEAN, txn, prev \in Seqs : ReadLedger(looked, txn, prev)
    /\ UNCHANGED <<ledgerVars, dbVars, listed, syncJob, failed, crashed>>

\* The reply that closes a span.
SeekCandidate ==
    LET d == SeekEnd(localJob.cur, localJob.last)
    IN  /\ localJob.pc = "candidate"
        /\ item' = SendData(item, d)
        /\ sqlJob' = TryOperateSQL(item, d)
        /\ localJob' = [localJob EXCEPT !.pc = "seek"]
        /\ UNCHANGED <<ledgerVars, dbVars, listed, syncJob, failed, crashed>>

\* The search ends ("over") at the published ledger, at a ledger the node lacks or
\* after two minutes; or because a ledger cannot be read ("gone"), or its
\* transactions cannot ("noReply").  It may close with a reply.
closes(end) ==
    localJob.cur # 0 /\ CASE end = "over" -> ~localJob.sent
                          [] end = "gone" -> FALSE
                          [] end = "noReply" -> TRUE

SeekFinish ==
    LET d == SeekEnd(localJob.cur, localJob.last)
    IN  /\ localJob.pc = "seek"
        /\ \E end \in {"over", "gone", "noReply"} :
             /\ end # "over" => seeking
             /\ end = "noReply" => \E txn \in Seqs : TableEntry(localJob.i, txn, localJob.tx)
             /\ item' = SetSyncState(IF closes(end) THEN SendData(item, d) ELSE item,
                                     "BLOCK_STOP")
             /\ sqlJob' = IF closes(end) THEN TryOperateSQL(item, d) ELSE sqlJob
        /\ localJob' = [NoSeek EXCEPT !.pc = "ending"]
        /\ UNCHANGED <<ledgerVars, dbVars, listed, syncJob, failed, crashed>>

LocalSyncEnd ==
    /\ localJob.pc = "ending"
    /\ localJob' = NoSeek
    /\ UNCHANGED <<ledgerVars, dbVars, item, listed, syncJob, sqlJob, failed, crashed>>

----------------------------------------------------------------------------
(* OperateSQLThread. *)

OperateSQLThread ==
    /\ sqlJob.pc = "queued"
    /\ sqlJob' = IF item.eState_ = "STOP" THEN NoSQL ELSE [sqlJob EXCEPT !.pc = "loop"]
    /\ UNCHANGED <<ledgerVars, dbVars, item, listed, syncJob, localJob, failed, crashed>>

\* The loop of OperateSQLThread takes the whole queue.  When it finds nothing it
\* ends, and only later clears bOperateSQL_.
OperateTake ==
    /\ sqlJob.pc = "loop"
    /\ IF item.aWholeData_ # <<>> /\ item.eState_ # "STOP"
       THEN /\ sqlJob' = [NoSQL EXCEPT !.pc = "deal", !.vec = item.aWholeData_]
            /\ item' = [item EXCEPT !.aWholeData_ = <<>>]
       ELSE sqlJob' = [NoSQL EXCEPT !.pc = "ending"] /\ UNCHANGED item
    /\ UNCHANGED <<ledgerVars, dbVars, listed, syncJob, localJob, failed, crashed>>

OperateEnd ==
    /\ sqlJob.pc = "ending"
    /\ sqlJob' = NoSQL
    /\ UNCHANGED <<ledgerVars, dbVars, item, listed, syncJob, localJob, failed, crashed>>

dealing == sqlJob.pc = "deal" /\ sqlJob.vec # <<>>
current == Head(sqlJob.vec).ledgerseq

\* Mutant: the queue is taken once.
endsAtOnce == [NoSQL EXCEPT !.pc = "ending"]

backToLoop == [NoSQL EXCEPT !.pc = "loop"]

DealEnd ==
    /\ sqlJob.pc = "deal" /\ sqlJob.vec = <<>>
    /\ sqlJob' = backToLoop
    /\ UNCHANGED <<ledgerVars, dbVars, item, listed, syncJob, localJob, failed, crashed>>

\* A reply without transactions: LedgerSeq of the row moves, or the item stops.
DealEmpty ==
    /\ dealing /\ ~Head(sqlJob.vec).txs
    /\ \/ /\ row' = [row EXCEPT !.LedgerSeq = current]
          /\ sqlJob' = [sqlJob EXCEPT !.vec = Tail(@)]
          /\ UNCHANGED item
       \/ /\ item' = SetSyncState(item, "STOP")
          /\ sqlJob' = backToLoop
          /\ UNCHANGED row
    /\ UNCHANGED <<ledgerVars, contents, listed, syncJob, localJob, failed, crashed>>

nextLedger == [sqlJob EXCEPT !.vec = Tail(@), !.i = 0, !.countTry = 0]
nextSlice == IF sqlJob.i = slices[current] THEN nextLedger ELSE [sqlJob EXCEPT !.i = @ + 1]

\* A try passes over the slices up to the one that uTxDBUpdateHash_ names: over the
\* whole ledger, when it is not in this ledger.
DealTry ==
    LET hash == item.uTxDBUpdateHash_
    IN  /\ dealing /\ Head(sqlJob.vec).txs /\ sqlJob.i = 0
        /\ sqlJob' = IF hash = NoTx THEN [sqlJob EXCEPT !.i = 1]
                     ELSE IF hash[1] = current THEN [sqlJob EXCEPT !.i = hash[2]]
                     ELSE nextLedger
        /\ UNCHANGED <<ledgerVars, dbVars, item, listed, syncJob, localJob, failed, crashed>>

dealingSlice == dealing /\ Head(sqlJob.vec).txs /\ sqlJob.i > 0
slice == <<current, sqlJob.i>>

\* UpdateSyncDB: the row and the item's copy of its update hash.
UpdateSyncDB(r) ==
    IF sqlJob.i = slices[current]
    THEN [LedgerSeq |-> current, TxnLedgerSeq |-> current, TxnUpdateHash |-> NoTx]
    ELSE [r EXCEPT !.TxnUpdateHash = slice]

updateHash == UpdateSyncDB(row).TxnUpdateHash

execute == IF slice = item.uTxDBUpdateHash_ THEN contents
           ELSE IF slice = Creation THEN <<slice>>
           ELSE Append(contents, slice)

DealSlice ==
    /\ dealingSlice
    /\ row' = UpdateSyncDB(row) /\ contents' = execute
    /\ item' = [item EXCEPT !.uTxDBUpdateHash_ = updateHash]
    /\ sqlJob' = nextSlice
    /\ UNCHANGED <<ledgerVars, listed, syncJob, localJob, failed, crashed>>

\* Mutant: one try too many.
retriesOnceMore == sqlJob.countTry <= MAX_CONN_RETRY_COUNT

\* After a lost connection the ledger is tried again from its first slice, or the
\* item stops.
retries == sqlJob.countTry < MAX_CONN_RETRY_COUNT
tryAgain == IF retries THEN [sqlJob EXCEPT !.i = 0, !.countTry = @ + 1] ELSE backToLoop
stopUnlessRetry(it) == IF retries THEN it ELSE SetSyncState(it, "STOP")

OnConnectionError ==
    /\ dealingSlice
    /\ item' = stopUnlessRetry(item)
    /\ sqlJob' = tryAgain
    /\ UNCHANGED <<ledgerVars, dbVars, listed, syncJob, localJob, failed, crashed>>

\* The connection is lost in the commit, before or after the database carried it
\* out; uTxDBUpdateHash_ has moved already.
CommitLost ==
    /\ dealingSlice /\ failed < MaxFail
    /\ \/ row' = UpdateSyncDB(row) /\ contents' = execute
       \/ UNCHANGED dbVars
    /\ item' = stopUnlessRetry([item EXCEPT !.uTxDBUpdateHash_ = updateHash])
    /\ sqlJob' = tryAgain
    /\ failed' = failed + 1
    /\ UNCHANGED <<ledgerVars, listed, syncJob, localJob, crashed>>

\* Any other error of the row update or the commit: the next slice follows.
CommitRefused ==
    /\ dealingSlice /\ failed < MaxFail
    /\ item' \in {item, [item EXCEPT !.uTxDBUpdateHash_ = updateHash]}
    /\ sqlJob' = nextSlice
    /\ failed' = failed + 1
    /\ UNCHANGED <<ledgerVars, dbVars, listed, syncJob, localJob, crashed>>

----------------------------------------------------------------------------
\* The node stops and starts again; the database stays.
Crash ==
    /\ crashed < MaxCrash
    /\ crashed' = crashed + 1
    /\ item' = NewItem /\ listed' = TRUE
    /\ syncJob' = NoSync /\ localJob' = NoSeek /\ sqlJob' = NoSQL
    /\ advancing' = TRUE
    /\ UNCHANGED <<published, have, dbVars, failed>>

SyncJob == TableSyncThread \/ TableSyncEnd
LocalJob == LocalSyncThread \/ SeekSkip \/ SeekLedger \/ SeekCandidate \/ SeekFinish
              \/ LocalSyncEnd
SQLJob == OperateSQLThread \/ OperateTake \/ OperateEnd \/ DealEnd \/ DealEmpty \/ DealTry
              \/ DealSlice \/ OnConnectionError \/ CommitLost \/ CommitRefused

Next == Publish \/ FetchHistory \/ TryTableSync \/ SyncJob \/ LocalJob \/ SQLJob \/ Crash

Spec == Init /\ [][Next]_vars

\* Jobs that were queued run and go on; ledgers are published and TryTableSync is
\* called for them.
FairSpec == Spec /\ WF_vars(Publish) /\ WF_vars(TryTableSync) /\ WF_vars(SyncJob)
                 /\ WF_vars(LocalJob) /\ WF_vars(SQLJob)

----------------------------------------------------------------------------
Item == [eState_ : {"INIT", "BLOCK_STOP", "WAIT_LOCAL_ACQUIRE", "LOCAL_ACQUIRING", "STOP"},
         u32SeqLedger_ : Seqs, uTxSeq_ : Seqs, uTxDBUpdateHash_ : Slice,
         aWholeData_ : Seq(Data), aBlockData_ : Seq(Data)]
SyncLocals == [pc : {Idle, "queued", "ending", "endless"},
               bNeedLocalSync : BOOLEAN, bNeedReSync : BOOLEAN]
SeekLocals == [pc : {Idle, "queued", "seek", "candidate", "ending"},
               i : 0 .. MaxSeq + 1, pub : Seqs, last : Seqs, tx : Seqs, check : Seqs,
               cur : Seqs, sent : BOOLEAN]
SQLLocals == [pc : {Idle, "queued", "loop", "deal", "ending"},
              vec : Seq(Data), i : Nat, countTry : 0 .. MAX_CONN_RETRY_COUNT]

\* Every variable has its type: sequence numbers stay within the chain, the retries
\* of DealWithEveryLedgerData within their limit.
TypeOK ==
    /\ published \in Ledger /\ have \in SUBSET Ledger /\ advancing \in BOOLEAN
    /\ row \in [LedgerSeq : Seqs, TxnLedgerSeq : Seqs, TxnUpdateHash : Slice]
    /\ contents \in Seq(Slice)
    /\ item \in Item /\ listed \in BOOLEAN
    /\ syncJob \in SyncLocals /\ localJob \in SeekLocals /\ sqlJob \in SQLLocals
    /\ failed \in 0 .. MaxFail /\ crashed \in 0 .. MaxCrash

TR == INSTANCE TableReplay
        WITH table <- contents, created <- row.TxnLedgerSeq # 0, failures <- failed

\* The table is made of the ledgers' slices in their order, each executed once, from
\* the creation on, whatever crashes, lost connections and retries came between
\* (DealWithEveryLedgerData resuming at uTxDBUpdateHash_).  A commit that fails costs
\* at most one break of the order.
ExecutedInOrder == TR!breaks(contents) <= failed

\* The row and the table move together as TableReplay says: in order, and a table
\* whose creation is complete is dropped again (DealWithEveryTx) only when a commit
\* failed that no break of the order accounts for.
ImplementsReplay == TR!Spec

\* d is what a reader that has seen the ledgers up to a finds next.
Leads(a, d) ==
    IF d.txs THEN /\ a < d.ledgerseq /\ Touches(d.ledgerseq)
                  /\ Untouched(a, d.ledgerseq - 1)
             ELSE Untouched(a, d.ledgerseq) /\ Untouched(d.ledgerseq, a)

Covered(a, s, b) ==
    /\ \A k \in 1 .. Len(s) : Leads(IF k = 1 THEN a ELSE s[k - 1].ledgerseq, s[k])
    /\ b = IF Len(s) = 0 THEN a ELSE s[Len(s)].ledgerseq

Pending == sqlJob.vec \o item.aWholeData_

\* Between what the row in the database says and what the item has read
\* (u32SeqLedger_) every ledger that touches the table waits in the queue or is being
\* dealt with, in order, although the row, the queue and the position are moved by
\* different jobs (SendData, OperateSQLThread), and although the search skips spans.
NothingSkipped ==
    failed = 0 /\ item.eState_ \notin {"INIT", "STOP"} =>
        Covered(row.LedgerSeq, Pending, item.u32SeqLedger_)

\* What is queued before the SQL job's last look at the queue is taken, unless the
\* item stops or the node does (the loop of OperateSQLThread).
QueueTaken ==
    item.aWholeData_ # <<>> /\ sqlJob.pc \in {"queued", "loop", "deal"}
        ~> item.aWholeData_ = <<>> \/ item.eState_ = "STOP"

\* TableSyncItem.h:60 of SYNC_WAIT_LOCAL_ACQUIRE: "waiting local acquiring tx,will
\* change to SYNC_BLOCK_STOP after finished".  An item that waits for the local
\* search is searched for.
WaitEnds ==
    item.eState_ = "WAIT_LOCAL_ACQUIRE" ~> item.eState_ # "WAIT_LOCAL_ACQUIRE"

=============================================================================
