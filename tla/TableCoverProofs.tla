-------------------------- MODULE TableCoverProofs --------------------------
(***************************************************************************)
(* TableSync skips no ledger as long as no commit failed.  The types and   *)
(* Shape of TableSyncProofs hold always; Sound, as long as no commit       *)
(* failed, relates the row, the queue, the item's position and the locals  *)
(* of the search.                                                          *)
(***************************************************************************)
EXTENDS TableSyncProofs

-----------------------------------------------------------------------------
(* The ledgers that touch the table. *)

\* tx is the last ledger up to k that touches the table, 0 when there is none.
Latest(tx, k) ==
    /\ tx <= k /\ (tx = 0 \/ Touches(tx)) /\ Untouched(tx, k)

LEMMA LatestUnique ==
    ASSUME NEW a \in Seqs, NEW b \in Seqs, NEW k \in Seqs, Latest(a, k), Latest(b, k)
    PROVE  a = b
<1>1. ASSUME NEW x \in Seqs, NEW y \in Seqs, Latest(x, k), Latest(y, k), x < y  PROVE FALSE
  <2>1. y # 0 /\ y <= k  BY <1>1, TableAssumption DEF Latest, Seqs
  <2>2. Touches(y)  BY <1>1, <2>1 DEF Latest
  <2>3. y \in Ledger  BY <2>2, TouchedLedger
  <2> QED  BY <1>1, <2>1, <2>2, <2>3 DEF Latest, Untouched
<1>2. a < b \/ b < a \/ a = b  BY TableAssumption DEF Seqs
<1> QED  BY <1>1, <1>2

LEMMA LatestExists ==
    ASSUME NEW k \in Seqs  PROVE \E a \in Seqs : Latest(a, k)
<1> DEFINE T == {s \in 1 .. k : Touches(s)}
           top == CHOOSE s \in T : \A j \in T : j <= s
<1>1. k \in Nat /\ k <= MaxSeq /\ 0 \in Seqs  BY TableAssumption DEF Seqs
<1>2. \A s \in Ledger : s <= k /\ Touches(s) => s \in T
  BY <1>1, TableAssumption DEF Ledger
<1>3. CASE T = {}
  <2>1. Latest(0, k)  BY <1>1, <1>2, <1>3 DEF Latest, Untouched
  <2> QED  BY <1>1, <2>1
<1>4. CASE T # {}
  <2>1. T \in SUBSET (1 .. k)  OBVIOUS
  <2>2. \E s \in T : \A j \in T : j <= s
    <3> HIDE DEF T
    <3> QED  BY <1>1, <1>4, <2>1, LargestExists, Zenon
  <2>3. PICK s \in T : \A j \in T : j <= s  BY <2>2
  <2>4. s \in 1 .. k /\ Touches(s)  OBVIOUS
  <2>5. s \in Seqs  BY <1>1, <2>4, TableAssumption DEF Seqs
  <2>6. Untouched(s, k)
    <3> SUFFICES ASSUME NEW x \in Ledger, s < x, x <= k, Touches(x)  PROVE FALSE
      BY DEF Untouched
    <3>1. x \in T  BY <1>2
    <3> QED  BY <2>3, <2>4, <3>1, TableAssumption DEF Ledger
  <2> QED  BY <1>1, <2>4, <2>5, <2>6 DEF Latest
<1> QED  BY <1>3, <1>4

\* What an entry of ledger i says to a reader whose last touched ledger is tx: the
\* ledger touches the table iff the entry's previous one is tx (isTableSLEChanged).
LEMMA EntryNext ==
    ASSUME NEW i \in Seqs, i > 0, NEW tx \in Seqs, NEW txn \in Seqs, NEW prev \in Seqs,
           Latest(tx, i - 1), TableEntry(i, txn, prev)
    PROVE  /\ prev = tx => txn = i /\ Touches(i) /\ Latest(i, i)
           /\ prev # tx => ~Touches(i) /\ Latest(tx, i)
<1>1. i - 1 \in Seqs  BY TableAssumption DEF Seqs
<1>2. CASE txn = i
  <2>1. Latest(prev, i - 1)  BY <1>2, TableAssumption DEF TableEntry, Latest, Seqs
  <2>2. prev = tx  BY <1>1, <2>1, LatestUnique
  <2>3. Latest(i, i)  BY <1>2 DEF TableEntry, Latest, Seqs
  <2> QED  BY <1>2, <2>2, <2>3 DEF TableEntry
<1>3. CASE txn # i
  <2>1. txn < i /\ txn <= i - 1  BY <1>3, TableAssumption DEF TableEntry, Seqs
  <2>2. ~Touches(i)
    <3> SUFFICES ASSUME Touches(i)  PROVE FALSE  OBVIOUS
    <3>1. i \in Ledger  BY TouchedLedger
    <3> QED  BY <2>1, <3>1 DEF TableEntry, Untouched, Ledger
  <2>3. Latest(txn, i - 1)
    BY <2>1, TableAssumption DEF TableEntry, Latest, Untouched, Seqs, Ledger
  <2>4. tx = txn  BY <1>1, <2>3, LatestUnique
  <2>5. prev # tx  BY <2>4 DEF TableEntry, Seqs
  <2>6. Latest(tx, i)  BY <2>1, <2>4 DEF TableEntry, Latest
  <2> QED  BY <2>2, <2>5, <2>6
<1> QED  BY <1>2, <1>3

\* When the table did not change since tx up to ledger u, no ledger between touches it.
LEMMA NotChanged ==
    ASSUME NEW u \in Seqs, NEW tx \in Seqs, tx = 0 \/ Touches(tx), ~changedSince(u, tx)
    PROVE  Untouched(tx, u)
<1> SUFFICES ASSUME NEW s \in Ledger, tx < s, s <= u, Touches(s)  PROVE FALSE
  BY DEF Untouched
<1>1. PICK txn \in Seqs : Latest(txn, u)  BY LatestExists
<1>2. s <= txn
  <2> SUFFICES ASSUME ~(s <= txn)  PROVE FALSE  OBVIOUS
  <2>1. txn < s  BY TableAssumption DEF Seqs, Ledger
  <2> QED  BY <1>1, <2>1 DEF Latest, Untouched
<1>3. txn > 0 /\ tx < txn /\ txn - 1 \in Seqs
  BY <1>2, TableAssumption DEF Seqs, Ledger
<1>4. PICK prev \in Seqs : Latest(prev, txn - 1)  BY <1>3, LatestExists
<1>5. TableEntry(u, txn, prev)
  BY <1>1, <1>3, <1>4, TableAssumption DEF TableEntry, Latest, Seqs
<1>6. prev >= tx
  <2> SUFFICES ASSUME ~(prev >= tx)  PROVE FALSE  OBVIOUS
  <2>1. prev < tx /\ tx # 0 /\ tx <= txn - 1  BY <1>3, TableAssumption DEF Seqs
  <2>2. tx \in Ledger  BY <2>1, TouchedLedger
  <2> QED  BY <1>4, <2>1, <2>2 DEF Latest, Untouched
<1> QED  BY <1>5, <1>6 DEF changedSince

-----------------------------------------------------------------------------
(* The queue. *)

LEMMA CoveredEmpty ==
    ASSUME NEW a  PROVE Covered(a, <<>> \o <<>>, a)
<1>1. Len(<<>> \o <<>>) = 0  OBVIOUS
<1> QED  BY <1>1 DEF Covered

LEMMA CoveredAppend ==
    ASSUME NEW a, NEW b, NEW s \in Seq(Data), NEW d \in Data, Covered(a, s, b), Leads(b, d)
    PROVE  Covered(a, Append(s, d), d.ledgerseq)
<1> DEFINE t == Append(s, d)
           n == Len(s)
<1>1. n \in Nat /\ Len(t) = n + 1 /\ t[n + 1] = d /\ \A k \in 1 .. n : t[k] = s[k]
  BY SeqPush, LenProperties
<1> HIDE DEF t, n
<1>2. \A k \in 1 .. n : Leads(IF k = 1 THEN a ELSE s[k - 1].ledgerseq, s[k])
  BY DEF Covered, n
<1>3. b = IF n = 0 THEN a ELSE s[n].ledgerseq  BY DEF Covered, n
<1>4. ASSUME NEW k \in 1 .. n + 1
      PROVE  Leads(IF k = 1 THEN a ELSE t[k - 1].ledgerseq, t[k])
  <2>1. CASE k = n + 1
    <3>1. (IF k = 1 THEN a ELSE t[k - 1].ledgerseq) = b  BY <1>1, <1>3, <2>1
    <3> QED  BY <1>1, <2>1, <3>1
  <2>2. CASE k # n + 1
    <3>1. k \in 1 .. n /\ (k # 1 => k - 1 \in 1 .. n)  BY <1>1, <2>2
    <3>2. (IF k = 1 THEN a ELSE t[k - 1].ledgerseq) = IF k = 1 THEN a ELSE s[k - 1].ledgerseq
      BY <1>1, <3>1
    <3> QED  BY <1>1, <1>2, <3>1, <3>2
  <2> QED  BY <2>1, <2>2
<1>5. Covered(a, t, d.ledgerseq)
  BY <1>1, <1>4 DEF Covered
<1> QED  BY <1>5 DEF t

LEMMA CoveredTail ==
    ASSUME NEW a, NEW b, NEW s \in Seq(Data), s # <<>>, Covered(a, s, b)
    PROVE  Leads(a, Head(s)) /\ Covered(Head(s).ledgerseq, Tail(s), b)
<1> DEFINE t == Tail(s)
           n == Len(s)
           h == Head(s)
<1>1. n \in Nat /\ n > 0 /\ Len(t) = n - 1 /\ h = s[1] /\ \A k \in 1 .. n - 1 : t[k] = s[k + 1]
  BY TailShift
<1> HIDE DEF t, n, h
<1>2. \A k \in 1 .. n : Leads(IF k = 1 THEN a ELSE s[k - 1].ledgerseq, s[k])
  BY DEF Covered, n
<1>3. b = s[n].ledgerseq  BY <1>1 DEF Covered, n
<1>4. Leads(a, h)  BY <1>1, <1>2
<1>5. ASSUME NEW k \in 1 .. n - 1
      PROVE  Leads(IF k = 1 THEN h.ledgerseq ELSE t[k - 1].ledgerseq, t[k])
  <2>1. k + 1 \in 1 .. n /\ k + 1 # 1 /\ (k # 1 => k - 1 \in 1 .. n - 1)  BY <1>1
  <2>2. Leads(s[k].ledgerseq, s[k + 1])  BY <1>2, <2>1
  <2>3. (IF k = 1 THEN h.ledgerseq ELSE t[k - 1].ledgerseq) = s[k].ledgerseq
    BY <1>1, <2>1
  <2> QED  BY <1>1, <2>2, <2>3
<1>6. b = IF n - 1 = 0 THEN h.ledgerseq ELSE t[n - 1].ledgerseq
  <2>1. CASE n = 1  BY <1>1, <1>3, <2>1
  <2>2. CASE n # 1
    <3>1. n - 1 \in 1 .. n - 1  BY <1>1, <2>2
    <3> QED  BY <1>1, <1>3, <2>2, <3>1
  <2> QED  BY <2>1, <2>2
<1>7. Covered(h.ledgerseq, t, b)  BY <1>1, <1>5, <1>6 DEF Covered
<1> QED  BY <1>4, <1>7 DEF t, h

\* A reply with the transactions of ledger seq is queued, and no blocked reply with it.
LEMMA SendTable ==
    ASSUME NEW it \in Item, NEW seq \in Seqs,
           Len(it.aBlockData_) > 0 => it.aBlockData_[1].lastledgerseq # seq
    PROVE  LET d == TableData(seq, it.uTxSeq_)
               r == SendData(it, d)
           IN  /\ r.uTxSeq_ = seq /\ r.u32SeqLedger_ = seq
               /\ r.aWholeData_ = Append(it.aWholeData_, d)
               /\ r.aBlockData_ = it.aBlockData_
<1> DEFINE d == TableData(seq, it.uTxSeq_)
           pushed == PushDataToWholeDataQueue(it, d)
<1>1. it.uTxSeq_ \in Seqs /\ it.aWholeData_ \in Seq(Data)  BY DEF Item
<1>2. d \in Data /\ d.ledgerseq = seq /\ d.lastledgerseq = it.uTxSeq_ /\ d.txs = TRUE
  <2>1. d \in Data  BY <1>1, ReplyTyped
  <2> QED  BY <2>1 DEF TableData
<1> HIDE DEF d
<1>3. Append(it.aWholeData_, d) \in Seq(Data)  BY <1>1, <1>2, SeqPush
<1>4. pushed = [it EXCEPT !.aWholeData_ = Append(it.aWholeData_, d),
                          !.u32SeqLedger_ = seq, !.uTxSeq_ = seq]
  BY <1>2, Zenon DEF PushDataToWholeDataQueue
<1>5. SendData(it, d) = TransBlock2Whole(pushed, seq)
  BY <1>2 DEF SendData, consecutive
<1> HIDE DEF pushed
<1>6. /\ pushed \in Item /\ pushed.uTxSeq_ = seq /\ pushed.u32SeqLedger_ = seq
      /\ pushed.aWholeData_ = Append(it.aWholeData_, d) /\ pushed.aBlockData_ = it.aBlockData_
  BY <1>3, <1>4, Zenon DEF Item
<1>7. SendData(it, d) = pushed  BY <1>5, <1>6, Trans
<1> QED  BY <1>6, <1>7 DEF d

-----------------------------------------------------------------------------
(* The invariant. *)

searching == localJob.pc \in {"seek", "candidate"}

\* The row's update hash is in the first ledger after LedgerSeq that touches the table.
RowSound(r) ==
    /\ Latest(r.TxnLedgerSeq, r.LedgerSeq)
    /\ r.TxnUpdateHash # NoTx =>
         LET h == r.TxnUpdateHash
         IN  /\ r.LedgerSeq < h[1] /\ Touches(h[1]) /\ Untouched(r.LedgerSeq, h[1] - 1)
             /\ 1 <= h[2] /\ h[2] < slices[h[1]]

ItemSound ==
    item.eState_ # "INIT" =>
        /\ Latest(item.uTxSeq_, item.u32SeqLedger_)
        /\ item.uTxDBUpdateHash_ = row.TxnUpdateHash

SeekSound ==
    searching =>
        /\ localJob.tx = item.uTxSeq_
        /\ Latest(localJob.tx, localJob.i - 1)
        /\ item.u32SeqLedger_ < localJob.i
        /\ localJob.last < localJob.i
        /\ localJob.cur < localJob.i
        /\ localJob.cur = 0 \/ localJob.tx <= localJob.cur
        /\ localJob.pc = "candidate" => localJob.cur # 0

\* No blocked reply holds data or continues data that is still to come.
BlockSound ==
    \A k \in 1 .. Len(item.aBlockData_) :
        LET last == item.aBlockData_[k].lastledgerseq
        IN  ~item.aBlockData_[k].txs /\ (last > item.u32SeqLedger_ => ~Touches(last))

QueueSound ==
    item.eState_ \notin {"INIT", "STOP"} =>
        Covered(row.LedgerSeq, Pending, item.u32SeqLedger_)

Sound ==
    /\ RowSound(row)
    /\ QueueSound /\ ItemSound /\ SeekSound /\ BlockSound

\* The slice that is dealt with is one of its ledger's.
SliceReal ==
    dealing /\ sqlJob.i > 0 => Head(sqlJob.vec).txs /\ sqlJob.i <= slices[current]

IInv == TypeOK /\ Shape /\ (failed = 0 => Sound /\ SliceReal)

-----------------------------------------------------------------------------
(* The search. *)

BlocksSound(it) ==
    \A k \in 1 .. Len(it.aBlockData_) :
        LET last == it.aBlockData_[k].lastledgerseq
        IN  ~it.aBlockData_[k].txs /\ (last > it.u32SeqLedger_ => ~Touches(last))

\* What Sound says of the item, as a condition on what the search makes of it.
Position(it) ==
    /\ it.eState_ = item.eState_ /\ it.uTxDBUpdateHash_ = row.TxnUpdateHash
    /\ Latest(it.uTxSeq_, it.u32SeqLedger_)
    /\ item.eState_ # "STOP" =>
         Covered(row.LedgerSeq, sqlJob.vec \o it.aWholeData_, it.u32SeqLedger_)
    /\ BlocksSound(it)

LEMMA SoundPosition ==
    ASSUME Sound, item.eState_ # "INIT"  PROVE Position(item)
BY DEF Sound, Position, ItemSound, QueueSound, BlockSound, BlocksSound, Pending

\* A step that leaves the database alone, moves the item to it and at most wakes the
\* SQL job.
LEMMA Moved ==
    ASSUME TypeOK, Shape, Sound, NEW it \in Item, Position(it),
           item.eState_ # "INIT", UNCHANGED dbVars, item' \in Item,
           item'.eState_ = "STOP" \/ item.eState_ # "STOP",
           item'.u32SeqLedger_ = it.u32SeqLedger_, item'.uTxSeq_ = it.uTxSeq_,
           item'.uTxDBUpdateHash_ = it.uTxDBUpdateHash_,
           item'.aWholeData_ = it.aWholeData_, item'.aBlockData_ = it.aBlockData_,
           \/ sqlJob' = sqlJob
           \/ sqlJob.pc = Idle /\ sqlJob' = [NoSQL EXCEPT !.pc = "queued"],
           SeekSound'
    PROVE  Sound'
<1>1. UNCHANGED <<row, contents>>  BY DEF dbVars
<1>2. RowSound(row)'
  BY <1>1 DEF Sound, RowSound
<1>3. sqlJob'.vec = sqlJob.vec
  BY DEF Shape, Idle, NoSQL
<1>4. QueueSound'  BY <1>1, <1>3 DEF QueueSound, Position, Pending
<1>6. ItemSound'  BY <1>1 DEF ItemSound, Position
<1>7. BlockSound'  BY DEF BlockSound, Position, BlocksSound
<1> QED  BY <1>2, <1>4, <1>6, <1>7 DEF Sound

\* A reply without transactions.  m bounds the ledgers that the search has read.
LEMMA EndSent ==
    ASSUME TypeOK, Shape, Sound, item.eState_ # "INIT",
           NEW seq \in Seqs, NEW last \in Seqs, NEW m \in Seqs,
           item.uTxSeq_ <= seq, Untouched(item.uTxSeq_, seq), Untouched(item.uTxSeq_, m),
           last <= m, item.u32SeqLedger_ <= m
    PROVE  LET r == SendData(item, SeekEnd(seq, last))
           IN  /\ r \in Item /\ Position(r) /\ r.uTxSeq_ = item.uTxSeq_
               /\ r.u32SeqLedger_ \in {item.u32SeqLedger_, seq}
<1> DEFINE d == SeekEnd(seq, last)
           r == SendData(item, d)
           u32 == item.u32SeqLedger_
           tx == item.uTxSeq_
           block == item.aBlockData_
<1>1. item \in Item /\ u32 \in Seqs /\ tx \in Seqs /\ block \in Seq(Data)
      /\ item.aWholeData_ \in Seq(Data) /\ sqlJob.vec \in Seq(Data)
  BY DEF TypeOK, Item, SQLLocals
<1>2. d \in Data /\ d.ledgerseq = seq /\ d.lastledgerseq = last /\ d.txs = FALSE
  <2>1. d \in Data  BY ReplyTyped
  <2> QED  BY <2>1 DEF SeekEnd
<1>3. r \in Item /\ r.eState_ = item.eState_ /\ r.uTxDBUpdateHash_ = item.uTxDBUpdateHash_
  BY <1>1, <1>2, SendTyped
<1>4. /\ r.uTxSeq_ = tx
      /\ last = u32 =>
           /\ r.aWholeData_ = Append(item.aWholeData_, d)
           /\ r.u32SeqLedger_ = seq /\ r.aBlockData_ = block
      /\ last # u32 =>
           /\ r.aWholeData_ = item.aWholeData_
           /\ r.u32SeqLedger_ = u32
           /\ r.aBlockData_ = PushDataByOrder(block, d)
  BY <1>1, SendEnd
<1>5. Position(item)  BY SoundPosition
<1>6. tx <= u32 /\ (tx = 0 \/ Touches(tx)) /\ Untouched(tx, u32)  BY <1>5 DEF Position, Latest
<1>7. Untouched(u32, seq) /\ Untouched(seq, u32) /\ Untouched(u32, m)
  BY <1>1, <1>6, TableAssumption DEF Untouched, Seqs, Ledger
<1> HIDE DEF d, r, u32, tx, block
<1>8. Latest(r.uTxSeq_, r.u32SeqLedger_)
  <2>1. Latest(tx, u32) /\ Latest(tx, seq)  BY <1>6 DEF Latest, tx
  <2> QED  BY <1>4, <2>1
<1>9. item.eState_ # "STOP" =>
        Covered(row.LedgerSeq, sqlJob.vec \o r.aWholeData_, r.u32SeqLedger_)
  <2> SUFFICES ASSUME item.eState_ # "STOP"
               PROVE  Covered(row.LedgerSeq, sqlJob.vec \o r.aWholeData_, r.u32SeqLedger_)
    OBVIOUS
  <2>1. Covered(row.LedgerSeq, sqlJob.vec \o item.aWholeData_, u32)
    BY <1>5 DEF Position, u32
  <2>2. CASE last = u32
    <3>1. Leads(u32, d)  BY <1>2, <1>7 DEF Leads
    <3>2. /\ sqlJob.vec \o item.aWholeData_ \in Seq(Data)
          /\ sqlJob.vec \o Append(item.aWholeData_, d) = Append(sqlJob.vec \o item.aWholeData_, d)
      BY <1>1, <1>2, QueueAppend, Zenon
    <3>3. Covered(row.LedgerSeq, Append(sqlJob.vec \o item.aWholeData_, d), seq)
      BY <1>2, <2>1, <3>1, <3>2, CoveredAppend, Zenon
    <3> QED  BY <1>4, <2>2, <3>2, <3>3, Zenon
  <2>3. CASE last # u32  BY <1>4, <2>1, <2>3
  <2> QED  BY <2>2, <2>3
<1>10. BlocksSound(r)
  <2>1. \A k \in 1 .. Len(block) :
          /\ ~block[k].txs
          /\ block[k].lastledgerseq > u32 => ~Touches(block[k].lastledgerseq)
    BY <1>5 DEF Position, BlocksSound, block, u32
  <2>2. CASE last = u32
    <3> SUFFICES ASSUME NEW k \in 1 .. Len(block), block[k].lastledgerseq > seq,
                        Touches(block[k].lastledgerseq)
                 PROVE  FALSE
      BY <1>4, <2>1, <2>2 DEF BlocksSound
    <3>1. block[k] \in Data  BY <1>1, SeqElem
    <3>2. block[k].lastledgerseq \in Seqs  BY <3>1 DEF Data
    <3>3. block[k].lastledgerseq \in Ledger  BY <3>2, TouchedLedger
    <3>4. block[k].lastledgerseq <= u32  BY <1>1, <2>1, <3>2, TableAssumption DEF Seqs
    <3> QED  BY <1>7, <3>3, <3>4 DEF Untouched
  <2>3. CASE last # u32
    <3>1. last > u32 => ~Touches(last)
      <4> SUFFICES ASSUME last > u32, Touches(last)  PROVE FALSE  OBVIOUS
      <4>1. last \in Ledger  BY TouchedLedger
      <4> QED  BY <1>7, <4>1 DEF Untouched, Ledger
    <3>2. \A j \in 1 .. Len(r.aBlockData_) :
            r.aBlockData_[j] = d \/ \E k \in 1 .. Len(block) : r.aBlockData_[j] = block[k]
      <4>1. LET q == PushDataByOrder(block, d)
            IN  \A j \in 1 .. Len(q) : q[j] = d \/ \E k \in 1 .. Len(block) : q[j] = block[k]
        BY <1>1, <1>2, BlockPushed
      <4> QED  BY <1>4, <2>3, <4>1
    <3> QED  BY <1>2, <1>4, <2>1, <2>3, <3>1, <3>2 DEF BlocksSound
  <2> QED  BY <2>2, <2>3
<1>11. Position(r)
  BY <1>3, <1>5, <1>8, <1>9, <1>10 DEF Position
<1>12. r.uTxSeq_ = item.uTxSeq_ /\ r.u32SeqLedger_ \in {item.u32SeqLedger_, seq}
  BY <1>4 DEF tx, u32
<1> QED  BY <1>3, <1>11, <1>12 DEF r, d

\* The transactions of ledger seq, the first that touches the table after uTxSeq_.
LEMMA TableSent ==
    ASSUME TypeOK, Shape, Sound, item.eState_ # "INIT",
           NEW seq \in Seqs, item.u32SeqLedger_ < seq, Touches(seq), Latest(seq, seq),
           Untouched(item.uTxSeq_, seq - 1)
    PROVE  LET r == SendData(item, TableData(seq, item.uTxSeq_))
           IN  r \in Item /\ Position(r) /\ r.uTxSeq_ = seq /\ r.u32SeqLedger_ = seq
<1> DEFINE d == TableData(seq, item.uTxSeq_)
           r == SendData(item, d)
           u32 == item.u32SeqLedger_
           tx == item.uTxSeq_
           block == item.aBlockData_
<1>1. item \in Item /\ u32 \in Seqs /\ tx \in Seqs /\ block \in Seq(Data)
      /\ item.aWholeData_ \in Seq(Data) /\ sqlJob.vec \in Seq(Data)
  BY DEF TypeOK, Item, SQLLocals
<1>2. d \in Data /\ d.ledgerseq = seq /\ d.txs = TRUE
  <2>1. d \in Data  BY <1>1, ReplyTyped
  <2> QED  BY <2>1 DEF TableData
<1>3. r \in Item /\ r.eState_ = item.eState_ /\ r.uTxDBUpdateHash_ = item.uTxDBUpdateHash_
  BY <1>1, <1>2, SendTyped
<1>4. Position(item)  BY SoundPosition
<1>5. \A k \in 1 .. Len(block) :
        /\ ~block[k].txs
        /\ block[k].lastledgerseq > u32 => ~Touches(block[k].lastledgerseq)
  BY <1>4 DEF Position, BlocksSound
<1>6. Len(block) > 0 => block[1].lastledgerseq # seq
  <2>1. Len(block) \in Nat  BY <1>1, LenProperties
  <2> SUFFICES ASSUME Len(block) > 0, block[1].lastledgerseq = seq  PROVE FALSE  OBVIOUS
  <2>2. 1 \in 1 .. Len(block)  BY <2>1
  <2> QED  BY <1>1, <1>5, <2>2, TableAssumption, Zenon DEF Seqs
<1>7. /\ r.uTxSeq_ = seq /\ r.u32SeqLedger_ = seq
      /\ r.aWholeData_ = Append(item.aWholeData_, d) /\ r.aBlockData_ = block
  BY <1>1, <1>6, SendTable
<1>8. tx <= u32  BY <1>4 DEF Position, Latest
<1>9. Leads(u32, d)
  BY <1>1, <1>2, <1>8, TableAssumption DEF Leads, Untouched, Seqs, Ledger
<1> HIDE DEF d, r, u32, tx, block
<1>10. item.eState_ # "STOP" =>
         Covered(row.LedgerSeq, sqlJob.vec \o r.aWholeData_, r.u32SeqLedger_)
  <2> SUFFICES ASSUME item.eState_ # "STOP"
               PROVE  Covered(row.LedgerSeq, sqlJob.vec \o r.aWholeData_, r.u32SeqLedger_)
    OBVIOUS
  <2>1. Covered(row.LedgerSeq, sqlJob.vec \o item.aWholeData_, u32)
    BY <1>4 DEF Position, u32
  <2>2. /\ sqlJob.vec \o item.aWholeData_ \in Seq(Data)
        /\ sqlJob.vec \o Append(item.aWholeData_, d) = Append(sqlJob.vec \o item.aWholeData_, d)
    BY <1>1, <1>2, QueueAppend, Zenon
  <2>3. Covered(row.LedgerSeq, Append(sqlJob.vec \o item.aWholeData_, d), seq)
    BY <1>2, <1>9, <2>1, <2>2, CoveredAppend, Zenon
  <2> QED  BY <1>7, <2>2, <2>3
<1>11. BlocksSound(r)
  <2>1. \A k \in 1 .. Len(block) : block[k].lastledgerseq \in Seqs
    <3>1. \A k \in 1 .. Len(block) : block[k] \in Data  BY <1>1, SeqElem
    <3> QED  BY <3>1 DEF Data
  <2>2. u32 < seq  BY DEF u32
  <2> QED  BY <1>1, <1>5, <1>7, <2>1, <2>2, TableAssumption DEF BlocksSound, Seqs
<1>12. Position(r)  BY <1>3, <1>4, <1>7, <1>10, <1>11 DEF Position
<1> QED  BY <1>3, <1>7, <1>12 DEF r, d

LEMMA SeekState ==
    ASSUME TypeOK, Shape, Sound, searching
    PROVE  /\ item.eState_ # "INIT" /\ localJob.i - 1 \in Seqs /\ localJob.i > 0
           /\ localJob.tx = item.uTxSeq_ /\ localJob.tx \in Seqs
           /\ Latest(item.uTxSeq_, localJob.i - 1)
           /\ item.u32SeqLedger_ <= localJob.i - 1 /\ localJob.last <= localJob.i - 1
           /\ localJob.cur < localJob.i /\ localJob.cur \in Seqs /\ localJob.last \in Seqs
           /\ localJob.cur = 0 \/ localJob.tx <= localJob.cur
           /\ localJob.pc = "candidate" => localJob.cur # 0
           /\ item.u32SeqLedger_ \in Seqs /\ localJob.i \in Int
<1>1. item.eState_ # "INIT"  BY DEF Shape, searching, NoSeek, Idle
<1>2. SeekSound  BY DEF Sound
<1>3. /\ localJob.i \in 0 .. MaxSeq + 1 /\ localJob.last \in Seqs /\ localJob.tx \in Seqs
      /\ localJob.cur \in Seqs
  BY DEF TypeOK, SeekLocals
<1>4. item.u32SeqLedger_ \in Seqs /\ item.uTxSeq_ \in Seqs  BY DEF TypeOK, Item
<1> QED  BY <1>1, <1>2, <1>3, <1>4, TableAssumption DEF SeekSound, Seqs

LEMMA SeekSkipSound ==
    ASSUME TypeOK, Shape, Sound, SeekSkip, TypeOK'  PROVE Sound'
<1> DEFINE d == SeekEnd(uStopIndex, localJob.last)
           r == SendData(item, d)
<1>1. localJob.pc = "seek" /\ localJob.i <= localJob.pub /\ searching /\ localJob \in SeekLocals
  BY DEF SeekSkip, seeking, searching, TypeOK
<1>2. uStopIndex \in Seqs /\ localJob.i <= uStopIndex  BY <1>1, StopIndex
<1>3. Untouched(item.uTxSeq_, uStopIndex)
  <2>1. localJob.tx = 0 \/ Touches(localJob.tx)  BY <1>1, SeekState DEF Latest
  <2>2. ~changedSince(uStopIndex, localJob.tx)  BY DEF SeekSkip
  <2> QED  BY <1>1, <1>2, <2>1, <2>2, SeekState, NotChanged
<1>4. item.uTxSeq_ <= uStopIndex /\ Untouched(item.uTxSeq_, localJob.i - 1)
      /\ localJob.i \in Int /\ uStopIndex \in Int /\ item.uTxSeq_ \in Seqs
  BY <1>1, <1>2, SeekState, TableAssumption DEF Latest, Seqs
<1>5. /\ r \in Item /\ Position(r) /\ r.uTxSeq_ = item.uTxSeq_
      /\ r.u32SeqLedger_ \in {item.u32SeqLedger_, uStopIndex}
  BY <1>1, <1>2, <1>3, <1>4, SeekState, EndSent, Zenon
<1>6. item' = r /\ sqlJob' = TryOperateSQL(item, d) /\ UNCHANGED dbVars  BY DEF SeekSkip
<1> HIDE DEF r, d
<1>7. localJob' = [localJob EXCEPT !.i = uStopIndex + 1, !.last = uStopIndex, !.sent = TRUE]
  BY DEF SeekSkip
<1>8. /\ localJob'.i = uStopIndex + 1 /\ localJob'.last = uStopIndex /\ localJob'.pc = "seek"
      /\ localJob'.tx = localJob.tx /\ localJob'.cur = localJob.cur
  BY <1>1, <1>7 DEF SeekLocals
<1>9. Latest(item.uTxSeq_, uStopIndex)
  BY <1>1, <1>3, <1>4, SeekState DEF Latest
<1>10. SeekSound'
  <2>1. uStopIndex + 1 - 1 = uStopIndex  BY <1>4
  <2>2. item'.u32SeqLedger_ < uStopIndex + 1
    BY <1>1, <1>2, <1>4, <1>5, <1>6, SeekState, TableAssumption DEF Seqs
  <2>3. localJob.cur < uStopIndex + 1
    BY <1>1, <1>2, <1>4, SeekState, TableAssumption DEF Seqs
  <2> QED  BY <1>1, <1>4, <1>5, <1>6, <1>8, <1>9, <2>1, <2>2, <2>3, SeekState
           DEF SeekSound, searching
<1>11. /\ item.eState_ # "INIT" /\ item'.eState_ = item.eState_ /\ item' \in Item
  BY <1>1, <1>5, <1>6, SeekState DEF Position
<1>12. \/ sqlJob' = sqlJob
       \/ sqlJob.pc = Idle /\ sqlJob' = [NoSQL EXCEPT !.pc = "queued"]
  BY <1>6 DEF TryOperateSQL
<1> QED  BY <1>5, <1>6, <1>10, <1>11, <1>12, Moved

LEMMA SeekLedgerSound ==
    ASSUME TypeOK, Shape, Sound, SeekLedger, TypeOK'  PROVE Sound'
<1>1. PICK looked \in BOOLEAN, txn \in Seqs, prev \in Seqs : ReadLedger(looked, txn, prev)
  BY DEF SeekLedger
<1>2. localJob.pc = "seek" /\ localJob.i <= localJob.pub /\ searching /\ localJob \in SeekLocals
  BY <1>1 DEF ReadLedger, looksInto, seeking, searching, TypeOK
<1> DEFINE i == localJob.i
           changed == prev = item.uTxSeq_
           d == TableData(txn, prev)
           r == IF changed THEN SendData(item, d) ELSE item
<1>3. i \in Seqs /\ i > 0
  BY <1>2, SeekState, TableAssumption DEF SeekLocals, Seqs
<1>4. localJob.tx = item.uTxSeq_ /\ item.uTxSeq_ \in Seqs /\ Latest(item.uTxSeq_, i - 1)
      /\ item.eState_ # "INIT" /\ item \in Item
  BY <1>2, SeekState DEF TypeOK
<1>5. TableEntry(i, txn, prev)  BY <1>1 DEF ReadLedger
<1>6. /\ changed => txn = i /\ Touches(i) /\ Latest(i, i)
      /\ ~changed => ~Touches(i) /\ Latest(item.uTxSeq_, i)
  BY <1>3, <1>4, <1>5, EntryNext
<1>7. /\ item' = r
      /\ sqlJob' = IF changed THEN TryOperateSQL(item, d) ELSE sqlJob
      /\ UNCHANGED dbVars
  BY <1>1, <1>4 DEF ReadLedger, SeekLedger
<1>8. /\ localJob'.pc \in {"seek", "candidate"} /\ localJob'.i = i + 1 /\ localJob'.cur = i
      /\ localJob'.last = IF changed THEN i ELSE localJob.last
      /\ localJob'.tx = IF changed THEN i ELSE localJob.tx
  BY <1>1, <1>2, <1>4 DEF ReadLedger, SeekLocals
<1>9. CASE changed
  <2>1. Untouched(item.uTxSeq_, i - 1)  BY <1>4 DEF Latest
  <2>2. item.u32SeqLedger_ < i  BY <1>2, <1>3, SeekState, TableAssumption DEF Seqs
  <2>3. r = SendData(item, TableData(i, item.uTxSeq_))  BY <1>6, <1>9
  <2>4. r \in Item /\ Position(r) /\ r.uTxSeq_ = i /\ r.u32SeqLedger_ = i
    BY <1>3, <1>4, <1>6, <1>9, <2>1, <2>2, <2>3, TableSent
  <2> HIDE DEF r, d
  <2>5. i + 1 - 1 = i /\ i < i + 1  BY <1>3, TableAssumption DEF Seqs
  <2>6. SeekSound'
    BY <1>3, <1>6, <1>7, <1>8, <1>9, <2>4, <2>5, TableAssumption DEF SeekSound, Seqs
  <2>7. item'.eState_ = item.eState_ /\ item' \in Item  BY <1>7, <2>4 DEF Position
  <2>8. \/ sqlJob' = sqlJob
        \/ sqlJob.pc = Idle /\ sqlJob' = [NoSQL EXCEPT !.pc = "queued"]
    BY <1>7 DEF TryOperateSQL
  <2> QED  BY <1>4, <1>7, <2>4, <2>6, <2>7, <2>8, Moved
<1>10. CASE ~changed
  <2>1. item' = item /\ sqlJob' = sqlJob  BY <1>7, <1>10
  <2>2. i + 1 - 1 = i  BY <1>3, TableAssumption DEF Seqs
  <2>3. SeekSound'
    <3>1. item.u32SeqLedger_ < i + 1 /\ localJob.last < i + 1 /\ i < i + 1
          /\ localJob.tx <= i /\ i # 0
      BY <1>2, <1>3, <1>4, SeekState, TableAssumption DEF Seqs, Latest
    <3>2. localJob'.last = localJob.last /\ localJob'.tx = localJob.tx  BY <1>8, <1>10
    <3>3. Latest(localJob'.tx, localJob'.i - 1)
      <4>1. localJob'.i - 1 = i  BY <1>3, <1>8, TableAssumption DEF Seqs
      <4>2. Latest(item.uTxSeq_, i)  BY <1>6, <1>10
      <4> QED  BY <1>4, <3>2, <4>1, <4>2
    <3> QED  BY <1>4, <1>8, <2>1, <3>1, <3>2, <3>3 DEF SeekSound
  <2>4. Position(item)  BY <1>4, SoundPosition
  <2>5. item'.eState_ = "STOP" \/ item.eState_ # "STOP"  BY <2>1
  <2> QED  BY <1>4, <1>7, <2>1, <2>3, <2>4, <2>5, Moved
<1> QED  BY <1>9, <1>10

LEMMA CurSent ==
    ASSUME TypeOK, Shape, Sound, searching, localJob.cur # 0
    PROVE  LET r == SendData(item, SeekEnd(localJob.cur, localJob.last))
           IN  /\ r \in Item /\ Position(r) /\ r.uTxSeq_ = item.uTxSeq_
               /\ r.u32SeqLedger_ \in {item.u32SeqLedger_, localJob.cur}
<1> DEFINE seq == localJob.cur
           last == localJob.last
           m == localJob.i - 1
<1>1. /\ item.eState_ # "INIT" /\ seq \in Seqs /\ last \in Seqs /\ m \in Seqs
      /\ item.uTxSeq_ \in Seqs /\ item.uTxSeq_ <= seq /\ Untouched(item.uTxSeq_, m)
      /\ last <= m /\ item.u32SeqLedger_ <= m /\ seq < localJob.i /\ localJob.i \in Int
  BY SeekState DEF Latest
<1>2. Untouched(item.uTxSeq_, seq)
  BY <1>1, TableAssumption DEF Untouched, Seqs, Ledger
<1> HIDE DEF seq, last, m
<1> QED  BY <1>1, <1>2, EndSent DEF seq, last

LEMMA SeekCandidateSound ==
    ASSUME TypeOK, Shape, Sound, SeekCandidate, TypeOK'  PROVE Sound'
<1> DEFINE d == SeekEnd(localJob.cur, localJob.last)
           r == SendData(item, d)
<1>1. localJob.pc = "candidate" /\ searching /\ localJob \in SeekLocals
  BY DEF SeekCandidate, searching, TypeOK
<1>2. localJob.cur # 0 /\ item.eState_ # "INIT"  BY <1>1, SeekState
<1>3. /\ r \in Item /\ Position(r) /\ r.uTxSeq_ = item.uTxSeq_
      /\ r.u32SeqLedger_ \in {item.u32SeqLedger_, localJob.cur}
  BY <1>1, <1>2, CurSent
<1>4. item' = r /\ sqlJob' = TryOperateSQL(item, d) /\ UNCHANGED dbVars
      /\ localJob' = [localJob EXCEPT !.pc = "seek"]
  BY DEF SeekCandidate
<1> HIDE DEF r, d
<1>5. /\ localJob'.i = localJob.i /\ localJob'.last = localJob.last /\ localJob'.pc = "seek"
      /\ localJob'.tx = localJob.tx /\ localJob'.cur = localJob.cur
  BY <1>1, <1>4 DEF SeekLocals
<1>6. SeekSound'
  <2>1. SeekSound  BY DEF Sound
  <2> QED  BY <1>1, <1>3, <1>4, <1>5, <2>1 DEF SeekSound, searching
<1>7. item'.eState_ = item.eState_ /\ item' \in Item  BY <1>3, <1>4 DEF Position
<1>8. \/ sqlJob' = sqlJob
      \/ sqlJob.pc = Idle /\ sqlJob' = [NoSQL EXCEPT !.pc = "queued"]
  BY <1>4 DEF TryOperateSQL
<1> QED  BY <1>2, <1>3, <1>4, <1>6, <1>7, <1>8, Moved

LEMMA SeekFinishSound ==
    ASSUME TypeOK, Shape, Sound, SeekFinish, TypeOK'  PROVE Sound'
<1> DEFINE d == SeekEnd(localJob.cur, localJob.last)
<1>1. localJob.pc = "seek" /\ searching /\ item \in Item
  BY DEF SeekFinish, searching, TypeOK
<1>2. item.eState_ # "INIT"  BY <1>1, SeekState
<1>3. PICK end \in {"over", "gone", "noReply"} :
        /\ item' = SetSyncState(IF closes(end) THEN SendData(item, d) ELSE item, "BLOCK_STOP")
        /\ sqlJob' = IF closes(end) THEN TryOperateSQL(item, d) ELSE sqlJob
  BY DEF SeekFinish
<1> DEFINE r == IF closes(end) THEN SendData(item, d) ELSE item
<1>4. r \in Item /\ Position(r)
  <2>1. CASE closes(end)
    <3>1. localJob.cur # 0  BY <2>1 DEF closes
    <3> QED  BY <1>1, <2>1, <3>1, CurSent
  <2>2. CASE ~closes(end)  BY <1>1, <1>2, <2>2, SoundPosition
  <2> QED  BY <2>1, <2>2
<1>5. \/ sqlJob' = sqlJob
      \/ sqlJob.pc = Idle /\ sqlJob' = [NoSQL EXCEPT !.pc = "queued"]
  BY <1>3 DEF TryOperateSQL
<1>6. item' = SetSyncState(r, "BLOCK_STOP")  BY <1>3
<1> HIDE DEF r
<1>7. /\ item' \in Item /\ item'.u32SeqLedger_ = r.u32SeqLedger_ /\ item'.uTxSeq_ = r.uTxSeq_
      /\ item'.uTxDBUpdateHash_ = r.uTxDBUpdateHash_
      /\ item'.aWholeData_ = r.aWholeData_ /\ item'.aBlockData_ = r.aBlockData_
      /\ item'.eState_ = "STOP" \/ item.eState_ # "STOP"
  BY <1>4, <1>6, StateTyped DEF Position
<1>8. UNCHANGED dbVars /\ localJob' = [NoSeek EXCEPT !.pc = "ending"]  BY DEF SeekFinish
<1>9. SeekSound'  BY <1>8 DEF SeekSound, searching, NoSeek
<1> QED  BY <1>2, <1>4, <1>5, <1>7, <1>8, <1>9, Moved

LEMMA LocalSound ==
    ASSUME TypeOK, Shape, Sound, LocalJob, TypeOK'  PROVE Sound'
<1>1. CASE LocalSyncThread
  <2>1. item.eState_ # "INIT"  BY <1>1 DEF LocalSyncThread, Shape, NoSeek, Idle
  <2>2. Position(item) /\ item \in Item  BY <2>1, SoundPosition DEF TypeOK
  <2>3. UNCHANGED dbVars /\ sqlJob' = sqlJob  BY <1>1 DEF LocalSyncThread
  <2>4. CASE listed /\ item.eState_ = "WAIT_LOCAL_ACQUIRE"
    <3>1. item' = SetSyncState(item, "LOCAL_ACQUIRING")  BY <1>1, <2>4 DEF LocalSyncThread
    <3>2. /\ item' \in Item /\ item'.u32SeqLedger_ = item.u32SeqLedger_
          /\ item'.uTxSeq_ = item.uTxSeq_ /\ item'.uTxDBUpdateHash_ = item.uTxDBUpdateHash_
          /\ item'.aWholeData_ = item.aWholeData_ /\ item'.aBlockData_ = item.aBlockData_
      BY <2>2, <3>1, StateTyped
    <3>3. /\ localJob'.i = item.u32SeqLedger_ + 1 /\ localJob'.tx = item.uTxSeq_
          /\ localJob'.last = item.u32SeqLedger_ /\ localJob'.cur = 0 /\ localJob'.pc = "seek"
      BY <1>1, <2>4 DEF LocalSyncThread
    <3>4. item.u32SeqLedger_ \in Nat /\ Latest(item.uTxSeq_, item.u32SeqLedger_)
      BY <2>2, TableAssumption DEF Item, Seqs, Position
    <3>5. SeekSound'
      <4>1. item.u32SeqLedger_ + 1 - 1 = item.u32SeqLedger_ /\ 0 < item.u32SeqLedger_ + 1
            /\ item.u32SeqLedger_ < item.u32SeqLedger_ + 1
        BY <3>4
      <4> QED  BY <3>2, <3>3, <3>4, <4>1 DEF SeekSound
    <3> QED  BY <2>1, <2>2, <2>3, <2>4, <3>2, <3>5, Moved
  <2>5. CASE ~(listed /\ item.eState_ = "WAIT_LOCAL_ACQUIRE")
    <3>1. item' = item /\ localJob' = [NoSeek EXCEPT !.pc = "ending"]
      BY <1>1, <2>5 DEF LocalSyncThread
    <3>2. SeekSound'  BY <3>1 DEF SeekSound, searching, NoSeek
    <3> QED  BY <2>1, <2>2, <2>3, <3>1, <3>2, Moved
  <2> QED  BY <2>4, <2>5
<1>2. CASE SeekSkip  BY <1>2, SeekSkipSound
<1>3. CASE SeekLedger  BY <1>3, SeekLedgerSound
<1>4. CASE SeekCandidate  BY <1>4, SeekCandidateSound
<1>5. CASE SeekFinish  BY <1>5, SeekFinishSound
<1>6. CASE LocalSyncEnd
  <2>1. item.eState_ # "INIT"  BY <1>6 DEF LocalSyncEnd, Shape, NoSeek, Idle
  <2>2. Position(item) /\ item \in Item  BY <2>1, SoundPosition DEF TypeOK
  <2>3. UNCHANGED dbVars /\ sqlJob' = sqlJob /\ item' = item /\ localJob' = NoSeek
    BY <1>6 DEF LocalSyncEnd
  <2>4. SeekSound'  BY <2>3 DEF SeekSound, searching, NoSeek, Idle
  <2> QED  BY <2>1, <2>2, <2>3, <2>4, Moved
<1> QED  BY <1>1, <1>2, <1>3, <1>4, <1>5, <1>6 DEF LocalJob

-----------------------------------------------------------------------------
(* The jobs that drive the item, and a crash. *)

LEMMA NewRowSound == RowSound(NewRow)
<1>1. NewRow.LedgerSeq = CreateSeq /\ NewRow.TxnLedgerSeq = 0 /\ NewRow.TxnUpdateHash = NoTx
  BY DEF NewRow
<1>2. Latest(0, CreateSeq)  BY TableAssumption DEF Latest, Untouched, Ledger
<1> QED  BY <1>1, <1>2 DEF RowSound

LEMMA SyncInitSound ==
    ASSUME TypeOK, Shape, Sound, SyncInit, UNCHANGED <<contents, localJob, sqlJob>>, TypeOK'
    PROVE  Sound'
<1>1. item = NewItem /\ localJob = NoSeek /\ sqlJob = NoSQL /\ item \in Item
  BY DEF Shape, SyncInit, TypeOK
<1>2. PICK state \in {"BLOCK_STOP", "STOP"} : item' = SetSyncState(SetPara(item, StatusRow), state)
  BY DEF SyncInit
<1>3. row' = StatusRow /\ row' \in [LedgerSeq : Seqs, TxnLedgerSeq : Seqs, TxnUpdateHash : Slice]
  BY DEF SyncInit, TypeOK
<1>4. RowSound(row)  BY DEF Sound
<1>5. RowSound(StatusRow)  BY <1>4, NewRowSound DEF StatusRow
<1> DEFINE p == SetPara(item, StatusRow)
<1>6. /\ p \in Item /\ p.u32SeqLedger_ = row'.LedgerSeq /\ p.uTxSeq_ = row'.TxnLedgerSeq
      /\ p.uTxDBUpdateHash_ = row'.TxnUpdateHash
      /\ p.aWholeData_ = <<>> /\ p.aBlockData_ = <<>>
  <2>1. p = [item EXCEPT !.u32SeqLedger_ = row'.LedgerSeq, !.uTxSeq_ = row'.TxnLedgerSeq,
                         !.uTxDBUpdateHash_ = row'.TxnUpdateHash]
    BY <1>3 DEF SetPara
  <2>2. item.aWholeData_ = <<>> /\ item.aBlockData_ = <<>>  BY <1>1 DEF NewItem
  <2> HIDE DEF p
  <2> QED  BY <1>1, <1>3, <2>1, <2>2, Zenon DEF Item
<1> HIDE DEF p
<1>7. /\ item'.u32SeqLedger_ = row'.LedgerSeq /\ item'.uTxSeq_ = row'.TxnLedgerSeq
      /\ item'.uTxDBUpdateHash_ = row'.TxnUpdateHash
      /\ item'.aWholeData_ = <<>> /\ item'.aBlockData_ = <<>>
  <2>1. item' = SetSyncState(p, state)  BY <1>2 DEF p
  <2>2. state \in {"BLOCK_STOP", "WAIT_LOCAL_ACQUIRE", "LOCAL_ACQUIRING", "STOP"}  OBVIOUS
  <2> QED  BY <1>6, <2>1, <2>2, StateTyped
<1>8. sqlJob' = NoSQL /\ localJob' = NoSeek /\ contents' = contents  BY <1>1
<1>9. RowSound(row)'
  <2>1. RowSound(row')  BY <1>3, <1>5, <1>8
  <2> QED  BY <1>4, <1>8, <2>1 DEF RowSound
<1>10. QueueSound'
  <2>1. Pending' = <<>> \o <<>>  BY <1>7, <1>8 DEF Pending, NoSQL
  <2>2. Covered(row'.LedgerSeq, <<>> \o <<>>, row'.LedgerSeq)  BY CoveredEmpty
  <2> QED  BY <1>7, <2>1, <2>2 DEF QueueSound
<1>11. SeekSound'  BY <1>8 DEF NoSQL, SeekSound, searching, NoSeek, Idle
<1>12. ItemSound'
  <2>1. Latest(row'.TxnLedgerSeq, row'.LedgerSeq)  BY <1>3, <1>5 DEF RowSound
  <2> QED  BY <1>7, <2>1 DEF ItemSound
<1>13. BlockSound'
  <2>1. Len(item'.aBlockData_) = 0  BY <1>7
  <2> QED  BY <2>1 DEF BlockSound
<1> QED  BY <1>9, <1>10, <1>11, <1>12, <1>13 DEF Sound

LEMMA SyncSound ==
    ASSUME TypeOK, Shape, Sound, TypeOK',
           Publish \/ FetchHistory \/ TryTableSync \/ SyncJob \/ Crash
    PROVE  Sound'
<1>1. CASE UNCHANGED <<row, contents, item, localJob, sqlJob>>
  BY <1>1, Zenon DEF Sound, RowSound, QueueSound, Pending, current, slice,
              ItemSound, SeekSound, searching, BlockSound
<1>2. CASE TableSyncThread
  <2>1. UNCHANGED <<contents, localJob, sqlJob>>  BY <1>2 DEF TableSyncThread
  <2>2. CASE SyncInit  BY <2>1, <2>2, SyncInitSound
  <2>3. CASE SyncBlockStop
    <3>1. UNCHANGED row /\ item.eState_ # "INIT"  BY <2>3 DEF SyncBlockStop
    <3>2. item' = item \/ item' = SetSyncState(item, "WAIT_LOCAL_ACQUIRE")
      BY <2>3 DEF SyncBlockStop
    <3>3. Position(item) /\ item \in Item  BY <3>1, SoundPosition DEF TypeOK
    <3>4. /\ item' \in Item /\ item'.u32SeqLedger_ = item.u32SeqLedger_
          /\ item'.uTxSeq_ = item.uTxSeq_ /\ item'.uTxDBUpdateHash_ = item.uTxDBUpdateHash_
          /\ item'.aWholeData_ = item.aWholeData_ /\ item'.aBlockData_ = item.aBlockData_
          /\ item'.eState_ = "STOP" \/ item.eState_ # "STOP"
      BY <3>2, <3>3, StateTyped
    <3>5. SeekSound'
      <4>1. SeekSound  BY DEF Sound
      <4> QED  BY <2>1, <3>4, <4>1 DEF SeekSound, searching
    <3> QED  BY <2>1, <3>1, <3>3, <3>4, <3>5, Moved DEF dbVars
  <2>4. CASE UNCHANGED <<item, row>>  BY <1>1, <2>1, <2>4
  <2> QED  BY <1>2, <2>2, <2>3, <2>4 DEF TableSyncThread
<1>3. CASE TableSyncEnd
  <2>1. UNCHANGED <<row, contents, item, sqlJob>>  BY <1>3 DEF TableSyncEnd, dbVars
  <2>2. localJob' = localJob \/ localJob' = [NoSeek EXCEPT !.pc = "queued"]
    BY <1>3 DEF TableSyncEnd, TryLocalSync
  <2>3. CASE localJob' = [NoSeek EXCEPT !.pc = "queued"]
    <3>1. SeekSound'  BY <2>3 DEF SeekSound, searching, NoSeek
    <3> QED  BY <2>1, <3>1 DEF Sound, RowSound, QueueSound, Pending,
                               current, slice, ItemSound, BlockSound
  <2> QED  BY <1>1, <2>1, <2>2, <2>3
<1>4. CASE Crash
  <2>1. UNCHANGED <<row, contents>> /\ item' = NewItem /\ localJob' = NoSeek /\ sqlJob' = NoSQL
    BY <1>4 DEF Crash, dbVars
  <2>2. RowSound(row)'
    BY <2>1 DEF Sound, RowSound
  <2>3. QueueSound' /\ ItemSound' /\ SeekSound'
    BY <2>1 DEF QueueSound, ItemSound, SeekSound, searching, NewItem, NoSQL, NoSeek, Idle
  <2>4. BlockSound'
    <3>1. Len(item'.aBlockData_) = 0  BY <2>1 DEF NewItem
    <3> QED  BY <3>1 DEF BlockSound
  <2> QED  BY <2>2, <2>3, <2>4 DEF Sound
<1>5. CASE Publish \/ FetchHistory \/ TryTableSync
  BY <1>1, <1>5 DEF Publish, FetchHistory, TryTableSync, dbVars
<1> QED  BY <1>2, <1>3, <1>4, <1>5 DEF SyncJob

-----------------------------------------------------------------------------
(* The SQL job. *)

\* The first entry of what is being dealt with continues the row.
LEMMA DealingState ==
    ASSUME TypeOK, Shape, Sound, dealing
    PROVE  /\ item.eState_ \notin {"INIT", "STOP"} /\ item \in Item /\ sqlJob \in SQLLocals
           /\ sqlJob.vec \in Seq(Data) /\ item.aWholeData_ \in Seq(Data)
           /\ Head(sqlJob.vec) \in Data /\ current \in Seqs
           /\ row.LedgerSeq \in Seqs /\ row.TxnLedgerSeq \in Seqs /\ row.TxnUpdateHash \in Slice
           /\ item.uTxDBUpdateHash_ = row.TxnUpdateHash
           /\ Leads(row.LedgerSeq, Head(sqlJob.vec))
           /\ Covered(current, Tail(sqlJob.vec) \o item.aWholeData_, item.u32SeqLedger_)
           /\ Tail(sqlJob.vec) \in Seq(Data)
<1>1. sqlJob.pc = "deal" /\ sqlJob.vec # <<>>  BY DEF dealing
<1>2. item.eState_ \notin {"INIT", "STOP"}  BY <1>1 DEF Shape, NoSQL, Idle
<1>3. item \in Item /\ sqlJob \in SQLLocals  BY DEF TypeOK
<1>4. sqlJob.vec \in Seq(Data) /\ item.aWholeData_ \in Seq(Data)
  BY <1>3 DEF SQLLocals, Item
<1>5. row.LedgerSeq \in Seqs /\ row.TxnLedgerSeq \in Seqs /\ row.TxnUpdateHash \in Slice
  BY DEF TypeOK
<1>6. Covered(row.LedgerSeq, Pending, item.u32SeqLedger_)  BY <1>2 DEF Sound, QueueSound
<1>7. /\ Pending \in Seq(Data) /\ Pending # <<>> /\ Head(Pending) = Head(sqlJob.vec)
      /\ Tail(Pending) = Tail(sqlJob.vec) \o item.aWholeData_
      /\ Head(sqlJob.vec) \in Data /\ Tail(sqlJob.vec) \in Seq(Data)
  BY <1>1, <1>4, QueuePop, Zenon DEF Pending
<1>8. Leads(row.LedgerSeq, Head(Pending))
      /\ Covered(Head(Pending).ledgerseq, Tail(Pending), item.u32SeqLedger_)
  BY <1>6, <1>7, CoveredTail
<1>9. current \in Seqs  BY <1>7 DEF current, Data
<1> QED  BY <1>2, <1>3, <1>4, <1>5, <1>7, <1>8, <1>9, Zenon DEF Sound, ItemSound, current

\* A step of the SQL job leaves the position of the item and the search alone.
LEMMA SQLMoved ==
    ASSUME TypeOK, Sound, item.eState_ # "INIT",
           UNCHANGED localJob, item'.u32SeqLedger_ = item.u32SeqLedger_,
           item'.uTxSeq_ = item.uTxSeq_, item'.aBlockData_ = item.aBlockData_,
           item'.uTxDBUpdateHash_ = row'.TxnUpdateHash,
           RowSound(row)', QueueSound'
    PROVE  Sound'
<1>1. SeekSound'
  <2>1. SeekSound  BY DEF Sound
  <2> QED  BY <2>1 DEF SeekSound, searching
<1>2. BlockSound'
  <2>1. BlockSound  BY DEF Sound
  <2> QED  BY <2>1 DEF BlockSound
<1>3. ItemSound'
  <2>1. ItemSound  BY DEF Sound
  <2> QED  BY <2>1 DEF ItemSound
<1> QED  BY <1>1, <1>2, <1>3 DEF Sound

LEMMA DealEmptySound ==
    ASSUME TypeOK, Shape, Sound, DealEmpty, TypeOK'  PROVE Sound'
<1> DEFINE L == row.LedgerSeq
           T == row.TxnLedgerSeq
           h == row.TxnUpdateHash
<1>1. dealing /\ ~Head(sqlJob.vec).txs /\ UNCHANGED <<contents, localJob>>
  BY DEF DealEmpty
<1>2. L \in Seqs /\ T \in Seqs /\ h \in Slice /\ current \in Seqs
      /\ item.eState_ \notin {"INIT", "STOP"} /\ item \in Item /\ sqlJob \in SQLLocals
  BY <1>1, DealingState
<1>3. RowSound(row) /\ item.uTxDBUpdateHash_ = h
  BY <1>2 DEF Sound, ItemSound
<1>5. CASE /\ row' = [row EXCEPT !.LedgerSeq = current]
           /\ sqlJob' = [sqlJob EXCEPT !.vec = Tail(@)] /\ UNCHANGED item
  <2>1. row'.LedgerSeq = current /\ row'.TxnLedgerSeq = T /\ row'.TxnUpdateHash = h
    BY <1>5 DEF TypeOK
  <2>2. Untouched(L, current) /\ Untouched(current, L)
    BY <1>1, DealingState DEF Leads, current
  <2>3. T <= L /\ (T = 0 \/ Touches(T)) /\ Untouched(T, L)
    BY <1>3 DEF RowSound, Latest
  <2> HIDE DEF L, T, h
  <2>4. Latest(T, current)
    <3>1. T <= current
      <4> SUFFICES ASSUME ~(T <= current)  PROVE FALSE  OBVIOUS
      <4>1. current < T /\ T # 0  BY <1>2, TableAssumption DEF Seqs
      <4>2. Touches(T) /\ T \in Ledger  BY <1>2, <2>3, <4>1, TouchedLedger
      <4> QED  BY <2>2, <2>3, <4>1, <4>2 DEF Untouched
    <3>2. Untouched(T, current)
      BY <1>2, <2>2, <2>3, TableAssumption DEF Untouched, Seqs, Ledger
    <3> QED  BY <2>3, <3>1, <3>2 DEF Latest
  <2>5. h # NoTx => current < h[1] /\ Untouched(current, h[1] - 1)
    <3> SUFFICES ASSUME h # NoTx  PROVE current < h[1] /\ Untouched(current, h[1] - 1)
      OBVIOUS
    <3>1. L < h[1] /\ Touches(h[1]) /\ Untouched(L, h[1] - 1)
      BY <1>3 DEF RowSound, L, h
    <3>2. h[1] \in Seqs  BY <1>2 DEF Slice
    <3>3. h[1] \in Ledger  BY <3>1, <3>2, TouchedLedger
    <3>4. current < h[1]
      <4> SUFFICES ASSUME ~(current < h[1])  PROVE FALSE  OBVIOUS
      <4>1. h[1] <= current  BY <1>2, <3>2, TableAssumption DEF Seqs
      <4> QED  BY <2>2, <3>1, <3>3, <4>1 DEF Untouched
    <3>5. Untouched(current, h[1] - 1)
      BY <1>2, <2>2, <3>1, <3>2, TableAssumption DEF Untouched, Seqs, Ledger
    <3> QED  BY <3>4, <3>5
  <2>6. RowSound(row)'
    <3>1. RowSound(row')  BY <1>3, <2>1, <2>4, <2>5 DEF RowSound, T, h
    <3> QED  BY <1>1, <3>1 DEF RowSound
  <2>7. sqlJob'.vec = Tail(sqlJob.vec) /\ sqlJob'.i = sqlJob.i  BY <1>2, <1>5 DEF SQLLocals
  <2>8. QueueSound'
    <3>1. Covered(current, Tail(sqlJob.vec) \o item.aWholeData_, item.u32SeqLedger_)
      BY <1>1, DealingState
    <3> QED  BY <1>5, <2>1, <2>7, <3>1 DEF QueueSound, Pending
  <2> QED  BY <1>1, <1>2, <1>3, <1>5, <2>1, <2>6, <2>8, SQLMoved
<1>6. CASE item' = SetSyncState(item, "STOP") /\ sqlJob' = backToLoop /\ UNCHANGED row
  <2>1. /\ item'.eState_ = "STOP" /\ item'.u32SeqLedger_ = item.u32SeqLedger_
        /\ item'.uTxSeq_ = item.uTxSeq_ /\ item'.aBlockData_ = item.aBlockData_
        /\ item'.uTxDBUpdateHash_ = row'.TxnUpdateHash
    BY <1>2, <1>3, <1>6, StateTyped
  <2>2. QueueSound'
    BY <1>6, <2>1 DEF QueueSound, backToLoop, NoSQL
  <2>3. RowSound(row)'  BY <1>1, <1>3, <1>6 DEF RowSound
  <2> QED  BY <1>1, <1>2, <2>1, <2>2, <2>3, SQLMoved
<1> QED  BY <1>5, <1>6 DEF DealEmpty

\* The hash of the row, if any, is of the ledger that is dealt with.
LEMMA TrySlice ==
    ASSUME TypeOK, Shape, Sound, DealTry
    PROVE  /\ Head(sqlJob.vec).txs /\ sqlJob'.vec = sqlJob.vec
           /\ sqlJob'.i <= slices[current]
<1> DEFINE h == row.TxnUpdateHash
           L == row.LedgerSeq
<1>1. dealing /\ Head(sqlJob.vec).txs  BY DEF DealTry
<1>2. /\ item.eState_ \notin {"INIT", "STOP"} /\ sqlJob \in SQLLocals /\ current \in Seqs
      /\ item.uTxDBUpdateHash_ = h /\ h \in Slice /\ L \in Seqs
  BY <1>1, DealingState
<1>3. L < current /\ Touches(current) /\ Untouched(L, current - 1)
  BY <1>1, DealingState DEF Leads, current
<1>4. RowSound(row)  BY DEF Sound
<1>5. h # NoTx => h[1] = current /\ 1 <= h[2] /\ h[2] < slices[current]
  <2> SUFFICES ASSUME h # NoTx  PROVE h[1] = current /\ 1 <= h[2] /\ h[2] < slices[current]
    OBVIOUS
  <2>1. L < h[1] /\ Touches(h[1]) /\ Untouched(L, h[1] - 1) /\ 1 <= h[2] /\ h[2] < slices[h[1]]
    BY <1>4 DEF RowSound
  <2>2. h[1] \in Seqs  BY <1>2 DEF Slice
  <2>3. h[1] \in Ledger /\ current \in Ledger  BY <1>2, <1>3, <2>1, <2>2, TouchedLedger
  <2> HIDE DEF h, L
  <2>4. ~(h[1] < current)
    <3> SUFFICES ASSUME h[1] < current  PROVE FALSE  OBVIOUS
    <3>1. h[1] <= current - 1  BY <1>2, <2>2, TableAssumption DEF Seqs
    <3> QED  BY <1>3, <2>1, <2>3, <3>1 DEF Untouched
  <2>5. ~(current < h[1])
    <3> SUFFICES ASSUME current < h[1]  PROVE FALSE  OBVIOUS
    <3>1. current <= h[1] - 1  BY <1>2, <2>2, TableAssumption DEF Seqs
    <3> QED  BY <1>3, <2>1, <2>3, <3>1 DEF Untouched
  <2>6. h[1] = current  BY <1>2, <2>2, <2>4, <2>5, TableAssumption DEF Seqs
  <2> QED  BY <2>1, <2>6
<1>6. PICK n \in Nat : sqlJob' = [sqlJob EXCEPT !.i = n] /\ n <= slices[current]
  <2>1. CASE h = NoTx
    <3>1. sqlJob' = [sqlJob EXCEPT !.i = 1]  BY <1>2, <2>1 DEF DealTry
    <3>2. 1 <= slices[current]
      <4>1. current \in Ledger  BY <1>2, <1>3, TouchedLedger
      <4> QED  BY <1>3, <4>1, TableAssumption DEF Touches, Ledger
    <3> QED  BY <3>1, <3>2
  <2>2. CASE h # NoTx
    <3>1. h[2] \in Nat  BY <1>2 DEF Slice
    <3>2. sqlJob' = [sqlJob EXCEPT !.i = h[2]]  BY <1>2, <1>5, <2>2 DEF DealTry
    <3>3. h[2] <= slices[current]
      <4>1. current \in Ledger  BY <1>2, <1>3, TouchedLedger
      <4>2. slices[current] \in Nat  BY <4>1, TableAssumption DEF Ledger
      <4> HIDE DEF h
      <4> QED  BY <1>5, <2>2, <3>1, <4>2
    <3> HIDE DEF h
    <3> QED  BY <3>1, <3>2, <3>3
  <2> QED  BY <2>1, <2>2
<1>7. sqlJob'.vec = sqlJob.vec /\ sqlJob'.i = n  BY <1>2, <1>6 DEF SQLLocals
<1> QED  BY <1>1, <1>6, <1>7

LEMMA DealTrySound ==
    ASSUME TypeOK, Shape, Sound, DealTry, TypeOK'  PROVE Sound'
<1>1. dealing /\ UNCHANGED <<row, item, localJob>>  BY DEF DealTry, dbVars
<1>2. item.eState_ \notin {"INIT", "STOP"} /\ item.uTxDBUpdateHash_ = row.TxnUpdateHash
  BY <1>1, DealingState
<1>3. QueueSound'  BY <1>1, <1>2, TrySlice DEF Sound, QueueSound, Pending
<1>4. RowSound(row)'  BY <1>1 DEF Sound, RowSound
<1> QED  BY <1>1, <1>2, <1>3, <1>4, SQLMoved

LEMMA DealSliceSound ==
    ASSUME TypeOK, Shape, Sound, SliceReal, DealSlice, TypeOK'  PROVE Sound'
<1> DEFINE L == row.LedgerSeq
           i == sqlJob.i
           n == slices[current]
<1>1. dealingSlice /\ dealing /\ Head(sqlJob.vec).txs /\ i > 0 /\ i \in Nat
  BY DEF DealSlice, dealingSlice, TypeOK, SQLLocals
<1>2. /\ item.eState_ \notin {"INIT", "STOP"} /\ current \in Seqs /\ L \in Seqs
      /\ item \in Item /\ sqlJob \in SQLLocals
  BY <1>1, DealingState
<1>3. L < current /\ Touches(current) /\ Untouched(L, current - 1)
  BY <1>1, DealingState DEF Leads, current
<1>4. /\ row' = UpdateSyncDB(row) /\ contents' = execute /\ sqlJob' = nextSlice
      /\ item' = [item EXCEPT !.uTxDBUpdateHash_ = updateHash] /\ UNCHANGED localJob
  BY DEF DealSlice
<1>5. /\ item'.uTxDBUpdateHash_ = row'.TxnUpdateHash /\ item'.eState_ = item.eState_
      /\ item'.u32SeqLedger_ = item.u32SeqLedger_ /\ item'.uTxSeq_ = item.uTxSeq_
      /\ item'.aWholeData_ = item.aWholeData_ /\ item'.aBlockData_ = item.aBlockData_
  BY <1>2, <1>4 DEF Item, updateHash
<1>7. i <= n /\ n \in Nat
  <2>1. current \in Ledger  BY <1>2, <1>3, TouchedLedger
  <2> QED  BY <1>1, <2>1, TableAssumption DEF SliceReal, Ledger
<1>9. RowSound(row)  BY DEF Sound
<1>10. CASE i = n
  <2>1. row' = [LedgerSeq |-> current, TxnLedgerSeq |-> current, TxnUpdateHash |-> NoTx]
    BY <1>4, <1>10 DEF UpdateSyncDB
  <2>2. row'.LedgerSeq = current /\ row'.TxnLedgerSeq = current /\ row'.TxnUpdateHash = NoTx
    BY <2>1
  <2>3. Latest(current, current)
    BY <1>2, <1>3, TableAssumption DEF Latest, Untouched, Seqs, Ledger
  <2>5. RowSound(row)'
    <3>1. RowSound(row')  BY <2>2, <2>3 DEF RowSound
    <3> QED  BY <1>4, <3>1 DEF RowSound
  <2>6. sqlJob'.vec = Tail(sqlJob.vec) /\ sqlJob'.i = 0
    BY <1>2, <1>4, <1>10 DEF nextSlice, nextLedger, SQLLocals
  <2>7. QueueSound'
    <3>1. Covered(current, Tail(sqlJob.vec) \o item.aWholeData_, item.u32SeqLedger_)
      BY <1>1, DealingState
    <3> QED  BY <1>5, <2>2, <2>6, <3>1 DEF QueueSound, Pending
  <2> QED  BY <1>2, <1>4, <1>5, <2>5, <2>7, SQLMoved
<1>11. CASE i # n
  <2>1. row' = [row EXCEPT !.TxnUpdateHash = slice]  BY <1>4, <1>11 DEF UpdateSyncDB
  <2>2. row'.LedgerSeq = L /\ row'.TxnLedgerSeq = row.TxnLedgerSeq /\ row'.TxnUpdateHash = slice
    BY <2>1 DEF TypeOK
  <2>3. slice[1] = current /\ slice[2] = i /\ slice # NoTx  BY <1>1, <1>2 DEF slice, NoTx
  <2>4. 1 <= i /\ i < n  BY <1>1, <1>7, <1>11
  <2>5. RowSound(row)'
    <3>1. RowSound(row')  BY <1>3, <1>9, <2>2, <2>3, <2>4 DEF RowSound
    <3> QED  BY <1>4, <3>1 DEF RowSound
  <2>6. sqlJob'.vec = sqlJob.vec /\ sqlJob'.i = i + 1
    BY <1>2, <1>4, <1>11 DEF nextSlice, SQLLocals
  <2>7. QueueSound'
    <3>1. Covered(L, Pending, item.u32SeqLedger_)  BY <1>2 DEF Sound, QueueSound
    <3> QED  BY <1>5, <2>2, <2>6, <3>1 DEF QueueSound, Pending
  <2> QED  BY <1>2, <1>4, <1>5, <2>5, <2>7, SQLMoved
<1> QED  BY <1>10, <1>11

\* The steps of the SQL job that leave the database alone.
LEMMA OperateSound ==
    ASSUME TypeOK, Shape, Sound, TypeOK',
           OperateSQLThread \/ OperateTake \/ OperateEnd \/ DealEnd \/ OnConnectionError
    PROVE  Sound'
<1>1. UNCHANGED <<row, contents, localJob>> /\ item.eState_ # "INIT"
  <2>1. sqlJob.pc # Idle
    BY DEF OperateSQLThread, OperateTake, OperateEnd, DealEnd, OnConnectionError,
           dealingSlice, dealing, Idle
  <2> QED  BY <2>1 DEF OperateSQLThread, OperateTake, OperateEnd, DealEnd, OnConnectionError,
                       dbVars, Shape, NoSQL
<1>2. RowSound(row)'
  BY <1>1 DEF Sound, RowSound
<1>3. item \in Item /\ item.uTxDBUpdateHash_ = row.TxnUpdateHash
      /\ sqlJob.vec \in Seq(Data) /\ item.aWholeData_ \in Seq(Data) /\ sqlJob \in SQLLocals
  BY <1>1 DEF TypeOK, Sound, ItemSound, Item, SQLLocals
<1>4. CASE OperateSQLThread \/ OperateEnd \/ DealEnd
  <2>1. item' = item  BY <1>4 DEF OperateSQLThread, OperateEnd, DealEnd
  <2>2. sqlJob.vec = <<>>  BY <1>4 DEF OperateSQLThread, OperateEnd, DealEnd, Shape
  <2>3. sqlJob'.vec = <<>>
    BY <1>3, <1>4, <2>2 DEF OperateSQLThread, OperateEnd, DealEnd, backToLoop, NoSQL, SQLLocals
  <2>4. QueueSound'  BY <1>1, <2>1, <2>2, <2>3 DEF Sound, QueueSound, Pending
  <2> QED  BY <1>1, <1>2, <1>3, <2>1, <2>4, SQLMoved
<1>5. CASE OperateTake
  <2>1. sqlJob.vec = <<>>  BY <1>5 DEF OperateTake, Shape
  <2>2. CASE item.aWholeData_ # <<>> /\ item.eState_ # "STOP"
    <3>1. sqlJob' = [NoSQL EXCEPT !.pc = "deal", !.vec = item.aWholeData_]
          /\ item' = [item EXCEPT !.aWholeData_ = <<>>]
      BY <1>5, <2>2 DEF OperateTake
    <3>2. sqlJob'.vec = item.aWholeData_ /\ sqlJob'.i = 0  BY <3>1 DEF NoSQL
    <3>3. /\ item'.uTxDBUpdateHash_ = item.uTxDBUpdateHash_ /\ item'.eState_ = item.eState_
          /\ item'.u32SeqLedger_ = item.u32SeqLedger_ /\ item'.uTxSeq_ = item.uTxSeq_
          /\ item'.aWholeData_ = <<>> /\ item'.aBlockData_ = item.aBlockData_
      BY <1>3, <3>1 DEF Item
    <3>4. Pending' = Pending
      <4>1. <<>> \o item.aWholeData_ = item.aWholeData_ /\ item.aWholeData_ \o <<>> = item.aWholeData_
        BY <1>3
      <4> QED  BY <2>1, <3>2, <3>3, <4>1 DEF Pending
    <3>5. QueueSound'  BY <1>1, <3>3, <3>4 DEF Sound, QueueSound
    <3> QED  BY <1>1, <1>2, <1>3, <3>3, <3>5, SQLMoved
  <2>3. CASE ~(item.aWholeData_ # <<>> /\ item.eState_ # "STOP")
    <3>1. sqlJob' = [NoSQL EXCEPT !.pc = "ending"] /\ item' = item
      BY <1>5, <2>3 DEF OperateTake
    <3>2. sqlJob'.vec = <<>>  BY <3>1 DEF NoSQL
    <3>3. QueueSound'  BY <1>1, <2>1, <3>1, <3>2, Zenon DEF Sound, QueueSound, Pending
    <3> QED  BY <1>1, <1>2, <1>3, <3>1, <3>3, SQLMoved
  <2> QED  BY <2>2, <2>3
<1>6. CASE OnConnectionError
  <2>1. item.eState_ # "STOP"
    BY <1>6, DealingState DEF OnConnectionError, dealingSlice
  <2>2. CASE retries
    <3>1. item' = item /\ sqlJob' = [sqlJob EXCEPT !.i = 0, !.countTry = @ + 1]
      BY <1>6, <2>2 DEF OnConnectionError, stopUnlessRetry, tryAgain
    <3>2. sqlJob'.vec = sqlJob.vec /\ sqlJob'.i = 0  BY <1>3, <3>1 DEF SQLLocals
    <3>3. QueueSound'  BY <1>1, <3>1, <3>2 DEF Sound, QueueSound, Pending
    <3> QED  BY <1>1, <1>2, <1>3, <3>1, <3>3, SQLMoved
  <2>3. CASE ~retries
    <3>1. item' = SetSyncState(item, "STOP") /\ sqlJob' = backToLoop
      BY <1>6, <2>3 DEF OnConnectionError, stopUnlessRetry, tryAgain
    <3>2. /\ item'.uTxDBUpdateHash_ = item.uTxDBUpdateHash_ /\ item'.eState_ = "STOP"
          /\ item'.u32SeqLedger_ = item.u32SeqLedger_ /\ item'.uTxSeq_ = item.uTxSeq_
          /\ item'.aBlockData_ = item.aBlockData_
      BY <1>3, <3>1, StateTyped
    <3>3. QueueSound'  BY <3>2 DEF QueueSound
    <3> QED  BY <1>1, <1>2, <1>3, <3>2, <3>3, SQLMoved
  <2> QED  BY <2>2, <2>3
<1> QED  BY <1>4, <1>5, <1>6

LEMMA SliceKept ==
    ASSUME TypeOK, Shape, Sound, SliceReal, TypeOK', [Next]_vars, ~(CommitLost \/ CommitRefused)
    PROVE  SliceReal'
<1>1. sqlJob \in SQLLocals /\ sqlJob' \in SQLLocals  BY DEF TypeOK
<1>2. CASE DealTry
  <2>1. dealing /\ Head(sqlJob.vec).txs /\ sqlJob'.vec = sqlJob.vec /\ sqlJob'.i <= slices[current]
    BY <1>2, TrySlice DEF DealTry
  <2> QED  BY <2>1 DEF SliceReal, current
<1>3. CASE DealEmpty
  <2>1. ~(sqlJob.i > 0)  BY <1>3 DEF DealEmpty, SliceReal
  <2>2. sqlJob' = [sqlJob EXCEPT !.vec = Tail(@)] \/ sqlJob' = backToLoop
    BY <1>3 DEF DealEmpty
  <2> QED  BY <1>1, <2>1, <2>2 DEF SliceReal, dealing, backToLoop, NoSQL, SQLLocals
<1>4. CASE DealSlice
  <2>1. dealing /\ Head(sqlJob.vec).txs /\ sqlJob.i > 0 /\ sqlJob' = nextSlice /\ sqlJob.i \in Nat
    BY <1>1, <1>4 DEF DealSlice, dealingSlice, SQLLocals
  <2>2. current \in Ledger
    BY <2>1, DealingState, TouchedLedger DEF Leads, current
  <2>3. sqlJob.i <= slices[current] /\ slices[current] \in Nat
    BY <2>1, <2>2, TableAssumption DEF SliceReal, Ledger
  <2>4. CASE sqlJob.i = slices[current]
    <3>1. sqlJob'.i = 0  BY <1>1, <2>1, <2>4 DEF nextSlice, nextLedger, SQLLocals
    <3> QED  BY <3>1 DEF SliceReal
  <2>5. CASE sqlJob.i # slices[current]
    <3>1. sqlJob'.i = sqlJob.i + 1 /\ sqlJob'.vec = sqlJob.vec
      BY <1>1, <2>1, <2>5 DEF nextSlice, SQLLocals
    <3>2. sqlJob'.i <= slices[current]  BY <2>1, <2>3, <2>5, <3>1
    <3> QED  BY <2>1, <3>1, <3>2 DEF SliceReal, current
  <2> QED  BY <2>4, <2>5
<1>5. CASE OnConnectionError
  <2>1. sqlJob'.i = 0
    BY <1>1, <1>5 DEF OnConnectionError, stopUnlessRetry, tryAgain, backToLoop, NoSQL, SQLLocals
  <2> QED  BY <2>1 DEF SliceReal
<1>6. CASE OperateSQLThread \/ OperateTake \/ OperateEnd \/ DealEnd
  <2>1. CASE OperateSQLThread
    <3>1. sqlJob'.pc # "deal"  BY <1>1, <2>1 DEF OperateSQLThread, NoSQL, Idle, SQLLocals
    <3> QED  BY <3>1 DEF SliceReal, dealing
  <2>2. CASE OperateTake \/ OperateEnd \/ DealEnd
    <3>1. CASE OperateTake
      <4>1. \/ sqlJob' = [NoSQL EXCEPT !.pc = "deal", !.vec = item.aWholeData_]
            \/ sqlJob' = [NoSQL EXCEPT !.pc = "ending"]
        BY <3>1 DEF OperateTake
      <4>2. sqlJob'.i = 0  BY <4>1, Zenon DEF NoSQL
      <4> QED  BY <4>2 DEF SliceReal
    <3>2. CASE OperateEnd \/ DealEnd
      <4>1. sqlJob'.i = 0  BY <3>2 DEF OperateEnd, DealEnd, backToLoop, NoSQL
      <4> QED  BY <4>1 DEF SliceReal
    <3> QED  BY <2>2, <3>1, <3>2
  <2> QED  BY <1>6, <2>1, <2>2
<1>7. CASE ~SQLJob
  <2>1. sqlJob' = sqlJob \/ sqlJob' = NoSQL \/ sqlJob' = [NoSQL EXCEPT !.pc = "queued"]
    <3>1. CASE SeekSkip  BY <3>1 DEF SeekSkip, TryOperateSQL
    <3>2. CASE SeekLedger  BY <3>2 DEF SeekLedger, ReadLedger, TryOperateSQL
    <3>3. CASE SeekCandidate  BY <3>3 DEF SeekCandidate, TryOperateSQL
    <3>4. CASE SeekFinish  BY <3>4 DEF SeekFinish, TryOperateSQL
    <3>5. CASE LocalSyncThread \/ LocalSyncEnd  BY <3>5 DEF LocalSyncThread, LocalSyncEnd
    <3>6. CASE SyncJob  BY <3>6 DEF SyncJob, TableSyncThread, TableSyncEnd
    <3>7. CASE Publish \/ FetchHistory \/ TryTableSync \/ Crash \/ UNCHANGED vars
      BY <3>7 DEF Publish, FetchHistory, TryTableSync, Crash, vars
    <3> QED  BY <1>7, <3>1, <3>2, <3>3, <3>4, <3>5, <3>6, <3>7 DEF Next, LocalJob
  <2> QED  BY <2>1 DEF SliceReal, dealing, current, NoSQL
<1> QED  BY <1>2, <1>3, <1>4, <1>5, <1>6, <1>7 DEF SQLJob

-----------------------------------------------------------------------------
LEMMA InitSound == Init => IInv
<1> SUFFICES ASSUME Init  PROVE IInv  OBVIOUS
<1>1. TypeOK /\ Shape  BY InitTyped
<1>2. RowSound(row)  BY NewRowSound DEF Init
<1>3. item = NewItem /\ localJob = NoSeek /\ sqlJob = NoSQL  BY DEF Init
<1>4. QueueSound /\ ItemSound /\ SeekSound
  BY <1>3 DEF QueueSound, ItemSound, SeekSound, searching, NewItem, NoSeek, NoSQL, Idle
<1>5. BlockSound
  <2>1. Len(item.aBlockData_) = 0  BY <1>3 DEF NewItem
  <2> QED  BY <2>1 DEF BlockSound
<1>6. SliceReal  BY <1>3 DEF SliceReal, dealing, NoSQL
<1> QED  BY <1>1, <1>2, <1>4, <1>5, <1>6 DEF IInv, Sound

LEMMA StepSound ==
    ASSUME IInv, [Next]_vars  PROVE IInv'
<1>1. TypeOK /\ Shape /\ TypeOK' /\ Shape'  BY Typed DEF IInv
<1>2. failed' = 0 => Sound' /\ SliceReal'
  <2> SUFFICES ASSUME failed' = 0  PROVE Sound' /\ SliceReal'  OBVIOUS
  <2>1. CASE CommitLost \/ CommitRefused
    BY <1>1, <2>1 DEF CommitLost, CommitRefused, TypeOK
  <2>2. CASE ~(CommitLost \/ CommitRefused)
    <3>1. failed' = failed
      BY <2>2 DEF Next, Publish, FetchHistory, TryTableSync, SyncJob, TableSyncThread,
                  TableSyncEnd, LocalJob, LocalSyncThread, SeekSkip, SeekLedger, SeekCandidate,
                  SeekFinish, LocalSyncEnd, SQLJob, OperateSQLThread, OperateTake, OperateEnd,
                  DealEnd, DealEmpty, DealTry, DealSlice, OnConnectionError, Crash, vars
    <3>2. Sound /\ SliceReal  BY <3>1 DEF IInv
    <3>3. Sound'
      <4>1. CASE Publish \/ FetchHistory \/ TryTableSync \/ SyncJob \/ Crash
        BY <1>1, <3>2, <4>1, SyncSound
      <4>2. CASE LocalJob  BY <1>1, <3>2, <4>2, LocalSound
      <4>3. CASE SQLJob
        BY <1>1, <2>2, <3>2, <4>3, OperateSound, DealEmptySound, DealTrySound, DealSliceSound
           DEF SQLJob
      <4>4. CASE UNCHANGED vars
        BY <3>2, <4>4, Zenon DEF vars, dbVars, Sound, RowSound, QueueSound, Pending,
                          current, slice, ItemSound, SeekSound, searching, BlockSound
      <4> QED  BY <4>1, <4>2, <4>3, <4>4 DEF Next
    <3>4. SliceReal'  BY <1>1, <2>2, <3>2, SliceKept
    <3> QED  BY <3>3, <3>4
  <2> QED  BY <2>1, <2>2
<1> QED  BY <1>1, <1>2 DEF IInv

LEMMA SoundAlways == Spec => []IInv
<1>1. IInv /\ [Next]_vars => IInv'  BY StepSound
<1> QED  BY <1>1, InitSound, PTL DEF Spec

\* Between the row in the database and the position of the item, every ledger that
\* touches the table waits in the queue, in order (SeekTableTxLedger, SendData,
\* OperateSQLThread).
THEOREM NothingEverSkipped == Spec => []NothingSkipped
<1>1. IInv => NothingSkipped  BY DEF IInv, Sound, QueueSound, NothingSkipped
<1> QED  BY <1>1, SoundAlways, PTL

=============================================================================
