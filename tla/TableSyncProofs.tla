--------------------------- MODULE TableSyncProofs ---------------------------
(***************************************************************************)
(* Proofs about TableSync: sequences, what SendData does to the item, and  *)
(* the types.  TableOrderProofs and TableCoverProofs go on from here.      *)
(***************************************************************************)
EXTENDS TableSync, TLAPS, FiniteSetTheorems, SequenceTheorems,
        WellFoundedInduction

\* Before the item has read its row no job works for it; a stopped item is not dealt
\* with.
Shape ==
    /\ item.eState_ = "INIT" => item = NewItem /\ localJob = NoSeek /\ sqlJob = NoSQL
    /\ sqlJob.pc # "deal" => sqlJob.vec = <<>>
    /\ item.eState_ = "STOP" => sqlJob.pc # "deal"
    /\ syncJob.bNeedLocalSync => item.eState_ # "INIT"

-----------------------------------------------------------------------------
(* Sequences over any set. *)

LEMMA SeqPush ==
    ASSUME NEW S, NEW s \in Seq(S), NEW t \in Seq(S), NEW d \in S
    PROVE  /\ Append(s, d) \in Seq(S) /\ Len(Append(s, d)) = Len(s) + 1
           /\ \A k \in 1 .. Len(s) : Append(s, d)[k] = s[k]
           /\ Append(s, d)[Len(s) + 1] = d
           /\ t \o s \in Seq(S) /\ t \o Append(s, d) = Append(t \o s, d)
OBVIOUS

LEMMA SeqPop ==
    ASSUME NEW S, NEW s \in Seq(S), NEW t \in Seq(S), s # <<>>
    PROVE  /\ s \o t \in Seq(S) /\ s \o t # <<>> /\ Len(s) > 0
           /\ Head(s) \in S /\ Head(s) = s[1] /\ Head(s \o t) = Head(s)
           /\ Tail(s) \in Seq(S) /\ Tail(s) \o t = Tail(s \o t)
OBVIOUS

LEMMA SeqElem ==
    ASSUME NEW S, NEW s \in Seq(S), NEW k \in 1 .. Len(s)  PROVE s[k] \in S
OBVIOUS

LEMMA SeqInsert ==
    ASSUME NEW S, NEW s \in Seq(S), NEW d \in S, NEW k \in 1 .. Len(s)
    PROVE  LET r == SubSeq(s, 1, k - 1) \o <<d>> \o SubSeq(s, k, Len(s))
           IN  r \in Seq(S) /\ \A j \in 1 .. Len(r) : r[j] = d \/ \E m \in 1 .. Len(s) : r[j] = s[m]
OBVIOUS

LEMMA SeqFront ==
    ASSUME NEW S, NEW s \in Seq(S), NEW d \in S
    PROVE  /\ <<d>> \o s \in Seq(S)
           /\ \A j \in 1 .. Len(<<d>> \o s) :
                (<<d>> \o s)[j] = d \/ \E m \in 1 .. Len(s) : (<<d>> \o s)[j] = s[m]
OBVIOUS

LEMMA SeqCut ==
    ASSUME NEW S, NEW s \in Seq(S), NEW t \in Seq(S), NEW n \in 0 .. Len(s)
    PROVE  /\ SubSeq(s, 1, n) \in Seq(S) /\ SubSeq(s, n + 1, Len(s)) \in Seq(S)
           /\ t \o SubSeq(s, 1, n) \in Seq(S)
           /\ SubSeq(s, 1, Len(s)) = s /\ t \o SubSeq(s, 1, 0) = t
OBVIOUS

LEMMA LeastNatural ==
    ASSUME NEW S \in SUBSET Nat, S # {}
    PROVE  \E k \in S : \A j \in S : k <= j
<1> DEFINE R == OpToRel(<, Nat)
<1>1. \E k \in S : \A j \in S : ~(<<j, k>> \in R)
  <2> HIDE DEF R
  <2>1. IsWellFoundedOn(R, Nat)  BY NatLessThanWellFounded, Zenon DEF R
  <2> QED  BY <2>1, WFMin, Zenon
<1>2. \A j, k \in Nat : <<j, k>> \in R <=> j < k  BY DEF OpToRel
<1> HIDE DEF R
<1>3. PICK k \in S : \A j \in S : ~(<<j, k>> \in R)  BY <1>1
<1>4. \A j \in S : ~(j < k)  BY <1>2, <1>3, Zenon
<1>5. \A j \in S : k <= j  BY <1>4
<1> QED  BY <1>5

LEMMA Smallest ==
    ASSUME NEW n \in Nat, NEW S \in SUBSET (1 .. n), S # {}
    PROVE  (CHOOSE k \in S : \A j \in S : k <= j) \in S
<1>1. S \in SUBSET Nat  OBVIOUS
<1>2. \E k \in S : \A j \in S : k <= j  BY <1>1, LeastNatural
<1> QED  BY <1>2, Zenon

LEMMA LargestExists ==
    ASSUME NEW n \in Nat, NEW S \in SUBSET (1 .. n), S # {}
    PROVE  \E k \in S : \A j \in S : j <= k
<1> DEFINE T == {n - j : j \in S}
<1>1. \A j \in S : j \in 1 .. n /\ n - j \in T  OBVIOUS
<1>2. \A t \in T : t \in Nat /\ \E j \in S : t = n - j  BY <1>1
<1>3. T # {}  BY <1>1, Zenon
<1> HIDE DEF T
<1>4. PICK m \in T : \A t \in T : m <= t  BY <1>2, <1>3, LeastNatural
<1>5. PICK k \in S : m = n - k  BY <1>2
<1>6. \A j \in S : j <= k  BY <1>1, <1>4, <1>5
<1> QED  BY <1>6

LEMMA Largest ==
    ASSUME NEW n \in Nat, NEW S \in SUBSET (1 .. n), S # {}
    PROVE  (CHOOSE k \in S : \A j \in S : j <= k) \in S
BY LargestExists, Zenon

LEMMA CandidateAfter ==
    ASSUME NEW k \in Nat
    PROVE  getCandidateLedger(k) \in Nat /\ k <= getCandidateLedger(k)
<1> DEFINE a == k + Span - 1
           q == a \div Span
<1>1. a \in Nat /\ Span \in Nat /\ Span > 0  BY TableAssumption
<1> HIDE DEF a
<1>2. q \in Nat /\ a % Span \in 0 .. Span - 1 /\ a = Span * q + (a % Span)  BY <1>1
<1>3. Span * q = q * Span /\ q * Span \in Nat  BY <1>1, <1>2
<1>4. q * Span > a - Span  BY <1>1, <1>2, <1>3
<1> QED  BY <1>1, <1>3, <1>4 DEF getCandidateLedger, a

-----------------------------------------------------------------------------
(* What SendData does to the item. *)

LEMMA BlockPushed ==
    ASSUME NEW s \in Seq(Data), NEW d \in Data
    PROVE  LET r == PushDataByOrder(s, d)
           IN  /\ r \in Seq(Data)
               /\ \A j \in 1 .. Len(r) : r[j] = d \/ \E m \in 1 .. Len(s) : r[j] = s[m]
<1> DEFINE below == {k \in 1 .. Len(s) : s[k].ledgerseq <= d.ledgerseq}
           first == CHOOSE k \in below : \A j \in below : k <= j
           mid == SubSeq(s, 1, first - 1) \o <<d>> \o SubSeq(s, first, Len(s))
<1>1. \/ PushDataByOrder(s, d) = Append(s, d)
      \/ PushDataByOrder(s, d) = <<d>> \o s
      \/ PushDataByOrder(s, d) = s
      \/ below # {} /\ PushDataByOrder(s, d) = mid
  BY Zenon DEF PushDataByOrder
<1>2. CASE PushDataByOrder(s, d) = Append(s, d)
  <2>1. \A j \in 1 .. Len(s) + 1 : j \in 1 .. Len(s) \/ j = Len(s) + 1  BY LenProperties
  <2> QED  BY <1>2, <2>1, SeqPush
<1>3. CASE PushDataByOrder(s, d) = <<d>> \o s  BY <1>3, SeqFront
<1>4. CASE PushDataByOrder(s, d) = s  BY <1>4
<1>5. CASE below # {} /\ PushDataByOrder(s, d) = mid
  <2>1. Len(s) \in Nat /\ below \in SUBSET (1 .. Len(s))  BY LenProperties
  <2> HIDE DEF below
  <2>2. first \in 1 .. Len(s)  BY <1>5, <2>1, Smallest, Zenon
  <2> HIDE DEF first
  <2> QED  BY <1>5, <2>2, SeqInsert
<1> QED  BY <1>1, <1>2, <1>3, <1>4, <1>5, Zenon

LEMMA ContinuingBound ==
    ASSUME NEW s \in Seq(Data), NEW seq \in Seqs
    PROVE  /\ continuing(s, seq) \in 0 .. Len(s)
           /\ (Len(s) > 0 => s[1].lastledgerseq # seq) => continuing(s, seq) = 0
<1> DEFINE C(j) == s[j].lastledgerseq = IF j = 1 THEN seq ELSE s[j - 1].ledgerseq
           K == {k \in 1 .. Len(s) : \A j \in 1 .. k : C(j)}
<1>1. continuing(s, seq) = Cardinality(K)  BY DEF continuing
<1>2. Len(s) \in Nat  BY LenProperties
<1>3. K \in SUBSET (1 .. Len(s))  OBVIOUS
<1>4. (Len(s) > 0 => s[1].lastledgerseq # seq) => K = {}
  <2> SUFFICES ASSUME Len(s) > 0 => s[1].lastledgerseq # seq, NEW k \in K  PROVE FALSE
    OBVIOUS
  <2>1. k \in 1 .. Len(s) /\ 1 \in 1 .. k  BY <1>2
  <2>2. C(1)  BY <2>1
  <2> QED  BY <2>1, <2>2, <1>2
<1> HIDE DEF K
<1>5. IsFiniteSet(1 .. Len(s)) /\ Cardinality(1 .. Len(s)) = Len(s)
  BY <1>2, FS_Interval, 1 \in Int, Len(s) \in Int
<1>6. IsFiniteSet(K) /\ Cardinality(K) <= Len(s)  BY <1>3, <1>5, FS_Subset, Zenon
<1>7. Cardinality(K) \in Nat  BY <1>6, FS_CardinalityType
<1> QED  BY <1>1, <1>2, <1>4, <1>6, <1>7, FS_EmptySet

\* TransBlock2Whole keeps the state and the update hash; nothing happens when the
\* first blocked reply does not continue seq.
LEMMA Trans ==
    ASSUME NEW it \in Item, NEW seq \in Seqs
    PROVE  LET r == TransBlock2Whole(it, seq)
           IN  /\ r \in Item /\ r.eState_ = it.eState_
               /\ r.uTxDBUpdateHash_ = it.uTxDBUpdateHash_
               /\ (Len(it.aBlockData_) > 0 => it.aBlockData_[1].lastledgerseq # seq) => r = it
<1> DEFINE s == it.aBlockData_
           n == continuing(s, seq)
           tx == {j \in 1 .. n : s[j].txs}
           top == CHOOSE j \in tx : \A k \in tx : k <= j
           whole == it.aWholeData_ \o SubSeq(s, 1, n)
           block == SubSeq(s, n + 1, Len(s))
           pos == IF n = 0 THEN it.u32SeqLedger_ ELSE s[n].ledgerseq
           last == IF tx = {} THEN it.uTxSeq_ ELSE s[top].ledgerseq
<1>1. s \in Seq(Data) /\ it.aWholeData_ \in Seq(Data) /\ Len(s) \in Nat
  BY LenProperties DEF Item
<1>2. TransBlock2Whole(it, seq) =
        [it EXCEPT !.aWholeData_ = whole, !.aBlockData_ = block,
                   !.u32SeqLedger_ = pos, !.uTxSeq_ = last]
  BY DEF TransBlock2Whole
<1>3. n \in 0 .. Len(s)  BY <1>1, ContinuingBound
<1>4. (Len(s) > 0 => s[1].lastledgerseq # seq) => n = 0  BY <1>1, ContinuingBound
<1>5. \A j \in 1 .. Len(s) : s[j] \in Data /\ s[j].ledgerseq \in Seqs
  <2>1. \A j \in 1 .. Len(s) : s[j] \in Data  BY <1>1, SeqElem
  <2>2. \A d \in Data : d.ledgerseq \in Seqs  BY DEF Data
  <2> QED  BY <2>1, <2>2
<1> HIDE DEF s, n
<1>6. whole \in Seq(Data) /\ block \in Seq(Data)  BY <1>1, <1>3, SeqCut
<1>7. n = 0 => whole = it.aWholeData_ /\ block = s /\ tx = {}
  BY <1>1, <1>3, SeqCut
<1>8. pos \in Seqs  BY <1>1, <1>3, <1>5 DEF Item
<1>9. last \in Seqs
  <2>1. CASE tx = {}  BY <2>1 DEF Item
  <2>2. CASE tx # {}
    <3>1. tx \in SUBSET (1 .. n) /\ n \in Nat  BY <1>1, <1>3
    <3> HIDE DEF tx
    <3>2. top \in tx  BY <2>2, <3>1, Largest
    <3> HIDE DEF top
    <3>3. top \in 1 .. Len(s)  BY <3>1, <3>2, <1>1, <1>3
    <3> QED  BY <2>2, <3>3, <1>5
  <2> QED  BY <2>1, <2>2
<1>10. n = 0 => pos = it.u32SeqLedger_ /\ last = it.uTxSeq_  BY <1>7
<1>11. s = it.aBlockData_  BY DEF s
<1> HIDE DEF whole, block, pos, last, tx, top
<1>12. n = 0 => TransBlock2Whole(it, seq) = it
  <2>1. [it EXCEPT !.aWholeData_ = it.aWholeData_, !.aBlockData_ = it.aBlockData_,
                   !.u32SeqLedger_ = it.u32SeqLedger_, !.uTxSeq_ = it.uTxSeq_] = it
    BY Zenon DEF Item
  <2> QED  BY <1>2, <1>7, <1>10, <1>11, <2>1, Zenon
<1>13. /\ TransBlock2Whole(it, seq) \in Item
       /\ TransBlock2Whole(it, seq).eState_ = it.eState_
       /\ TransBlock2Whole(it, seq).uTxDBUpdateHash_ = it.uTxDBUpdateHash_
  BY <1>2, <1>6, <1>8, <1>9, Zenon DEF Item
<1> QED  BY <1>4, <1>11, <1>12, <1>13

\* SendData in general.
LEMMA SendTyped ==
    ASSUME NEW it \in Item, NEW d \in Data
    PROVE  /\ SendData(it, d) \in Item /\ SendData(it, d).eState_ = it.eState_
           /\ SendData(it, d).uTxDBUpdateHash_ = it.uTxDBUpdateHash_
<1> DEFINE pushed == PushDataToWholeDataQueue(it, d)
           blocked == [it EXCEPT !.aBlockData_ = PushDataByOrder(it.aBlockData_, d)]
<1>1. it.aBlockData_ \in Seq(Data) /\ it.aWholeData_ \in Seq(Data) /\ d.ledgerseq \in Seqs
  BY DEF Item, Data
<1>2. PushDataByOrder(it.aBlockData_, d) \in Seq(Data)  BY <1>1, BlockPushed
<1>3. /\ blocked \in Item /\ blocked.eState_ = it.eState_
      /\ blocked.uTxDBUpdateHash_ = it.uTxDBUpdateHash_
  BY <1>2 DEF Item
<1>4. Append(it.aWholeData_, d) \in Seq(Data)  BY <1>1, SeqPush
<1>5. /\ pushed \in Item /\ pushed.eState_ = it.eState_
      /\ pushed.uTxDBUpdateHash_ = it.uTxDBUpdateHash_
  BY <1>1, <1>4, Zenon DEF Item, PushDataToWholeDataQueue
<1>6. SendData(it, d) \in {blocked, TransBlock2Whole(pushed, d.ledgerseq), pushed}
  BY DEF SendData
<1> HIDE DEF pushed, blocked
<1>7. LET r == TransBlock2Whole(pushed, d.ledgerseq)
      IN  r \in Item /\ r.eState_ = it.eState_ /\ r.uTxDBUpdateHash_ = it.uTxDBUpdateHash_
  BY <1>1, <1>5, Trans
<1> QED  BY <1>3, <1>5, <1>6, <1>7

-----------------------------------------------------------------------------
(* Types and shape. *)

LEMMA StopIndex ==
    ASSUME localJob \in SeekLocals, localJob.i <= localJob.pub
    PROVE  /\ uStopIndex \in Seqs /\ localJob.i <= uStopIndex
           /\ uStopIndex + 1 \in 0 .. MaxSeq + 1
<1>1. localJob.i \in Nat /\ localJob.pub \in Seqs  BY TableAssumption DEF SeekLocals, Seqs
<1>2. getCandidateLedger(localJob.i) \in Nat /\ localJob.i <= getCandidateLedger(localJob.i)
  BY <1>1, CandidateAfter
<1> QED  BY <1>1, <1>2, TableAssumption DEF uStopIndex, Seqs

LEMMA ReplyTyped ==
    \A a, b \in Seqs : SeekEnd(a, b) \in Data /\ TableData(a, b) \in Data
BY DEF SeekEnd, TableData, Data

LEMMA StateTyped ==
    ASSUME NEW it \in Item,
           NEW state \in {"BLOCK_STOP", "WAIT_LOCAL_ACQUIRE", "LOCAL_ACQUIRING", "STOP"}
    PROVE  LET r == SetSyncState(it, state)
           IN  /\ r \in Item
               /\ r.eState_ = IF it.eState_ = "STOP" THEN "STOP" ELSE state
               /\ r.u32SeqLedger_ = it.u32SeqLedger_ /\ r.uTxSeq_ = it.uTxSeq_
               /\ r.uTxDBUpdateHash_ = it.uTxDBUpdateHash_
               /\ r.aWholeData_ = it.aWholeData_ /\ r.aBlockData_ = it.aBlockData_
BY DEF SetSyncState, Item

LEMMA NewTyped ==
    /\ NewItem \in Item /\ NewRow \in [LedgerSeq : Seqs, TxnLedgerSeq : Seqs, TxnUpdateHash : Slice]
    /\ NoSync \in SyncLocals /\ NoSeek \in SeekLocals /\ NoSQL \in SQLLocals
<1>1. 0 \in Seqs /\ CreateSeq \in Seqs /\ 0 \in 0 .. MaxSeq + 1 /\ NoTx \in Slice
  BY TableAssumption DEF Seqs, Slice, NoTx
<1>2. <<>> \in Seq(Data) /\ 0 \in 0 .. MAX_CONN_RETRY_COUNT  BY EmptySeq, TableAssumption
<1>3. NewItem \in Item  BY <1>1, <1>2 DEF NewItem, Item
<1>4. NoSQL \in SQLLocals  BY <1>2 DEF NoSQL, SQLLocals, Idle
<1> QED  BY <1>1, <1>3, <1>4 DEF NewRow, NoSync, SyncLocals, NoSeek, SeekLocals, Idle

LEMMA InitTyped == Init => TypeOK /\ Shape
<1>1. CreateSeq + 1 \in Ledger  BY TableAssumption DEF Ledger
<1>2. <<>> \in Seq(Slice) /\ 0 \in 0 .. MaxFail /\ 0 \in 0 .. MaxCrash
  BY EmptySeq, TableAssumption
<1>3. ASSUME Init  PROVE TypeOK  BY <1>1, <1>2, <1>3, NewTyped DEF Init, TypeOK
<1>4. ASSUME Init  PROVE Shape  BY <1>4 DEF Init, Shape, NoSQL, NoSync, Idle
<1> QED  BY <1>3, <1>4

LEMMA SyncTyped ==
    ASSUME TypeOK, Shape, Publish \/ FetchHistory \/ TryTableSync \/ SyncJob \/ Crash
    PROVE  TypeOK' /\ Shape'
<1> USE NewTyped
<1>1. CASE Publish
  <2>1. published' \in Ledger /\ have' \in SUBSET Ledger
    BY <1>1, TableAssumption DEF Publish, TypeOK, Ledger
  <2> QED  BY <1>1, <2>1 DEF Publish, TypeOK, Shape, dbVars
<1>2. CASE FetchHistory
  <2>1. have' \in SUBSET Ledger  BY <1>2, TableAssumption DEF FetchHistory, TypeOK, Ledger
  <2> QED  BY <1>2, <2>1 DEF FetchHistory, TypeOK, Shape, dbVars
<1>3. CASE TryTableSync
  <2>1. listed' \in BOOLEAN /\ syncJob' \in SyncLocals
    BY <1>3, Zenon DEF TryTableSync, TypeOK, SyncLocals, ClearNotSyncItem, queueSync, NoSync
  <2> QED  BY <1>3, <2>1, Zenon DEF TryTableSync, TypeOK, Shape, dbVars, queueSync, NoSync
<1>4. CASE TableSyncThread
  <2>1. syncJob' \in SyncLocals
    BY <1>4, Zenon DEF TableSyncThread, SyncInit, SyncBlockStop, SyncLocals, NoSync, TypeOK
  <2>2. CASE SyncInit
    <3>1. StatusRow \in [LedgerSeq : Seqs, TxnLedgerSeq : Seqs, TxnUpdateHash : Slice]
      BY DEF StatusRow, TypeOK
    <3>2. SetPara(item, StatusRow) \in Item  BY <3>1, Zenon DEF SetPara, Item, TypeOK
    <3>3. item' \in Item /\ item'.eState_ # "INIT"
      BY <2>2, <3>2, StateTyped DEF SyncInit
    <3>4. sqlJob = NoSQL  BY <2>2 DEF SyncInit, Shape
    <3> QED  BY <1>4, <2>1, <2>2, <3>1, <3>3, <3>4, Zenon
             DEF TableSyncThread, SyncInit, TypeOK, Shape, ledgerVars, NoSQL, Idle
  <2>3. CASE SyncBlockStop
    <3>1. item' \in Item /\ item'.eState_ \in {"BLOCK_STOP", "WAIT_LOCAL_ACQUIRE"}
      BY <2>3, StateTyped DEF SyncBlockStop, TypeOK
    <3> QED  BY <1>4, <2>1, <2>3, <3>1
             DEF TableSyncThread, SyncBlockStop, TypeOK, Shape, ledgerVars, NoSync
  <2>4. CASE UNCHANGED <<item, row>>
    <3>1. ~syncJob'.bNeedLocalSync \/ item.eState_ # "INIT"
      BY <1>4, Zenon DEF TableSyncThread, SyncInit, SyncBlockStop, NoSync
    <3> QED  BY <1>4, <2>1, <2>4, <3>1 DEF TableSyncThread, TypeOK, Shape, ledgerVars
  <2> QED  BY <1>4, <2>2, <2>3, <2>4 DEF TableSyncThread
<1>5. CASE TableSyncEnd
  <2>1. listed' \in BOOLEAN /\ syncJob' \in SyncLocals
    BY <1>5, Zenon DEF TableSyncEnd, TypeOK, SyncLocals, ClearNotSyncItem, queueSync, NoSync
  <2>2. localJob' \in SeekLocals
    BY <1>5, Zenon DEF TableSyncEnd, TypeOK, SeekLocals, TryLocalSync, NoSeek
  <2> QED  BY <1>5, <2>1, <2>2 DEF TableSyncEnd, TypeOK, Shape, dbVars, ledgerVars,
                                      queueSync, NoSync
<1>6. CASE Crash
  <2>1. crashed' \in 0 .. MaxCrash  BY <1>6, TableAssumption DEF Crash, TypeOK
  <2> QED  BY <1>6, <2>1 DEF Crash, TypeOK, Shape, dbVars, NoSQL, NoSync, Idle
<1> QED  BY <1>1, <1>2, <1>3, <1>4, <1>5, <1>6 DEF SyncJob

\* A step of the search that may send one reply.
LEMMA SendStepTyped ==
    ASSUME TypeOK, Shape, NEW d \in Data, NEW sends \in BOOLEAN,
           item.eState_ # "INIT",
           item' = IF sends THEN SendData(item, d) ELSE item,
           sqlJob' = IF sends THEN TryOperateSQL(item, d) ELSE sqlJob
    PROVE  /\ item' \in Item /\ sqlJob' \in SQLLocals /\ item'.eState_ = item.eState_
           /\ sqlJob'.pc # "deal" => sqlJob'.vec = <<>>
           /\ item'.eState_ = "STOP" => sqlJob'.pc # "deal"
<1>1. item' \in Item /\ item'.eState_ = item.eState_  BY SendTyped DEF TypeOK
<1>2. sqlJob' = sqlJob \/ sqlJob' = [NoSQL EXCEPT !.pc = "queued"]
  BY DEF TryOperateSQL
<1>3. /\ [NoSQL EXCEPT !.pc = "queued"] \in SQLLocals
      /\ [NoSQL EXCEPT !.pc = "queued"].pc = "queued"
      /\ [NoSQL EXCEPT !.pc = "queued"].vec = <<>>
  <2>1. NoSQL \in SQLLocals  BY NewTyped, Zenon
  <2> QED  BY <2>1, Zenon DEF SQLLocals, NoSQL
<1> QED  BY <1>1, <1>2, <1>3, Zenon DEF TypeOK, Shape

LEMMA LocalTyped ==
    ASSUME TypeOK, Shape, LocalJob  PROVE TypeOK' /\ Shape'
<1>1. localJob.pc # Idle => item.eState_ # "INIT"  BY DEF Shape, NoSeek
<1>2. NoSeek \in SeekLocals  BY NewTyped
<1>3. localJob \in SeekLocals /\ item \in Item  BY DEF TypeOK
<1>4. CASE LocalSyncThread
  <2>1. item' \in Item /\ item'.eState_ # "INIT" /\ (item'.eState_ = "STOP" => item.eState_ = "STOP")
    BY <1>1, <1>3, <1>4, StateTyped DEF LocalSyncThread, Idle
  <2>2. localJob' \in SeekLocals
    <3>1. published \in Seqs  BY TableAssumption DEF TypeOK, Ledger, Seqs
    <3>2. item.u32SeqLedger_ \in Seqs /\ item.uTxSeq_ \in Seqs  BY <1>3 DEF Item
    <3>3. item.u32SeqLedger_ + 1 \in 0 .. MaxSeq + 1 /\ 0 \in Seqs
      BY <3>2, TableAssumption DEF Seqs
    <3>4. CASE listed /\ item.eState_ = "WAIT_LOCAL_ACQUIRE"
      <4>1. localJob' = [pc |-> "seek", i |-> item.u32SeqLedger_ + 1, pub |-> published,
                         last |-> item.u32SeqLedger_, tx |-> item.uTxSeq_,
                         check |-> item.u32SeqLedger_, cur |-> 0, sent |-> FALSE]
        BY <1>4, <3>4 DEF LocalSyncThread
      <4> QED  BY <4>1, <3>1, <3>2, <3>3 DEF SeekLocals
    <3>5. CASE ~(listed /\ item.eState_ = "WAIT_LOCAL_ACQUIRE")
      <4>1. localJob' = [NoSeek EXCEPT !.pc = "ending"]  BY <1>4, <3>5 DEF LocalSyncThread
      <4> QED  BY <1>2, <4>1 DEF SeekLocals
    <3> QED  BY <3>4, <3>5
  <2> QED  BY <1>4, <2>1, <2>2 DEF LocalSyncThread, TypeOK, Shape, ledgerVars, dbVars
<1>5. CASE SeekSkip
  <2> DEFINE d == SeekEnd(uStopIndex, localJob.last)
  <2>1. localJob.i <= localJob.pub /\ localJob.pc = "seek"  BY <1>5 DEF SeekSkip, seeking
  <2>2. uStopIndex \in Seqs /\ uStopIndex + 1 \in 0 .. MaxSeq + 1  BY <1>3, <2>1, StopIndex
  <2>3. d \in Data  BY <1>3, <2>2, ReplyTyped DEF SeekLocals
  <2>4. localJob' \in SeekLocals  BY <1>3, <1>5, <2>2, Zenon DEF SeekSkip, SeekLocals
  <2>5. item.eState_ # "INIT"  BY <1>1, <2>1 DEF Idle
  <2>6. item' = SendData(item, d) /\ sqlJob' = TryOperateSQL(item, d)  BY <1>5 DEF SeekSkip
  <2>7. /\ item' \in Item /\ sqlJob' \in SQLLocals /\ item'.eState_ = item.eState_
        /\ sqlJob'.pc # "deal" => sqlJob'.vec = <<>>
        /\ item'.eState_ = "STOP" => sqlJob'.pc # "deal"
    BY <2>3, <2>5, <2>6, SendStepTyped, Zenon
  <2> QED  BY <1>5, <2>4, <2>5, <2>7 DEF SeekSkip, TypeOK, Shape, ledgerVars, dbVars
<1>6. CASE SeekLedger
  <2>1. localJob.i <= localJob.pub /\ localJob.pc = "seek"
    BY <1>6 DEF SeekLedger, ReadLedger, looksInto, seeking
  <2>2. uStopIndex \in Seqs  BY <1>3, <2>1, StopIndex
  <2>3. PICK looked \in BOOLEAN, txn \in Seqs, prev \in Seqs : ReadLedger(looked, txn, prev)
    BY <1>6 DEF SeekLedger
  <2>4. TableData(txn, prev) \in Data  BY ReplyTyped
  <2>5. localJob.i \in Seqs /\ localJob.i + 1 \in 0 .. MaxSeq + 1
    BY <1>3, <2>1, TableAssumption DEF SeekLocals, Seqs
  <2>6. localJob' \in SeekLocals  BY <1>3, <2>2, <2>3, <2>5 DEF ReadLedger, SeekLocals
  <2>7. item.eState_ # "INIT"  BY <1>1, <2>1 DEF Idle
  <2>8. /\ item' \in Item /\ sqlJob' \in SQLLocals /\ item'.eState_ = item.eState_
        /\ sqlJob'.pc # "deal" => sqlJob'.vec = <<>>
        /\ item'.eState_ = "STOP" => sqlJob'.pc # "deal"
    <3>1. (prev = localJob.tx) \in BOOLEAN  OBVIOUS
    <3>2. /\ item' = IF prev = localJob.tx THEN SendData(item, TableData(txn, prev)) ELSE item
          /\ sqlJob' = IF prev = localJob.tx THEN TryOperateSQL(item, TableData(txn, prev))
                       ELSE sqlJob
      BY <2>3 DEF ReadLedger
    <3> QED  BY <2>4, <2>7, <3>1, <3>2, SendStepTyped
  <2> QED  BY <1>6, <2>6, <2>7, <2>8 DEF SeekLedger, TypeOK, Shape, ledgerVars, dbVars
<1>7. CASE SeekCandidate
  <2> DEFINE d == SeekEnd(localJob.cur, localJob.last)
  <2>1. d \in Data  BY <1>3, ReplyTyped DEF SeekLocals
  <2>2. localJob' \in SeekLocals  BY <1>3, <1>7 DEF SeekCandidate, SeekLocals
  <2>3. item.eState_ # "INIT"  BY <1>1, <1>7 DEF SeekCandidate, Idle
  <2>4. item' = SendData(item, d) /\ sqlJob' = TryOperateSQL(item, d)
    BY <1>7 DEF SeekCandidate
  <2>5. /\ item' \in Item /\ sqlJob' \in SQLLocals /\ item'.eState_ = item.eState_
        /\ sqlJob'.pc # "deal" => sqlJob'.vec = <<>>
        /\ item'.eState_ = "STOP" => sqlJob'.pc # "deal"
    BY <2>1, <2>3, <2>4, SendStepTyped
  <2> QED  BY <1>7, <2>2, <2>3, <2>5 DEF SeekCandidate, TypeOK, Shape, ledgerVars, dbVars
<1>8. CASE SeekFinish
  <2> DEFINE d == SeekEnd(localJob.cur, localJob.last)
  <2>1. d \in Data  BY <1>3, ReplyTyped DEF SeekLocals
  <2>2. localJob' \in SeekLocals  BY <1>2, <1>8 DEF SeekFinish, SeekLocals
  <2>3. item.eState_ # "INIT"  BY <1>1, <1>8 DEF SeekFinish, Idle
  <2>4. PICK end \in {"over", "gone", "noReply"} :
          /\ item' = SetSyncState(IF closes(end) THEN SendData(item, d) ELSE item, "BLOCK_STOP")
          /\ sqlJob' = IF closes(end) THEN TryOperateSQL(item, d) ELSE sqlJob
    BY <1>8 DEF SeekFinish
  <2> DEFINE sent == IF closes(end) THEN SendData(item, d) ELSE item
  <2>5. sent \in Item /\ sent.eState_ = item.eState_  BY <1>3, <2>1, SendTyped
  <2>6. sqlJob' = sqlJob \/ sqlJob' = [NoSQL EXCEPT !.pc = "queued"]
    BY <2>4 DEF TryOperateSQL
  <2>7. [NoSQL EXCEPT !.pc = "queued"] \in SQLLocals
    <3>1. NoSQL \in SQLLocals  BY NewTyped
    <3> QED  BY <3>1 DEF SQLLocals, NoSQL
  <2> HIDE DEF sent
  <2>8. /\ item' \in Item /\ item'.eState_ # "INIT"
        /\ item'.eState_ = "STOP" => item.eState_ = "STOP"
    BY <2>3, <2>4, <2>5, StateTyped DEF sent
  <2> QED  BY <1>8, <2>2, <2>6, <2>7, <2>8
           DEF SeekFinish, TypeOK, Shape, ledgerVars, dbVars, NoSQL
<1>9. CASE LocalSyncEnd
  BY <1>2, <1>9 DEF LocalSyncEnd, TypeOK, Shape, ledgerVars, dbVars
<1> QED  BY <1>4, <1>5, <1>6, <1>7, <1>8, <1>9 DEF LocalJob

LEMMA SQLTyped ==
    ASSUME TypeOK, Shape, SQLJob  PROVE TypeOK' /\ Shape'
<1>1. sqlJob \in SQLLocals /\ item \in Item /\ NoSQL \in SQLLocals  BY NewTyped DEF TypeOK
<1>2. sqlJob.pc # Idle => item.eState_ # "INIT"  BY DEF Shape, NoSQL
<1>3. /\ backToLoop \in SQLLocals /\ backToLoop.pc = "loop" /\ backToLoop.vec = <<>>
      /\ [NoSQL EXCEPT !.pc = "ending"] \in SQLLocals
      /\ [NoSQL EXCEPT !.pc = "ending"].pc = "ending"
      /\ [NoSQL EXCEPT !.pc = "ending"].vec = <<>>
      /\ NoSQL.pc = Idle /\ NoSQL.vec = <<>>
  BY <1>1 DEF SQLLocals, NoSQL, backToLoop
<1>4. CASE OperateSQLThread
  <2>1. [sqlJob EXCEPT !.pc = "loop"] \in SQLLocals /\ [sqlJob EXCEPT !.pc = "loop"].pc = "loop"
        /\ [sqlJob EXCEPT !.pc = "loop"].vec = sqlJob.vec
    BY <1>1 DEF SQLLocals
  <2>2. sqlJob' \in SQLLocals /\ sqlJob'.pc # "deal" /\ sqlJob'.vec = <<>>
    BY <1>1, <1>3, <1>4, <2>1 DEF OperateSQLThread, Shape, Idle
  <2>3. item.eState_ # "INIT"  BY <1>2, <1>4 DEF OperateSQLThread, Idle
  <2> QED  BY <1>4, <2>2, <2>3 DEF OperateSQLThread, TypeOK, Shape, ledgerVars, dbVars
<1>5. CASE OperateTake
  <2>1. item.aWholeData_ \in Seq(Data) /\ <<>> \in Seq(Data)  BY <1>1, EmptySeq DEF Item
  <2>2. item.eState_ # "INIT"  BY <1>2, <1>5 DEF OperateTake, Idle
  <2>3. /\ [NoSQL EXCEPT !.pc = "deal", !.vec = item.aWholeData_] \in SQLLocals
        /\ [NoSQL EXCEPT !.pc = "deal", !.vec = item.aWholeData_].pc = "deal"
    BY <1>1, <2>1 DEF SQLLocals
  <2>4. [item EXCEPT !.aWholeData_ = <<>>] \in Item
        /\ [item EXCEPT !.aWholeData_ = <<>>].eState_ = item.eState_
    BY <1>1, <2>1 DEF Item
  <2>5. /\ item' \in Item /\ sqlJob' \in SQLLocals /\ item'.eState_ = item.eState_
        /\ sqlJob'.pc # "deal" => sqlJob'.vec = <<>>
        /\ item'.eState_ = "STOP" => sqlJob'.pc # "deal"
    BY <1>1, <1>3, <1>5, <2>3, <2>4 DEF OperateTake
  <2> QED  BY <1>5, <2>2, <2>5 DEF OperateTake, TypeOK, Shape, ledgerVars, dbVars
<1>6. CASE OperateEnd \/ DealEnd
  <2>1. item.eState_ # "INIT"  BY <1>2, <1>6 DEF OperateEnd, DealEnd, Idle
  <2> QED  BY <1>1, <1>3, <1>6, <2>1
           DEF OperateEnd, DealEnd, TypeOK, Shape, ledgerVars, dbVars, Idle
<1>7. CASE DealEmpty \/ DealTry \/ DealSlice \/ OnConnectionError \/ CommitLost \/ CommitRefused
  <2> DEFINE d == Head(sqlJob.vec)
             v == Tail(sqlJob.vec)
             stopped == SetSyncState(item, "STOP")
             Row == [LedgerSeq : Seqs, TxnLedgerSeq : Seqs, TxnUpdateHash : Slice]
             hashed == [item EXCEPT !.uTxDBUpdateHash_ = updateHash]
  <2>1. sqlJob.pc = "deal" /\ sqlJob.vec # <<>>
    BY <1>7 DEF DealEmpty, DealTry, DealSlice, OnConnectionError, CommitLost, CommitRefused,
                dealingSlice, dealing
  <2>2. sqlJob.vec \in Seq(Data)  BY <1>1 DEF SQLLocals
  <2>3. d \in Data /\ v \in Seq(Data)  BY <2>1, <2>2, SeqPop
  <2>4. current \in Seqs  BY <2>3 DEF current, Data
  <2>5. item.eState_ \notin {"INIT", "STOP"}  BY <1>2, <2>1 DEF Shape, Idle
  <2>6. slice \in Slice /\ NoTx \in Slice
    BY <1>1, <2>4, TableAssumption DEF slice, Slice, SQLLocals, NoTx, Seqs
  <2>7. row \in Row  BY DEF TypeOK
  <2>8. UpdateSyncDB(row) \in Row  BY <2>4, <2>6, <2>7 DEF UpdateSyncDB
  <2>9. updateHash \in Slice  BY <2>8 DEF updateHash
  <2>10. hashed \in Item /\ hashed.eState_ = item.eState_  BY <1>1, <2>9 DEF Item
  <2>11. stopped \in Item /\ stopped.eState_ = "STOP"  BY <1>1, <2>5, StateTyped
  <2>12. /\ nextLedger \in SQLLocals /\ nextLedger.pc = "deal"
         /\ [sqlJob EXCEPT !.vec = v] \in SQLLocals /\ [sqlJob EXCEPT !.vec = v].pc = "deal"
    <3>1. nextLedger = [sqlJob EXCEPT !.vec = v, !.i = 0, !.countTry = 0]  BY DEF nextLedger
    <3>2. 0 \in 0 .. MAX_CONN_RETRY_COUNT  BY TableAssumption
    <3> HIDE DEF v
    <3> QED  BY <1>1, <2>1, <2>3, <3>1, <3>2 DEF SQLLocals
  <2>13. \A n \in Nat : [sqlJob EXCEPT !.i = n] \in SQLLocals /\ [sqlJob EXCEPT !.i = n].pc = "deal"
    BY <1>1, <2>1 DEF SQLLocals
  <2>14. nextSlice \in SQLLocals /\ nextSlice.pc = "deal"
    <3>1. sqlJob.i + 1 \in Nat  BY <1>1 DEF SQLLocals
    <3>2. nextSlice = nextLedger \/ nextSlice = [sqlJob EXCEPT !.i = sqlJob.i + 1]
      BY DEF nextSlice
    <3> QED  BY <2>12, <2>13, <3>1, <3>2
  <2>15. /\ tryAgain \in SQLLocals
         /\ \A it \in Item : it.eState_ = item.eState_ =>
              /\ stopUnlessRetry(it) \in Item /\ stopUnlessRetry(it).eState_ # "INIT"
              /\ stopUnlessRetry(it).eState_ = "STOP" => tryAgain.pc = "loop"
    <3>1. retries => [sqlJob EXCEPT !.i = 0, !.countTry = sqlJob.countTry + 1] \in SQLLocals
      <4>1. sqlJob.countTry \in 0 .. MAX_CONN_RETRY_COUNT  BY <1>1 DEF SQLLocals
      <4>2. retries => sqlJob.countTry + 1 \in 0 .. MAX_CONN_RETRY_COUNT
        BY <4>1, TableAssumption DEF retries
      <4> QED  BY <1>1, <4>2 DEF SQLLocals
    <3>2. \A it \in Item : it.eState_ = item.eState_ =>
            SetSyncState(it, "STOP") \in Item /\ SetSyncState(it, "STOP").eState_ = "STOP"
      BY StateTyped
    <3> QED  BY <1>3, <2>5, <3>1, <3>2 DEF tryAgain, stopUnlessRetry
  <2>16. tryAgain.vec = <<>> \/ tryAgain.pc = "deal"
    BY <1>1, <1>3, <2>1 DEF tryAgain, SQLLocals
  <2>17. execute \in Seq(Slice)
    <3>1. contents \in Seq(Slice) /\ <<slice>> \in Seq(Slice)  BY <2>6 DEF TypeOK
    <3> HIDE DEF Slice
    <3>2. Append(contents, slice) \in Seq(Slice)  BY <3>1, <2>6, SeqPush
    <3> QED  BY <3>1, <3>2 DEF execute
  <2> HIDE DEF d, v, stopped, Row, hashed
  <2>18. /\ item' \in Item /\ item'.eState_ # "INIT" /\ sqlJob' \in SQLLocals
         /\ sqlJob'.pc # "deal" => sqlJob'.vec = <<>>
         /\ item'.eState_ = "STOP" => sqlJob'.pc # "deal"
    <3>1. CASE DealEmpty
      BY <1>1, <1>3, <2>5, <2>11, <2>12, <3>1 DEF DealEmpty, stopped, v
    <3>2. CASE DealTry
      <4>1. item.uTxDBUpdateHash_[2] \in Nat  BY <1>1 DEF Item, Slice
      <4> QED  BY <1>1, <2>5, <2>12, <2>13, <3>2, <4>1 DEF DealTry
    <3>3. CASE DealSlice  BY <2>5, <2>10, <2>14, <3>3 DEF DealSlice, hashed
    <3>4. CASE OnConnectionError  BY <1>1, <2>15, <2>16, <3>4 DEF OnConnectionError
    <3>5. CASE CommitLost  BY <2>10, <2>15, <2>16, <3>5 DEF CommitLost, hashed
    <3>6. CASE CommitRefused  BY <1>1, <2>5, <2>10, <2>14, <3>6 DEF CommitRefused, hashed
    <3> QED  BY <1>7, <3>1, <3>2, <3>3, <3>4, <3>5, <3>6
  <2>19. row' \in Row /\ contents' \in Seq(Slice) /\ failed' \in 0 .. MaxFail
    <3>1. contents \in Seq(Slice) /\ failed \in 0 .. MaxFail  BY DEF TypeOK
    <3>2. [row EXCEPT !.LedgerSeq = current] \in Row  BY <2>4, <2>7 DEF Row
    <3>3. row' \in Row /\ contents' \in Seq(Slice)
      BY <1>7, <2>7, <2>8, <2>17, <3>1, <3>2
         DEF DealEmpty, DealTry, DealSlice, OnConnectionError, CommitLost, CommitRefused, dbVars
    <3>4. failed' \in 0 .. MaxFail
      BY <1>7, <3>1, TableAssumption
         DEF DealEmpty, DealTry, DealSlice, OnConnectionError, CommitLost, CommitRefused
    <3> QED  BY <3>3, <3>4
  <2>20. UNCHANGED <<ledgerVars, listed, syncJob, localJob, crashed>>
    BY <1>7 DEF DealEmpty, DealTry, DealSlice, OnConnectionError, CommitLost, CommitRefused
  <2> QED  BY <2>18, <2>19, <2>20 DEF TypeOK, Shape, Row, ledgerVars
<1> QED  BY <1>4, <1>5, <1>6, <1>7 DEF SQLJob

LEMMA Typed ==
    ASSUME TypeOK, Shape, [Next]_vars  PROVE TypeOK' /\ Shape'
<1>1. CASE Publish \/ FetchHistory \/ TryTableSync \/ SyncJob \/ Crash  BY <1>1, SyncTyped
<1>2. CASE LocalJob  BY <1>2, LocalTyped
<1>3. CASE SQLJob  BY <1>3, SQLTyped
<1>4. CASE UNCHANGED vars  BY <1>4 DEF vars, ledgerVars, dbVars, TypeOK, Shape
<1> QED  BY <1>1, <1>2, <1>3, <1>4 DEF Next

\* Every variable keeps its type, in every state of TableSync: a position read, sent
\* or stored never leaves the chain, and DealWithEveryLedgerData never tries more
\* often than MAX_CONN_RETRY_COUNT allows.
THEOREM TypesAlwaysCorrect == Spec => []TypeOK
<1>1. Init => TypeOK /\ Shape  BY InitTyped
<1>2. TypeOK /\ Shape /\ [Next]_vars => (TypeOK /\ Shape)'  BY Typed
<1> QED  BY <1>1, <1>2, PTL DEF Spec

-----------------------------------------------------------------------------
(* What the proofs of the order and of the cover share. *)

LEMMA TouchedLedger ==
    ASSUME NEW s \in Seqs, Touches(s)  PROVE s \in Ledger /\ s > 0
BY TableAssumption DEF Touches, Seqs, Ledger

LEMMA QueueAppend ==
    ASSUME NEW v \in Seq(Data), NEW w \in Seq(Data), NEW d \in Data
    PROVE  v \o w \in Seq(Data) /\ v \o Append(w, d) = Append(v \o w, d)
BY SeqPush

LEMMA TailShift ==
    ASSUME NEW S, NEW s \in Seq(S), s # <<>>
    PROVE  /\ Len(s) \in Nat /\ Len(s) > 0 /\ Len(Tail(s)) = Len(s) - 1 /\ Head(s) = s[1]
           /\ \A k \in 1 .. Len(s) - 1 : Tail(s)[k] = s[k + 1]
OBVIOUS

LEMMA QueuePop ==
    ASSUME NEW v \in Seq(Data), NEW w \in Seq(Data), v # <<>>
    PROVE  /\ v \o w \in Seq(Data) /\ v \o w # <<>> /\ Head(v \o w) = Head(v)
           /\ Tail(v \o w) = Tail(v) \o w /\ Head(v) \in Data /\ Tail(v) \in Seq(Data)
BY SeqPop

\* A reply without transactions is queued, or blocked when it does not continue
\* u32SeqLedger_.
LEMMA SendEnd ==
    ASSUME NEW it \in Item, NEW seq \in Seqs, NEW last \in Seqs
    PROVE  LET d == SeekEnd(seq, last)
               r == SendData(it, d)
           IN  /\ r.uTxSeq_ = it.uTxSeq_
               /\ last = it.u32SeqLedger_ =>
                    /\ r.aWholeData_ = Append(it.aWholeData_, d)
                    /\ r.u32SeqLedger_ = seq /\ r.aBlockData_ = it.aBlockData_
               /\ last # it.u32SeqLedger_ =>
                    /\ r.aWholeData_ = it.aWholeData_
                    /\ r.u32SeqLedger_ = it.u32SeqLedger_
                    /\ r.aBlockData_ = PushDataByOrder(it.aBlockData_, d)
<1> DEFINE d == SeekEnd(seq, last)
<1>1. d.ledgerseq = seq /\ d.lastledgerseq = last /\ d.txs = FALSE  BY DEF SeekEnd
<1> HIDE DEF d
<1>2. SendData(it, d) = IF last # it.u32SeqLedger_
                        THEN [it EXCEPT !.aBlockData_ = PushDataByOrder(it.aBlockData_, d)]
                        ELSE [it EXCEPT !.aWholeData_ = Append(it.aWholeData_, d),
                                        !.u32SeqLedger_ = seq, !.uTxSeq_ = it.uTxSeq_]
  BY <1>1 DEF SendData, consecutive, PushDataToWholeDataQueue
<1>3. /\ SendData(it, d).uTxSeq_ = it.uTxSeq_
      /\ last = it.u32SeqLedger_ =>
           /\ SendData(it, d).aWholeData_ = Append(it.aWholeData_, d)
           /\ SendData(it, d).u32SeqLedger_ = seq /\ SendData(it, d).aBlockData_ = it.aBlockData_
      /\ last # it.u32SeqLedger_ =>
           /\ SendData(it, d).aWholeData_ = it.aWholeData_
           /\ SendData(it, d).u32SeqLedger_ = it.u32SeqLedger_
           /\ SendData(it, d).aBlockData_ = PushDataByOrder(it.aBlockData_, d)
  BY <1>2 DEF Item
<1> QED  BY <1>3 DEF d

=============================================================================
