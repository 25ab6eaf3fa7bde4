-------------------------- MODULE TableOrderProofs --------------------------
(***************************************************************************)
(* TableSync executes the ledgers' slices in their order, whatever fails,  *)
(* and implements TableReplay.                                             *)
(*                                                                         *)
(* The invariant is Ordered: the queued transactions always form a chain   *)
(* of consecutive ledgers that touch the table, and row, item, queue and   *)
(* table agree whenever the failed commits are used up by breaks of the    *)
(* order.                                                                  *)
(***************************************************************************)
EXTENDS TableSyncProofs

-----------------------------------------------------------------------------
(* Chains of replies. *)

\* Ledger s is the first after p that touches the table.
NextTx(p, s) == p < s /\ Touches(s) /\ Untouched(p, s - 1)

\* f[k] is the last ledger whose transactions are among the first k replies.
links(f, s) ==
    \A k \in 1 .. Len(s) :
        IF s[k].txs THEN f[k] = s[k].ledgerseq /\ NextTx(f[k - 1], f[k]) ELSE f[k] = f[k - 1]

\* After the transactions of ledger a, the replies s hold those of every ledger that
\* touches the table, up to b.
Chained(a, s, b) ==
    \E f \in [0 .. Len(s) -> Seqs] : f[0] = a /\ f[Len(s)] = b /\ links(f, s)

\* Only replies without transactions are kept back.
NoDataBlocked(s) == \A k \in 1 .. Len(s) : ~s[k].txs

LEMMA ChainEmpty ==
    ASSUME NEW a \in Seqs  PROVE Chained(a, <<>> \o <<>>, a)
<1> DEFINE f == [k \in 0 .. 0 |-> a]
<1>1. Len(<<>> \o <<>>) = 0  OBVIOUS
<1>2. f \in [0 .. 0 -> Seqs] /\ f[0] = a  OBVIOUS
<1>3. links(f, <<>> \o <<>>)  BY <1>1 DEF links
<1> QED  BY <1>1, <1>2, <1>3 DEF Chained

\* Replies t that hold no transactions change nothing.
LEMMA ChainIdle ==
    ASSUME NEW a \in Seqs, NEW b \in Seqs, NEW s \in Seq(Data), NEW t \in Seq(Data),
           Chained(a, s, b), NoDataBlocked(t)
    PROVE  Chained(a, s \o t, b)
<1>1. PICK f \in [0 .. Len(s) -> Seqs] : f[0] = a /\ f[Len(s)] = b /\ links(f, s)
  BY DEF Chained
<1> DEFINE n == Len(s)
           m == Len(t)
           u == s \o t
           g == [k \in 0 .. n + m |-> IF k <= n THEN f[k] ELSE b]
<1>2. /\ n \in Nat /\ m \in Nat /\ Len(u) = n + m
      /\ \A k \in 1 .. n : u[k] = s[k]
      /\ \A k \in 1 .. m : u[n + k] = t[k]
  BY LenProperties
<1> HIDE DEF n, m, u
<1>3. g \in [0 .. n + m -> Seqs]  BY <1>1, <1>2 DEF n
<1>4. g[0] = a /\ g[n + m] = b  BY <1>1, <1>2 DEF n
<1>5. ASSUME NEW k \in 1 .. n + m
      PROVE  IF u[k].txs THEN g[k] = u[k].ledgerseq /\ NextTx(g[k - 1], g[k]) ELSE g[k] = g[k - 1]
  <2>1. CASE k <= n
    <3>1. k \in 1 .. n /\ k - 1 \in 0 .. n + m /\ k - 1 <= n  BY <1>2, <2>1
    <3>2. g[k] = f[k] /\ g[k - 1] = f[k - 1] /\ u[k] = s[k]  BY <1>2, <2>1, <3>1
    <3> HIDE DEF g
    <3> QED  BY <1>1, <3>1, <3>2 DEF links, n
  <2>2. CASE ~(k <= n)
    <3>1. k - n \in 1 .. m /\ n + (k - n) = k /\ k - 1 \in 0 .. n + m  BY <1>2, <2>2
    <3>2. u[k] = t[k - n]  BY <1>2, <3>1
    <3>3. ~u[k].txs  BY <3>1, <3>2 DEF NoDataBlocked, m
    <3>4. g[k] = b  BY <1>2, <2>2
    <3>5. g[k - 1] = b
      <4>1. CASE k - 1 = n  BY <1>1, <1>2, <3>1, <4>1 DEF n
      <4>2. CASE k - 1 # n  BY <1>2, <2>2, <3>1, <4>2
      <4> QED  BY <4>1, <4>2
    <3> QED  BY <3>3, <3>4, <3>5
  <2> QED  BY <2>1, <2>2
<1> HIDE DEF g
<1>6. links(g, u)  BY <1>2, <1>5 DEF links
<1>7. Chained(a, u, b)  BY <1>2, <1>3, <1>4, <1>6, Zenon DEF Chained
<1> QED  BY <1>7 DEF u

\* The transactions of the next ledger that touches the table.
LEMMA ChainAppend ==
    ASSUME NEW a \in Seqs, NEW b \in Seqs, NEW s \in Seq(Data), NEW d \in Data,
           Chained(a, s, b), d.txs, NextTx(b, d.ledgerseq)
    PROVE  Chained(a, Append(s, d), d.ledgerseq)
<1>1. PICK f \in [0 .. Len(s) -> Seqs] : f[0] = a /\ f[Len(s)] = b /\ links(f, s)
  BY DEF Chained
<1> DEFINE n == Len(s)
           u == Append(s, d)
           g == [k \in 0 .. n + 1 |-> IF k <= n THEN f[k] ELSE d.ledgerseq]
<1>2. n \in Nat /\ Len(u) = n + 1 /\ u[n + 1] = d /\ \A k \in 1 .. n : u[k] = s[k]
  BY SeqPush, LenProperties
<1>3. d.ledgerseq \in Seqs  BY DEF Data
<1> HIDE DEF n, u
<1>4. g \in [0 .. n + 1 -> Seqs]  BY <1>1, <1>2, <1>3 DEF n
<1>5. g[0] = a /\ g[n] = b /\ g[n + 1] = d.ledgerseq  BY <1>1, <1>2 DEF n
<1>6. ASSUME NEW k \in 1 .. n + 1
      PROVE  IF u[k].txs THEN g[k] = u[k].ledgerseq /\ NextTx(g[k - 1], g[k]) ELSE g[k] = g[k - 1]
  <2>1. CASE k <= n
    <3>1. k \in 1 .. n /\ k - 1 \in 0 .. n + 1 /\ k - 1 <= n  BY <1>2, <2>1
    <3>2. g[k] = f[k] /\ g[k - 1] = f[k - 1] /\ u[k] = s[k]  BY <1>2, <2>1, <3>1
    <3> HIDE DEF g
    <3> QED  BY <1>1, <3>1, <3>2 DEF links, n
  <2>2. CASE ~(k <= n)
    <3>1. k = n + 1 /\ k - 1 = n  BY <1>2, <2>2
    <3> HIDE DEF g
    <3> QED  BY <1>2, <1>5, <3>1
  <2> QED  BY <2>1, <2>2
<1> HIDE DEF g
<1>7. links(g, u)  BY <1>2, <1>6 DEF links
<1>8. Chained(a, u, d.ledgerseq)  BY <1>2, <1>4, <1>5, <1>7 DEF Chained
<1> QED  BY <1>8 DEF u

\* Dealing with the first reply.
LEMMA ChainTail ==
    ASSUME NEW a \in Seqs, NEW b \in Seqs, NEW s \in Seq(Data), s # <<>>, Chained(a, s, b)
    PROVE  IF Head(s).txs
           THEN /\ Head(s).ledgerseq \in Seqs /\ NextTx(a, Head(s).ledgerseq)
                /\ Chained(Head(s).ledgerseq, Tail(s), b)
           ELSE Chained(a, Tail(s), b)
<1>1. PICK f \in [0 .. Len(s) -> Seqs] : f[0] = a /\ f[Len(s)] = b /\ links(f, s)
  BY DEF Chained
<1> DEFINE n == Len(s)
           t == Tail(s)
           g == [k \in 0 .. n - 1 |-> f[k + 1]]
<1>2. n \in Nat /\ n > 0 /\ Len(t) = n - 1 /\ Head(s) = s[1] /\ \A k \in 1 .. n - 1 : t[k] = s[k + 1]
  BY TailShift
<1> HIDE DEF n, t
<1>3. g \in [0 .. n - 1 -> Seqs]  BY <1>1, <1>2 DEF n
<1>4. g[0] = f[1] /\ g[n - 1] = b  BY <1>1, <1>2 DEF n
<1>5. ASSUME NEW k \in 1 .. n - 1
      PROVE  IF t[k].txs THEN g[k] = t[k].ledgerseq /\ NextTx(g[k - 1], g[k]) ELSE g[k] = g[k - 1]
  <2>1. k + 1 \in 1 .. n /\ k + 1 - 1 = k /\ k - 1 \in 0 .. n - 1 /\ k - 1 + 1 = k  BY <1>2
  <2>2. g[k] = f[k + 1] /\ g[k - 1] = f[k] /\ t[k] = s[k + 1]  BY <1>2, <2>1
  <2> HIDE DEF g
  <2> QED  BY <1>1, <2>1, <2>2 DEF links, n
<1> HIDE DEF g
<1>6. links(g, t)  BY <1>2, <1>5 DEF links
<1>7. Chained(f[1], t, b)  BY <1>2, <1>3, <1>4, <1>6 DEF Chained
<1>8. IF s[1].txs THEN f[1] = s[1].ledgerseq /\ NextTx(f[0], f[1]) ELSE f[1] = f[0]
  <2>1. 1 \in 1 .. n /\ 1 - 1 = 0  BY <1>2
  <2> QED  BY <1>1, <2>1 DEF links, n
<1>9. f[1] \in Seqs  BY <1>1, <1>2 DEF n
<1> QED  BY <1>1, <1>2, <1>7, <1>8, <1>9 DEF t

LEMMA SeqParts ==
    ASSUME NEW S, NEW s \in Seq(S), NEW n \in 0 .. Len(s)
    PROVE  /\ \A k \in 1 .. Len(SubSeq(s, 1, n)) :
                k \in 1 .. n /\ k \in 1 .. Len(s) /\ SubSeq(s, 1, n)[k] = s[k]
           /\ \A k \in 1 .. Len(SubSeq(s, n + 1, Len(s))) :
                n + k \in 1 .. Len(s) /\ SubSeq(s, n + 1, Len(s))[k] = s[n + k]
<1>1. \A k \in 1 .. Len(SubSeq(s, 1, n)) :
        k \in 1 .. n /\ k \in 1 .. Len(s) /\ SubSeq(s, 1, n)[k] = s[k]
  OBVIOUS
<1>2. \A k \in 1 .. Len(SubSeq(s, n + 1, Len(s))) :
        n + k \in 1 .. Len(s) /\ SubSeq(s, n + 1, Len(s))[k] = s[n + k]
  OBVIOUS
<1> QED  BY <1>1, <1>2

LEMMA QueueJoin ==
    ASSUME NEW v \in Seq(Data), NEW w \in Seq(Data), NEW t \in Seq(Data)
    PROVE  v \o (w \o t) = (v \o w) \o t
OBVIOUS

\* What TransBlock2Whole moves to the queue holds no transactions.
LEMMA TransIdle ==
    ASSUME NEW it \in Item, NEW seq \in Seqs, NoDataBlocked(it.aBlockData_)
    PROVE  LET r == TransBlock2Whole(it, seq)
           IN  /\ r.uTxSeq_ = it.uTxSeq_ /\ NoDataBlocked(r.aBlockData_)
               /\ \E t \in Seq(Data) : NoDataBlocked(t) /\ r.aWholeData_ = it.aWholeData_ \o t
<1> DEFINE s == it.aBlockData_
           n == continuing(s, seq)
           tx == {j \in 1 .. n : s[j].txs}
           t == SubSeq(s, 1, n)
           block == SubSeq(s, n + 1, Len(s))
           pos == IF n = 0 THEN it.u32SeqLedger_ ELSE s[n].ledgerseq
           last == IF tx = {} THEN it.uTxSeq_
                   ELSE s[CHOOSE j \in tx : \A k \in tx : k <= j].ledgerseq
           r == TransBlock2Whole(it, seq)
<1>1. s \in Seq(Data) /\ Len(s) \in Nat  BY LenProperties DEF Item
<1>2. r = [it EXCEPT !.aWholeData_ = it.aWholeData_ \o t, !.aBlockData_ = block,
                     !.u32SeqLedger_ = pos, !.uTxSeq_ = last]
  BY DEF TransBlock2Whole
<1>3. n \in 0 .. Len(s)  BY <1>1, ContinuingBound
<1>4. \A k \in 1 .. Len(s) : ~s[k].txs  BY DEF NoDataBlocked
<1> HIDE DEF s, n
<1>5. t \in Seq(Data) /\ NoDataBlocked(t) /\ NoDataBlocked(block)
  BY <1>1, <1>3, <1>4, SeqCut, SeqParts DEF NoDataBlocked
<1>6. tx = {}  BY <1>1, <1>3, <1>4
<1>7. last = it.uTxSeq_  BY <1>6
<1> HIDE DEF tx, t, block, pos, last, r
<1>8. r.uTxSeq_ = last /\ r.aBlockData_ = block /\ r.aWholeData_ = it.aWholeData_ \o t
  BY <1>2 DEF Item
<1> QED  BY <1>5, <1>7, <1>8 DEF r

-----------------------------------------------------------------------------
(* The breaks of the order. *)

LEMMA BreaksCount ==
    ASSUME NEW t  PROVE TR!breaks(t) = Cardinality(TR!Breaks(t))
BY DEF TR!breaks, TR!Cardinality, Cardinality

LEMMA BreaksFinite ==
    ASSUME NEW t \in Seq(Slice)
    PROVE  IsFiniteSet(TR!Breaks(t)) /\ TR!breaks(t) \in Nat
<1>1. Len(t) \in Nat  BY LenProperties
<1>2. IsFiniteSet(1 .. Len(t))  BY <1>1, FS_Interval
<1>3. TR!Breaks(t) \subseteq 1 .. Len(t)  BY DEF TR!Breaks
<1>4. IsFiniteSet(TR!Breaks(t))  BY <1>2, <1>3, FS_Subset
<1> QED  BY <1>4, BreaksCount, FS_CardinalityType

LEMMA BreaksCreation == TR!breaks(<<Creation>>) = 0
<1>1. TR!Breaks(<<Creation>>) = {}  BY DEF TR!Breaks, TR!Creation, Creation
<1> QED  BY <1>1, BreaksCount, FS_EmptySet

LEMMA BreaksAppend ==
    ASSUME NEW t \in Seq(Slice), NEW q \in Slice
    PROVE  /\ TR!breaks(Append(t, q)) <= TR!breaks(t) + 1
           /\ t # <<>> /\ TR!Follows(t[Len(t)], q) => TR!breaks(Append(t, q)) <= TR!breaks(t)
<1> DEFINE n == Len(t)
           u == Append(t, q)
<1>1. n \in Nat /\ u \in Seq(Slice) /\ Len(u) = n + 1 /\ u[n + 1] = q
      /\ \A k \in 1 .. n : u[k] = t[k]
  BY SeqPush, LenProperties
<1> HIDE DEF n, u
<1>2. \A k \in TR!Breaks(u) : k \in 1 .. n => k \in TR!Breaks(t)
  <2> SUFFICES ASSUME NEW k \in TR!Breaks(u), k \in 1 .. n  PROVE k \in TR!Breaks(t)
    OBVIOUS
  <2>1. u[k] = t[k] /\ (k # 1 => u[k - 1] = t[k - 1]) /\ u[1] = t[1]  BY <1>1
  <2>2. IF k = 1 THEN u[1] # TR!Creation ELSE ~TR!Follows(u[k - 1], u[k])
    BY DEF TR!Breaks
  <2> QED  BY <2>1, <2>2 DEF TR!Breaks, n
<1>3. TR!Breaks(u) \subseteq TR!Breaks(t) \cup {n + 1}
  BY <1>1, <1>2 DEF TR!Breaks
<1>4. IsFiniteSet(TR!Breaks(t)) /\ Cardinality(TR!Breaks(t)) \in Nat
  BY BreaksFinite, BreaksCount
<1>5. Cardinality(TR!Breaks(u)) <= Cardinality(TR!Breaks(t)) + 1
  <2>1. /\ IsFiniteSet(TR!Breaks(t) \cup {n + 1})
        /\ Cardinality(TR!Breaks(t) \cup {n + 1}) <= Cardinality(TR!Breaks(t)) + 1
        /\ Cardinality(TR!Breaks(t) \cup {n + 1}) \in Nat
    <3>1. /\ IsFiniteSet(TR!Breaks(t) \cup {n + 1})
          /\ Cardinality(TR!Breaks(t) \cup {n + 1}) =
               IF n + 1 \in TR!Breaks(t) THEN Cardinality(TR!Breaks(t))
               ELSE Cardinality(TR!Breaks(t)) + 1
      BY <1>4, FS_AddElement
    <3> QED  BY <1>4, <3>1
  <2>2. Cardinality(TR!Breaks(u)) <= Cardinality(TR!Breaks(t) \cup {n + 1})
        /\ Cardinality(TR!Breaks(u)) \in Nat
    BY <1>1, <1>3, <2>1, FS_Subset, BreaksFinite, BreaksCount
  <2> QED  BY <1>4, <2>1, <2>2
<1>6. ASSUME t # <<>>, TR!Follows(t[n], q)
      PROVE  Cardinality(TR!Breaks(u)) <= Cardinality(TR!Breaks(t))
  <2>1. n > 0 /\ u[n] = t[n]  BY <1>1, <1>6, SeqParts DEF n
  <2>2. n + 1 \notin TR!Breaks(u)
    <3>1. n + 1 # 1 /\ (n + 1) - 1 = n  BY <1>1, <2>1
    <3> QED  BY <1>1, <1>6, <2>1, <3>1 DEF TR!Breaks
  <2>3. TR!Breaks(u) \subseteq TR!Breaks(t)  BY <1>3, <2>2
  <2> QED  BY <1>4, <2>3, FS_Subset
<1> QED  BY <1>5, <1>6, BreaksCount DEF n, u

-----------------------------------------------------------------------------
(* The invariant. *)

searching == localJob.pc \in {"seek", "candidate"}

\* SendData queues transactions only when they are those of the next ledger after
\* uTxSeq_ that touches the table.
QueueChained ==
    item.eState_ \notin {"INIT", "STOP"} => \E a \in Seqs : Chained(a, Pending, item.uTxSeq_)

\* The search knows the item's last ledger, or can find nothing more.
SeekLinked ==
    searching => \/ localJob.tx = item.uTxSeq_
                 \/ localJob.tx # 0 /\ ~Touches(localJob.tx)

SliceReal ==
    dealing /\ sqlJob.i > 0 => Head(sqlJob.vec).txs /\ sqlJob.i <= slices[current]

\* An update hash names a slice of a ledger that goes on after it.
HashReal(h) == h # NoTx => Touches(h[1]) /\ 1 <= h[2] /\ h[2] < slices[h[1]]
RowReal(r) == HashReal(r.TxnUpdateHash) /\ (r.TxnLedgerSeq = 0 \/ Touches(r.TxnLedgerSeq))

\* What holds whatever commits failed.
Linked ==
    /\ QueueChained /\ SeekLinked /\ NoDataBlocked(item.aBlockData_) /\ SliceReal
    /\ HashReal(item.uTxDBUpdateHash_) /\ RowReal(row)

Ends(c, q) == c # <<>> /\ c[Len(c)] = q

\* The row tells which slice was executed last, unless the creation comes next.
Tells(r, c) ==
    IF r.TxnUpdateHash # NoTx THEN Ends(c, r.TxnUpdateHash)
    ELSE r.TxnLedgerSeq # 0 => Ends(c, <<r.TxnLedgerSeq, slices[r.TxnLedgerSeq]>>)

\* The queue goes on where the row ends.
QueueAligned ==
    item.eState_ \notin {"INIT", "STOP"} /\ row.TxnUpdateHash = NoTx =>
        Chained(row.TxnLedgerSeq, Pending, item.uTxSeq_)

\* The slice to be executed is the first, the one after uTxDBUpdateHash_, or the one
\* that uTxDBUpdateHash_ names.
SliceAligned ==
    dealing /\ sqlJob.i > 0 =>
        item.uTxDBUpdateHash_ \in
            (IF sqlJob.i = 1 THEN {NoTx} ELSE {<<current, sqlJob.i - 1>>}) \cup {slice}

\* What a failed commit may disturb: row, item, queue and table agree.
Aligned ==
    /\ Tells(row, contents)
    /\ item.eState_ # "INIT" => item.uTxDBUpdateHash_ = row.TxnUpdateHash
    /\ QueueAligned /\ SliceAligned

\* A break of the order is paid for by a commit that failed.  When every failed commit
\* is paid out, the next slice still finds row, item and queue in agreement.
Ordered ==
    /\ Linked
    /\ TR!breaks(contents) <= failed
    /\ TR!breaks(contents) = failed => Aligned

-----------------------------------------------------------------------------
(* The search only adds to the chain. *)

Extended(it) ==
    /\ it.eState_ = item.eState_ /\ it.uTxDBUpdateHash_ = item.uTxDBUpdateHash_
    /\ NoDataBlocked(it.aBlockData_)
    /\ \A a \in Seqs : Chained(a, Pending, item.uTxSeq_) =>
                         Chained(a, sqlJob.vec \o it.aWholeData_, it.uTxSeq_)

LEMMA EndExtends ==
    ASSUME TypeOK, Linked, NEW seq \in Seqs, NEW last \in Seqs
    PROVE  LET r == SendData(item, SeekEnd(seq, last))
           IN  r \in Item /\ Extended(r) /\ r.uTxSeq_ = item.uTxSeq_
<1> DEFINE d == SeekEnd(seq, last)
           r == SendData(item, d)
           block == item.aBlockData_
<1>1. item \in Item /\ block \in Seq(Data) /\ item.uTxSeq_ \in Seqs
      /\ item.aWholeData_ \in Seq(Data) /\ sqlJob.vec \in Seq(Data)
  BY DEF TypeOK, Item, SQLLocals
<1>2. d \in Data /\ d.txs = FALSE
  <2>1. d \in Data  BY ReplyTyped
  <2> QED  BY <2>1 DEF SeekEnd
<1>3. r \in Item /\ r.eState_ = item.eState_ /\ r.uTxDBUpdateHash_ = item.uTxDBUpdateHash_
  BY <1>1, <1>2, SendTyped
<1>4. /\ r.uTxSeq_ = item.uTxSeq_
      /\ \/ r.aWholeData_ = Append(item.aWholeData_, d) /\ r.aBlockData_ = block
         \/ r.aWholeData_ = item.aWholeData_ /\ r.aBlockData_ = PushDataByOrder(block, d)
  BY <1>1, SendEnd
<1>5. \A k \in 1 .. Len(block) : ~block[k].txs  BY DEF Linked, NoDataBlocked
<1> HIDE DEF d, r, block
<1>6. NoDataBlocked(r.aBlockData_)
  <2>1. \A j \in 1 .. Len(PushDataByOrder(block, d)) :
          \/ PushDataByOrder(block, d)[j] = d
          \/ \E k \in 1 .. Len(block) : PushDataByOrder(block, d)[j] = block[k]
    BY <1>1, <1>2, BlockPushed
  <2> QED  BY <1>2, <1>4, <1>5, <2>1 DEF NoDataBlocked
<1>7. ASSUME NEW a \in Seqs, Chained(a, Pending, item.uTxSeq_)
      PROVE  Chained(a, sqlJob.vec \o r.aWholeData_, r.uTxSeq_)
  <2>1. Pending \in Seq(Data) /\ Pending = sqlJob.vec \o item.aWholeData_
    BY <1>1, QueueAppend, <1>2 DEF Pending
  <2>2. CASE r.aWholeData_ = Append(item.aWholeData_, d)
    <3>1. sqlJob.vec \o r.aWholeData_ = Pending \o <<d>>
      <4>1. sqlJob.vec \o Append(item.aWholeData_, d) = Append(Pending, d)
        BY <1>1, <1>2, <2>1, QueueAppend, Zenon
      <4>2. Append(Pending, d) = Pending \o <<d>>  BY <1>2, <2>1, AppendIsConcat, Zenon
      <4> QED  BY <2>2, <4>1, <4>2
    <3>2. <<d>> \in Seq(Data) /\ NoDataBlocked(<<d>>)  BY <1>2 DEF NoDataBlocked
    <3> QED  BY <1>1, <1>4, <1>7, <2>1, <3>1, <3>2, ChainIdle, Zenon
  <2>3. CASE r.aWholeData_ = item.aWholeData_  BY <1>4, <1>7, <2>1, <2>3
  <2> QED  BY <1>4, <2>2, <2>3
<1> QED  BY <1>3, <1>4, <1>6, <1>7 DEF Extended, r, d

LEMMA TableExtends ==
    ASSUME TypeOK, Linked, NEW seq \in Seqs, NextTx(item.uTxSeq_, seq)
    PROVE  LET r == SendData(item, TableData(seq, item.uTxSeq_))
           IN  r \in Item /\ Extended(r) /\ r.uTxSeq_ = seq
<1> DEFINE d == TableData(seq, item.uTxSeq_)
           r == SendData(item, d)
           pushed == PushDataToWholeDataQueue(item, d)
           whole == item.aWholeData_
<1>1. item \in Item /\ item.uTxSeq_ \in Seqs /\ whole \in Seq(Data) /\ sqlJob.vec \in Seq(Data)
  BY DEF TypeOK, Item, SQLLocals
<1>2. d \in Data /\ d.ledgerseq = seq /\ d.lastledgerseq = item.uTxSeq_ /\ d.txs = TRUE
  <2>1. d \in Data  BY <1>1, ReplyTyped
  <2> QED  BY <2>1 DEF TableData
<1>3. r \in Item /\ r.eState_ = item.eState_ /\ r.uTxDBUpdateHash_ = item.uTxDBUpdateHash_
  BY <1>1, <1>2, SendTyped
<1> HIDE DEF d
<1>4. Append(whole, d) \in Seq(Data)  BY <1>1, <1>2, SeqPush
<1>5. pushed = [item EXCEPT !.aWholeData_ = Append(whole, d),
                            !.u32SeqLedger_ = seq, !.uTxSeq_ = seq]
  BY <1>2, Zenon DEF PushDataToWholeDataQueue
<1>6. r = TransBlock2Whole(pushed, seq)  BY <1>2 DEF SendData, consecutive
<1> HIDE DEF pushed, r
<1>7. /\ pushed \in Item /\ pushed.uTxSeq_ = seq
      /\ pushed.aWholeData_ = Append(whole, d) /\ pushed.aBlockData_ = item.aBlockData_
  BY <1>1, <1>4, <1>5, Zenon DEF Item
<1>8. NoDataBlocked(pushed.aBlockData_)  BY <1>7 DEF Linked
<1>9. PICK t \in Seq(Data) : NoDataBlocked(t) /\ r.aWholeData_ = Append(whole, d) \o t
  BY <1>6, <1>7, <1>8, TransIdle, Zenon
<1>10. r.uTxSeq_ = seq /\ NoDataBlocked(r.aBlockData_)  BY <1>6, <1>7, <1>8, TransIdle
<1>11. ASSUME NEW a \in Seqs, Chained(a, Pending, item.uTxSeq_)
       PROVE  Chained(a, sqlJob.vec \o r.aWholeData_, seq)
  <2>1. Pending \in Seq(Data) /\ sqlJob.vec \o Append(whole, d) = Append(Pending, d)
    BY <1>1, <1>2, QueueAppend, Zenon DEF Pending
  <2>2. Chained(a, Append(Pending, d), seq)
    BY <1>1, <1>2, <1>11, <2>1, ChainAppend
  <2>3. Append(Pending, d) \in Seq(Data)  BY <1>2, <2>1, SeqPush
  <2>4. Chained(a, Append(Pending, d) \o t, seq)
    BY <1>9, <2>2, <2>3, ChainIdle, Zenon
  <2>5. sqlJob.vec \o (Append(whole, d) \o t) = (sqlJob.vec \o Append(whole, d)) \o t
    BY <1>1, <1>4, QueueJoin, Zenon
  <2> QED  BY <1>9, <2>1, <2>4, <2>5
<1> QED  BY <1>3, <1>10, <1>11 DEF Extended, r, d

\* A step that leaves the database and the update hash alone.
LEMMA Kept ==
    ASSUME Ordered, UNCHANGED <<row, contents, failed>>,
           item.eState_ # "INIT", item'.uTxDBUpdateHash_ = item.uTxDBUpdateHash_,
           QueueChained', SeekLinked', NoDataBlocked(item'.aBlockData_), SliceReal',
           Aligned => QueueAligned' /\ SliceAligned'
    PROVE  Ordered'
<1>1. NoDataBlocked(item.aBlockData_)'  BY DEF NoDataBlocked
<1>2. Linked'  BY <1>1 DEF Ordered, Linked, HashReal, RowReal
<1>3. TR!breaks(contents)' = TR!breaks(contents)
  BY DEF TR!breaks, TR!Breaks, TR!Follows, TR!Creation, TR!Ledger
<1>4. Aligned => Aligned'  BY DEF Aligned, Tells, Ends
<1> QED  BY <1>2, <1>3, <1>4 DEF Ordered

\* A step that takes the item to it and at most wakes the SQL job.
LEMMA SearchKept ==
    ASSUME TypeOK, Shape, Ordered, NEW it \in Item, Extended(it),
           item.eState_ # "INIT", UNCHANGED <<row, contents, failed>>,
           item'.eState_ = "STOP" \/ item.eState_ # "STOP",
           item'.uTxSeq_ = it.uTxSeq_, item'.uTxDBUpdateHash_ = it.uTxDBUpdateHash_,
           item'.aWholeData_ = it.aWholeData_, item'.aBlockData_ = it.aBlockData_,
           \/ sqlJob' = sqlJob
           \/ sqlJob.pc = Idle /\ sqlJob' = [NoSQL EXCEPT !.pc = "queued"],
           SeekLinked'
    PROVE  Ordered'
<1>1. sqlJob'.vec = sqlJob.vec  BY DEF Shape, Idle, NoSQL
<1>2. \A a \in Seqs : Chained(a, Pending, item.uTxSeq_) => Chained(a, Pending', item'.uTxSeq_)
  BY <1>1 DEF Extended, Pending
<1>3. QueueChained'
  <2> SUFFICES ASSUME item'.eState_ # "STOP"
               PROVE  \E a \in Seqs : Chained(a, Pending', item'.uTxSeq_)
    BY DEF QueueChained, Chained, links
  <2>1. \E a \in Seqs : Chained(a, Pending, item.uTxSeq_)
    BY DEF Ordered, Linked, QueueChained
  <2> QED  BY <1>2, <2>1
<1>4. item'.uTxDBUpdateHash_ = item.uTxDBUpdateHash_ /\ NoDataBlocked(item'.aBlockData_)
  BY DEF Extended
<1>5. SliceReal' /\ (Aligned => SliceAligned')
  <2>1. CASE sqlJob' = sqlJob
    BY <1>4, <2>1 DEF Ordered, Linked, SliceReal, Aligned, SliceAligned, dealing, current, slice
  <2>2. CASE sqlJob' = [NoSQL EXCEPT !.pc = "queued"]
    BY <2>2 DEF SliceReal, SliceAligned, dealing, NoSQL
  <2> QED  BY <2>1, <2>2
<1>6. Aligned => QueueAligned'
  <2> SUFFICES ASSUME Aligned, item'.eState_ # "STOP", row.TxnUpdateHash = NoTx
               PROVE  Chained(row.TxnLedgerSeq, Pending', item'.uTxSeq_)
    BY DEF QueueAligned, Chained, links
  <2>1. row.TxnLedgerSeq \in Seqs  BY DEF TypeOK
  <2>2. Chained(row.TxnLedgerSeq, Pending, item.uTxSeq_)  BY DEF Aligned, QueueAligned
  <2> QED  BY <1>2, <2>1, <2>2
<1> QED  BY <1>3, <1>4, <1>5, <1>6, Kept

LEMMA ItemExtended ==
    ASSUME Ordered  PROVE Extended(item)
BY DEF Ordered, Linked, Extended, Pending

LEMMA SeekSkipOrdered ==
    ASSUME TypeOK, Shape, Ordered, SeekSkip  PROVE Ordered'
<1> DEFINE d == SeekEnd(uStopIndex, localJob.last)
           r == SendData(item, d)
<1>1. localJob.pc = "seek" /\ localJob.i <= localJob.pub /\ localJob \in SeekLocals /\ searching
  BY DEF SeekSkip, seeking, TypeOK, searching
<1>2. uStopIndex \in Seqs /\ localJob.last \in Seqs  BY <1>1, StopIndex DEF SeekLocals
<1>3. item.eState_ # "INIT"  BY <1>1 DEF Shape, NoSeek, Idle
<1>4. Linked  BY DEF Ordered
<1>5. r \in Item /\ Extended(r) /\ r.uTxSeq_ = item.uTxSeq_  BY <1>2, <1>4, EndExtends
<1>6. /\ item' = r /\ sqlJob' = TryOperateSQL(item, d) /\ UNCHANGED <<row, contents, failed>>
      /\ localJob'.tx = localJob.tx
  BY <1>1 DEF SeekSkip, dbVars, SeekLocals
<1> HIDE DEF r, d
<1>7. SeekLinked'  BY <1>1, <1>4, <1>5, <1>6 DEF Linked, SeekLinked
<1>8. item'.eState_ = item.eState_  BY <1>5, <1>6 DEF Extended
<1>9. \/ sqlJob' = sqlJob
      \/ sqlJob.pc = Idle /\ sqlJob' = [NoSQL EXCEPT !.pc = "queued"]
  BY <1>6 DEF TryOperateSQL
<1> QED  BY <1>3, <1>5, <1>6, <1>7, <1>8, <1>9, SearchKept

LEMMA SeekLedgerOrdered ==
    ASSUME TypeOK, Shape, Ordered, SeekLedger  PROVE Ordered'
<1>1. PICK looked \in BOOLEAN, txn \in Seqs, prev \in Seqs : ReadLedger(looked, txn, prev)
  BY DEF SeekLedger
<1> DEFINE i == localJob.i
           changed == prev = localJob.tx
           d == TableData(txn, prev)
<1>2. localJob.pc = "seek" /\ i <= localJob.pub /\ searching /\ localJob \in SeekLocals
      /\ i \in Seqs /\ item \in Item
  <2>1. localJob.pc = "seek" /\ i <= localJob.pub  BY <1>1 DEF ReadLedger, looksInto, seeking
  <2>2. localJob \in SeekLocals /\ item \in Item  BY DEF TypeOK
  <2>3. i \in Seqs  BY <2>1, <2>2, TableAssumption DEF SeekLocals, Seqs
  <2> QED  BY <2>1, <2>2, <2>3 DEF searching
<1>3. item.eState_ # "INIT"  BY <1>2 DEF Shape, NoSeek, Idle
<1>4. TableEntry(i, txn, prev)  BY <1>1 DEF ReadLedger
<1>5. Linked /\ SeekLinked  BY DEF Ordered, Linked
<1>6. /\ item' = IF changed THEN SendData(item, d) ELSE item
      /\ sqlJob' = IF changed THEN TryOperateSQL(item, d) ELSE sqlJob
      /\ UNCHANGED <<row, contents, failed>>
      /\ localJob'.tx = IF changed THEN i ELSE localJob.tx
  BY <1>1, <1>2, Zenon DEF ReadLedger, SeekLedger, dbVars, SeekLocals
<1>7. \/ sqlJob' = sqlJob
      \/ sqlJob.pc = Idle /\ sqlJob' = [NoSQL EXCEPT !.pc = "queued"]
  BY <1>6 DEF TryOperateSQL
<1>8. CASE changed
  <2>1. prev = item.uTxSeq_  BY <1>2, <1>4, <1>5, <1>8 DEF SeekLinked, TableEntry
  <2>2. NextTx(prev, txn)  BY <1>4 DEF TableEntry, NextTx
  <2>3. item' = SendData(item, TableData(txn, item.uTxSeq_))  BY <1>6, <1>8, <2>1
  <2> DEFINE r == SendData(item, TableData(txn, item.uTxSeq_))
  <2>4. r \in Item /\ Extended(r) /\ r.uTxSeq_ = txn  BY <1>5, <2>1, <2>2, TableExtends
  <2>5. item' = r  BY <2>3
  <2> HIDE DEF r, d
  <2>6. i = txn \/ (i # 0 /\ ~Touches(i))
    <3> SUFFICES ASSUME i # txn  PROVE i # 0 /\ ~Touches(i)  OBVIOUS
    <3>1. txn < i /\ i > 0  BY <1>2, <1>4, TableAssumption DEF TableEntry, Seqs
    <3>2. ASSUME Touches(i)  PROVE FALSE
      <4>1. i \in Ledger  BY <1>2, <3>2, TouchedLedger
      <4> QED  BY <1>4, <3>1, <3>2, <4>1 DEF TableEntry, Untouched, Ledger
    <3> QED  BY <3>1, <3>2
  <2>7. SeekLinked'  BY <1>6, <1>8, <2>4, <2>5, <2>6 DEF SeekLinked
  <2>8. item'.eState_ = item.eState_  BY <2>4, <2>5 DEF Extended
  <2> QED  BY <1>3, <1>6, <1>7, <2>4, <2>5, <2>7, <2>8, SearchKept
<1>9. CASE ~changed
  <2>1. item' = item /\ localJob'.tx = localJob.tx  BY <1>6, <1>9
  <2>2. SeekLinked'  BY <1>2, <1>5, <2>1 DEF SeekLinked
  <2>3. Extended(item)  BY ItemExtended
  <2> QED  BY <1>2, <1>3, <1>6, <1>7, <2>1, <2>2, <2>3, SearchKept
<1> QED  BY <1>8, <1>9

LEMMA LocalOrdered ==
    ASSUME TypeOK, Shape, Ordered, LocalJob  PROVE Ordered'
<1> DEFINE d == SeekEnd(localJob.cur, localJob.last)
           r == SendData(item, d)
<1>1. Linked /\ SeekLinked /\ item \in Item /\ Extended(item) /\ localJob \in SeekLocals
  BY ItemExtended DEF Ordered, Linked, TypeOK
<1>2. localJob.pc # Idle => item.eState_ # "INIT"  BY DEF Shape, NoSeek
<1>3. r \in Item /\ Extended(r) /\ r.uTxSeq_ = item.uTxSeq_
  <2>1. localJob.cur \in Seqs /\ localJob.last \in Seqs  BY <1>1 DEF SeekLocals
  <2> QED  BY <1>1, <2>1, EndExtends
<1>4. CASE LocalSyncThread
  <2>1. item.eState_ # "INIT" /\ UNCHANGED <<row, contents, failed, sqlJob>>
    BY <1>2, <1>4 DEF LocalSyncThread, Idle, dbVars
  <2>2. \/ item' = item /\ localJob' = [NoSeek EXCEPT !.pc = "ending"]
        \/ item' = SetSyncState(item, "LOCAL_ACQUIRING") /\ localJob'.tx = item.uTxSeq_
    BY <1>4 DEF LocalSyncThread
  <2>3. /\ item'.uTxSeq_ = item.uTxSeq_ /\ item'.uTxDBUpdateHash_ = item.uTxDBUpdateHash_
        /\ item'.aWholeData_ = item.aWholeData_ /\ item'.aBlockData_ = item.aBlockData_
        /\ item'.eState_ = "STOP" \/ item.eState_ # "STOP"
    BY <1>1, <2>2, StateTyped
  <2>4. SeekLinked'  BY <2>2, <2>3 DEF SeekLinked, searching, NoSeek
  <2> QED  BY <1>1, <2>1, <2>3, <2>4, SearchKept
<1>5. CASE SeekCandidate
  <2>1. /\ item' = r /\ sqlJob' = TryOperateSQL(item, d) /\ UNCHANGED <<row, contents, failed>>
        /\ localJob'.tx = localJob.tx /\ localJob.pc = "candidate"
    BY <1>1, <1>5 DEF SeekCandidate, dbVars, SeekLocals
  <2> HIDE DEF r, d
  <2>2. SeekLinked'  BY <1>1, <1>3, <2>1 DEF SeekLinked, searching
  <2>3. item'.eState_ = item.eState_ /\ item.eState_ # "INIT"
    BY <1>2, <1>3, <2>1 DEF Extended, Idle
  <2>4. \/ sqlJob' = sqlJob
        \/ sqlJob.pc = Idle /\ sqlJob' = [NoSQL EXCEPT !.pc = "queued"]
    BY <2>1 DEF TryOperateSQL
  <2> QED  BY <1>3, <2>1, <2>2, <2>3, <2>4, SearchKept
<1>6. CASE SeekFinish
  <2>1. item.eState_ # "INIT" /\ UNCHANGED <<row, contents, failed>>
        /\ localJob' = [NoSeek EXCEPT !.pc = "ending"]
    BY <1>2, <1>6 DEF SeekFinish, dbVars, Idle
  <2>2. PICK it \in {r, item} : item' = SetSyncState(it, "BLOCK_STOP")
    BY <1>6 DEF SeekFinish
  <2>3. \/ sqlJob' = sqlJob
        \/ sqlJob.pc = Idle /\ sqlJob' = [NoSQL EXCEPT !.pc = "queued"]
    BY <1>6 DEF SeekFinish, TryOperateSQL
  <2> HIDE DEF r, d
  <2>4. it \in Item /\ Extended(it)  BY <1>1, <1>3
  <2>5. /\ item'.uTxSeq_ = it.uTxSeq_ /\ item'.uTxDBUpdateHash_ = it.uTxDBUpdateHash_
        /\ item'.aWholeData_ = it.aWholeData_ /\ item'.aBlockData_ = it.aBlockData_
        /\ item'.eState_ = "STOP" \/ it.eState_ # "STOP"
    BY <2>2, <2>4, StateTyped
  <2>6. it.eState_ = item.eState_  BY <2>4 DEF Extended
  <2>7. SeekLinked'  BY <2>1 DEF SeekLinked, searching, NoSeek
  <2> QED  BY <2>1, <2>3, <2>4, <2>5, <2>6, <2>7, SearchKept
<1>7. CASE LocalSyncEnd
  <2>1. item.eState_ # "INIT" /\ UNCHANGED <<row, contents, failed, item, sqlJob>>
        /\ localJob' = NoSeek
    BY <1>2, <1>7 DEF LocalSyncEnd, dbVars, Idle
  <2>2. SeekLinked'  BY <2>1 DEF SeekLinked, searching, NoSeek, Idle
  <2> QED  BY <1>1, <2>1, <2>2, SearchKept
<1> QED  BY <1>4, <1>5, <1>6, <1>7, SeekSkipOrdered, SeekLedgerOrdered DEF LocalJob

-----------------------------------------------------------------------------
(* The jobs that drive the item, and a crash. *)

LEMMA SyncInitOrdered ==
    ASSUME TypeOK, Shape, Ordered, SyncInit, UNCHANGED <<contents, localJob, sqlJob, failed>>
    PROVE  Ordered'
<1>1. item = NewItem /\ localJob = NoSeek /\ sqlJob = NoSQL /\ item \in Item
  BY DEF Shape, SyncInit, TypeOK
<1>2. PICK state \in {"BLOCK_STOP", "STOP"} : item' = SetSyncState(SetPara(item, StatusRow), state)
  BY DEF SyncInit
<1>3. row' = StatusRow /\ StatusRow \in {row, NewRow}  BY DEF SyncInit, StatusRow
<1>4. row' \in [LedgerSeq : Seqs, TxnLedgerSeq : Seqs, TxnUpdateHash : Slice]
  BY <1>3, NewTyped DEF TypeOK
<1> DEFINE p == SetPara(item, StatusRow)
<1>5. /\ p \in Item /\ p.uTxSeq_ = row'.TxnLedgerSeq /\ p.uTxDBUpdateHash_ = row'.TxnUpdateHash
      /\ p.aWholeData_ = <<>> /\ p.aBlockData_ = <<>>
  <2>1. p = [item EXCEPT !.u32SeqLedger_ = row'.LedgerSeq, !.uTxSeq_ = row'.TxnLedgerSeq,
                         !.uTxDBUpdateHash_ = row'.TxnUpdateHash]
    BY <1>3 DEF SetPara
  <2>2. item.aWholeData_ = <<>> /\ item.aBlockData_ = <<>>  BY <1>1 DEF NewItem
  <2> HIDE DEF p
  <2> QED  BY <1>1, <1>4, <2>1, <2>2, Zenon DEF Item
<1>6. item' = SetSyncState(p, state)  BY <1>2
<1> HIDE DEF p
<1>7. /\ item'.uTxSeq_ = row'.TxnLedgerSeq /\ item'.uTxDBUpdateHash_ = row'.TxnUpdateHash
      /\ item'.aWholeData_ = <<>> /\ item'.aBlockData_ = <<>>
  <2>1. state \in {"BLOCK_STOP", "WAIT_LOCAL_ACQUIRE", "LOCAL_ACQUIRING", "STOP"}  OBVIOUS
  <2> QED  BY <1>5, <1>6, <2>1, StateTyped
<1>8. sqlJob' = NoSQL /\ localJob' = NoSeek /\ contents' = contents /\ failed' = failed  BY <1>1
<1>9. RowReal(row')
  <2>1. RowReal(NewRow)  BY DEF RowReal, HashReal, NewRow
  <2> QED  BY <1>3, <2>1 DEF Ordered, Linked
<1>10. Chained(row'.TxnLedgerSeq, Pending', item'.uTxSeq_)
  <2>1. Pending' = <<>> \o <<>>  BY <1>7, <1>8 DEF Pending, NoSQL
  <2>2. row'.TxnLedgerSeq \in Seqs  BY <1>4
  <2> QED  BY <1>7, <2>1, <2>2, ChainEmpty
<1>11. QueueChained' /\ QueueAligned'
  <2>1. row'.TxnLedgerSeq \in Seqs  BY <1>4
  <2> QED  BY <1>10, <2>1, Zenon DEF QueueChained, QueueAligned, Chained, links
<1>12. SeekLinked' /\ SliceReal' /\ SliceAligned'
  BY <1>8 DEF SeekLinked, searching, SliceReal, SliceAligned, dealing, NoSeek, NoSQL, Idle
<1>13. NoDataBlocked(item.aBlockData_)'
  <2>1. Len(item'.aBlockData_) = 0  BY <1>7
  <2> QED  BY <2>1 DEF NoDataBlocked
<1>14. Linked'
  BY <1>7, <1>9, <1>11, <1>12, <1>13 DEF Linked, RowReal, HashReal
<1>15. Aligned => Aligned'
  <2> SUFFICES ASSUME Aligned  PROVE Aligned'  OBVIOUS
  <2>1. Tells(row', contents)
    <3>1. Tells(NewRow, contents)  BY DEF Tells, NewRow
    <3> QED  BY <1>3, <3>1 DEF Aligned
  <2> QED  BY <1>7, <1>8, <1>11, <1>12, <2>1 DEF Aligned, Tells, Ends
<1>16. TR!breaks(contents)' = TR!breaks(contents)
  BY <1>8 DEF TR!breaks, TR!Breaks, TR!Follows, TR!Creation, TR!Ledger
<1> QED  BY <1>8, <1>14, <1>15, <1>16 DEF Ordered

LEMMA Unmoved ==
    ASSUME Ordered, UNCHANGED <<row, contents, item, sqlJob, failed>>, SeekLinked'
    PROVE  Ordered'
<1>1. QueueChained' /\ (QueueAligned => QueueAligned')
  BY Zenon DEF Ordered, Linked, QueueChained, QueueAligned, Pending, Chained, links
<1>2. SliceReal' /\ (SliceAligned => SliceAligned')
  BY DEF Ordered, Linked, SliceReal, SliceAligned, dealing, current, slice
<1>3. NoDataBlocked(item.aBlockData_)'  BY DEF Ordered, Linked, NoDataBlocked
<1>4. Linked'  BY <1>1, <1>2, <1>3 DEF Ordered, Linked, HashReal, RowReal
<1>5. Aligned => Aligned'  BY <1>1, <1>2 DEF Aligned, Tells, Ends
<1>6. TR!breaks(contents)' = TR!breaks(contents)
  BY DEF TR!breaks, TR!Breaks, TR!Follows, TR!Creation, TR!Ledger
<1> QED  BY <1>4, <1>5, <1>6 DEF Ordered

LEMMA SyncOrdered ==
    ASSUME TypeOK, Shape, Ordered,
           Publish \/ FetchHistory \/ TryTableSync \/ SyncJob \/ Crash
    PROVE  Ordered'
<1>1. CASE UNCHANGED <<row, contents, item, localJob, sqlJob, failed>>
  BY <1>1, Unmoved DEF Ordered, Linked, SeekLinked, searching
<1>2. CASE TableSyncThread
  <2>1. UNCHANGED <<contents, localJob, sqlJob, failed>>  BY <1>2 DEF TableSyncThread
  <2>2. CASE SyncInit  BY <2>1, <2>2, SyncInitOrdered
  <2>3. CASE SyncBlockStop
    <3>1. UNCHANGED row /\ item.eState_ # "INIT" /\ item \in Item /\ Extended(item)
      BY <2>3, ItemExtended DEF SyncBlockStop, TypeOK
    <3>2. item' = item \/ item' = SetSyncState(item, "WAIT_LOCAL_ACQUIRE")
      BY <2>3 DEF SyncBlockStop
    <3>3. /\ item'.uTxSeq_ = item.uTxSeq_ /\ item'.uTxDBUpdateHash_ = item.uTxDBUpdateHash_
          /\ item'.aWholeData_ = item.aWholeData_ /\ item'.aBlockData_ = item.aBlockData_
          /\ item'.eState_ = "STOP" \/ item.eState_ # "STOP"
      BY <3>1, <3>2, StateTyped
    <3>4. SeekLinked'
      <4>1. SeekLinked  BY DEF Ordered, Linked
      <4> QED  BY <2>1, <3>3, <4>1 DEF SeekLinked, searching
    <3> QED  BY <2>1, <3>1, <3>3, <3>4, SearchKept
  <2>4. CASE UNCHANGED <<item, row>>  BY <1>1, <2>1, <2>4
  <2> QED  BY <1>2, <2>2, <2>3, <2>4 DEF TableSyncThread
<1>3. CASE TableSyncEnd
  <2>1. UNCHANGED <<row, contents, item, sqlJob, failed>>  BY <1>3 DEF TableSyncEnd, dbVars
  <2>2. localJob' = localJob \/ localJob' = [NoSeek EXCEPT !.pc = "queued"]
    BY <1>3 DEF TableSyncEnd, TryLocalSync
  <2>3. CASE localJob' = [NoSeek EXCEPT !.pc = "queued"]
    <3>1. SeekLinked'  BY <2>3 DEF SeekLinked, searching, NoSeek
    <3> QED  BY <2>1, <3>1, Unmoved
  <2> QED  BY <1>1, <2>1, <2>2, <2>3
<1>4. CASE Crash
  <2>1. UNCHANGED <<row, contents, failed>> /\ item' = NewItem /\ localJob' = NoSeek
        /\ sqlJob' = NoSQL
    BY <1>4 DEF Crash, dbVars
  <2>2. QueueChained' /\ QueueAligned' /\ SeekLinked' /\ SliceReal' /\ SliceAligned'
    BY <2>1 DEF QueueChained, QueueAligned, SeekLinked, searching, SliceReal, SliceAligned,
                dealing, NewItem, NoSQL, NoSeek, Idle
  <2>3. NoDataBlocked(item.aBlockData_)'
    <3>1. Len(item'.aBlockData_) = 0  BY <2>1 DEF NewItem
    <3> QED  BY <3>1 DEF NoDataBlocked
  <2>4. item'.uTxDBUpdateHash_ = NoTx /\ item'.eState_ = "INIT"  BY <2>1 DEF NewItem
  <2>5. Linked'  BY <2>1, <2>2, <2>3, <2>4 DEF Ordered, Linked, RowReal, HashReal
  <2>6. Aligned => Aligned'  BY <2>1, <2>2, <2>4 DEF Aligned, Tells, Ends
  <2>7. TR!breaks(contents)' = TR!breaks(contents)
    BY <2>1 DEF TR!breaks, TR!Breaks, TR!Follows, TR!Creation, TR!Ledger
  <2> QED  BY <2>1, <2>5, <2>6, <2>7 DEF Ordered
<1>5. CASE Publish \/ FetchHistory \/ TryTableSync
  BY <1>1, <1>5 DEF Publish, FetchHistory, TryTableSync, dbVars
<1> QED  BY <1>2, <1>3, <1>4, <1>5 DEF SyncJob

-----------------------------------------------------------------------------
(* The SQL job. *)

\* The first entry of what is being dealt with.
LEMMA DealState ==
    ASSUME TypeOK, Shape, Linked, dealing
    PROVE  /\ item.eState_ \notin {"INIT", "STOP"} /\ item \in Item /\ sqlJob \in SQLLocals
           /\ current \in Seqs /\ item.uTxSeq_ \in Seqs /\ item.uTxDBUpdateHash_ \in Slice
           /\ \A a \in Seqs : Chained(a, Pending, item.uTxSeq_) =>
                IF Head(sqlJob.vec).txs THEN NextTx(a, current)
                ELSE Chained(a, Tail(sqlJob.vec) \o item.aWholeData_, item.uTxSeq_)
           /\ \E a \in Seqs : Chained(a, Tail(sqlJob.vec) \o item.aWholeData_, item.uTxSeq_)
           /\ Head(sqlJob.vec).txs =>
                /\ current \in Ledger /\ Touches(current) /\ slices[current] \in Nat
                /\ Chained(current, Tail(sqlJob.vec) \o item.aWholeData_, item.uTxSeq_)
<1>1. sqlJob.pc = "deal" /\ sqlJob.vec # <<>>  BY DEF dealing
<1>2. item.eState_ \notin {"INIT", "STOP"}  BY <1>1 DEF Shape, NoSQL, Idle
<1>3. item \in Item /\ sqlJob \in SQLLocals /\ item.uTxSeq_ \in Seqs /\ item.uTxDBUpdateHash_ \in Slice
      /\ sqlJob.vec \in Seq(Data) /\ item.aWholeData_ \in Seq(Data)
  BY DEF TypeOK, SQLLocals, Item
<1>4. /\ Pending \in Seq(Data) /\ Pending # <<>> /\ Head(Pending) = Head(sqlJob.vec)
      /\ Tail(Pending) = Tail(sqlJob.vec) \o item.aWholeData_ /\ Head(sqlJob.vec) \in Data
  BY <1>1, <1>3, QueuePop, Zenon DEF Pending
<1>5. current \in Seqs  BY <1>4 DEF current, Data
<1>6. ASSUME NEW a \in Seqs, Chained(a, Pending, item.uTxSeq_)
      PROVE  IF Head(sqlJob.vec).txs
             THEN NextTx(a, current)
                  /\ Chained(current, Tail(sqlJob.vec) \o item.aWholeData_, item.uTxSeq_)
             ELSE Chained(a, Tail(sqlJob.vec) \o item.aWholeData_, item.uTxSeq_)
  <2>1. IF Head(Pending).txs
        THEN NextTx(a, Head(Pending).ledgerseq)
             /\ Chained(Head(Pending).ledgerseq, Tail(Pending), item.uTxSeq_)
        ELSE Chained(a, Tail(Pending), item.uTxSeq_)
    BY <1>3, <1>4, <1>6, ChainTail
  <2> QED  BY <1>4, <2>1, Zenon DEF current
<1>7. PICK a \in Seqs : Chained(a, Pending, item.uTxSeq_)
  BY <1>2 DEF Linked, QueueChained
<1>8. Head(sqlJob.vec).txs => current \in Ledger /\ Touches(current) /\ slices[current] \in Nat
  BY <1>5, <1>6, <1>7, TouchedLedger, TableAssumption DEF NextTx, Ledger
<1> QED  BY <1>2, <1>3, <1>5, <1>6, <1>7, <1>8

LEMMA OperateOrdered ==
    ASSUME TypeOK, Shape, Ordered,
           OperateSQLThread \/ OperateTake \/ OperateEnd \/ DealEnd \/ OnConnectionError
    PROVE  Ordered'
<1>1. UNCHANGED <<row, contents, failed, localJob>> /\ item.eState_ # "INIT"
  <2>1. sqlJob.pc # Idle
    BY DEF OperateSQLThread, OperateTake, OperateEnd, DealEnd, OnConnectionError,
           dealingSlice, dealing, Idle
  <2> QED  BY <2>1 DEF OperateSQLThread, OperateTake, OperateEnd, DealEnd, OnConnectionError,
                       dbVars, Shape, NoSQL
<1>2. item \in Item /\ sqlJob \in SQLLocals /\ sqlJob.vec \in Seq(Data)
      /\ item.aWholeData_ \in Seq(Data)
  BY DEF TypeOK, Item, SQLLocals
<1>3. QueueChained /\ SeekLinked /\ NoDataBlocked(item.aBlockData_)  BY DEF Ordered, Linked
\* The queue as a whole stays, or the item stops.
<1>4. ASSUME item'.uTxSeq_ = item.uTxSeq_, item'.uTxDBUpdateHash_ = item.uTxDBUpdateHash_,
             item'.aBlockData_ = item.aBlockData_,
             item'.eState_ = "STOP" \/ (item'.eState_ = item.eState_ /\ Pending' = Pending),
             sqlJob'.vec = <<>> \/ sqlJob'.i = 0
      PROVE  Ordered'
  <2>1. QueueChained' /\ (QueueAligned => QueueAligned')
    BY <1>1, <1>3, <1>4 DEF QueueChained, QueueAligned, Chained, links
  <2>2. SeekLinked'  BY <1>1, <1>3, <1>4 DEF SeekLinked, searching
  <2>3. SliceReal' /\ SliceAligned'  BY <1>4 DEF SliceReal, SliceAligned, dealing
  <2>4. NoDataBlocked(item'.aBlockData_)  BY <1>3, <1>4
  <2> QED  BY <1>1, <1>4, <2>1, <2>2, <2>3, <2>4, Kept DEF Aligned
<1>5. CASE OperateSQLThread \/ OperateEnd \/ DealEnd
  <2>1. item' = item  BY <1>5 DEF OperateSQLThread, OperateEnd, DealEnd
  <2>2. sqlJob.vec = <<>>  BY <1>5 DEF OperateSQLThread, OperateEnd, DealEnd, Shape
  <2>3. sqlJob'.vec = <<>>
    BY <1>2, <1>5, <2>2 DEF OperateSQLThread, OperateEnd, DealEnd, backToLoop, NoSQL, SQLLocals
  <2>4. Pending' = Pending  BY <2>1, <2>2, <2>3 DEF Pending
  <2> QED  BY <1>4, <2>1, <2>3, <2>4
<1>6. CASE OperateTake
  <2>1. sqlJob.vec = <<>>  BY <1>6 DEF OperateTake, Shape
  <2>2. CASE item.aWholeData_ # <<>> /\ item.eState_ # "STOP"
    <3>1. sqlJob' = [NoSQL EXCEPT !.pc = "deal", !.vec = item.aWholeData_]
          /\ item' = [item EXCEPT !.aWholeData_ = <<>>]
      BY <1>6, <2>2 DEF OperateTake
    <3>2. sqlJob'.vec = item.aWholeData_ /\ sqlJob'.i = 0  BY <3>1 DEF NoSQL
    <3>3. /\ item'.uTxDBUpdateHash_ = item.uTxDBUpdateHash_ /\ item'.eState_ = item.eState_
          /\ item'.uTxSeq_ = item.uTxSeq_
          /\ item'.aWholeData_ = <<>> /\ item'.aBlockData_ = item.aBlockData_
      BY <1>2, <3>1 DEF Item
    <3>4. Pending' = Pending
      <4>1. <<>> \o item.aWholeData_ = item.aWholeData_ /\ item.aWholeData_ \o <<>> = item.aWholeData_
        BY <1>2
      <4> QED  BY <2>1, <3>2, <3>3, <4>1 DEF Pending
    <3> QED  BY <1>4, <3>2, <3>3, <3>4
  <2>3. CASE ~(item.aWholeData_ # <<>> /\ item.eState_ # "STOP")
    <3>1. sqlJob' = [NoSQL EXCEPT !.pc = "ending"] /\ item' = item
      BY <1>6, <2>3 DEF OperateTake
    <3>2. sqlJob'.vec = <<>>  BY <3>1 DEF NoSQL
    <3>3. Pending' = Pending  BY <2>1, <3>1, <3>2, Zenon DEF Pending
    <3> QED  BY <1>4, <3>1, <3>2, <3>3
  <2> QED  BY <2>2, <2>3
<1>7. CASE OnConnectionError
  <2>1. CASE retries
    <3>1. item' = item /\ sqlJob' = [sqlJob EXCEPT !.i = 0, !.countTry = @ + 1]
      BY <1>7, <2>1 DEF OnConnectionError, stopUnlessRetry, tryAgain
    <3>2. sqlJob'.vec = sqlJob.vec /\ sqlJob'.i = 0  BY <1>2, <3>1 DEF SQLLocals
    <3>3. Pending' = Pending  BY <3>1, <3>2, Zenon DEF Pending
    <3> QED  BY <1>4, <3>1, <3>2, <3>3
  <2>2. CASE ~retries
    <3>1. item' = SetSyncState(item, "STOP") /\ sqlJob' = backToLoop
      BY <1>7, <2>2 DEF OnConnectionError, stopUnlessRetry, tryAgain
    <3>2. /\ item'.uTxDBUpdateHash_ = item.uTxDBUpdateHash_ /\ item'.eState_ = "STOP"
          /\ item'.uTxSeq_ = item.uTxSeq_ /\ item'.aBlockData_ = item.aBlockData_
      BY <1>2, <3>1, StateTyped
    <3>3. sqlJob'.vec = <<>>  BY <3>1 DEF backToLoop, NoSQL
    <3> QED  BY <1>4, <3>2, <3>3
  <2> QED  BY <2>1, <2>2
<1> QED  BY <1>5, <1>6, <1>7

LEMMA DealTryOrdered ==
    ASSUME TypeOK, Shape, Ordered, DealTry  PROVE Ordered'
<1> DEFINE h == item.uTxDBUpdateHash_
<1>1. dealing /\ Head(sqlJob.vec).txs /\ UNCHANGED <<row, contents, failed, item, localJob>>
  BY DEF DealTry, dbVars
<1>2. Linked  BY DEF Ordered
<1>3. /\ item.eState_ \notin {"INIT", "STOP"} /\ sqlJob \in SQLLocals
      /\ h \in Slice /\ Touches(current) /\ slices[current] \in Nat /\ current \in Seqs
  BY <1>1, <1>2, DealState
<1>4. SeekLinked' /\ NoDataBlocked(item'.aBlockData_)
  BY <1>1, <1>2 DEF Linked, SeekLinked, searching
<1>5. CASE h = NoTx \/ h[1] = current
  <2>1. PICK n \in Nat : /\ sqlJob' = [sqlJob EXCEPT !.i = n] /\ n > 0 /\ n <= slices[current]
                         /\ (n = 1 /\ h = NoTx) \/ h = <<current, n>>
    <3>1. CASE h = NoTx
      BY <1>3, <3>1 DEF DealTry, Touches
    <3>2. CASE h # NoTx
      <4>1. h[1] = current /\ 1 <= h[2] /\ h[2] < slices[current]
        BY <1>2, <1>5, <3>2 DEF Linked, HashReal
      <4>2. h = <<current, h[2]>> /\ h[2] \in Nat  BY <1>3, <4>1 DEF Slice
      <4>3. sqlJob' = [sqlJob EXCEPT !.i = h[2]]  BY <3>2, <4>1 DEF DealTry
      <4> HIDE DEF h
      <4> QED  BY <1>3, <4>1, <4>2, <4>3
    <3> QED  BY <3>1, <3>2
  <2>2. sqlJob'.vec = sqlJob.vec /\ sqlJob'.i = n /\ sqlJob'.pc = sqlJob.pc
    BY <1>3, <2>1 DEF SQLLocals
  <2>3. Pending' = Pending /\ current' = current  BY <1>1, <2>2 DEF Pending, current
  <2>4. QueueChained' /\ (Aligned => QueueAligned')
    BY <1>1, <1>2, <2>3 DEF Linked, QueueChained, Aligned, QueueAligned, Chained, links
  <2>5. SliceReal'  BY <1>1, <2>1, <2>2, <2>3 DEF SliceReal
  <2>6. SliceAligned'
    <3>1. slice' = <<current, n>>  BY <2>2, <2>3 DEF slice
    <3>2. item'.uTxDBUpdateHash_ = h  BY <1>1
    <3> HIDE DEF h
    <3> QED  BY <2>1, <2>2, <2>3, <3>1, <3>2 DEF SliceAligned
  <2> QED  BY <1>1, <1>3, <1>4, <2>4, <2>5, <2>6, Kept
<1>6. CASE h # NoTx /\ h[1] # current
  <2>1. sqlJob'.vec = Tail(sqlJob.vec) /\ sqlJob'.i = 0
    BY <1>3, <1>6 DEF DealTry, nextLedger, SQLLocals
  <2>2. Pending' = Tail(sqlJob.vec) \o item.aWholeData_  BY <1>1, <2>1 DEF Pending
  <2>3. \E a \in Seqs : Chained(a, Tail(sqlJob.vec) \o item.aWholeData_, item.uTxSeq_)
    BY <1>1, <1>2, DealState
  <2>4. QueueChained'  BY <1>1, <2>2, <2>3, Zenon DEF QueueChained, Chained, links
  <2>5. Aligned => QueueAligned'  BY <1>1, <1>3, <1>6 DEF Aligned, QueueAligned
  <2>6. SliceReal' /\ SliceAligned'  BY <2>1 DEF SliceReal, SliceAligned
  <2> QED  BY <1>1, <1>3, <1>4, <2>4, <2>5, <2>6, Kept
<1> QED  BY <1>5, <1>6

LEMMA DealEmptyOrdered ==
    ASSUME TypeOK, Shape, Ordered, DealEmpty  PROVE Ordered'
<1>1. dealing /\ ~Head(sqlJob.vec).txs /\ UNCHANGED <<contents, failed, localJob>>
  BY DEF DealEmpty
<1>2. Linked  BY DEF Ordered
<1>3. /\ item.eState_ \notin {"INIT", "STOP"} /\ sqlJob \in SQLLocals /\ item \in Item
      /\ row \in [LedgerSeq : Seqs, TxnLedgerSeq : Seqs, TxnUpdateHash : Slice]
  BY <1>1, <1>2, DealState, Zenon DEF TypeOK
<1>4. CASE item' = SetSyncState(item, "STOP") /\ sqlJob' = backToLoop /\ UNCHANGED row
  <2>1. /\ item'.uTxDBUpdateHash_ = item.uTxDBUpdateHash_ /\ item'.eState_ = "STOP"
        /\ item'.uTxSeq_ = item.uTxSeq_ /\ item'.aBlockData_ = item.aBlockData_
    BY <1>3, <1>4, StateTyped
  <2>2. sqlJob'.vec = <<>>  BY <1>4 DEF backToLoop, NoSQL
  <2>3. QueueChained' /\ QueueAligned'  BY <2>1, Zenon DEF QueueChained, QueueAligned
  <2>4. SeekLinked' /\ NoDataBlocked(item'.aBlockData_)
    BY <1>1, <1>2, <2>1 DEF Linked, SeekLinked, searching
  <2>5. SliceReal' /\ SliceAligned'  BY <2>2 DEF SliceReal, SliceAligned, dealing
  <2> QED  BY <1>1, <1>3, <1>4, <2>1, <2>3, <2>4, <2>5, Kept, Zenon
<1>5. CASE /\ row' = [row EXCEPT !.LedgerSeq = current]
           /\ sqlJob' = [sqlJob EXCEPT !.vec = Tail(@)] /\ UNCHANGED item
  <2>1. row'.TxnLedgerSeq = row.TxnLedgerSeq /\ row'.TxnUpdateHash = row.TxnUpdateHash
    BY <1>3, <1>5
  <2>2. sqlJob'.vec = Tail(sqlJob.vec) /\ sqlJob'.i = sqlJob.i  BY <1>3, <1>5 DEF SQLLocals
  <2>3. Pending' = Tail(sqlJob.vec) \o item.aWholeData_  BY <1>5, <2>2, Zenon DEF Pending
  <2>4. \A a \in Seqs : Chained(a, Pending, item.uTxSeq_) =>
            Chained(a, Tail(sqlJob.vec) \o item.aWholeData_, item.uTxSeq_)
    BY <1>1, <1>2, DealState
  <2>5. QueueChained'
    <3>1. \E a \in Seqs : Chained(a, Tail(sqlJob.vec) \o item.aWholeData_, item.uTxSeq_)
      BY <1>1, <1>2, DealState
    <3> QED  BY <1>5, <2>3, <3>1, Zenon DEF QueueChained, Chained, links
  <2>6. sqlJob.i = 0
    BY <1>1, <1>2, <1>3 DEF Linked, SliceReal, SQLLocals
  <2>7. SliceReal' /\ SliceAligned'  BY <2>2, <2>6 DEF SliceReal, SliceAligned
  <2>8. Linked'
    BY <1>1, <1>2, <1>5, <2>1, <2>5, <2>7
    DEF Linked, SeekLinked, searching, NoDataBlocked, HashReal, RowReal
  <2>9. TR!breaks(contents)' = TR!breaks(contents)
    BY <1>1 DEF TR!breaks, TR!Breaks, TR!Follows, TR!Creation, TR!Ledger
  <2>10. ASSUME Aligned PROVE Aligned'
    <3>1. QueueAligned'
      <4> SUFFICES ASSUME row.TxnUpdateHash = NoTx
                   PROVE  Chained(row.TxnLedgerSeq, Tail(sqlJob.vec) \o item.aWholeData_, item.uTxSeq_)
        BY <1>5, <2>1, <2>3, Zenon DEF QueueAligned, Chained, links
      <4> QED  BY <1>3, <2>4, <2>10 DEF Aligned, QueueAligned
    <3> QED  BY <1>1, <1>5, <2>1, <2>7, <2>10, <3>1 DEF Aligned, Tells, Ends
  <2> QED  BY <1>1, <2>8, <2>9, <2>10 DEF Ordered
<1> QED  BY <1>4, <1>5 DEF DealEmpty

\* Executing a slice: a break is covered by a failed commit, and the table ends with
\* the slice when none is left.
LEMMA ExecuteBreaks ==
    ASSUME TypeOK, Shape, Ordered, dealingSlice
    PROVE  /\ execute \in Seq(Slice)
           /\ TR!breaks(execute) \in Nat /\ TR!breaks(execute) <= failed
           /\ TR!breaks(execute) = failed => Ends(execute, slice)
           /\ slice = Creation /\ slice # item.uTxDBUpdateHash_ /\ row.TxnLedgerSeq # 0 =>
                TR!breaks(contents) < failed
<1> DEFINE h == item.uTxDBUpdateHash_
           T == row.TxnLedgerSeq
           B == TR!breaks(contents)
<1>1. dealing /\ Head(sqlJob.vec).txs /\ sqlJob.i > 0 /\ Linked
  BY DEF dealingSlice, Ordered
<1>2. /\ item.eState_ \notin {"INIT", "STOP"} /\ h \in Slice /\ current \in Ledger
      /\ current \in Seqs /\ Touches(current) /\ slices[current] \in Nat /\ sqlJob.i \in Nat
      /\ \A a \in Seqs : Chained(a, Pending, item.uTxSeq_) => NextTx(a, current)
  BY <1>1, DealState DEF SQLLocals
<1>3. contents \in Seq(Slice) /\ T \in Seqs /\ failed \in Nat
  BY TableAssumption DEF TypeOK
<1>4. slice \in Slice  BY <1>2, Zenon DEF slice, Slice
<1>5. B \in Nat /\ B <= failed /\ (B = failed => Aligned)
  BY <1>3, BreaksFinite DEF Ordered
<1>6. slice[1] = current /\ slice[2] = sqlJob.i /\ current > 0
  BY <1>2, TouchedLedger DEF slice
<1>7. CASE slice = h
  <2>1. execute = contents  BY <1>7 DEF execute
  <2>2. h # NoTx  BY <1>6, <1>7 DEF NoTx
  <2>3. Aligned => Ends(contents, slice)  BY <1>2, <1>7, <2>2 DEF Aligned, Tells
  <2> HIDE DEF B
  <2>4. TR!breaks(execute) = B  BY <2>1 DEF B
  <2> QED  BY <1>3, <1>5, <1>7, <2>1, <2>3, <2>4
\* The row tells the slice before this one.
<1>8. ASSUME Aligned, slice # h
      PROVE  IF slice = Creation THEN T = 0
             ELSE contents # <<>> /\ TR!Follows(contents[Len(contents)], slice)
  <2>1. h = row.TxnUpdateHash /\ Tells(row, contents)  BY <1>2, <1>8 DEF Aligned
  <2>2. CASE sqlJob.i # 1
    <3>1. h = <<current, sqlJob.i - 1>>
      BY <1>1, <1>8, <2>2 DEF Aligned, SliceAligned
    <3>2. h # NoTx /\ h[1] = current /\ h[2] = sqlJob.i - 1
      <4> HIDE DEF h
      <4> QED  BY <1>6, <3>1 DEF NoTx
    <3>3. contents # <<>> /\ contents[Len(contents)] = h
      BY <2>1, <3>2 DEF Tells, Ends
    <3>4. slice # Creation  BY <1>6, <2>2 DEF Creation
    <3>5. TR!Follows(h, slice)  BY <1>2, <1>6, <3>2 DEF TR!Follows
    <3> QED  BY <3>3, <3>4, <3>5
  <2>3. CASE sqlJob.i = 1
    <3>1. h = NoTx  BY <1>1, <1>8, <2>3 DEF Aligned, SliceAligned
    <3>2. NextTx(T, current)
      BY <1>2, <1>3, <1>8, <2>1, <3>1 DEF Aligned, QueueAligned
    <3>3. CASE T = 0
      <4>1. Touches(CreateSeq + 1) /\ CreateSeq + 1 \in Ledger
        BY TableAssumption DEF Touches, Ledger
      <4>2. current = CreateSeq + 1
        BY <1>2, <3>2, <3>3, <4>1, TableAssumption DEF NextTx, Untouched, Ledger
      <4>3. slice = Creation  BY <2>3, <4>2 DEF slice, Creation
      <4> QED  BY <3>3, <4>3
    <3>4. CASE T # 0
      <4>1. Touches(T) /\ T \in Ledger
        BY <1>1, <1>3, <3>4, TouchedLedger DEF Linked, RowReal
      <4>2. slice # Creation
        BY <1>2, <1>6, <3>2, <4>1, TableAssumption DEF Creation, NextTx, Touches, Ledger
      <4>3. contents # <<>> /\ contents[Len(contents)] = <<T, slices[T]>>
        BY <2>1, <3>1, <3>4 DEF Tells, Ends
      <4>4. \A s \in Ledger : T < s /\ s < current => slices[s] = 0
        <5> SUFFICES ASSUME NEW s \in Ledger, T < s, s < current  PROVE slices[s] = 0
          OBVIOUS
        <5>1. slices[s] \in Nat /\ s > CreateSeq /\ s <= current - 1
          BY <1>2, TableAssumption DEF Ledger
        <5> QED  BY <3>2, <5>1 DEF NextTx, Untouched, Touches
      <4>5. current > T  BY <1>2, <1>3, <3>2 DEF NextTx, Seqs
      <4>6. TR!Follows(<<T, slices[T]>>, slice)
        BY <1>6, <2>3, <4>4, <4>5 DEF TR!Follows, TR!Ledger, Ledger
      <4> QED  BY <4>2, <4>3, <4>6
    <3> QED  BY <3>3, <3>4
  <2> QED  BY <2>2, <2>3
<1>9. CASE slice # h /\ slice = Creation
  <2>1. execute = <<slice>> /\ execute = <<Creation>>  BY <1>9 DEF execute
  <2>2. TR!breaks(execute) = 0  BY <2>1, BreaksCreation
  <2>3. Ends(<<slice>>, slice)  BY DEF Ends
  <2>4. <<slice>> \in Seq(Slice)  BY <1>4
  <2>5. T # 0 => B < failed
    <3> HIDE DEF B, T, h
    <3> QED  BY <1>3, <1>5, <1>8, <1>9
  <2> QED  BY <1>3, <2>1, <2>2, <2>3, <2>4, <2>5
<1>10. CASE slice # h /\ slice # Creation
  <2>1. execute = Append(contents, slice)  BY <1>10 DEF execute
  <2>2. Append(contents, slice) \in Seq(Slice) /\ Ends(Append(contents, slice), slice)
    BY <1>3, <1>4, SeqPush DEF Ends
  <2>3. TR!breaks(Append(contents, slice)) \in Nat  BY <2>2, BreaksFinite, Zenon
  <2>4. TR!breaks(Append(contents, slice)) <= failed
    <3>1. TR!breaks(Append(contents, slice)) <= B + 1
      BY <1>3, <1>4, BreaksAppend
    <3>2. Aligned => TR!breaks(Append(contents, slice)) <= B
      BY <1>3, <1>4, <1>8, <1>10, BreaksAppend
    <3> HIDE DEF B
    <3> QED  BY <1>3, <1>5, <2>3, <3>1, <3>2
  <2> QED  BY <1>10, <2>1, <2>2, <2>3, <2>4
<1> QED  BY <1>7, <1>9, <1>10

-----------------------------------------------------------------------------
(* A slice is executed, or its commit fails. *)

\* What UpdateSyncDB writes.
LEMMA UpdateReal ==
    ASSUME TypeOK, Shape, Linked, dealingSlice
    PROVE  /\ HashReal(updateHash) /\ RowReal(UpdateSyncDB(row)) /\ updateHash \in Slice
           /\ IF sqlJob.i = slices[current]
              THEN UpdateSyncDB(row).TxnLedgerSeq = current /\ updateHash = NoTx
              ELSE /\ UpdateSyncDB(row).TxnLedgerSeq = row.TxnLedgerSeq
                   /\ updateHash = slice /\ slice # NoTx /\ sqlJob.i < slices[current]
<1>1. dealing /\ Head(sqlJob.vec).txs /\ sqlJob.i > 0 /\ sqlJob.i <= slices[current]
  BY DEF dealingSlice, Linked, SliceReal
<1>2. /\ current \in Seqs /\ Touches(current) /\ slices[current] \in Nat /\ sqlJob.i \in Nat
      /\ current > 0
  BY <1>1, DealState, TouchedLedger DEF SQLLocals
<1>3. row \in [LedgerSeq : Seqs, TxnLedgerSeq : Seqs, TxnUpdateHash : Slice]  BY DEF TypeOK
<1>4. RowReal(row)  BY DEF Linked
<1>5. CASE sqlJob.i = slices[current]
  <2>1. UpdateSyncDB(row) = [LedgerSeq |-> current, TxnLedgerSeq |-> current, TxnUpdateHash |-> NoTx]
    BY <1>5 DEF UpdateSyncDB
  <2>2. NoTx \in Slice  BY TableAssumption DEF NoTx, Slice, Seqs
  <2> QED  BY <1>2, <1>5, <2>1, <2>2 DEF updateHash, RowReal, HashReal
<1>6. CASE sqlJob.i # slices[current]
  <2>1. UpdateSyncDB(row) = [row EXCEPT !.TxnUpdateHash = slice]  BY <1>6 DEF UpdateSyncDB
  <2>2. slice[1] = current /\ slice[2] = sqlJob.i /\ slice \in Slice /\ slice # NoTx
    BY <1>2 DEF slice, Slice, NoTx
  <2>3. UpdateSyncDB(row).TxnUpdateHash = slice
        /\ UpdateSyncDB(row).TxnLedgerSeq = row.TxnLedgerSeq
    BY <1>3, <2>1
  <2>4. HashReal(slice)  BY <1>1, <1>2, <1>6, <2>2 DEF HashReal
  <2> QED  BY <1>1, <1>2, <1>4, <1>6, <2>2, <2>3, <2>4 DEF updateHash, RowReal
<1> QED  BY <1>5, <1>6

\* A slice was executed or its commit failed.
LEMMA AfterSlice ==
    ASSUME TypeOK, Shape, Linked, dealingSlice, UNCHANGED localJob,
           item'.uTxSeq_ = item.uTxSeq_, item'.aWholeData_ = item.aWholeData_,
           item'.aBlockData_ = item.aBlockData_, item'.eState_ \in {item.eState_, "STOP"},
           item'.uTxDBUpdateHash_ \in {item.uTxDBUpdateHash_, updateHash},
           row' \in {row, UpdateSyncDB(row)},
           sqlJob' \in {nextSlice, tryAgain}, item'.eState_ # "STOP" => sqlJob' # backToLoop
    PROVE  Linked'
<1>1. dealing /\ Head(sqlJob.vec).txs /\ sqlJob.i > 0 /\ sqlJob.i <= slices[current]
  BY DEF dealingSlice, Linked, SliceReal
<1>2. /\ item.eState_ \notin {"INIT", "STOP"} /\ sqlJob \in SQLLocals /\ sqlJob.i \in Nat
      /\ slices[current] \in Nat
      /\ \E a \in Seqs : Chained(a, Tail(sqlJob.vec) \o item.aWholeData_, item.uTxSeq_)
  BY <1>1, DealState, Zenon DEF SQLLocals
<1>3. /\ QueueChained /\ SeekLinked /\ NoDataBlocked(item.aBlockData_)
      /\ HashReal(item.uTxDBUpdateHash_) /\ RowReal(row)
      /\ HashReal(updateHash) /\ RowReal(UpdateSyncDB(row))
  BY UpdateReal, Zenon DEF Linked
<1>4. HashReal(item'.uTxDBUpdateHash_) /\ RowReal(row')  BY <1>3
<1>5. SeekLinked' /\ NoDataBlocked(item'.aBlockData_)
  BY <1>3 DEF SeekLinked, searching
<1>6. ASSUME QueueChained', SliceReal'  PROVE Linked'
  <2>1. HashReal(item.uTxDBUpdateHash_)' /\ RowReal(row)' /\ NoDataBlocked(item.aBlockData_)'
    BY <1>4, <1>5 DEF HashReal, RowReal, NoDataBlocked
  <2> QED  BY <1>5, <1>6, <2>1 DEF Linked
<1>7. CASE sqlJob' = nextLedger
  <2>1. sqlJob'.vec = Tail(sqlJob.vec) /\ sqlJob'.i = 0  BY <1>2, <1>7 DEF nextLedger, SQLLocals
  <2>2. Pending' = Tail(sqlJob.vec) \o item.aWholeData_  BY <2>1 DEF Pending
  <2>3. QueueChained'  BY <1>2, <2>2, Zenon DEF QueueChained, Chained, links
  <2>4. SliceReal'  BY <2>1 DEF SliceReal
  <2> QED  BY <1>6, <2>3, <2>4
<1>8. CASE \/ sqlJob.i # slices[current] /\ sqlJob' = [sqlJob EXCEPT !.i = @ + 1]
           \/ sqlJob' = [sqlJob EXCEPT !.i = 0, !.countTry = @ + 1]
  <2>1. sqlJob'.vec = sqlJob.vec /\ (sqlJob'.i = 0 \/ sqlJob'.i <= slices[current])
    <3>1. CASE sqlJob.i # slices[current] /\ sqlJob' = [sqlJob EXCEPT !.i = @ + 1]
      <4>1. sqlJob'.vec = sqlJob.vec /\ sqlJob'.i = sqlJob.i + 1  BY <1>2, <3>1 DEF SQLLocals
      <4> QED  BY <1>1, <1>2, <3>1, <4>1
    <3>2. CASE sqlJob' = [sqlJob EXCEPT !.i = 0, !.countTry = @ + 1]
      BY <1>2, <3>2 DEF SQLLocals
    <3> QED  BY <1>8, <3>1, <3>2
  <2>2. Pending' = Pending /\ current' = current  BY <2>1 DEF Pending, current
  <2>3. QueueChained'  BY <1>2, <1>3, <2>2, Zenon DEF QueueChained, Chained, links
  <2>4. SliceReal'  BY <1>1, <2>1, <2>2 DEF SliceReal
  <2> QED  BY <1>6, <2>3, <2>4
<1>9. CASE sqlJob' = backToLoop
  <2>1. QueueChained'  BY <1>9 DEF QueueChained
  <2>2. SliceReal'  BY <1>9 DEF SliceReal, dealing, backToLoop, NoSQL
  <2> QED  BY <1>6, <2>1, <2>2
<1> QED  BY <1>7, <1>8, <1>9 DEF nextSlice, tryAgain

LEMMA DealSliceOrdered ==
    ASSUME TypeOK, Shape, Ordered, DealSlice  PROVE Ordered'
<1>1. /\ dealingSlice /\ row' = UpdateSyncDB(row) /\ contents' = execute
      /\ item' = [item EXCEPT !.uTxDBUpdateHash_ = updateHash]
      /\ sqlJob' = nextSlice /\ UNCHANGED <<localJob, failed>>
  BY DEF DealSlice
<1>2. dealing /\ Head(sqlJob.vec).txs /\ Linked  BY <1>1 DEF Ordered, dealingSlice
<1>3. /\ item.eState_ \notin {"INIT", "STOP"} /\ item \in Item /\ sqlJob \in SQLLocals
      /\ sqlJob.i \in Nat /\ sqlJob.i > 0
      /\ Chained(current, Tail(sqlJob.vec) \o item.aWholeData_, item.uTxSeq_)
  BY <1>1, <1>2, DealState DEF SQLLocals, dealingSlice
<1>4. /\ item'.uTxSeq_ = item.uTxSeq_ /\ item'.aWholeData_ = item.aWholeData_
      /\ item'.aBlockData_ = item.aBlockData_ /\ item'.eState_ = item.eState_
      /\ item'.uTxDBUpdateHash_ = updateHash
  BY <1>1, <1>3 DEF Item
<1>5. Linked'
  <2>1. sqlJob' # backToLoop
    <3>1. sqlJob'.pc = "deal"
      BY <1>1, <1>2, <1>3 DEF nextSlice, nextLedger, SQLLocals, dealing
    <3>2. backToLoop.pc = "loop"  BY DEF backToLoop, NoSQL
    <3> QED  BY <3>1, <3>2
  <2> QED  BY <1>1, <1>2, <1>4, <2>1, AfterSlice
<1>6. TR!breaks(contents)' = TR!breaks(execute)
  BY <1>1 DEF TR!breaks, TR!Breaks, TR!Follows, TR!Creation, TR!Ledger
<1>7. ASSUME Ends(execute, slice)  PROVE Aligned'
  <2>1. CASE sqlJob.i = slices[current]
    <3>1. row'.TxnLedgerSeq = current /\ row'.TxnUpdateHash = NoTx /\ updateHash = NoTx
          /\ slice = <<current, slices[current]>>
      BY <1>1, <1>2, <2>1, UpdateReal DEF updateHash, slice
    <3>2. Tells(row', execute)  BY <1>7, <3>1 DEF Tells
    <3>3. sqlJob'.vec = Tail(sqlJob.vec) /\ sqlJob'.i = 0
      BY <1>1, <1>3, <2>1 DEF nextSlice, nextLedger, SQLLocals
    <3>4. Pending' = Tail(sqlJob.vec) \o item.aWholeData_  BY <1>4, <3>3 DEF Pending
    <3>5. QueueAligned'  BY <1>3, <1>4, <3>1, <3>4, Zenon DEF QueueAligned, Chained, links
    <3>6. SliceAligned'  BY <3>3 DEF SliceAligned
    <3> QED  BY <1>1, <1>4, <3>1, <3>2, <3>5, <3>6 DEF Aligned, Tells, Ends
  <2>2. CASE sqlJob.i # slices[current]
    <3>1. row'.TxnUpdateHash = slice /\ slice # NoTx /\ updateHash = slice
      BY <1>1, <1>2, <2>2, UpdateReal DEF updateHash
    <3>2. Tells(row', execute)  BY <1>7, <3>1 DEF Tells
    <3>3. sqlJob'.vec = sqlJob.vec /\ sqlJob'.i = sqlJob.i + 1
      BY <1>1, <1>3, <2>2 DEF nextSlice, SQLLocals
    <3>4. current' = current /\ sqlJob'.i # 1 /\ sqlJob'.i - 1 = sqlJob.i
      BY <1>3, <3>3 DEF current
    <3>5. QueueAligned'  BY <3>1 DEF QueueAligned
    <3>6. SliceAligned'  BY <1>4, <3>1, <3>4 DEF SliceAligned, slice
    <3> QED  BY <1>1, <1>4, <3>1, <3>2, <3>5, <3>6 DEF Aligned, Tells, Ends
  <2> QED  BY <2>1, <2>2
<1>8. TR!breaks(execute) <= failed /\ (TR!breaks(execute) = failed => Ends(execute, slice))
  BY <1>1, ExecuteBreaks
<1> QED  BY <1>1, <1>5, <1>6, <1>7, <1>8 DEF Ordered

LEMMA CommitOrdered ==
    ASSUME TypeOK, Shape, Ordered, CommitLost \/ CommitRefused  PROVE Ordered'
<1>1. dealingSlice /\ UNCHANGED localJob /\ failed' = failed + 1 /\ failed \in Nat
  BY TableAssumption DEF CommitLost, CommitRefused, TypeOK
<1>2. dealing /\ Linked  BY <1>1 DEF Ordered, dealingSlice
<1>3. item.eState_ \notin {"INIT", "STOP"} /\ item \in Item /\ sqlJob \in SQLLocals
      /\ updateHash \in Slice
  BY <1>1, <1>2, DealState, UpdateReal, Zenon
<1> DEFINE it == [item EXCEPT !.uTxDBUpdateHash_ = updateHash]
<1>4. /\ it \in Item /\ it.uTxSeq_ = item.uTxSeq_ /\ it.aWholeData_ = item.aWholeData_
      /\ it.aBlockData_ = item.aBlockData_ /\ it.eState_ = item.eState_
      /\ it.uTxDBUpdateHash_ = updateHash
  BY <1>3 DEF Item
<1> HIDE DEF it
<1>5. backToLoop.pc = "loop" /\ sqlJob.pc = "deal"  BY <1>2 DEF backToLoop, NoSQL, dealing
<1>6. CASE CommitRefused
  <2>1. item' \in {item, it} /\ sqlJob' = nextSlice /\ row' = row /\ contents' = contents
    BY <1>6 DEF CommitRefused, dbVars, it
  <2>2. sqlJob' # backToLoop
    <3>1. sqlJob'.pc = "deal"  BY <1>3, <1>5, <2>1 DEF nextSlice, nextLedger, SQLLocals
    <3> QED  BY <1>5, <3>1
  <2>3. Linked'  BY <1>1, <1>2, <1>4, <2>1, <2>2, AfterSlice
  <2>4. TR!breaks(contents)' = TR!breaks(contents)
    BY <2>1 DEF TR!breaks, TR!Breaks, TR!Follows, TR!Creation, TR!Ledger
  <2>5. TR!breaks(contents) <= failed /\ TR!breaks(contents) \in Nat
    BY BreaksFinite DEF Ordered, TypeOK
  <2> QED  BY <1>1, <2>3, <2>4, <2>5 DEF Ordered
<1>7. CASE CommitLost
  <2>1. item' = stopUnlessRetry(it) /\ sqlJob' = tryAgain
        /\ ((row' = row /\ contents' = contents) \/ (row' = UpdateSyncDB(row) /\ contents' = execute))
    BY <1>7 DEF CommitLost, dbVars, it
  <2>2. Linked'
    <3>1. CASE retries
      <4>1. item' = it /\ sqlJob' = [sqlJob EXCEPT !.i = 0, !.countTry = @ + 1]
        BY <2>1, <3>1 DEF stopUnlessRetry, tryAgain
      <4>2. sqlJob' # backToLoop
        <5>1. sqlJob'.pc = "deal"  BY <1>3, <1>5, <4>1 DEF SQLLocals
        <5> QED  BY <1>5, <5>1
      <4> QED  BY <1>1, <1>2, <1>4, <2>1, <4>1, <4>2, AfterSlice
    <3>2. CASE ~retries
      <4>1. item' = SetSyncState(it, "STOP")  BY <2>1, <3>2 DEF stopUnlessRetry
      <4>2. /\ item'.uTxSeq_ = item.uTxSeq_ /\ item'.aWholeData_ = item.aWholeData_
            /\ item'.aBlockData_ = item.aBlockData_ /\ item'.eState_ = "STOP"
            /\ item'.uTxDBUpdateHash_ = updateHash
        BY <1>4, <4>1, StateTyped
      <4> QED  BY <1>1, <1>2, <2>1, <4>2, AfterSlice
    <3> QED  BY <3>1, <3>2
  <2>3. TR!breaks(contents)' \in {TR!breaks(contents), TR!breaks(execute)}
    BY <2>1, Zenon DEF TR!breaks, TR!Breaks, TR!Follows, TR!Creation, TR!Ledger
  <2>4. /\ TR!breaks(contents) <= failed /\ TR!breaks(contents) \in Nat
        /\ TR!breaks(execute) <= failed /\ TR!breaks(execute) \in Nat
    BY <1>1, BreaksFinite, ExecuteBreaks DEF Ordered, TypeOK
  <2> QED  BY <1>1, <2>2, <2>3, <2>4 DEF Ordered
<1> QED  BY <1>6, <1>7

LEMMA InitOrdered == Init => Ordered
<1> SUFFICES ASSUME Init  PROVE Ordered  OBVIOUS
<1>1. item = NewItem /\ localJob = NoSeek /\ sqlJob = NoSQL /\ contents = <<>> /\ failed = 0
      /\ row = NewRow
  BY DEF Init
<1>2. QueueChained /\ QueueAligned /\ SeekLinked /\ SliceReal /\ SliceAligned
  BY <1>1, Zenon DEF QueueChained, QueueAligned, SeekLinked, searching, SliceReal, SliceAligned,
              dealing, NewItem, NoSQL, NoSeek, Idle
<1>3. NoDataBlocked(item.aBlockData_)
  <2>1. Len(item.aBlockData_) = 0  BY <1>1 DEF NewItem
  <2> QED  BY <2>1 DEF NoDataBlocked
<1>4. Linked  BY <1>1, <1>2, <1>3 DEF Linked, RowReal, HashReal, NewItem, NewRow
<1>5. Aligned  BY <1>1, <1>2 DEF Aligned, Tells, NewItem, NewRow
<1>6. TR!breaks(contents) = 0
  <2>1. TR!Breaks(contents) = {}  BY <1>1 DEF TR!Breaks
  <2> QED  BY <2>1, BreaksCount, FS_EmptySet
<1> QED  BY <1>1, <1>4, <1>5, <1>6 DEF Ordered

LEMMA StepOrdered ==
    ASSUME TypeOK, Shape, Ordered, [Next]_vars  PROVE Ordered'
<1>1. CASE Publish \/ FetchHistory \/ TryTableSync \/ SyncJob \/ Crash  BY <1>1, SyncOrdered
<1>2. CASE LocalJob  BY <1>2, LocalOrdered
<1>3. CASE SQLJob
  BY <1>3, OperateOrdered, DealEmptyOrdered, DealTryOrdered, DealSliceOrdered, CommitOrdered
  DEF SQLJob
<1>4. CASE UNCHANGED vars
  BY <1>4, Unmoved DEF vars, dbVars, Ordered, Linked, SeekLinked, searching
<1> QED  BY <1>1, <1>2, <1>3, <1>4 DEF Next

OrderInv == TypeOK /\ Shape /\ Ordered

LEMMA OrderAlways == Spec => []OrderInv
<1>1. Init => OrderInv  BY InitTyped, InitOrdered DEF OrderInv
<1>2. OrderInv /\ [Next]_vars => OrderInv'  BY Typed, StepOrdered DEF OrderInv
<1> QED  BY <1>1, <1>2, PTL DEF Spec

\* Whatever the ledgers hold and however the three jobs, crashes, lost connections and
\* failed commits interleave, the table is made of the ledgers' slices in their order,
\* each executed once, but for one break at most for each commit that failed
\* (DealWithEveryLedgerData, UpdateSyncDB).
THEOREM ExecutedAlwaysInOrder == Spec => []ExecutedInOrder
<1>1. OrderInv => ExecutedInOrder  BY DEF OrderInv, Ordered, ExecutedInOrder
<1> QED  BY <1>1, OrderAlways, PTL

-----------------------------------------------------------------------------
(* The row and the table move as TableReplay says. *)

replayNext == [TR!Next]_TR!vars

LEMMA InitReplay == Init => TR!Init
BY DEF Init, TR!Init, NewRow

LEMMA SliceReplay ==
    ASSUME TypeOK, Shape, Ordered, dealingSlice,
           row' = UpdateSyncDB(row), contents' = execute
    PROVE  TR!Slice \/ (contents' = contents /\ (row.TxnLedgerSeq # 0)' = (row.TxnLedgerSeq # 0))
<1> DEFINE h == item.uTxDBUpdateHash_
           T == row.TxnLedgerSeq
<1>1. dealing /\ Head(sqlJob.vec).txs /\ sqlJob.i > 0 /\ sqlJob.i <= slices[current] /\ Linked
  BY DEF dealingSlice, Ordered, Linked, SliceReal
<1>2. current \in Ledger /\ current \in Seqs /\ current > 0 /\ sqlJob.i \in Nat /\ slices[current] \in Nat
  BY <1>1, DealState, TouchedLedger DEF SQLLocals
<1>3. IF sqlJob.i = slices[current] THEN row'.TxnLedgerSeq = current
      ELSE row'.TxnLedgerSeq = T /\ sqlJob.i < slices[current]
  BY <1>1, UpdateReal
<1>4. CASE slice = h
  <2>1. execute = contents  BY <1>4 DEF execute
  <2>2. sqlJob.i < slices[current]
    <3>1. h[1] = current /\ h[2] = sqlJob.i /\ h # NoTx
      BY <1>2, <1>4 DEF slice, NoTx
    <3> QED  BY <1>1, <3>1 DEF Linked, HashReal
  <2>3. row'.TxnLedgerSeq = T  BY <1>2, <1>3, <2>2
  <2> QED  BY <2>1, <2>3
<1>5. CASE slice # h
  <2>1. PICK s \in Ledger : s = current  BY <1>2
  <2>2. PICK i \in 1 .. slices[s] : i = sqlJob.i  BY <1>1, <1>2, <2>1
  <2>3. slice = <<s, i>>  BY <2>1, <2>2 DEF slice
  <2>4. contents' = IF <<s, i>> = TR!Creation THEN <<<<s, i>>>> ELSE Append(contents, <<s, i>>)
    BY <1>5, <2>3 DEF execute, Creation, TR!Creation
  <2>5. (row.TxnLedgerSeq # 0)' = (T # 0 \/ i = slices[s])
    BY <1>2, <1>3, <2>1, <2>2
  <2>6. TR!breaks(contents)' <= failed
    <3>1. TR!breaks(contents)' = TR!breaks(execute)
      BY DEF TR!breaks, TR!Breaks, TR!Follows, TR!Creation, TR!Ledger
    <3> QED  BY <3>1, ExecuteBreaks
  <2>7. <<s, i>> = TR!Creation /\ T # 0 => TR!breaks(contents) < failed
    BY <1>5, <2>3, ExecuteBreaks DEF Creation, TR!Creation
  <2>8. TR!Execute(<<s, i>>)  BY <2>4, <2>5, <2>6, <2>7 DEF TR!Execute
  <2> QED  BY <2>8 DEF TR!Slice, TR!Ledger, Ledger
<1> QED  BY <1>4, <1>5

LEMMA StepReplay ==
    ASSUME TypeOK, Shape, Ordered, [Next]_vars  PROVE replayNext
<1>1. CASE row'.TxnLedgerSeq = row.TxnLedgerSeq /\ UNCHANGED <<contents, failed>>
  BY <1>1 DEF replayNext, TR!vars
<1>2. row \in [LedgerSeq : Seqs, TxnLedgerSeq : Seqs, TxnUpdateHash : Slice]  BY DEF TypeOK
<1>3. CASE DealSlice
  BY <1>3, SliceReplay DEF DealSlice, replayNext, TR!vars, TR!Next, TR!Replay
<1>4. CASE CommitLost
  <2>1. dealingSlice /\ failed' = failed + 1
        /\ (UNCHANGED <<row, contents>> \/ (row' = UpdateSyncDB(row) /\ contents' = execute))
    BY <1>4 DEF CommitLost, dbVars
  <2>2. TR!Slice \/ UNCHANGED <<contents, row.TxnLedgerSeq # 0>>
    BY <2>1, SliceReplay
  <2> QED  BY <2>1, <2>2 DEF replayNext, TR!Next, TR!Fail
<1>5. CASE CommitRefused
  BY <1>5 DEF CommitRefused, dbVars, replayNext, TR!Next, TR!Fail
<1>6. CASE TableSyncThread
  <2>1. UNCHANGED <<contents, failed>>  BY <1>6 DEF TableSyncThread
  <2>2. CASE SyncInit
    <3>1. row' = StatusRow  BY <2>2 DEF SyncInit
    <3>2. row.TxnLedgerSeq = 0 \/ Touches(row.TxnLedgerSeq)  BY DEF Ordered, Linked, RowReal
    <3>3. row'.TxnLedgerSeq = row.TxnLedgerSeq
      <4>1. CASE CreateSeq > row.TxnLedgerSeq
        <5>1. row.TxnLedgerSeq = 0
          BY <1>2, <3>2, <4>1, TableAssumption DEF Touches, Seqs
        <5> QED  BY <3>1, <4>1, <5>1 DEF StatusRow, NewRow
      <4>2. CASE ~(CreateSeq > row.TxnLedgerSeq)  BY <3>1, <4>2 DEF StatusRow
      <4> QED  BY <4>1, <4>2
    <3> QED  BY <1>1, <2>1, <3>3
  <2>3. CASE ~SyncInit
    BY <1>1, <1>6, <2>1, <2>3 DEF TableSyncThread, SyncBlockStop
  <2> QED  BY <2>2, <2>3
<1>7. CASE DealEmpty
  BY <1>1, <1>2, <1>7 DEF DealEmpty
<1>8. CASE Publish \/ FetchHistory \/ TryTableSync \/ TableSyncEnd \/ Crash
  BY <1>1, <1>8 DEF Publish, FetchHistory, TryTableSync, TableSyncEnd, Crash, dbVars
<1>9. CASE LocalJob
  BY <1>1, <1>9
  DEF LocalJob, LocalSyncThread, SeekSkip, SeekLedger, SeekCandidate, SeekFinish, LocalSyncEnd, dbVars
<1>10. CASE OperateSQLThread \/ OperateTake \/ OperateEnd \/ DealEnd \/ DealTry \/ OnConnectionError
  BY <1>1, <1>10
  DEF OperateSQLThread, OperateTake, OperateEnd, DealEnd, DealTry, OnConnectionError, dbVars
<1>11. CASE UNCHANGED vars  BY <1>1, <1>11 DEF vars, dbVars
<1> QED  BY <1>3, <1>4, <1>5, <1>6, <1>7, <1>8, <1>9, <1>10, <1>11 DEF Next, SyncJob, SQLJob

\* The row and the table move as TableReplay says, in every step of the three jobs: a
\* slice is added in its order or for a commit that failed, a table whose creation is
\* complete is not dropped but for such a commit, and SYNC_INIT never takes the row
\* back to a new one (DealWithEveryTx, UpdateSyncDB, InitTableItems' StatusRow).
THEOREM TableReplaysLedgers == Spec => ImplementsReplay
<1>1. OrderInv /\ [Next]_vars => replayNext  BY StepReplay DEF OrderInv
<1> QED  BY <1>1, OrderAlways, InitReplay, PTL DEF Spec, ImplementsReplay, TR!Spec, replayNext

=============================================================================
