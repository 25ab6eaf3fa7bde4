--------------------------- MODULE HotStuffProofs ---------------------------
(***************************************************************************)
(* HotStuff, for any number of validators and any bounds: certificates are *)
(* real, and commits agree while nobody votes for two blocks of a round.   *)
(***************************************************************************)
EXTENDS HotStuff, FiniteSetTheorems, SequenceTheorems, TLAPS

LEMMA ValidatorFinite == IsFiniteSet(Validator) /\ Cardinality(Validator) = N
<1>1. N \in Nat /\ 0 \in Int /\ N - 1 \in Int  BY NAssumption
<1> QED  BY <1>1, FS_Interval, NAssumption DEF Validator

LEMMA QuorumNat == quorum \in Nat /\ quorum > 0 /\ quorum + quorum > N
<1>1. CASE N < 4  BY <1>1, NAssumption DEF quorum
<1>2. CASE N >= 4
  <2>1. quorum = N - ((N - 1) \div 3)  BY <1>2, NAssumption DEF quorum
  <2>2. (N - 1) \div 3 \in Nat /\ 3 * ((N - 1) \div 3) <= N - 1  BY <1>2, NAssumption
  <2> QED  BY <1>2, <2>1, <2>2, NAssumption
<1> QED  BY <1>1, <1>2, NAssumption

LEMMA ProposerIsValidator == \A r \in Nat : GetValidProposer(r) \in Validator
BY NAssumption DEF GetValidProposer, Validator

-----------------------------------------------------------------------------
(* Prefixes of blocks, first of sequences over any set.                    *)

LEMMA SeqPrefix ==
    ASSUME NEW S, NEW s \in Seq(S), NEW k \in 0..Len(s)
    PROVE  /\ SubSeq(s, 1, k) \in Seq(S) /\ Len(SubSeq(s, 1, k)) = k
           /\ \A j \in 0..k : SubSeq(SubSeq(s, 1, k), 1, j) = SubSeq(s, 1, j)
OBVIOUS

LEMMA SeqAppend ==
    ASSUME NEW S, NEW s \in Seq(S), NEW a \in S
    PROVE  /\ Append(s, a) \in Seq(S) /\ Len(Append(s, a)) = Len(s) + 1
           /\ SubSeq(Append(s, a), 1, Len(Append(s, a)) - 1) = s
           /\ \A k \in 0..Len(s) : SubSeq(Append(s, a), 1, k) = SubSeq(s, 1, k)
OBVIOUS

LEMMA BlockFacts ==
    <<>> \in Block /\ \A b \in Block : Len(b) \in Nat /\ (Len(b) = 0 => b = <<>>)
BY EmptySeq, LenProperties DEF Block

LEMMA PrefixFacts ==
    ASSUME NEW b \in Block, NEW k \in 0..Len(b)
    PROVE  /\ SubSeq(b, 1, k) \in Block /\ Len(SubSeq(b, 1, k)) = k
           /\ \A j \in 0..k : SubSeq(SubSeq(b, 1, k), 1, j) = SubSeq(b, 1, j)
BY SeqPrefix, Zenon DEF Block

LEMMA WholePrefix == \A b \in Block : SubSeq(b, 1, Len(b)) = b
BY SubSeqFull DEF Block

\* A block built on another.
LEMMA AppendFacts ==
    ASSUME NEW b \in Block, NEW a \in 0..N
    PROVE  /\ Append(b, a) \in Block /\ Len(Append(b, a)) = Len(b) + 1
           /\ Parent(Append(b, a)) = b
           /\ \A k \in 0..Len(b) : SubSeq(Append(b, a), 1, k) = SubSeq(b, 1, k)
BY SeqAppend DEF Block, Parent

-----------------------------------------------------------------------------
(* What a set V of votes supports.                                         *)

SignedIn(V, qc) ==
    {a \in Validator : \E m \in V : m.from = a /\ cert(m.vote.block, m.vote.tc) = qc}

CertIn(V, qc) == qc = genesis \/ Cardinality(SignedIn(V, qc)) >= quorum

BlockCertIn(V, b) == \E tc \in Nat : CertIn(V, cert(b, tc))

\* A block that may be voted for: every block it extends is certified.
Grounded(V, b) ==
    b \in Block /\ Len(b) > 0 /\ \A k \in 1..(Len(b) - 1) : BlockCertIn(V, SubSeq(b, 1, k))

\* A block that may be committed: one two rounds later is certified.
Committable(V, b) ==
    b # <<>> => \E d \in Block : /\ BlockCertIn(V, d) /\ Len(d) = Len(b) + 2
                                 /\ b = SubSeq(d, 1, Len(b))

VotesGrounded(V) == \A m \in V : Grounded(V, m.vote.block)

GoodStore(V, s) ==
    /\ CertIn(V, s.hqc)
    /\ \A sig \in s.signatures : sig[1] \in SignedIn(V, sig[2])
    /\ s.send_vote # None => Grounded(V, s.send_vote.block)
    /\ \A b \in s.committed : Committable(V, b)

LEMMA CertGrows ==
    ASSUME NEW V, NEW W, V \subseteq W, NEW qc
    PROVE  SignedIn(V, qc) \subseteq SignedIn(W, qc) /\ (CertIn(V, qc) => CertIn(W, qc))
<1>1. SignedIn(V, qc) \subseteq SignedIn(W, qc) /\ SignedIn(W, qc) \subseteq Validator
  BY DEF SignedIn
<1>2. IsFiniteSet(SignedIn(W, qc))  BY <1>1, ValidatorFinite, FS_Subset
<1>3. /\ Cardinality(SignedIn(V, qc)) <= Cardinality(SignedIn(W, qc))
      /\ Cardinality(SignedIn(V, qc)) \in Nat /\ Cardinality(SignedIn(W, qc)) \in Nat
  BY <1>1, <1>2, FS_Subset, FS_CardinalityType
<1> QED  BY <1>1, <1>3, QuorumNat DEF CertIn

LEMMA BlockCertGrows ==
    ASSUME NEW V, NEW W, V \subseteq W
    PROVE  /\ \A b : BlockCertIn(V, b) => BlockCertIn(W, b)
           /\ \A b : Grounded(V, b) => Grounded(W, b)
           /\ \A b : Committable(V, b) => Committable(W, b)
<1>1. \A b : BlockCertIn(V, b) => BlockCertIn(W, b)  BY CertGrows DEF BlockCertIn
<1>2. \A b : Grounded(V, b) => Grounded(W, b)  BY <1>1 DEF Grounded
<1>3. \A b : Committable(V, b) => Committable(W, b)  BY <1>1 DEF Committable
<1> QED  BY <1>1, <1>2, <1>3

LEMMA GoodStoreGrows ==
    ASSUME NEW V, NEW W, V \subseteq W, NEW s, GoodStore(V, s)
    PROVE  GoodStore(W, s)
BY CertGrows, BlockCertGrows DEF GoodStore

\* A certified block was voted for, so what it extends is certified as well.
LEMMA CertifiedPrefixes ==
    ASSUME NEW V, VotesGrounded(V), NEW qc \in QuorumCert, CertIn(V, qc),
           NEW k \in 1..Len(qc.block)
    PROVE  BlockCertIn(V, SubSeq(qc.block, 1, k))
<1>1. qc.block \in Block /\ qc.tc \in Nat /\ qc = cert(qc.block, qc.tc)
  BY DEF QuorumCert, cert
<1>2. Len(qc.block) \in Nat /\ Len(qc.block) # 0  BY <1>1, BlockFacts
<1>3. qc # genesis  BY <1>2, EmptySeq DEF genesis, cert
<1>4. Cardinality(SignedIn(V, qc)) >= quorum  BY <1>3 DEF CertIn
<1>5. SignedIn(V, qc) # {}
  <2>1. ASSUME SignedIn(V, qc) = {}  PROVE Cardinality(SignedIn(V, qc)) = 0
    BY <2>1, FS_EmptySet
  <2> QED  BY <1>4, <2>1, QuorumNat
<1>6. PICK m \in V : cert(m.vote.block, m.vote.tc) = qc  BY <1>5 DEF SignedIn
<1>7. m.vote.block = qc.block  BY <1>6 DEF cert
<1>8. CASE k = Len(qc.block)
  <2>1. SubSeq(qc.block, 1, k) = qc.block  BY <1>1, <1>8, WholePrefix
  <2> QED  BY <1>1, <2>1, Zenon DEF BlockCertIn
<1>9. CASE k # Len(qc.block)
  <2>1. k \in 1..(Len(qc.block) - 1)  BY <1>2, <1>9
  <2> QED  BY <1>7, <2>1 DEF VotesGrounded, Grounded
<1> QED  BY <1>8, <1>9

-----------------------------------------------------------------------------
(* The operations on a block store.                                        *)

LEMMA OpenRoundGood ==
    ASSUME NEW V, NEW s \in Store, GoodStore(V, s), NEW qc \in QuorumCert, CertIn(V, qc)
    PROVE  openRound(s, qc) \in Store /\ GoodStore(V, openRound(s, qc))
<1> DEFINE t == openRound(s, qc)
<1>1. qc.block \in Block /\ qc.tc \in Nat /\ qc = cert(qc.block, qc.tc)
  BY DEF QuorumCert, cert
<1>2. Len(qc.block) \in Nat  BY <1>1, BlockFacts
<1>3. CASE commits(s, qc)
  <2>1. Len(qc.block) - 2 \in 0..Len(qc.block) /\ Len(qc.block) > 2
    BY <1>2, <1>3 DEF commits, Round
  <2>2. /\ CommitInfo(qc.block) \in Block /\ Len(CommitInfo(qc.block)) = Len(qc.block) - 2
    BY <1>1, <2>1, PrefixFacts DEF CommitInfo
  <2>3. BlockCertIn(V, qc.block)  BY <1>1 DEF BlockCertIn
  <2>4. Committable(V, CommitInfo(qc.block))
    <3>1. /\ Len(qc.block) = Len(CommitInfo(qc.block)) + 2
          /\ CommitInfo(qc.block) = SubSeq(qc.block, 1, Len(CommitInfo(qc.block)))
      BY <2>1, <2>2, <1>2 DEF CommitInfo
    <3> QED  BY <1>1, <2>3, <3>1 DEF Committable
  <2>5. t = [s EXCEPT !.hqc = qc, !.committed = @ \cup {CommitInfo(qc.block)},
                      !.send_vote = None, !.author_to_vote = NoVotes, !.signatures = {}]
    BY <1>3 DEF openRound
  <2> HIDE DEF t
  <2>6. t \in Store  BY <2>2, <2>5, Zenon DEF Store, NoVotes
  <2>7. GoodStore(V, t)  BY <2>4, <2>5 DEF Store, GoodStore
  <2> QED  BY <2>6, <2>7 DEF t
<1>4. CASE ~commits(s, qc)
  <2>1. t = [s EXCEPT !.hqc = qc, !.committed = @, !.send_vote = None,
                      !.author_to_vote = NoVotes, !.signatures = {}]
    BY <1>4 DEF openRound
  <2> HIDE DEF t
  <2>2. t \in Store  BY <2>1, Zenon DEF Store, NoVotes
  <2>3. GoodStore(V, t)  BY <2>1 DEF Store, GoodStore
  <2> QED  BY <2>2, <2>3 DEF t
<1> QED  BY <1>3, <1>4

LEMMA SyncUpGood ==
    ASSUME NEW V, NEW s \in Store, GoodStore(V, s), NEW qc \in QuorumCert, CertIn(V, qc)
    PROVE  SyncUp(s, qc) \in Store /\ GoodStore(V, SyncUp(s, qc))
<1> DEFINE t == [s EXCEPT !.blocks = @ \cup {qc.block}]
<1>1. t \in Store /\ GoodStore(V, t)  BY DEF Store, QuorumCert, GoodStore
<1>2. SyncUp(s, qc) = openRound(t, qc) \/ SyncUp(s, qc) = t  BY DEF SyncUp
<1> HIDE DEF t
<1>3. openRound(t, qc) \in Store /\ GoodStore(V, openRound(t, qc))  BY <1>1, OpenRoundGood
<1> QED  BY <1>1, <1>2, <1>3

\* A certificate formed from the signatures a store holds is real.
LEMMA InsertVoteGood ==
    ASSUME NEW V, NEW s \in Store, GoodStore(V, s),
           NEW a \in Validator, NEW v \in Vote, a \in SignedIn(V, cert(v.block, v.tc))
    PROVE  insertVote(s, a, v) \in Store /\ GoodStore(V, insertVote(s, a, v))
<1> DEFINE qc == cert(v.block, v.tc)
           signatures == s.signatures \cup {<<a, qc>>}
<1>1. qc \in QuorumCert  BY DEF Vote, QuorumCert, cert
<1>2. signatures \in SUBSET (Validator \X QuorumCert)  BY <1>1 DEF Store
<1>3. \A sig \in signatures : sig[1] \in SignedIn(V, sig[2])  BY DEF GoodStore
<1>4. CASE Cardinality(Signers(signatures, qc)) >= quorum
  <2>1. Signers(signatures, qc) \subseteq SignedIn(V, qc)  BY <1>3 DEF Signers
  <2>2. IsFiniteSet(SignedIn(V, qc))
    <3>1. SignedIn(V, qc) \subseteq Validator  BY DEF SignedIn
    <3> QED  BY <3>1, ValidatorFinite, FS_Subset
  <2>3. /\ Cardinality(Signers(signatures, qc)) <= Cardinality(SignedIn(V, qc))
        /\ Cardinality(Signers(signatures, qc)) \in Nat
        /\ Cardinality(SignedIn(V, qc)) \in Nat
    BY <2>1, <2>2, FS_Subset, FS_CardinalityType, Zenon
  <2>4. CertIn(V, qc)  BY <1>4, <2>3, QuorumNat DEF CertIn
  <2>5. insertVote(s, a, v) = openRound(s, qc)  BY <1>4 DEF insertVote
  <2> QED  BY <1>1, <2>4, <2>5, OpenRoundGood
<1>5. CASE ~(Cardinality(Signers(signatures, qc)) >= quorum)
  <2>1. insertVote(s, a, v) = [s EXCEPT !.author_to_vote[a] = v, !.signatures = signatures]
    BY <1>5 DEF insertVote
  <2> HIDE DEF signatures
  <2>2. insertVote(s, a, v) \in Store  BY <2>1, <1>2, Zenon DEF Store
  <2>3. GoodStore(V, insertVote(s, a, v))  BY <2>1, <1>3 DEF Store, GoodStore
  <2> QED  BY <2>2, <2>3
<1> QED  BY <1>4, <1>5

\* A block that extends a certified block by one round may be voted for.
LEMMA ExtensionGrounded ==
    ASSUME NEW V, VotesGrounded(V), NEW qc \in QuorumCert, CertIn(V, qc), NEW a \in 0..N
    PROVE  Grounded(V, Append(qc.block, a))
<1>1. qc.block \in Block  BY DEF QuorumCert
<1>2. /\ Append(qc.block, a) \in Block /\ Len(Append(qc.block, a)) = Len(qc.block) + 1
      /\ \A k \in 0..Len(qc.block) : SubSeq(Append(qc.block, a), 1, k) = SubSeq(qc.block, 1, k)
  BY <1>1, AppendFacts
<1>3. Len(qc.block) \in Nat  BY <1>1, BlockFacts
<1>4. \A k \in 1..Len(qc.block) : BlockCertIn(V, SubSeq(qc.block, 1, k))
  BY CertifiedPrefixes
<1> DEFINE b == Append(qc.block, a)
<1>5. ASSUME NEW k \in 1..(Len(b) - 1)  PROVE BlockCertIn(V, SubSeq(b, 1, k))
  <2>1. k \in 1..Len(qc.block) /\ k \in 0..Len(qc.block)  BY <1>2, <1>3
  <2>2. SubSeq(b, 1, k) = SubSeq(qc.block, 1, k)  BY <1>2, <2>1
  <2> QED  BY <1>4, <2>1, <2>2, Zenon
<1>6. b \in Block /\ Len(b) > 0  BY <1>2, <1>3
<1> QED  BY <1>5, <1>6 DEF Grounded

-----------------------------------------------------------------------------
(* The inductive invariant: every certificate is real, and every block     *)
(* that is proposed, about to be signed, signed or recorded is grounded.   *)

Sound ==
    /\ VotesGrounded(votes)
    /\ \A n \in Validator : GoodStore(votes, store[n])
    /\ \A p \in proposals : Grounded(votes, p.block) /\ CertIn(votes, cert(Parent(p.block), p.tc))
    /\ \A m \in votes : CertIn(votes, m.sync)
    /\ \A n \in Validator : \A w \in voting[n] : Grounded(votes, w.vote.block)
    /\ \A n \in Validator : safety[n].last_vote # None => Grounded(votes, safety[n].last_vote.block)

IInv == TypeOK /\ Sound

LEMMA InvInit == Init => IInv
<1> SUFFICES ASSUME Init PROVE IInv  OBVIOUS
<1>1. genesis \in QuorumCert  BY BlockFacts DEF genesis, cert, QuorumCert
<1>2. TypeOK
  <2>1. \A n \in Validator : store[n] \in Store  BY <1>1, BlockFacts DEF Init, Store, NoVotes
  <2>2. \A n \in Validator : safety[n] \in SafetyData  BY DEF Init, SafetyData
  <2> QED  BY <2>1, <2>2, Zenon DEF Init, TypeOK
<1>3. Sound
  <2>1. \A n \in Validator : GoodStore(votes, store[n])
    BY DEF Init, GoodStore, CertIn, Committable
  <2> QED  BY <2>1, Zenon DEF Init, Sound, VotesGrounded
<1> QED  BY <1>2, <1>3 DEF IInv

\* Recording and sending a vote for a grounded block.
LEMMA SendStep ==
    ASSUME IInv, NEW n \in Validator, NEW s \in Store, GoodStore(votes, s),
           NEW v \in Vote, Grounded(votes, v.block), NEW to \in SUBSET Validator,
           send(n, s, v, to)
    PROVE  /\ store' \in [Validator -> Store]
           /\ votes' \in SUBSET [from : Validator, to : SUBSET Validator,
                                 vote : Vote, sync : QuorumCert]
           /\ votes \subseteq votes' /\ VotesGrounded(votes')
           /\ \A k \in Validator : GoodStore(votes', store'[k])
           /\ \A m \in votes' : CertIn(votes', m.sync)
<1> DEFINE m == [from |-> n, to |-> to, vote |-> v, sync |-> s.hqc]
           t == [s EXCEPT !.send_vote = v]
<1>1. votes' = votes \cup {m} /\ store' = [store EXCEPT ![n] = t]  BY DEF send
<1>2. m \in [from : Validator, to : SUBSET Validator, vote : Vote, sync : QuorumCert]
  BY DEF Store
<1>3. t \in Store /\ GoodStore(votes, t)  BY DEF Store, GoodStore
<1>4. m.vote = v /\ m.sync = s.hqc /\ CertIn(votes, s.hqc)  BY DEF GoodStore
<1> HIDE DEF m, t
<1>5. votes \subseteq votes'  BY <1>1
<1>6. store' \in [Validator -> Store]  BY <1>1, <1>3 DEF IInv, TypeOK
<1>7. VotesGrounded(votes')
  <2>1. \A x \in votes' : Grounded(votes, x.vote.block)
    BY <1>1, <1>4 DEF IInv, Sound, VotesGrounded
  <2> QED  BY <1>5, <2>1, BlockCertGrows DEF VotesGrounded
<1>8. \A k \in Validator : GoodStore(votes', store'[k])
  <2> SUFFICES ASSUME NEW k \in Validator PROVE GoodStore(votes', store'[k])  OBVIOUS
  <2>1. GoodStore(votes, store'[k])  BY <1>1, <1>3 DEF IInv, Sound, TypeOK
  <2> QED  BY <1>5, <2>1, GoodStoreGrows
<1>9. \A x \in votes' : CertIn(votes', x.sync)
  BY <1>1, <1>4, <1>5, CertGrows, Zenon DEF IInv, Sound
<1> QED  BY <1>1, <1>2, <1>5, <1>6, <1>7, <1>8, <1>9, Zenon DEF IInv, TypeOK

LEMMA SafetyAfterType ==
    ASSUME NEW sd \in SafetyData, NEW b \in Block
    PROVE  SafetyAfter(sd, b) \in SafetyData /\ SafetyAfter(sd, b).last_vote = sd.last_vote
<1>1. Len(b) \in Nat  BY BlockFacts
<1>2. sd.preferred_round \in Nat /\ sd.last_voted_round \in Nat  BY DEF SafetyData
<1> DEFINE p == IF Round(b) - 2 > sd.preferred_round THEN Round(b) - 2 ELSE sd.preferred_round
           l == IF hasLastVote(sd) /\ Answer(sd, b) # "stale" THEN Round(b)
                ELSE sd.last_voted_round
<1>3. p \in Nat /\ l \in Nat  BY <1>1, <1>2 DEF Round
<1>4. \/ SafetyAfter(sd, b) = sd
      \/ SafetyAfter(sd, b) = [sd EXCEPT !.preferred_round = p, !.last_voted_round = l]
  BY DEF SafetyAfter
<1> HIDE DEF p, l
<1> QED  BY <1>3, <1>4, Zenon DEF SafetyData

-----------------------------------------------------------------------------
(* The steps.                                                              *)

\* What a growing set of votes keeps, for a step that sends a vote.
LEMMA SoundGrows ==
    ASSUME Sound, votes \subseteq votes', UNCHANGED proposals
    PROVE  /\ \A p \in proposals' :
                Grounded(votes', p.block) /\ CertIn(votes', cert(Parent(p.block), p.tc))
           /\ \A n \in Validator : \A w \in voting[n] : Grounded(votes', w.vote.block)
           /\ \A n \in Validator : safety[n].last_vote # None =>
                Grounded(votes', safety[n].last_vote.block)
<1>1. \A b : Grounded(votes, b) => Grounded(votes', b)  BY BlockCertGrows
<1>2. \A qc : CertIn(votes, qc) => CertIn(votes', qc)  BY CertGrows
<1> QED  BY <1>1, <1>2 DEF Sound

LEMMA GenerateProposalStep ==
    ASSUME IInv, NEW n \in Validator, GenerateProposal(n)
    PROVE  IInv'
<1> DEFINE qc == store[n].hqc
           p == cert(Append(qc.block, n), qc.tc)
<1>1. store[n] \in Store /\ GoodStore(votes, store[n])  BY DEF IInv, TypeOK, Sound
<1>2. qc \in QuorumCert /\ CertIn(votes, qc)  BY <1>1 DEF Store, GoodStore
<1>3. qc.block \in Block /\ qc.tc \in Nat /\ qc = cert(qc.block, qc.tc)
  BY <1>2 DEF QuorumCert, cert
<1>4. n \in 0..N  BY NAssumption DEF Validator
<1>5. Grounded(votes, p.block)  BY <1>2, <1>4, ExtensionGrounded DEF IInv, Sound, cert
<1>6. p \in QuorumCert  BY <1>3, <1>4, AppendFacts DEF cert, QuorumCert
<1>7. cert(Parent(p.block), p.tc) = qc  BY <1>3, <1>4, AppendFacts DEF cert
<1>8. /\ proposals' = proposals \cup {p} /\ jobs' = [jobs EXCEPT ![n] = @ \cup {p}]
      /\ UNCHANGED <<store, safety, voting, timeouts, votes>>
  BY DEF GenerateProposal
<1> HIDE DEF p, qc
<1>9. TypeOK'  BY <1>6, <1>8 DEF IInv, TypeOK
<1>10. Sound'  BY <1>2, <1>5, <1>7, <1>8 DEF IInv, Sound
<1> QED  BY <1>9, <1>10 DEF IInv

LEMMA CheckProposalStep ==
    ASSUME IInv, NEW n \in Validator, NEW p \in proposals, CheckProposal(n, p)
    PROVE  IInv'
<1> DEFINE qc == cert(Parent(p.block), p.tc)
           s == SyncUp(store[n], qc)
<1>1. store[n] \in Store /\ GoodStore(votes, store[n])  BY DEF IInv, TypeOK, Sound
<1>2. p \in QuorumCert /\ Grounded(votes, p.block) /\ CertIn(votes, qc)
  BY DEF IInv, TypeOK, Sound
<1>3. qc \in QuorumCert
  <2>1. p.block \in Block /\ Len(p.block) > 0 /\ Len(p.block) \in Nat
    BY <1>2, BlockFacts DEF Grounded
  <2>2. Len(p.block) - 1 \in 0..Len(p.block)  BY <2>1
  <2>3. Parent(p.block) \in Block  BY <2>1, <2>2, PrefixFacts DEF Parent
  <2> QED  BY <1>2, <2>3 DEF cert, QuorumCert
<1>4. /\ store' = [store EXCEPT ![n] = s] /\ jobs' = [jobs EXCEPT ![n] = @ \cup {p}]
      /\ UNCHANGED <<safety, voting, timeouts, proposals, votes>>
  BY DEF CheckProposal
<1> HIDE DEF qc
<1>5. s \in Store /\ GoodStore(votes, s)  BY <1>1, <1>2, <1>3, SyncUpGood
<1> HIDE DEF s
<1>6. TypeOK'  BY <1>4, <1>5 DEF IInv, TypeOK
<1>7. Sound'
  <2>1. \A k \in Validator : GoodStore(votes, store'[k])  BY <1>4, <1>5 DEF IInv, TypeOK, Sound
  <2> QED  BY <1>4, <2>1 DEF IInv, Sound
<1> QED  BY <1>6, <1>7 DEF IInv

LEMMA SignVoteStep ==
    ASSUME IInv, NEW n \in Validator, NEW w \in voting[n], SignVote(n, w)
    PROVE  IInv'
<1>1. store[n] \in Store /\ GoodStore(votes, store[n]) /\ Grounded(votes, w.vote.block)
  BY DEF IInv, TypeOK, Sound
<1>2. w \in [vote : Vote, to : SUBSET Validator]  BY DEF IInv, TypeOK
<1> DEFINE last == [w.vote EXCEPT !.timeout = FALSE]
<1>3. last \in Vote /\ last.block = w.vote.block  BY <1>2, Zenon DEF Vote
<1>4. /\ safety' = [safety EXCEPT ![n].last_vote = last]
      /\ voting' = [voting EXCEPT ![n] = @ \ {w}]
      /\ send(n, store[n], w.vote, w.to) /\ UNCHANGED <<jobs, timeouts, proposals>>
  BY DEF SignVote
<1> HIDE DEF last
<1>5. /\ store' \in [Validator -> Store]
      /\ votes' \in SUBSET [from : Validator, to : SUBSET Validator,
                            vote : Vote, sync : QuorumCert]
      /\ votes \subseteq votes' /\ VotesGrounded(votes')
      /\ \A k \in Validator : GoodStore(votes', store'[k])
      /\ \A m \in votes' : CertIn(votes', m.sync)
  BY <1>1, <1>2, <1>4, SendStep
<1>6. TypeOK'
  <2>1. safety' \in [Validator -> SafetyData]  BY <1>3, <1>4 DEF IInv, TypeOK, SafetyData
  <2> QED  BY <1>4, <1>5, <2>1 DEF IInv, TypeOK
<1>7. Sound'
  <2>1. Grounded(votes', last.block)  BY <1>1, <1>3, <1>5, BlockCertGrows
  <2>2. \A k \in Validator : safety'[k].last_vote # None => Grounded(votes', safety'[k].last_vote.block)
    <3> SUFFICES ASSUME NEW k \in Validator, safety'[k].last_vote # None
                 PROVE  Grounded(votes', safety'[k].last_vote.block)
      OBVIOUS
    <3>1. safety[k] \in SafetyData /\ safety \in [Validator -> SafetyData]  BY DEF IInv, TypeOK
    <3>2. CASE k = n  BY <1>4, <2>1, <3>1, <3>2 DEF SafetyData
    <3>3. CASE k # n  BY <1>4, <1>5, <3>1, <3>3, SoundGrows DEF IInv
    <3> QED  BY <3>2, <3>3
  <2>3. \A k \in Validator : voting'[k] \subseteq voting[k]  BY <1>4 DEF IInv, TypeOK
  <2>4. \A k \in Validator : \A x \in voting'[k] : Grounded(votes', x.vote.block)
    BY <1>4, <1>5, <2>3, SoundGrows DEF IInv
  <2> QED  BY <1>4, <1>5, <2>2, <2>4, SoundGrows DEF IInv, Sound
<1> QED  BY <1>6, <1>7 DEF IInv

LEMMA ExecuteAndVoteStep ==
    ASSUME IInv, NEW n \in Validator, NEW v \in Vote, Grounded(votes, v.block),
           NEW to \in SUBSET Validator, ExecuteAndVote(n, v, to),
           jobs' \in [Validator -> SUBSET proposals], timeouts' \in Nat, UNCHANGED proposals
    PROVE  IInv'
<1> DEFINE s == [store[n] EXCEPT !.blocks = @ \cup {v.block}]
           answer == Answer(safety[n], v.block)
<1>1. store[n] \in Store /\ GoodStore(votes, store[n]) /\ safety[n] \in SafetyData
  BY DEF IInv, TypeOK, Sound
<1>2. v.block \in Block  BY DEF Vote
<1>3. s \in Store /\ GoodStore(votes, s)  BY <1>1, <1>2 DEF Store, GoodStore
<1>4. safety' \in [Validator -> SafetyData]
      /\ \A k \in Validator : safety'[k].last_vote = safety[k].last_vote
  <2>1. safety' = [safety EXCEPT ![n] = SafetyAfter(@, v.block)]  BY DEF ExecuteAndVote
  <2> QED  BY <1>1, <1>2, <2>1, SafetyAfterType DEF IInv, TypeOK
<1>5. CASE answer \in {"refuse", "stale"} /\ store' = [store EXCEPT ![n] = s]
           /\ UNCHANGED <<voting, votes>>
  <2> HIDE DEF s
  <2>1. TypeOK'  BY <1>3, <1>4, <1>5 DEF IInv, TypeOK
  <2>2. \A k \in Validator : GoodStore(votes, store'[k])  BY <1>3, <1>5 DEF IInv, TypeOK, Sound
  <2>3. Sound'  BY <1>4, <1>5, <2>2 DEF IInv, Sound
  <2> QED  BY <2>1, <2>3 DEF IInv
<1>6. CASE answer = "sign" /\ store' = [store EXCEPT ![n] = s]
           /\ voting' = [voting EXCEPT ![n] = @ \cup {[vote |-> v, to |-> to]}]
           /\ UNCHANGED votes
  <2> DEFINE w == [vote |-> v, to |-> to]
  <2>1. w \in [vote : Vote, to : SUBSET Validator] /\ w.vote = v  OBVIOUS
  <2> HIDE DEF s, w
  <2>2. voting' = [voting EXCEPT ![n] = @ \cup {w}]  BY <1>6 DEF w
  <2>3. TypeOK'  BY <1>3, <1>4, <1>6, <2>1, <2>2 DEF IInv, TypeOK
  <2>4. \A k \in Validator : GoodStore(votes, store'[k])  BY <1>3, <1>6 DEF IInv, TypeOK, Sound
  <2>5. \A k \in Validator : \A x \in voting'[k] : Grounded(votes, x.vote.block)
    BY <2>1, <2>2 DEF IInv, TypeOK, Sound
  <2>6. Sound'  BY <1>4, <1>6, <2>4, <2>5 DEF IInv, Sound
  <2> QED  BY <2>3, <2>6 DEF IInv
<1>7. CASE answer = "repeat" /\ send(n, s, [safety[n].last_vote EXCEPT !.timeout = v.timeout], to)
           /\ UNCHANGED voting
  <2> DEFINE u == [safety[n].last_vote EXCEPT !.timeout = v.timeout]
  <2>1. hasLastVote(safety[n])
    BY <1>1, <1>2, <1>7, BlockFacts DEF Answer, SafetyData, Round
  <2>2. safety[n].last_vote \in Vote /\ Grounded(votes, safety[n].last_vote.block)
    BY <1>1, <2>1 DEF hasLastVote, SafetyData, IInv, Sound
  <2>3. u \in Vote /\ u.block = safety[n].last_vote.block  BY <2>2 DEF Vote
  <2> HIDE DEF s, u
  <2>4. /\ store' \in [Validator -> Store]
        /\ votes' \in SUBSET [from : Validator, to : SUBSET Validator,
                              vote : Vote, sync : QuorumCert]
        /\ votes \subseteq votes' /\ VotesGrounded(votes')
        /\ \A k \in Validator : GoodStore(votes', store'[k])
        /\ \A m \in votes' : CertIn(votes', m.sync)
    <3>1. send(n, s, u, to)  BY <1>7 DEF u
    <3> QED  BY <1>3, <2>2, <2>3, <3>1, SendStep
  <2>5. TypeOK'  BY <1>4, <1>7, <2>4 DEF IInv, TypeOK
  <2>6. Sound'  BY <1>4, <1>7, <2>4, SoundGrows DEF IInv, Sound
  <2> QED  BY <2>5, <2>6 DEF IInv
<1> QED  BY <1>5, <1>6, <1>7 DEF ExecuteAndVote

LEMMA ProcessProposalStep ==
    ASSUME IInv, NEW n \in Validator, NEW p \in jobs[n], ProcessProposal(n, p)
    PROVE  IInv'
<1>1. p \in proposals /\ p \in QuorumCert /\ Grounded(votes, p.block)
  BY DEF IInv, TypeOK, Sound
<1> DEFINE v == vote(p.block, p.tc, FALSE)
           to == {GetValidProposer(Round(p.block) + 1 + p.tc)}
<1>2. v \in Vote /\ v.block = p.block  BY <1>1 DEF QuorumCert, Vote, vote
<1>3. to \in SUBSET Validator
  <2>1. Len(p.block) \in Nat /\ p.tc \in Nat  BY <1>1, BlockFacts DEF QuorumCert
  <2>2. Round(p.block) + 1 + p.tc \in Nat  BY <2>1 DEF Round
  <2> QED  BY <2>2, ProposerIsValidator
<1>4. /\ ExecuteAndVote(n, v, to) /\ jobs' = [jobs EXCEPT ![n] = @ \ {p}]
      /\ UNCHANGED <<timeouts, proposals>>
  BY Zenon DEF ProcessProposal
<1>5. jobs' \in [Validator -> SUBSET proposals] /\ timeouts' \in Nat
  BY <1>4 DEF IInv, TypeOK
<1> HIDE DEF v, to
<1> QED  BY <1>1, <1>2, <1>3, <1>4, <1>5, ExecuteAndVoteStep

LEMMA ProcessLocalTimeoutStep ==
    ASSUME IInv, NEW n \in Validator, ProcessLocalTimeout(n)
    PROVE  IInv'
<1> DEFINE sent == store[n].send_vote
           hqc == store[n].hqc
<1>1. store[n] \in Store /\ GoodStore(votes, store[n])  BY DEF IInv, TypeOK, Sound
<1>2. hqc \in QuorumCert /\ CertIn(votes, hqc) /\ hqc.block \in Block /\ hqc.tc \in Nat
  BY <1>1 DEF Store, GoodStore, QuorumCert
<1>3. timeouts' \in Nat /\ UNCHANGED <<jobs, proposals>>
  BY DEF ProcessLocalTimeout, IInv, TypeOK
<1>4. CASE sent # None /\ Round(sent.block) > 1
  <2> DEFINE v == vote(sent.block, hqc.tc + 1, TRUE)
  <2>1. sent \in Vote /\ Grounded(votes, sent.block)  BY <1>1, <1>4 DEF Store, GoodStore
  <2>2. v \in Vote /\ v.block = sent.block  BY <1>2, <2>1 DEF Vote, vote
  <2>3. send(n, store[n], v, Validator) /\ UNCHANGED <<safety, voting>>
    BY <1>4, Zenon DEF ProcessLocalTimeout
  <2> HIDE DEF v
  <2>4. /\ store' \in [Validator -> Store]
        /\ votes' \in SUBSET [from : Validator, to : SUBSET Validator,
                              vote : Vote, sync : QuorumCert]
        /\ votes \subseteq votes' /\ VotesGrounded(votes')
        /\ \A k \in Validator : GoodStore(votes', store'[k])
        /\ \A m \in votes' : CertIn(votes', m.sync)
    BY <1>1, <2>1, <2>2, <2>3, SendStep
  <2>5. TypeOK'  BY <1>3, <2>3, <2>4 DEF IInv, TypeOK
  <2>6. Sound'  BY <1>3, <2>3, <2>4, SoundGrows DEF IInv, Sound
  <2> QED  BY <2>5, <2>6 DEF IInv
<1>5. CASE ~(sent # None /\ Round(sent.block) > 1)
  <2> DEFINE v == vote(Append(hqc.block, Nil), hqc.tc, TRUE)
  <2>1. Nil \in 0..N  BY NAssumption DEF Nil
  <2>2. Grounded(votes, Append(hqc.block, Nil)) /\ Append(hqc.block, Nil) \in Block
    BY <1>2, <2>1, ExtensionGrounded, AppendFacts DEF IInv, Sound
  <2>3. v \in Vote /\ v.block = Append(hqc.block, Nil)  BY <1>2, <2>2 DEF Vote, vote
  <2>4. ExecuteAndVote(n, v, Validator)  BY <1>5, Zenon DEF ProcessLocalTimeout
  <2>5. jobs' \in [Validator -> SUBSET proposals]  BY <1>3 DEF IInv, TypeOK
  <2> HIDE DEF v
  <2> QED  BY <1>3, <2>2, <2>3, <2>4, <2>5, ExecuteAndVoteStep, Zenon
<1> QED  BY <1>4, <1>5

LEMMA ProcessVoteStep ==
    ASSUME IInv, NEW n \in Validator, NEW m \in votes, ProcessVote(n, m)
    PROVE  IInv'
<1> DEFINE s == SyncUp(store[n], m.sync)
           t == IF countsVote(n, s, m.vote) /\ replaces(s.author_to_vote[m.from], m.vote)
                THEN insertVote(s, m.from, m.vote) ELSE s
<1>1. /\ store' = [store EXCEPT ![n] = t]
      /\ UNCHANGED <<safety, jobs, voting, timeouts, proposals, votes>>
  BY DEF ProcessVote
<1>2. /\ store[n] \in Store /\ GoodStore(votes, store[n])
      /\ m.from \in Validator /\ m.vote \in Vote /\ m.sync \in QuorumCert /\ CertIn(votes, m.sync)
  BY DEF IInv, TypeOK, Sound
<1>3. s \in Store /\ GoodStore(votes, s)  BY <1>2, SyncUpGood
<1>4. m.from \in SignedIn(votes, cert(m.vote.block, m.vote.tc))  BY <1>2 DEF SignedIn
<1> HIDE DEF s
<1>5. insertVote(s, m.from, m.vote) \in Store /\ GoodStore(votes, insertVote(s, m.from, m.vote))
  BY <1>2, <1>3, <1>4, InsertVoteGood
<1>6. t \in Store /\ GoodStore(votes, t)  BY <1>3, <1>5
<1> HIDE DEF t
<1>7. TypeOK'  BY <1>1, <1>6 DEF IInv, TypeOK
<1>8. Sound'
  <2>1. \A k \in Validator : GoodStore(votes, store'[k])  BY <1>1, <1>6 DEF IInv, TypeOK, Sound
  <2> QED  BY <1>1, <2>1 DEF IInv, Sound
<1> QED  BY <1>7, <1>8 DEF IInv

LEMMA InvStep == IInv /\ [Next]_vars => IInv'
<1> SUFFICES ASSUME IInv, [Next]_vars PROVE IInv'  OBVIOUS
<1>1. CASE Next
  <2> PICK n \in Validator :
        \/ GenerateProposal(n)
        \/ \E p \in proposals : CheckProposal(n, p)
        \/ \E p \in jobs[n] : ProcessProposal(n, p)
        \/ ProcessLocalTimeout(n)
        \/ \E w \in voting[n] : SignVote(n, w)
        \/ \E m \in votes : ProcessVote(n, m)
    BY <1>1 DEF Next
  <2> QED
    BY GenerateProposalStep, CheckProposalStep, ProcessProposalStep,
       ProcessLocalTimeoutStep, SignVoteStep, ProcessVoteStep
<1>2. CASE UNCHANGED vars  BY <1>2 DEF vars, IInv, TypeOK, Sound
<1> QED  BY <1>1, <1>2

LEMMA InvAlways == Spec => []IInv
BY InvInit, InvStep, PTL DEF Spec

\* Every reachable state is well typed: no round, certificate or vote leaves its domain.
THEOREM TypesAlwaysCorrect == Spec => []TypeOK
<1>1. IInv => TypeOK  BY DEF IInv
<1> QED  BY <1>1, InvAlways, PTL

LEMMA RealFromInv == IInv => CertificatesReal
BY DEF IInv, Sound, GoodStore, CertificatesReal, Certified, signedBy, CertIn, SignedIn

\* The certificates that validators hold, propose on and send along with votes are
\* signed by a quorum (PendingVotes::insertVote), for any number of validators.
THEOREM CertificatesAlwaysReal == Spec => []CertificatesReal
BY RealFromInv, InvAlways, PTL

-----------------------------------------------------------------------------
(* Commits.                                                                *)

\* Two quorums share a validator, which voted once in the round.
LEMMA OneCertifiedPerRound ==
    ASSUME IInv, OneVotePerRound, NEW d \in Block, NEW e \in Block,
           BlockCertIn(votes, d), BlockCertIn(votes, e), Len(d) = Len(e), Len(d) > 1
    PROVE  d = e
<1>1. PICK x \in Nat : CertIn(votes, cert(d, x))  BY DEF BlockCertIn
<1>2. PICK y \in Nat : CertIn(votes, cert(e, y))  BY DEF BlockCertIn
<1>3. cert(d, x) # genesis /\ cert(e, y) # genesis
  BY BlockFacts, EmptySeq DEF cert, genesis
<1> DEFINE P == SignedIn(votes, cert(d, x))
           Q == SignedIn(votes, cert(e, y))
<1>4. Cardinality(P) >= quorum /\ Cardinality(Q) >= quorum  BY <1>1, <1>2, <1>3 DEF CertIn
<1>5. P \subseteq Validator /\ Q \subseteq Validator  BY DEF SignedIn
<1> HIDE DEF P, Q
<1>6. P \cap Q # {}
  <2>1. IsFiniteSet(P) /\ IsFiniteSet(Q)  BY <1>5, ValidatorFinite, FS_Subset
  <2>2. Cardinality(P) \in Nat /\ Cardinality(Q) \in Nat  BY <2>1, FS_CardinalityType
  <2>3. Cardinality(P) + Cardinality(Q) > Cardinality(Validator)
    BY <1>4, <2>2, QuorumNat, ValidatorFinite, NAssumption
  <2> QED  BY <1>5, <2>3, ValidatorFinite, FS_MajoritiesIntersect
<1>7. PICK a \in Validator : a \in P /\ a \in Q  BY <1>5, <1>6
<1>8. PICK m1 \in votes : m1.from = a /\ m1.vote.block = d  BY <1>7, Zenon DEF P, SignedIn, cert
<1>9. PICK m2 \in votes : m2.from = a /\ m2.vote.block = e  BY <1>7, Zenon DEF Q, SignedIn, cert
<1> QED  BY <1>8, <1>9 DEF OneVotePerRound, Round

\* Blocks under certified blocks two rounds later lie on one chain.
LEMMA CommitsOnOneChain ==
    ASSUME IInv, OneVotePerRound, NEW b \in Block, NEW c \in Block,
           Committable(votes, b), Committable(votes, c), Len(b) <= Len(c)
    PROVE  prefix(b, c)
<1>1. Len(b) \in Nat /\ Len(c) \in Nat  BY BlockFacts
<1>2. CASE b = <<>>
  <2>1. Len(b) = 0 /\ SubSeq(c, 1, 0) \in Block /\ Len(SubSeq(c, 1, 0)) = 0
    BY <1>1, <1>2, EmptySeq, PrefixFacts
  <2> QED  BY <1>2, <2>1, BlockFacts DEF prefix
<1>3. CASE b # <<>>
  <2>1. Len(b) > 0 /\ c # <<>>  BY <1>1, <1>3, BlockFacts, EmptySeq
  <2>2. PICK d \in Block : BlockCertIn(votes, d) /\ Len(d) = Len(b) + 2 /\ b = SubSeq(d, 1, Len(b))
    BY <1>3 DEF Committable
  <2>3. PICK e \in Block : BlockCertIn(votes, e) /\ Len(e) = Len(c) + 2 /\ c = SubSeq(e, 1, Len(c))
    BY <2>1 DEF Committable
  <2>4. PICK y \in Nat : CertIn(votes, cert(e, y))  BY <2>3 DEF BlockCertIn
  <2>5. cert(e, y) \in QuorumCert /\ cert(e, y).block = e  BY DEF cert, QuorumCert
  <2>6. Len(d) \in 1..Len(e) /\ Len(d) \in 0..Len(e) /\ Len(d) > 1  BY <1>1, <2>1, <2>2, <2>3
  <2>7. BlockCertIn(votes, SubSeq(e, 1, Len(d)))
    BY <2>4, <2>5, <2>6, CertifiedPrefixes DEF IInv, Sound
  <2>8. SubSeq(e, 1, Len(d)) \in Block /\ Len(SubSeq(e, 1, Len(d))) = Len(d)
    BY <2>6, PrefixFacts
  <2>9. d = SubSeq(e, 1, Len(d))  BY <2>2, <2>6, <2>7, <2>8, OneCertifiedPerRound, Zenon
  <2>10. Len(b) \in 0..Len(d) /\ Len(b) \in 0..Len(c) /\ Len(c) \in 0..Len(e)
    BY <1>1, <2>2, <2>3
  <2>11. SubSeq(SubSeq(e, 1, Len(d)), 1, Len(b)) = SubSeq(e, 1, Len(b))
    BY <2>6, <2>10, PrefixFacts
  <2>12. SubSeq(SubSeq(e, 1, Len(c)), 1, Len(b)) = SubSeq(e, 1, Len(b))
    BY <2>10, PrefixFacts
  <2>13. b = SubSeq(e, 1, Len(b))  BY <2>2, <2>9, <2>11
  <2>14. SubSeq(c, 1, Len(b)) = SubSeq(e, 1, Len(b))  BY <2>3, <2>12
  <2> QED  BY <2>13, <2>14 DEF prefix
<1> QED  BY <1>2, <1>3

LEMMA AgreementFromInv == IInv => CommitAgreement
<1> SUFFICES ASSUME IInv, OneVotePerRound, NEW m \in Validator, NEW n \in Validator,
                    NEW b \in store[m].committed, NEW c \in store[n].committed
             PROVE  prefix(b, c) \/ prefix(c, b)
  BY DEF CommitAgreement
<1>1. b \in Block /\ c \in Block  BY DEF IInv, TypeOK, Store
<1>2. Committable(votes, b) /\ Committable(votes, c)  BY DEF IInv, Sound, GoodStore
<1>3. Len(b) <= Len(c) \/ Len(c) <= Len(b)  BY <1>1, BlockFacts
<1> QED  BY <1>1, <1>2, <1>3, CommitsOnOneChain

\* All commits of all validators lie on one chain while no validator signs two blocks of
\* a round after the first: the commit rule of ConstructLedgerInfo and the quorum of
\* insertVote suffice, for any number of validators and any delays.
THEOREM CommitsAlwaysAgree == Spec => []CommitAgreement
BY AgreementFromInv, InvAlways, PTL

-----------------------------------------------------------------------------
(* The refinement of CommitLog.                                            *)

\* The blocks of D beyond C are of higher rounds than those of C.
GrowsTo(C, D) == C \subseteq D /\ \A b \in D \ C, c \in C : Len(c) < Len(b)

LEMMA GrowsTrans ==
    ASSUME NEW C, NEW D, NEW E, GrowsTo(C, D), GrowsTo(D, E)
    PROVE  GrowsTo(C, E)
BY DEF GrowsTo

LEMMA OpenRoundGrows ==
    ASSUME NEW s \in Store, NEW qc
    PROVE  GrowsTo(s.committed, openRound(s, qc).committed)
<1>1. \/ openRound(s, qc).committed = s.committed
      \/ /\ openRound(s, qc).committed = s.committed \cup {CommitInfo(qc.block)}
         /\ \A b \in s.committed : Len(b) < Len(CommitInfo(qc.block))
  BY DEF Store, openRound, commits, Round
<1> QED  BY <1>1 DEF GrowsTo

LEMMA SyncUpGrows ==
    ASSUME NEW s \in Store, NEW qc \in QuorumCert
    PROVE  GrowsTo(s.committed, SyncUp(s, qc).committed)
<1> DEFINE t == [s EXCEPT !.blocks = @ \cup {qc.block}]
<1>1. t \in Store /\ t.committed = s.committed  BY DEF Store, QuorumCert
<1>2. SyncUp(s, qc) = t \/ SyncUp(s, qc) = openRound(t, qc)  BY DEF SyncUp
<1>3. GrowsTo(s.committed, openRound(t, qc).committed)
  <2> HIDE DEF t
  <2> QED  BY <1>1, OpenRoundGrows
<1>4. GrowsTo(s.committed, t.committed)  BY <1>1 DEF GrowsTo
<1> HIDE DEF t
<1> QED  BY <1>2, <1>3, <1>4

LEMMA InsertVoteGrows ==
    ASSUME NEW s \in Store, NEW a \in Validator, NEW v \in Vote
    PROVE  GrowsTo(s.committed, insertVote(s, a, v).committed)
<1> DEFINE qc == cert(v.block, v.tc)
           t == [s EXCEPT !.author_to_vote[a] = v, !.signatures = s.signatures \cup {<<a, qc>>}]
<1>1. t.committed = s.committed  BY DEF Store
<1>2. insertVote(s, a, v) = t \/ insertVote(s, a, v) = openRound(s, qc)  BY DEF insertVote
<1>3. GrowsTo(s.committed, openRound(s, qc).committed)  BY OpenRoundGrows
<1>4. GrowsTo(s.committed, t.committed)  BY <1>1 DEF GrowsTo
<1> HIDE DEF t
<1> QED  BY <1>2, <1>3, <1>4

log == [n \in Validator |-> store[n].committed]

\* A step of CommitLog, or none.
logNext == [CL!Next]_CL!vars

\* One validator's commits grow and no vote is sent.
grows(n) ==
    /\ GrowsTo(store[n].committed, store'[n].committed)
    /\ \A k \in Validator : k # n => store'[k].committed = store[k].committed
    /\ votes' = votes

LEMMA GrowsStep ==
    ASSUME TypeOK, NEW n \in Validator, NEW t \in Store,
           GrowsTo(store[n].committed, t.committed),
           store' = [store EXCEPT ![n] = t], votes' = votes
    PROVE  grows(n)
<1>1. store \in [Validator -> Store]  BY DEF TypeOK
<1> QED  BY <1>1 DEF grows

LEMMA CommitStep ==
    ASSUME OneVotePerRound' => CL!OneChain(log'), NEW n \in Validator, grows(n)
    PROVE  logNext
<1>2. log'[n] = store'[n].committed /\ log[n] = store[n].committed  BY DEF log
<1>3. \A k \in Validator : k # n => log'[k] = log[k]  BY DEF log, grows
<1>4. log' = [log EXCEPT ![n] = @ \cup (log'[n] \ log[n])]
  <2>1. log'[n] = log[n] \cup (log'[n] \ log[n])  BY <1>2 DEF GrowsTo, grows
  <2>2. log' = [k \in Validator |-> log'[k]] /\ log = [k \in Validator |-> log[k]]  BY DEF log
  <2> QED  BY <1>3, <2>1, <2>2, Zenon
<1>5. \A b \in log'[n] \ log[n], c \in log[n] : Len(c) < Len(b)  BY <1>2 DEF GrowsTo, grows
<1>6. OneVotePerRound' = OneVotePerRound  BY DEF OneVotePerRound, grows
<1>7. OneVotePerRound => CL!OneChain(log')  BY <1>6
<1>8. CL!Commit(n)  BY <1>4, <1>5, <1>6, <1>7 DEF log, CL!Commit
<1>9. CL!Next  BY <1>8 DEF CL!Next
<1> QED  BY <1>9 DEF logNext

\* A step in which nobody commits and votes are sent at most.
LEMMA QuietStep ==
    ASSUME log' = log, votes \subseteq votes'
    PROVE  logNext
<1>1. OneVotePerRound' => OneVotePerRound  BY DEF OneVotePerRound
<1>2. OneVotePerRound' \in {FALSE, OneVotePerRound}
  <2>1. CASE OneVotePerRound'  BY <1>1, <2>1
  <2>2. CASE ~OneVotePerRound'
    <3>1. OneVotePerRound' = FALSE  BY <2>2
    <3> QED  BY <3>1
  <2> QED  BY <2>1, <2>2
<1>3. CL!Sign  BY <1>2 DEF log, CL!Sign
<1> QED  BY <1>3 DEF CL!Next, logNext

LEMMA SendQuiet ==
    ASSUME TypeOK, NEW n \in Validator, NEW s \in Store, s.committed = store[n].committed,
           NEW v \in Vote, NEW to \in SUBSET Validator, send(n, s, v, to)
    PROVE  logNext
<1>1. store \in [Validator -> Store]  BY DEF TypeOK
<1>2. store' = [store EXCEPT ![n] = [s EXCEPT !.send_vote = v]] /\ votes \subseteq votes'
  BY DEF send
<1>3. \A k \in Validator : store'[k].committed = store[k].committed  BY <1>1, <1>2 DEF Store
<1>4. log' = log  BY <1>3 DEF log
<1> QED  BY <1>2, <1>4, QuietStep

LEMMA ExecuteQuiet ==
    ASSUME TypeOK, NEW n \in Validator, NEW v \in Vote, NEW to \in SUBSET Validator,
           ExecuteAndVote(n, v, to)
    PROVE  logNext
<1> DEFINE s == [store[n] EXCEPT !.blocks = @ \cup {v.block}]
           w == [safety[n].last_vote EXCEPT !.timeout = v.timeout]
<1>1. store \in [Validator -> Store]  BY DEF TypeOK
<1>2. s \in Store /\ s.committed = store[n].committed
  <2>1. store[n] \in Store /\ v.block \in Block  BY <1>1 DEF Vote
  <2> QED  BY <2>1 DEF Store
<1>3. \/ store' = [store EXCEPT ![n] = s] /\ votes' = votes
      \/ Answer(safety[n], v.block) = "repeat" /\ send(n, s, w, to)
  BY DEF ExecuteAndVote
<1>4. Answer(safety[n], v.block) = "repeat" => w \in Vote
  <2>1. safety[n] \in SafetyData /\ v.block \in Block  BY DEF TypeOK, Vote
  <2>2. Answer(safety[n], v.block) = "repeat" => hasLastVote(safety[n])
    BY <2>1, BlockFacts DEF Answer, SafetyData, Round
  <2>3. hasLastVote(safety[n]) => w \in Vote  BY <2>1 DEF SafetyData, hasLastVote, Vote
  <2> QED  BY <2>2, <2>3
<1> HIDE DEF s, w
<1>5. CASE store' = [store EXCEPT ![n] = s] /\ votes' = votes
  <2>1. \A k \in Validator : store'[k].committed = store[k].committed  BY <1>1, <1>2, <1>5
  <2>2. log' = log  BY <2>1 DEF log
  <2> QED  BY <1>5, <2>2, QuietStep
<1> QED  BY <1>2, <1>3, <1>4, <1>5, SendQuiet

LEMMA CheckProposalGrows ==
    ASSUME IInv, NEW n \in Validator, NEW p \in proposals, CheckProposal(n, p)
    PROVE  grows(n)
<1> USE DEF IInv
<1> DEFINE qc == cert(Parent(p.block), p.tc)
           t == SyncUp(store[n], qc)
<1>1. store' = [store EXCEPT ![n] = t] /\ votes' = votes  BY DEF CheckProposal
<1>2. /\ p \in QuorumCert /\ Grounded(votes, p.block) /\ CertIn(votes, qc)
      /\ store[n] \in Store /\ GoodStore(votes, store[n])
  BY DEF TypeOK, Sound
<1>3. qc \in QuorumCert
  <2>1. p.block \in Block /\ Len(p.block) > 0 /\ Len(p.block) \in Nat
    BY <1>2, BlockFacts DEF Grounded
  <2>2. Len(p.block) - 1 \in 0..Len(p.block)  BY <2>1
  <2>3. Parent(p.block) \in Block  BY <2>1, <2>2, PrefixFacts DEF Parent
  <2> QED  BY <1>2, <2>3 DEF cert, QuorumCert
<1> HIDE DEF qc
<1>4. t \in Store /\ GrowsTo(store[n].committed, t.committed)
  BY <1>2, <1>3, SyncUpGood, SyncUpGrows
<1> HIDE DEF t
<1> QED  BY <1>1, <1>4, GrowsStep, Zenon

LEMMA ProcessVoteGrows ==
    ASSUME IInv, NEW n \in Validator, NEW m \in votes, ProcessVote(n, m)
    PROVE  grows(n)
<1> USE DEF IInv
<1> DEFINE s == SyncUp(store[n], m.sync)
           t == IF countsVote(n, s, m.vote) /\ replaces(s.author_to_vote[m.from], m.vote)
                THEN insertVote(s, m.from, m.vote) ELSE s
<1>1. store' = [store EXCEPT ![n] = t] /\ votes' = votes  BY DEF ProcessVote
<1>2. /\ store[n] \in Store /\ GoodStore(votes, store[n]) /\ CertIn(votes, m.sync)
      /\ m.from \in Validator /\ m.vote \in Vote /\ m.sync \in QuorumCert
  BY DEF TypeOK, Sound
<1>3. s \in Store /\ GoodStore(votes, s) /\ GrowsTo(store[n].committed, s.committed)
  BY <1>2, SyncUpGood, SyncUpGrows
<1>4. m.from \in SignedIn(votes, cert(m.vote.block, m.vote.tc))  BY <1>2 DEF SignedIn
<1> HIDE DEF s
<1>5. insertVote(s, m.from, m.vote) \in Store  BY <1>2, <1>3, <1>4, InsertVoteGood
<1>6. GrowsTo(s.committed, insertVote(s, m.from, m.vote).committed)
  BY <1>2, <1>3, InsertVoteGrows
<1>7. GrowsTo(store[n].committed, insertVote(s, m.from, m.vote).committed)
  BY <1>3, <1>6, GrowsTrans
<1>8. t \in Store /\ GrowsTo(store[n].committed, t.committed)  BY <1>3, <1>5, <1>7
<1> HIDE DEF t
<1> QED  BY <1>1, <1>8, GrowsStep, Zenon

LEMMA ProcessProposalQuiet ==
    ASSUME IInv, NEW n \in Validator, NEW p \in jobs[n], ProcessProposal(n, p)
    PROVE  logNext
<1> USE DEF IInv
<1> DEFINE v == vote(p.block, p.tc, FALSE)
           to == {GetValidProposer(Round(p.block) + 1 + p.tc)}
<1>1. ExecuteAndVote(n, v, to)  BY Zenon DEF ProcessProposal
<1>2. p \in QuorumCert  BY DEF TypeOK
<1>3. v \in Vote  BY <1>2 DEF QuorumCert, Vote, vote
<1>4. to \in SUBSET Validator
  <2>1. Round(p.block) + 1 + p.tc \in Nat  BY <1>2, BlockFacts DEF QuorumCert, Round
  <2> QED  BY <2>1, ProposerIsValidator
<1> HIDE DEF v, to
<1> QED  BY <1>1, <1>3, <1>4, ExecuteQuiet

LEMMA ProcessLocalTimeoutQuiet ==
    ASSUME IInv, NEW n \in Validator, ProcessLocalTimeout(n)
    PROVE  logNext
<1> USE DEF IInv
<1> DEFINE sent == store[n].send_vote
           hqc == store[n].hqc
           v == vote(sent.block, hqc.tc + 1, TRUE)
           w == vote(Append(hqc.block, Nil), hqc.tc, TRUE)
<1>1. store[n] \in Store /\ hqc.block \in Block /\ hqc.tc \in Nat  BY DEF TypeOK, Store, QuorumCert
<1>2. w \in Vote
  <2>1. Nil \in 0..N  BY NAssumption DEF Nil
  <2>2. Append(hqc.block, Nil) \in Block  BY <1>1, <2>1, AppendFacts
  <2> QED  BY <1>1, <2>2 DEF vote, Vote
<1>3. sent # None => v \in Vote  BY <1>1 DEF Store, Vote, vote
<1>4. \/ sent # None /\ send(n, store[n], v, Validator)
      \/ ExecuteAndVote(n, w, Validator)
  BY Zenon DEF ProcessLocalTimeout
<1> HIDE DEF sent, v, w
<1> QED  BY <1>1, <1>2, <1>3, <1>4, SendQuiet, ExecuteQuiet

LEMMA SignVoteQuiet ==
    ASSUME IInv, NEW n \in Validator, NEW w \in voting[n], SignVote(n, w)
    PROVE  logNext
<1> USE DEF IInv
<1>1. store[n] \in Store /\ send(n, store[n], w.vote, w.to)  BY DEF TypeOK, SignVote
<1>2. w.vote \in Vote /\ w.to \in SUBSET Validator  BY DEF TypeOK
<1> QED  BY <1>1, <1>2, SendQuiet

\* What a step does to the commits: one validator's grow, or nobody's change.
LEMMA StepGrowsOrQuiet == IInv /\ [Next]_vars => logNext \/ \E n \in Validator : grows(n)
<1> SUFFICES ASSUME IInv, [Next]_vars PROVE logNext \/ \E n \in Validator : grows(n)  OBVIOUS
<1>1. ASSUME NEW n \in Validator, GenerateProposal(n) PROVE logNext
  BY <1>1, QuietStep DEF GenerateProposal, log
<1>2. CASE UNCHANGED vars  BY <1>2, QuietStep DEF vars, log
<1>3. CASE Next
  <2> PICK n \in Validator :
        \/ GenerateProposal(n)
        \/ \E p \in proposals : CheckProposal(n, p)
        \/ \E p \in jobs[n] : ProcessProposal(n, p)
        \/ ProcessLocalTimeout(n)
        \/ \E w \in voting[n] : SignVote(n, w)
        \/ \E m \in votes : ProcessVote(n, m)
    BY <1>3 DEF Next
  <2> QED
    BY <1>1, CheckProposalGrows, ProcessVoteGrows, ProcessProposalQuiet,
       ProcessLocalTimeoutQuiet, SignVoteQuiet
<1> QED  BY <1>2, <1>3

LEMMA LogStep == IInv /\ CommitAgreement' /\ [Next]_vars => logNext
<1>1. CommitAgreement' => (OneVotePerRound' => CL!OneChain(log'))
  BY DEF CommitAgreement, log, CL!OneChain, CL!prefix, prefix
<1> QED  BY <1>1, StepGrowsOrQuiet, CommitStep

\* HotStuff implements CommitLog for any number of validators: no validator takes a
\* commit back or commits below an earlier one (openRound), and while nobody has signed
\* two blocks of a round, a new commit is on one chain with everybody's.
THEOREM CommitsGrowOneChain == Spec => ImplementsLog
<1>1. Init => CL!Init
  <2> SUFFICES ASSUME Init PROVE CL!Init  OBVIOUS
  <2>1. [n \in Validator |-> store[n].committed] = [n \in Validator |-> {<<>>}]  BY DEF Init
  <2>2. OneVotePerRound = TRUE  BY DEF Init, OneVotePerRound
  <2> QED  BY <2>1, <2>2 DEF CL!Init
<1> QED
  BY <1>1, LogStep, InvAlways, CommitsAlwaysAgree, PTL DEF Spec, ImplementsLog, CL!Spec, logNext
=============================================================================
