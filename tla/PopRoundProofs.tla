--------------------------- MODULE PopRoundProofs ---------------------------
(***************************************************************************)
(* PoP's rounds, for any number of validators and observers, any           *)
(* transaction sets and any bounds: types, quorums, views, votes, closed   *)
(* and validated ledgers.                                                  *)
(***************************************************************************)
EXTENDS PopRound, FiniteSetTheorems, SequenceTheorems, TLAPS

LEMMA LedgerFacts ==
    /\ <<>> \in Ledger
    /\ \A L \in Ledger : L \in Seq(TxSet) /\ Len(L) \in 0..MaxSeq /\ (Len(L) = 0 => L = <<>>)
<1> USE BoundAssumption
<1>1. <<>> \in Ledger
  <2>1. <<>> \in Seq(TxSet) /\ Len(<<>>) = 0  BY EmptySeq
  <2>2. <<>> \in [1..0 -> TxSet]  BY <2>1, LenProperties
  <2> QED  BY <2>2 DEF Ledger
<1>2. ASSUME NEW L \in Ledger
      PROVE L \in Seq(TxSet) /\ Len(L) \in 0..MaxSeq /\ (Len(L) = 0 => L = <<>>)
  <2>1. PICK k \in 0..MaxSeq : L \in [1..k -> TxSet]  BY DEF Ledger
  <2>2. L \in Seq(TxSet) /\ Len(L) = k  BY <2>1, SeqDef, LenProperties
  <2>3. ASSUME Len(L) = 0 PROVE L = <<>>  BY <2>2, <2>3, EmptySeq
  <2> QED  BY <2>1, <2>2, <2>3
<1> QED  BY <1>1, <1>2

\* The leader's set among the proposals P is None, or one of them is the leader's.
LEMMA LeaderSetFacts ==
    ASSUME NEW P \in SUBSET Proposal, NEW L, NEW w
    PROVE  /\ leaderSet(P, L, w) \in TxSet \cup {None}
           /\ leaderSet(P, L, w) # None =>
                \E p \in P : isLeader(p.from, L, w) /\ p.set = leaderSet(P, L, w)
<1> DEFINE led == {p \in P : isLeader(p.from, L, w) /\ p.set # Empty}
           q == CHOOSE p \in led : TRUE
<1>1. CASE led = {}  BY <1>1 DEF leaderSet
<1>2. CASE led # {}
  <2>1. q \in led  BY <1>2
  <2>2. leaderSet(P, L, w) = q.set  BY <1>2 DEF leaderSet
  <2>3. q \in P /\ isLeader(q.from, L, w) /\ q.set \in TxSet  BY <2>1 DEF Proposal
  <2> QED  BY <2>2, <2>3, Zenon
<1> QED  BY <1>1, <1>2

LEMMA SelfVoteFacts ==
    ASSUME NEW n, NEW S, NEW got
    PROVE  /\ selfVote(n, S, got) \in SUBSET Validator
           /\ selfVote(n, S, got) \subseteq {n}
           /\ n \in Validator /\ S # None /\ got => n \in selfVote(n, S, got)
           /\ selfVote(n, S, got) # {} => S # None /\ got
BY DEF selfVote

\* The part of the state that clear and takeSet are about.
RoundType ==
    /\ prev \in [Node -> Ledger]
    /\ view \in [Node -> 0..MaxView]
    /\ phase \in [Node -> {"open", "establish", "accepted"}]
    /\ setID \in [Node -> TxSet \cup {None}]
    /\ result \in [Node -> TxSet \cup {None}]
    /\ voted \in [Node -> [TxSet -> SUBSET Validator]]
    /\ cached \in [Node -> [TxSet -> SUBSET Validator]]
    /\ proposals \in SUBSET Proposal

OtherType ==
    /\ toView \in [Node -> 0..MaxView]
    /\ mode \in [Node -> {"proposing", "observing", "switchedLedger"}]
    /\ proposalCache \in [Node -> SUBSET Proposal]
    /\ viewChangeReq \in [Node -> SUBSET ViewChange]
    /\ timeOutCount \in [Node -> 0..(timeoutCOUNT_ROLLBACK + 1)]

NetType ==
    /\ valid \in [Node -> Ledger]
    /\ viewChanges \in SUBSET ViewChange
    /\ sent \in SUBSET (Validator \X Ledger)

LEMMA TypeSplit == TypeOK <=> RoundType /\ OtherType /\ NetType
BY DEF TypeOK, RoundType, OtherType, NetType

LEMMA CheckVotingType ==
    ASSUME NEW n, NEW L, NEW V, NEW ph \in {"open", "establish", "accepted"}
    PROVE  checkVoting(n, L, V, ph) \subseteq {"open", "establish", "accepted"}
BY DEF checkVoting

LEMMA VotesInType ==
    ASSUME NEW P \in SUBSET Proposal, NEW S
    PROVE  votesIn(P, S) \in SUBSET Validator
BY DEF votesIn, Proposal

LEMMA ProposeType ==
    ASSUME proposals \in SUBSET Proposal, NEW V \in SUBSET Validator, NEW L \in Ledger,
           NEW w \in 0..MaxView, NEW S, V # {} => S \in TxSet
    PROVE  propose(V, L, w, S) \in SUBSET Proposal
<1>1. ASSUME NEW v \in V PROVE proposal(v, L, w, S) \in Proposal
  BY <1>1 DEF proposal, Proposal
<1> QED  BY <1>1 DEF propose

\* clear leaves the round's state well-formed.
LEMMA ClearType ==
    ASSUME RoundType, NEW n \in Node, NEW L \in Ledger, NEW w \in 0..MaxView,
           NEW P \in SUBSET Proposal, NEW S \in TxSet \cup {None}, NEW got \in BOOLEAN,
           clear(n, L, w, P, S, got)
    PROVE  RoundType'
<1> DEFINE V == votesIn(P, S) \cup selfVote(n, S, got)
<1>1. V \in SUBSET Validator  BY VotesInType, SelfVoteFacts
<1>2. prev' \in [Node -> Ledger] /\ view' \in [Node -> 0..MaxView]
  BY DEF clear, RoundType
<1>3. setID' \in [Node -> TxSet \cup {None}] /\ result' \in [Node -> TxSet \cup {None}]
  BY DEF clear, RoundType
<1>4. voted' \in [Node -> [TxSet -> SUBSET Validator]]
  <2>1. [T \in TxSet |-> IF T = S THEN V ELSE {}] \in [TxSet -> SUBSET Validator]  BY <1>1
  <2> QED  BY <2>1 DEF clear, RoundType
<1>5. cached' \in [Node -> [TxSet -> SUBSET Validator]]
  <2>1. [T \in TxSet |-> IF T \in {S, Empty} THEN {} ELSE votesIn(P, T)]
          \in [TxSet -> SUBSET Validator]
    BY VotesInType
  <2> QED  BY <2>1 DEF clear, RoundType
<1>6. phase' \in [Node -> {"open", "establish", "accepted"}]
  <2>1. checkVoting(n, L, V, "establish") \subseteq {"open", "establish", "accepted"}
    BY CheckVotingType
  <2> QED  BY <2>1, Zenon DEF clear, RoundType
<1>7. proposals' \in SUBSET Proposal
  <2>1. proposals' = propose(selfVote(n, S, got), L, w, S)  BY DEF clear
  <2>2. selfVote(n, S, got) # {} => S \in TxSet  BY SelfVoteFacts
  <2> QED  BY <2>1, <2>2, ProposeType, SelfVoteFacts DEF RoundType
<1> QED  BY <1>2, <1>3, <1>4, <1>5, <1>6, <1>7 DEF RoundType

LEMMA TakeSetType ==
    ASSUME RoundType, NEW n \in Node, NEW id \in TxSet,
           NEW W \in [TxSet -> SUBSET Validator], takeSet(n, id, W)
    PROVE  /\ result' \in [Node -> TxSet \cup {None}]
           /\ voted' \in [Node -> [TxSet -> SUBSET Validator]]
           /\ phase' \in [Node -> {"open", "establish", "accepted"}]
           /\ proposals' \in SUBSET Proposal
<1> DEFINE takes == result[n] = None /\ ~isLeader(n, prev[n], view[n])
           V == W[id] \cup selfVote(n, id, takes)
<1>1. V \in SUBSET Validator  BY SelfVoteFacts
<1>2. result' \in [Node -> TxSet \cup {None}]  BY DEF takeSet, RoundType
<1>3. voted' \in [Node -> [TxSet -> SUBSET Validator]]
  <2>1. [W EXCEPT ![id] = V] \in [TxSet -> SUBSET Validator]  BY <1>1
  <2> QED  BY <2>1 DEF takeSet, RoundType
<1>4. phase' \in [Node -> {"open", "establish", "accepted"}]
  <2>0. phase[n] \in {"open", "establish", "accepted"}  BY DEF RoundType
  <2>1. /\ checkVoting(n, prev[n], V, "establish") \subseteq {"open", "establish", "accepted"}
        /\ checkVoting(n, prev[n], V, phase[n]) \subseteq {"open", "establish", "accepted"}
    BY <2>0, CheckVotingType
  <2> QED  BY <2>0, <2>1, Zenon DEF takeSet, RoundType
<1>5. proposals' \in SUBSET Proposal
  <2>1. proposals' = propose(selfVote(n, id, takes), prev[n], view[n], id)  BY DEF takeSet
  <2>2. prev[n] \in Ledger /\ view[n] \in 0..MaxView  BY DEF RoundType
  <2>3. selfVote(n, id, takes) \in SUBSET Validator  BY SelfVoteFacts
  <2> HIDE DEF takes
  <2> QED  BY <2>1, <2>2, <2>3, ProposeType DEF RoundType
<1> QED  BY <1>2, <1>3, <1>4, <1>5

LEMMA ReplayedFacts ==
    ASSUME TypeOK, NEW n \in Node, NEW md, NEW L, NEW w
    PROVE  /\ replayed(n, md, L, w) \in SUBSET Proposal
           /\ replayed(n, md, L, w) \subseteq proposalCache[n]
           /\ \A p \in replayed(n, md, L, w) : p.prev = L /\ p.view = w
           /\ cacheAfter(n, md, L) \in SUBSET Proposal
           /\ cacheAfter(n, md, L) \subseteq proposalCache[n]
BY DEF replayed, cacheAfter, TypeOK

LEMMA StartRoundType ==
    ASSUME TypeOK, NEW n \in Node, NEW L \in Ledger, NEW got \in BOOLEAN,
           NEW md \in {"proposing", "observing", "switchedLedger"},
           NEW req \in SUBSET ViewChange, startRoundInternal(n, L, md, req, got)
    PROVE  RoundType' /\ OtherType'
<1> DEFINE P == replayed(n, md, L, 0)
<1>1. P \in SUBSET Proposal  BY ReplayedFacts
<1>2. 0 \in 0..MaxView /\ 0 \in 0..(timeoutCOUNT_ROLLBACK + 1)  BY BoundAssumption
<1>3. RoundType'
  <2>1. clear(n, L, 0, P, leaderSet(P, L, 0), got)  BY DEF startRoundInternal
  <2>2. leaderSet(P, L, 0) \in TxSet \cup {None}  BY <1>1, LeaderSetFacts
  <2>3. RoundType  BY TypeSplit
  <2> HIDE DEF P
  <2> QED  BY <1>1, <1>2, <2>1, <2>2, <2>3, ClearType
<1>4. (IF md = "proposing" THEN onNewRound(req, L) ELSE req) \in SUBSET ViewChange
  BY DEF onNewRound
<1>5. cacheAfter(n, md, L) \in SUBSET Proposal  BY ReplayedFacts, Zenon
<1>6. OtherType'
  BY <1>2, <1>4, <1>5 DEF startRoundInternal, OtherType, TypeOK
<1> QED  BY <1>3, <1>6

LEMMA ViewChangeType ==
    ASSUME TypeOK, NEW n \in Node, NEW w \in 0..MaxView, NEW got \in BOOLEAN,
           NEW md \in PreStart, NEW req \in SUBSET ViewChange, NEW timeouts \in {0, 1},
           onViewChange(n, w, md, req, got, timeouts)
    PROVE  /\ RoundType'
           /\ mode' \in [Node -> {"proposing", "observing", "switchedLedger"}]
           /\ proposalCache' \in [Node -> SUBSET Proposal]
           /\ viewChangeReq' \in [Node -> SUBSET ViewChange]
           /\ timeOutCount' \in [Node -> 0..(timeoutCOUNT_ROLLBACK + 1)]
<1> DEFINE P == replayed(n, md, prev[n], w)
<1>1. P \in SUBSET Proposal  BY ReplayedFacts
<1>2. timeouts \in 0..(timeoutCOUNT_ROLLBACK + 1)  BY BoundAssumption
<1>3. RoundType'
  <2>1. clear(n, prev[n], w, P, leaderSet(P, prev[n], w), got)  BY DEF onViewChange
  <2>2. leaderSet(P, prev[n], w) \in TxSet \cup {None}  BY <1>1, LeaderSetFacts
  <2>3. RoundType /\ prev[n] \in Ledger  BY TypeSplit DEF TypeOK
  <2> HIDE DEF P
  <2> QED  BY <1>1, <2>1, <2>2, <2>3, ClearType
<1>4. onViewChanged(req, w, Len(prev[n])) \in SUBSET ViewChange  BY DEF onViewChanged
<1>5. cacheAfter(n, md, prev[n]) \in SUBSET Proposal  BY ReplayedFacts, Zenon
<1>6. md \in {"proposing", "observing", "switchedLedger"}  BY ModeAssumption
<1> QED  BY <1>2, <1>3, <1>4, <1>5, <1>6 DEF onViewChange, TypeOK

\* What a node does on a view change.
LEMMA CheckChangeViewType ==
    ASSUME TypeOK, NEW n \in Node, NEW w \in 1..MaxView, NEW tv \in 0..MaxView, NEW got \in BOOLEAN,
           NEW req \in SUBSET ViewChange, NEW timeouts \in {0, 1},
           timeouts = 1 => ~rollbackDue(n),
           \/ changeView(n, w, tv, req, got, timeouts)
           \/ changeLedger(n, w, req)
           \/ keepView(n, w, tv, req, timeouts)
    PROVE  RoundType' /\ OtherType'
<1>1. CASE changeView(n, w, tv, req, got, timeouts)
  <2>1. PICK md \in PreStart : onViewChange(n, w, md, req, got, timeouts)  BY <1>1 DEF changeView
  <2>2. toView' \in [Node -> 0..MaxView]  BY <1>1 DEF changeView, TypeOK
  <2>3. w \in 0..MaxView  BY BoundAssumption
  <2> QED  BY <2>1, <2>2, <2>3, ViewChangeType DEF OtherType
<1>2. CASE changeLedger(n, w, req)
  BY <1>2, StartRoundType, Zenon DEF changeLedger
<1>3. CASE keepView(n, w, tv, req, timeouts)
  <2>1. timeOutCount[n] + timeouts \in 0..(timeoutCOUNT_ROLLBACK + 1)
    BY BoundAssumption DEF rollbackDue, TypeOK
  <2>2. OtherType'  BY <1>3, <2>1 DEF keepView, OtherType, TypeOK
  <2>3. RoundType'  BY <1>3 DEF keepView, RoundType, TypeOK
  <2> QED  BY <2>2, <2>3
<1> QED  BY <1>1, <1>2, <1>3

LEMMA PeerProposalType ==
    ASSUME TypeOK, NEW n \in Node, NEW p \in Proposal, NEW got \in BOOLEAN,
           peerProposal(n, p, got)
    PROVE  RoundType'
<1> DEFINE W == votesAfter(n, p.from, p.set)
<1>0. p.set \in TxSet /\ p.from \in Validator  BY DEF Proposal
<1>1. W \in [TxSet -> SUBSET Validator]
  BY <1>0 DEF votesAfter, TypeOK
<1>2. cached' \in [Node -> [TxSet -> SUBSET Validator]]
  <2>1. cachedAfter(n, p.from, p.set) \in [TxSet -> SUBSET Validator]
    BY <1>0 DEF cachedAfter, TypeOK
  <2> QED  BY <2>1 DEF peerProposal, TypeOK
<1>3. setID' \in [Node -> TxSet \cup {None}]  BY <1>0 DEF peerProposal, TypeOK
<1>4. prev' = prev /\ view' = view  BY DEF peerProposal
<1>5. CASE takeSet(n, p.set, W)
  <2>1. RoundType  BY TypeSplit
  <2> HIDE DEF W
  <2>2. /\ result' \in [Node -> TxSet \cup {None}]
        /\ voted' \in [Node -> [TxSet -> SUBSET Validator]]
        /\ phase' \in [Node -> {"open", "establish", "accepted"}]
        /\ proposals' \in SUBSET Proposal
    BY <1>0, <1>1, <1>5, <2>1, TakeSetType
  <2> QED  BY <1>2, <1>3, <1>4, <2>2 DEF RoundType, TypeOK
<1>6. CASE ~takeSet(n, p.set, W)
  <2>1. voted' = [voted EXCEPT ![n] = W] /\ result' = result /\ proposals' = proposals
    BY <1>6 DEF peerProposal
  <2>2. phase' \in [Node -> {"open", "establish", "accepted"}]
    <3> DEFINE id == IF leads(n, p.from, p.set) THEN p.set ELSE setID[n]
    <3>1. phase[n] \in {"open", "establish", "accepted"}  BY DEF TypeOK
    <3>2. checkVoting(n, prev[n], W[id], phase[n]) \subseteq {"open", "establish", "accepted"}
      BY <3>1, CheckVotingType
    <3> QED  BY <1>6, <3>1, <3>2, Zenon DEF peerProposal, TypeOK
  <2> HIDE DEF W
  <2>3. voted' \in [Node -> [TxSet -> SUBSET Validator]]  BY <1>1, <2>1 DEF TypeOK
  <2> QED  BY <1>2, <1>3, <1>4, <2>1, <2>2, <2>3 DEF RoundType, TypeOK
<1> QED  BY <1>5, <1>6

LEMMA TypeInit == Init => TypeOK
<1> SUFFICES ASSUME Init PROVE TypeOK  OBVIOUS
<1>1. 0 \in 0..MaxView /\ 0 \in 0..(timeoutCOUNT_ROLLBACK + 1)  BY BoundAssumption
<1> QED  BY <1>1, LedgerFacts, ModeAssumption, Zenon DEF Init, TypeOK

LEMMA TypeStep == TypeOK /\ [Next]_vars => TypeOK'
<1> SUFFICES ASSUME TypeOK, [Next]_vars PROVE TypeOK'  OBVIOUS
<1>0. RoundType /\ OtherType /\ NetType  BY TypeSplit
<1>t. ASSUME RoundType', OtherType', NetType' PROVE TypeOK'
  BY <1>t DEF TypeOK, RoundType, OtherType, NetType
<1>1. ASSUME NEW n \in Node, NEW S \in TxSet, phaseCollecting(n, S) PROVE TypeOK'
  <2>1. n \in Validator /\ prev[n] \in Ledger /\ view[n] \in 0..MaxView
    BY <1>1 DEF phaseCollecting, collects, TypeOK
  <2>2. proposals' \in SUBSET Proposal
    BY <1>1, <2>1, ProposeType DEF phaseCollecting, TypeOK
  <2>3. voted' \in [Node -> [TxSet -> SUBSET Validator]]
    BY <1>1, <2>1 DEF phaseCollecting, TypeOK
  <2>4. phase' \in [Node -> {"open", "establish", "accepted"}]
    <3>1. checkVoting(n, prev[n], {n}, "establish") \subseteq {"open", "establish", "accepted"}
      BY CheckVotingType
    <3> QED  BY <1>1, <3>1, Zenon DEF phaseCollecting, TypeOK
  <2>5. RoundType'  BY <1>1, <2>2, <2>3, <2>4, Zenon DEF phaseCollecting, RoundType, TypeOK
  <2>6. OtherType' /\ NetType'  BY <1>0, <1>1 DEF phaseCollecting, OtherType, NetType
  <2> QED  BY <1>t, <2>5, <2>6
<1>2. ASSUME NEW n \in Node, NEW S \in TxSet, gotTxSet(n, S) PROVE TypeOK'
  <2>1. takeSet(n, S, voted[n]) /\ voted[n] \in [TxSet -> SUBSET Validator]
    BY <1>2 DEF gotTxSet, TypeOK
  <2>2. /\ result' \in [Node -> TxSet \cup {None}]
        /\ voted' \in [Node -> [TxSet -> SUBSET Validator]]
        /\ phase' \in [Node -> {"open", "establish", "accepted"}]
        /\ proposals' \in SUBSET Proposal
    BY <1>0, <2>1, TakeSetType
  <2> QED  BY <1>2, <2>2 DEF gotTxSet, TypeOK
<1>3. ASSUME NEW n \in Node, NEW p \in proposals, saveNextProposal(n, p) PROVE TypeOK'
  <2>1. proposalCache' \in [Node -> SUBSET Proposal]  BY <1>3 DEF saveNextProposal, TypeOK
  <2> QED  BY <1>3, <2>1 DEF saveNextProposal, TypeOK
<1>4. ASSUME NEW n \in Node, NEW p \in proposals, NEW got \in BOOLEAN, peerProposal(n, p, got)
      PROVE TypeOK'
  <2>1. p \in Proposal  BY DEF TypeOK
  <2>2. RoundType'  BY <1>4, <2>1, PeerProposalType
  <2>3. OtherType' /\ NetType'  BY <1>0, <1>4 DEF peerProposal, OtherType, NetType
  <2> QED  BY <1>t, <2>2, <2>3
<1>5. ASSUME NEW n \in Node, NEW got \in BOOLEAN, checkTimeout(n, got) PROVE TypeOK'
  <2> DEFINE w == view[n] + 1
             vc == viewChange(n, w, prev[n])
             req == recvViewChange(viewChangeReq[n], vc)
  <2>1. n \in Validator /\ w \in 1..MaxView /\ ~rollbackDue(n)
    BY <1>5, BoundAssumption DEF checkTimeout, TypeOK
  <2>2. vc \in ViewChange  BY <2>1 DEF viewChange, ViewChange, TypeOK
  <2>3. req \in SUBSET ViewChange
    <3> HIDE DEF vc
    <3> QED  BY <2>2 DEF recvViewChange, TypeOK
  <2>4. changeView(n, w, w, req, got, 1) \/ keepView(n, w, w, req, 1)  BY <1>5 DEF checkTimeout
  <2>5. NetType'
    <3>1. viewChanges' = viewChanges \cup {vc} /\ valid' = valid /\ sent' = sent
      BY <1>5 DEF checkTimeout
    <3> HIDE DEF vc
    <3> QED  BY <2>2, <3>1 DEF NetType, TypeOK
  <2> HIDE DEF w, vc, req
  <2>6. w \in 0..MaxView  BY <2>1, BoundAssumption
  <2>7. RoundType' /\ OtherType'
    BY <2>1, <2>3, <2>4, <2>6, CheckChangeViewType
  <2> QED  BY <1>t, <2>5, <2>7
<1>6. ASSUME NEW n \in Node, NEW vc \in viewChanges, NEW got \in BOOLEAN, peerViewChange(n, vc, got)
      PROVE TypeOK'
  <2> DEFINE req == recvViewChange(viewChangeReq[n], vc)
  <2>1. vc \in ViewChange /\ vc.toView \in 1..MaxView  BY DEF TypeOK, ViewChange
  <2>2. req \in SUBSET ViewChange /\ toView[n] \in 0..MaxView  BY <2>1 DEF recvViewChange, TypeOK
  <2>3. NetType'  BY <1>0, <1>6 DEF peerViewChange, NetType
  <2>4. CASE phase[n] = "accepted"
    <3>1. /\ viewChangeReq' = [viewChangeReq EXCEPT ![n] = req]
          /\ UNCHANGED <<prev, view, toView, phase, mode, setID, result, voted, cached,
                         proposalCache, timeOutCount, proposals>>
      BY <1>6, <2>4 DEF peerViewChange
    <3> HIDE DEF req
    <3>2. OtherType'  BY <2>2, <3>1 DEF OtherType, TypeOK
    <3>3. RoundType'  BY <3>1 DEF RoundType, TypeOK
    <3> QED  BY <1>t, <2>3, <3>2, <3>3
  <2>5. CASE phase[n] # "accepted"
    <3>1. \/ changeView(n, vc.toView, toView[n], req, got, 0)
          \/ changeLedger(n, vc.toView, req)
          \/ keepView(n, vc.toView, toView[n], req, 0)
      BY <1>6, <2>5 DEF peerViewChange
    <3> HIDE DEF req
    <3>2. RoundType' /\ OtherType'  BY <2>1, <2>2, <3>1, CheckChangeViewType
    <3> QED  BY <1>t, <2>3, <3>2
  <2> QED  BY <2>4, <2>5
<1>7. ASSUME NEW n \in Node, NEW L \in Ledger, NEW M \in Ledger, NEW validates \in BOOLEAN,
             NEW got \in BOOLEAN, doAccept(n, L, validates, M, got)
      PROVE TypeOK'
  <2>1. PICK md \in PreStart : startRoundInternal(n, M, md, viewChangeReq[n], got)
    BY <1>7 DEF doAccept
  <2>2. md \in {"proposing", "observing", "switchedLedger"} /\ viewChangeReq[n] \in SUBSET ViewChange
    BY ModeAssumption DEF TypeOK
  <2>3. RoundType' /\ OtherType'  BY <2>1, <2>2, StartRoundType
  <2>4. NetType'
    <3>1. valid' = valid /\ viewChanges' = viewChanges  BY <1>7 DEF doAccept
    <3>2. CASE sent' = sent  BY <1>0, <3>1, <3>2 DEF NetType
    <3>3. CASE validates
      <4>1. n \in Validator /\ sent' = sent \cup {<<n, L>>}  BY <1>7, <3>3 DEF doAccept, validated
      <4>2. <<n, L>> \in Validator \X Ledger  BY <4>1
      <4> QED  BY <1>0, <3>1, <4>1, <4>2 DEF NetType
    <3> QED  BY <1>7, <3>2, <3>3 DEF doAccept
  <2> QED  BY <1>t, <2>3, <2>4
<1>8. ASSUME NEW n \in Node, NEW L \in Ledger, checkLedger(n, L) PROVE TypeOK'
  <2>1. RoundType' /\ OtherType'  BY <1>8, StartRoundType, Zenon DEF checkLedger, TypeOK
  <2>2. NetType'  BY <1>0, <1>8 DEF checkLedger, NetType
  <2> QED  BY <1>t, <2>1, <2>2
<1>9. ASSUME NEW n \in Node, rollback(n) PROVE TypeOK'
  <2>0. startRoundInternal(n, valid[n], "switchedLedger", {}, FALSE) /\ valid[n] \in Ledger
    BY <1>9, Zenon DEF rollback, TypeOK
  <2>1. RoundType' /\ OtherType'
    <3>1. {} \in SUBSET ViewChange /\ FALSE \in BOOLEAN  OBVIOUS
    <3>2. "switchedLedger" \in {"proposing", "observing", "switchedLedger"}  OBVIOUS
    <3> QED  BY <2>0, <3>1, <3>2, StartRoundType, Zenon
  <2>2. NetType'  BY <1>0, <1>9 DEF rollback, NetType
  <2> QED  BY <1>t, <2>1, <2>2
<1>10. ASSUME NEW n \in Node, NEW L \in Ledger, checkLedgerAccept(n, L) PROVE TypeOK'
  BY <1>10 DEF checkLedgerAccept, TypeOK
<1>11. CASE UNCHANGED vars  BY <1>11 DEF vars, TypeOK
<1> QED
  BY <1>1, <1>2, <1>3, <1>4, <1>5, <1>6, <1>7, <1>8, <1>9, <1>10, <1>11 DEF Next

\* The variables of PoP's rounds keep their types: in particular timeOutCount_ never
\* passes the rollback limit by more than one, since timerEntry rolls back before
\* it looks at the time again.
THEOREM TypeCorrect == Spec => []TypeOK
BY TypeInit, TypeStep, PTL DEF Spec

-----------------------------------------------------------------------------
(* Quorums.                                                                *)

LEMMA ValidatorFinite == IsFiniteSet(Validator) /\ Cardinality(Validator) = N
<1>1. N \in Nat /\ 0 \in Int /\ N - 1 \in Int  BY SizeAssumption
<1> QED  BY <1>1, FS_Interval, SizeAssumption DEF Validator

LEMMA QuorumNat == quorum \in Nat /\ quorum > 0 /\ quorum + quorum > N
<1>1. CASE N < 4  BY <1>1, SizeAssumption DEF quorum
<1>2. CASE N >= 4
  <2>1. quorum = N - ((N - 1) \div 3)  BY <1>2, SizeAssumption DEF quorum
  <2>2. (N - 1) \div 3 \in Nat /\ 3 * ((N - 1) \div 3) <= N - 1  BY <1>2, SizeAssumption
  <2> QED  BY <1>2, <2>1, <2>2, SizeAssumption
<1> QED  BY <1>1, <1>2, SizeAssumption

\* A larger set of validators is a quorum, too.
LEMMA QuorumGrows ==
    ASSUME NEW S, NEW T, S \subseteq T, T \subseteq Validator, Cardinality(S) >= quorum
    PROVE  Cardinality(T) >= quorum
<1>1. IsFiniteSet(T)  BY ValidatorFinite, FS_Subset
<1>2. Cardinality(S) <= Cardinality(T) /\ Cardinality(S) \in Nat /\ Cardinality(T) \in Nat
  BY <1>1, FS_Subset, FS_CardinalityType
<1> QED  BY <1>2, QuorumNat

LEMMA QuorumsIntersect ==
    ASSUME NEW S \in SUBSET Validator, NEW T \in SUBSET Validator,
           Cardinality(S) >= quorum, Cardinality(T) >= quorum
    PROVE  \E v \in Validator : v \in S /\ v \in T
<1>1. Cardinality(S) \in Nat /\ Cardinality(T) \in Nat
  BY ValidatorFinite, FS_Subset, FS_CardinalityType
<1>2. Cardinality(S) + Cardinality(T) > Cardinality(Validator)
  BY <1>1, ValidatorFinite, QuorumNat, SizeAssumption
<1>3. S \cap T # {}  BY <1>2, ValidatorFinite, FS_MajoritiesIntersect
<1> QED  BY <1>3

-----------------------------------------------------------------------------
(* Views.                                                                  *)

\* The view w of L can be entered: a quorum asked for it and for each view before.
Asked(L, w) == \A u \in 1..w : Cardinality(askers(u, L)) >= quorum

\* The inductive invariant: nobody asks for a view before the one below it could be
\* entered, and the view changes that a node has filed were sent.
ViewInv ==
    /\ \A n \in Node : Asked(prev[n], view[n])
    /\ \A vc \in viewChanges : Asked(vc.prev, vc.toView - 1)
    /\ \A n \in Node : viewChangeReq[n] \subseteq viewChanges

LEMMA AskedGrows ==
    ASSUME viewChanges \subseteq viewChanges', NEW L, NEW w, Asked(L, w)
    PROVE  Asked(L, w)'
<1> SUFFICES ASSUME NEW u \in 1..w PROVE Cardinality(askers(u, L)') >= quorum  BY DEF Asked
<1>1. askers(u, L) \subseteq askers(u, L)' /\ askers(u, L)' \subseteq Validator  BY DEF askers
<1>2. Cardinality(askers(u, L)) >= quorum  BY DEF Asked
<1> QED  BY <1>1, <1>2, QuorumGrows

\* A round starts in view 0, with view changes that were filed.
LEMMA StartRoundAsked ==
    ASSUME TypeOK, ViewInv, NEW n \in Node, NEW L, NEW md, NEW req, req \subseteq viewChanges',
           NEW got, startRoundInternal(n, L, md, req, got), viewChanges \subseteq viewChanges',
           \A vc \in viewChanges' : Asked(vc.prev, vc.toView - 1)'
    PROVE  ViewInv'
<1>1. /\ prev' = [prev EXCEPT ![n] = L] /\ view' = [view EXCEPT ![n] = 0]
      /\ viewChangeReq' = [viewChangeReq EXCEPT ![n] =
                              IF md = "proposing" THEN onNewRound(req, L) ELSE req]
  BY DEF startRoundInternal, clear
<1>2. ASSUME NEW m \in Node PROVE Asked(prev[m], view[m])'
  <2>1. CASE m = n
    <3>1. prev'[m] = L /\ view'[m] = 0  BY <1>1, <2>1 DEF TypeOK
    <3> QED  BY <3>1, SMTT(30) DEF Asked
  <2>2. CASE m # n
    <3>1. prev'[m] = prev[m] /\ view'[m] = view[m]  BY <1>1, <2>2 DEF TypeOK
    <3> QED  BY <3>1, AskedGrows, Zenon DEF ViewInv
  <2> QED  BY <2>1, <2>2, Zenon
<1>3. ASSUME NEW m \in Node PROVE viewChangeReq'[m] \subseteq viewChanges'
  BY <1>1, Zenon DEF onNewRound, ViewInv, TypeOK
<1> QED  BY <1>2, <1>3 DEF ViewInv

\* A step that leaves the rounds and views alone.
LEMMA AskedUnchanged ==
    ASSUME ViewInv, prev' = prev, view' = view, viewChanges \subseteq viewChanges',
           \A vc \in viewChanges' : Asked(vc.prev, vc.toView - 1)',
           \A m \in Node : viewChangeReq'[m] \subseteq viewChanges'
    PROVE  ViewInv'
<1>1. ASSUME NEW m \in Node PROVE Asked(prev[m], view[m])'
  BY AskedGrows DEF ViewInv
<1> QED  BY <1>1, Zenon DEF ViewInv

\* checkChangeView enters a view that can be entered, or view 0 of a ledger.
LEMMA CheckChangeViewAsked ==
    ASSUME TypeOK, TypeOK', NEW n \in Node, NEW w \in 1..MaxView, NEW tv, NEW got,
           NEW req, req \subseteq viewChanges', NEW timeouts,
           \A vc \in viewChanges' : Asked(vc.prev, vc.toView - 1)',
           viewChanges \subseteq viewChanges', ViewInv,
           \/ changeView(n, w, tv, req, got, timeouts)
           \/ changeLedger(n, w, req)
           \/ keepView(n, w, tv, req, timeouts)
    PROVE  ViewInv'
<1>0. viewChanges' \in SUBSET ViewChange  BY DEF TypeOK
<1>1. CASE changeView(n, w, tv, req, got, timeouts)
  <2>1. PICK md \in PreStart : onViewChange(n, w, md, req, got, timeouts)  BY <1>1, Zenon DEF changeView
  <2>2. /\ prev' = [prev EXCEPT ![n] = prev[n]] /\ view' = [view EXCEPT ![n] = w]
        /\ viewChangeReq' = [viewChangeReq EXCEPT ![n] = onViewChanged(req, w, Len(prev[n]))]
    BY <2>1 DEF onViewChange, clear
  <2>3. Cardinality(askedBy(req, w, prev[n])) >= quorum
    BY <1>1, Zenon DEF changeView, haveConsensus, shouldTriggerViewChange
  <2>4. ASSUME NEW L, L = prev[n] PROVE Asked(L, w)'
    <3>1. ASSUME NEW u \in 1..w PROVE Cardinality(askers(u, L)') >= quorum
      <4>1. CASE u = w
        <5>1. askedBy(req, w, L) \subseteq askers(w, L)'
          <6> SUFFICES ASSUME NEW r \in req, r.toView = w, r.prev = L PROVE r.from \in askers(w, L)'
            BY DEF askedBy
          <6>1. r \in ViewChange /\ r \in viewChanges'  BY <1>0
          <6>2. r = viewChange(r.from, w, L) /\ r.from \in Validator
            BY <6>1 DEF ViewChange, viewChange
          <6> QED  BY <6>1, <6>2 DEF askers
        <5>2. askers(w, L)' \subseteq Validator  BY DEF askers
        <5> QED  BY <2>3, <2>4, <4>1, <5>1, <5>2, QuorumGrows
      <4>2. CASE u # w
        <5>1. askedBy(req, w, L) # {}
          <6>1. Cardinality({}) = 0  BY FS_EmptySet
          <6> QED  BY <2>3, <2>4, <6>1, QuorumNat
        <5>2. PICK r \in req : r.toView = w /\ r.prev = L  BY <5>1 DEF askedBy
        <5>3. Asked(L, w - 1)'  BY <5>2
        <5>4. u \in 1..(w - 1)  BY <4>2, BoundAssumption
        <5> QED  BY <5>3, <5>4 DEF Asked
      <4> QED  BY <4>1, <4>2
    <3> QED  BY <3>1 DEF Asked
  <2>5. ASSUME NEW m \in Node PROVE Asked(prev[m], view[m])'
    <3>1. CASE m = n
      <4>1. prev'[n] = prev[n] /\ view'[n] = w  BY <2>2 DEF TypeOK
      <4> QED  BY <2>4, <3>1, <4>1
    <3>2. CASE m # n
      <4>1. prev'[m] = prev[m] /\ view'[m] = view[m]  BY <2>2, <3>2 DEF TypeOK
      <4> QED  BY <4>1, AskedGrows, Zenon DEF ViewInv
    <3> QED  BY <3>1, <3>2
  <2>6. ASSUME NEW m \in Node PROVE viewChangeReq'[m] \subseteq viewChanges'
    BY <2>2, Zenon DEF onViewChanged, ViewInv, TypeOK
  <2> QED  BY <2>5, <2>6, Zenon DEF ViewInv
<1>2. CASE changeLedger(n, w, req)
  BY <1>2, StartRoundAsked, Zenon DEF changeLedger
<1>3. CASE keepView(n, w, tv, req, timeouts)
  <2>1. /\ prev' = prev /\ view' = view
        /\ viewChangeReq' = [viewChangeReq EXCEPT ![n] = req]
    BY <1>3, Zenon DEF keepView
  <2>2. \A m \in Node : viewChangeReq'[m] \subseteq viewChanges'  BY <2>1, Zenon DEF ViewInv, TypeOK
  <2> QED  BY <2>1, <2>2, AskedUnchanged
<1> QED  BY <1>1, <1>2, <1>3

LEMMA ViewInit == Init => ViewInv
<1> SUFFICES ASSUME Init PROVE ViewInv  OBVIOUS
<1>1. ASSUME NEW n \in Node PROVE Asked(prev[n], view[n])
  <2>1. view[n] = 0  BY <1>1, Zenon DEF Init
  <2>2. 1..0 = {}  OBVIOUS
  <2> QED  BY <2>1, <2>2, Zenon DEF Asked
<1>2. viewChanges = {}  BY DEF Init
<1>3. ASSUME NEW n \in Node PROVE viewChangeReq[n] \subseteq viewChanges
  <2>1. viewChangeReq[n] = {}  BY <1>3, Zenon DEF Init
  <2> QED  BY <2>1
<1> QED  BY <1>1, <1>2, <1>3, Zenon DEF ViewInv

LEMMA ViewStep == TypeOK /\ TypeOK' /\ ViewInv /\ [Next]_vars => ViewInv'
<1> SUFFICES ASSUME TypeOK, TypeOK', ViewInv, [Next]_vars PROVE ViewInv'  OBVIOUS
<1>0. ASSUME viewChanges' = viewChanges
      PROVE  /\ \A vc \in viewChanges' : Asked(vc.prev, vc.toView - 1)'
             /\ viewChanges \subseteq viewChanges'
             /\ \A m \in Node : viewChangeReq[m] \subseteq viewChanges'
  BY <1>0 DEF ViewInv, Asked, askers
<1>1. CASE UNCHANGED <<prev, view, viewChangeReq, viewChanges>>
  BY <1>0, <1>1, AskedUnchanged
<1>2. ASSUME NEW n \in Node, NEW S \in TxSet, phaseCollecting(n, S) \/ gotTxSet(n, S)
      PROVE  ViewInv'
  BY <1>1, <1>2 DEF phaseCollecting, gotTxSet
<1>3. ASSUME NEW n \in Node, NEW p \in proposals, saveNextProposal(n, p) PROVE ViewInv'
  BY <1>1, <1>3 DEF saveNextProposal
<1>4. ASSUME NEW n \in Node, NEW p \in proposals, NEW got \in BOOLEAN, peerProposal(n, p, got)
      PROVE  ViewInv'
  BY <1>1, <1>4, Zenon DEF peerProposal
<1>5. ASSUME NEW n \in Node, NEW got \in BOOLEAN, checkTimeout(n, got) PROVE ViewInv'
  <2> DEFINE w == view[n] + 1
             vc == viewChange(n, w, prev[n])
             req == recvViewChange(viewChangeReq[n], vc)
  <2>1. w \in 1..MaxView /\ w - 1 = view[n] /\ viewChanges' = viewChanges \cup {vc}
    <3>1. view[n] \in 0..MaxView /\ view[n] + 1 <= MaxView  BY <1>5 DEF checkTimeout, TypeOK
    <3>2. w \in 1..MaxView /\ w - 1 = view[n]  BY <3>1, BoundAssumption
    <3>3. viewChanges' = viewChanges \cup {vc}  BY <1>5, Zenon DEF checkTimeout
    <3> QED  BY <3>2, <3>3
  <2>2. changeView(n, w, w, req, got, 1) \/ keepView(n, w, w, req, 1)  BY <1>5, Zenon DEF checkTimeout
  <2>3. vc.prev = prev[n] /\ vc.toView = w  BY DEF viewChange
  <2> HIDE DEF vc
  <2>4. req \subseteq viewChanges'  BY <2>1 DEF recvViewChange, ViewInv
  <2> HIDE DEF w, req
  <2>5. \A c \in viewChanges' : Asked(c.prev, c.toView - 1)'
    <3> SUFFICES ASSUME NEW c \in viewChanges' PROVE Asked(c.prev, c.toView - 1)'  OBVIOUS
    <3>1. Asked(c.prev, c.toView - 1)
      <4>1. CASE c \in viewChanges  BY <4>1 DEF ViewInv
      <4>2. CASE c = vc  BY <2>1, <2>3, <4>2 DEF ViewInv
      <4> QED  BY <2>1, <4>1, <4>2
    <3> QED  BY <2>1, <3>1, AskedGrows
  <2> QED  BY <2>1, <2>2, <2>4, <2>5, CheckChangeViewAsked
<1>6. ASSUME NEW n \in Node, NEW vc \in viewChanges, NEW got \in BOOLEAN, peerViewChange(n, vc, got)
      PROVE  ViewInv'
  <2> DEFINE req == recvViewChange(viewChangeReq[n], vc)
  <2>1. viewChanges' = viewChanges /\ vc.toView \in 1..MaxView
    BY <1>6, Zenon DEF peerViewChange, TypeOK, ViewChange
  <2>2. req \subseteq viewChanges'  BY <2>1, Zenon DEF recvViewChange, ViewInv
  <2>3. CASE phase[n] = "accepted"
    <3>1. prev' = prev /\ view' = view /\ viewChangeReq' = [viewChangeReq EXCEPT ![n] = req]
      BY <1>6, <2>3 DEF peerViewChange
    <3> HIDE DEF req
    <3>2. \A m \in Node : viewChangeReq'[m] \subseteq viewChanges'
      BY <2>1, <2>2, <3>1, Zenon DEF ViewInv, TypeOK
    <3> QED  BY <1>0, <2>1, <3>1, <3>2, AskedUnchanged
  <2>4. CASE phase[n] # "accepted"
    <3>1. \/ changeView(n, vc.toView, toView[n], req, got, 0)
          \/ changeLedger(n, vc.toView, req)
          \/ keepView(n, vc.toView, toView[n], req, 0)
      BY <1>6, <2>4, Zenon DEF peerViewChange
    <3> HIDE DEF req
    <3> QED  BY <1>0, <2>1, <2>2, <3>1, CheckChangeViewAsked, Zenon
  <2> QED  BY <2>3, <2>4
<1>7. ASSUME NEW n \in Node, NEW L, NEW md, NEW req, req \subseteq viewChanges, NEW got,
             startRoundInternal(n, L, md, req, got), viewChanges' = viewChanges
      PROVE  ViewInv'
  BY <1>0, <1>7, StartRoundAsked, Zenon
<1>8. ASSUME NEW n \in Node, NEW L \in Ledger, NEW M \in Ledger, NEW validates \in BOOLEAN,
             NEW got \in BOOLEAN, doAccept(n, L, validates, M, got)
      PROVE  ViewInv'
  <2>1. viewChangeReq[n] \subseteq viewChanges  BY Zenon DEF ViewInv
  <2> QED  BY <1>7, <1>8, <2>1, Zenon DEF doAccept
<1>9. ASSUME NEW n \in Node, NEW L \in Ledger, checkLedger(n, L) PROVE ViewInv'
  <2>1. viewChangeReq[n] \subseteq viewChanges  BY DEF ViewInv
  <2> QED  BY <1>7, <1>9, <2>1, Zenon DEF checkLedger
<1>10. ASSUME NEW n \in Node, rollback(n) PROVE ViewInv'
  <2>1. {} \subseteq viewChanges  OBVIOUS
  <2> QED  BY <1>7, <1>10, <2>1, Zenon DEF rollback
<1>11. ASSUME NEW n \in Node, NEW L \in Ledger, checkLedgerAccept(n, L) PROVE ViewInv'
  BY <1>1, <1>11 DEF checkLedgerAccept
<1>12. CASE UNCHANGED vars  BY <1>1, <1>12 DEF vars
<1> QED
  BY <1>2, <1>3, <1>4, <1>5, <1>6, <1>8, <1>9, <1>10, <1>11, <1>12 DEF Next

\* A node never enters a view that a quorum did not ask for on top of its ledger,
\* nor one whose predecessors were not asked for (checkTimeout, checkChangeView).
THEOREM NeverSkipsView == Spec => []NoViewSkipped
<1>1. ViewInv => NoViewSkipped  BY DEF ViewInv, Asked, NoViewSkipped
<1> QED  BY <1>1, TypeInit, TypeStep, ViewInit, ViewStep, PTL DEF Spec

-----------------------------------------------------------------------------
(* Votes.                                                                  *)

\* What is known of a node's stance in its round and view.
Stance(n) ==
    /\ \A S \in TxSet : voted[n][S] \cup cached[n][S] \subseteq voters(prev[n], view[n], S)
    /\ setID[n] # None => leaderProposed(prev[n], view[n], setID[n])
    /\ result[n] # None => setID[n] # None /\ leaderProposed(prev[n], view[n], result[n])
    /\ result[n] # None /\ n \in Validator => n \in voters(prev[n], view[n], result[n])
    /\ phase[n] = "accepted" =>
        /\ result[n] # None
        /\ \/ Cardinality(voted[n][setID[n]]) >= quorum
           \/ Cardinality(proposersFinished(prev[n])) >= quorum

\* The inductive invariant: besides the stance of every node, what it has cached was
\* sent, and the leader's proposal is behind every vote.
VoteInv ==
    /\ VoteFollowsLeader
    /\ \A n \in Node : Stance(n)
    /\ \A n \in Node : proposalCache[n] \subseteq proposals

LEMMA FinishedGrows ==
    ASSUME sent \subseteq sent', NEW L, Cardinality(proposersFinished(L)) >= quorum
    PROVE  Cardinality(proposersFinished(L)') >= quorum
<1>1. proposersFinished(L) \subseteq proposersFinished(L)'  BY Zenon DEF proposersFinished
<1>2. proposersFinished(L)' \subseteq Validator  BY DEF proposersFinished
<1> QED  BY <1>1, <1>2, QuorumGrows

LEMMA VotersGrow ==
    ASSUME proposals \subseteq proposals', NEW L, NEW w, NEW S
    PROVE  /\ voters(L, w, S) \subseteq voters(L, w, S)'
           /\ leaderProposed(L, w, S) => leaderProposed(L, w, S)'
BY DEF voters, leaderProposed

\* A step of another node does not disturb the stance of a node.
LEMMA StanceFrame ==
    ASSUME NEW m \in Node, Stance(m), proposals \subseteq proposals', sent \subseteq sent',
           prev'[m] = prev[m], view'[m] = view[m], phase'[m] = phase[m], setID'[m] = setID[m],
           result'[m] = result[m], voted'[m] = voted[m], cached'[m] = cached[m]
    PROVE  Stance(m)'
<1> SUFFICES ASSUME NEW L, NEW w, L = prev[m], w = view[m] PROVE Stance(m)'  OBVIOUS
<1>1. \A S : /\ voters(L, w, S) \subseteq voters(L, w, S)'
             /\ leaderProposed(L, w, S) => leaderProposed(L, w, S)'
  BY VotersGrow
<1>2. Cardinality(proposersFinished(L)) >= quorum => Cardinality(proposersFinished(L)') >= quorum
  BY FinishedGrows
<1>3. /\ (\A S \in TxSet : voted[m][S] \cup cached[m][S] \subseteq voters(L, w, S))'
      /\ (setID[m] # None => leaderProposed(L, w, setID[m]))'
      /\ (result[m] # None => setID[m] # None /\ leaderProposed(L, w, result[m]))'
      /\ (result[m] # None /\ m \in Validator => m \in voters(L, w, result[m]))'
  BY <1>1 DEF Stance, voters, leaderProposed
<1>4. (phase[m] = "accepted" =>
        /\ result[m] # None
        /\ \/ Cardinality(voted[m][setID[m]]) >= quorum
           \/ Cardinality(proposersFinished(L)) >= quorum)'
  BY <1>2, Zenon DEF Stance
<1> QED  BY <1>3, <1>4 DEF Stance

\* A proposal for S in view w of L is a vote for it.
LEMMA ProposalIsVote ==
    ASSUME NEW p \in Proposal, NEW P, p \in P
    PROVE  p.from \in {v \in Validator : proposal(v, p.prev, p.view, p.set) \in P}
<1>1. p = proposal(p.from, p.prev, p.view, p.set) /\ p.from \in Validator  BY DEF Proposal, proposal
<1> QED  BY <1>1

\* New votes for what the leader proposed keep VoteFollowsLeader.
LEMMA ProposeFollows ==
    ASSUME VoteFollowsLeader, NEW V \in SUBSET Validator, NEW L, NEW w, NEW S,
           proposals' = propose(V, L, w, S), V # {} => leaderProposed(L, w, S)'
    PROVE  VoteFollowsLeader'
<1> SUFFICES ASSUME NEW p \in proposals' PROVE leaderProposed(p.prev, p.view, p.set)'
  BY DEF VoteFollowsLeader
<1>1. proposals \subseteq proposals'  BY DEF propose
<1>2. CASE p \in proposals
  BY <1>1, <1>2, VotersGrow DEF VoteFollowsLeader
<1>3. ASSUME NEW v \in V, p = proposal(v, L, w, S) PROVE leaderProposed(p.prev, p.view, p.set)'
  BY <1>3 DEF proposal
<1> QED  BY <1>2, <1>3 DEF propose

\* A round or view that starts: the stance rests on the replayed proposals only.
LEMMA ClearStance ==
    ASSUME TypeOK, VoteInv, NEW n \in Node, NEW L \in Ledger, NEW w \in 0..MaxView,
           NEW P \in SUBSET proposalCache[n], \A p \in P : p.prev = L /\ p.view = w,
           NEW S, S = leaderSet(P, L, w), NEW got \in BOOLEAN,
           clear(n, L, w, P, S, got), sent \subseteq sent'
    PROVE  proposals \subseteq proposals' /\ VoteFollowsLeader' /\ Stance(n)'
<1> DEFINE self == selfVote(n, S, got)
           V == votesIn(P, S) \cup self
<1>0. P \in SUBSET Proposal /\ P \subseteq proposals  BY DEF TypeOK, VoteInv
<1>1. /\ prev'[n] = L /\ view'[n] = w /\ setID'[n] = S
      /\ result'[n] = IF got THEN S ELSE None
      /\ voted'[n] = [T \in TxSet |-> IF T = S THEN V ELSE {}]
      /\ cached'[n] = [T \in TxSet |-> IF T \in {S, Empty} THEN {} ELSE votesIn(P, T)]
      /\ proposals' = propose(self, L, w, S)
  BY DEF clear, TypeOK
<1>2. proposals \subseteq proposals'  BY <1>1 DEF propose
<1>3. ASSUME NEW T PROVE votesIn(P, T) \subseteq voters(L, w, T)'
  <2> SUFFICES ASSUME NEW p \in P, p.set = T PROVE p.from \in voters(L, w, T)'  BY DEF votesIn
  <2>1. p \in Proposal /\ p \in proposals' /\ p.prev = L /\ p.view = w  BY <1>0, <1>2
  <2> QED  BY <2>1, ProposalIsVote DEF voters
<1>4. self \subseteq voters(L, w, S)'
  <2>1. self \subseteq Validator  BY SelfVoteFacts
  <2> HIDE DEF self
  <2> QED  BY <1>1, <2>1 DEF propose, voters
<1>5. ASSUME S # None PROVE leaderProposed(L, w, S)'
  <2>1. PICK p \in P : isLeader(p.from, L, w) /\ p.set = S  BY <1>0, <1>5, LeaderSetFacts
  <2>2. p.from \in votesIn(P, S)  BY <2>1 DEF votesIn
  <2>3. p.from \in voters(L, w, S)' /\ p.from \in Validator  BY <1>0, <1>3, <2>2 DEF Proposal
  <2> QED  BY <2>1, <2>3 DEF leaderProposed
<1>6. VoteFollowsLeader'
  <2>1. self \in SUBSET Validator /\ (self # {} => leaderProposed(L, w, S)')
    BY <1>5, SelfVoteFacts
  <2> HIDE DEF self
  <2> QED  BY <1>1, <2>1, ProposeFollows DEF VoteInv
<1>7. ASSUME phase'[n] = "accepted"
      PROVE  /\ S # None /\ got
             /\ Cardinality(V) >= quorum \/ Cardinality(proposersFinished(L)') >= quorum
  <2>1. S # None /\ got /\ "accepted" \in checkVoting(n, L, V, "establish")
    BY <1>7 DEF clear, TypeOK
  <2>2. Cardinality(V) >= quorum \/ movedOn(n, L)  BY <2>1 DEF checkVoting
  <2>3. movedOn(n, L) => Cardinality(proposersFinished(L)') >= quorum
    BY FinishedGrows DEF movedOn
  <2> QED  BY <2>1, <2>2, <2>3
<1>8. result'[n] # None /\ n \in Validator => n \in self  BY <1>1, SelfVoteFacts
<1>9. S # None => S \in TxSet  BY <1>0, LeaderSetFacts
<1> HIDE DEF self, V
<1>10. \A T \in TxSet : voted'[n][T] \cup cached'[n][T] \subseteq voters(L, w, T)'
  <2> TAKE T \in TxSet
  <2>1. V \subseteq voters(L, w, S)'  BY <1>3, <1>4 DEF V
  <2>2. votesIn(P, T) \subseteq voters(L, w, T)'  BY <1>3
  <2>3. /\ voted'[n][T] = IF T = S THEN V ELSE {}
        /\ cached'[n][T] = IF T \in {S, Empty} THEN {} ELSE votesIn(P, T)
    BY <1>1
  <2>4. CASE T = S  BY <2>1, <2>3, <2>4
  <2>5. CASE T # S  BY <2>2, <2>3, <2>5
  <2> QED  BY <2>4, <2>5
<1>11. ASSUME phase'[n] = "accepted" PROVE V = voted'[n][S]  BY <1>1, <1>7, <1>9, <1>11
<1>12. /\ (setID[n] # None => leaderProposed(L, w, setID[n]))'
       /\ (result[n] # None => setID[n] # None /\ leaderProposed(L, w, result[n]))'
       /\ (result[n] # None /\ n \in Validator => n \in voters(L, w, result[n]))'
  <2>1. result'[n] # None => result'[n] = S  BY <1>1
  <2> QED  BY <1>1, <1>4, <1>5, <1>8, <2>1
<1>13. (phase[n] = "accepted" =>
          /\ result[n] # None
          /\ \/ Cardinality(voted[n][setID[n]]) >= quorum
             \/ Cardinality(proposersFinished(L)) >= quorum)'
  BY <1>1, <1>7, <1>11
<1>14. (\A T \in TxSet : voted[n][T] \cup cached[n][T] \subseteq voters(L, w, T))'
  BY <1>10
<1>15. Stance(n)'  BY <1>1, <1>12, <1>13, <1>14, Zenon DEF Stance
<1> QED  BY <1>2, <1>6, <1>15

\* A node that gets the leader's set takes its stance on real votes.
LEMMA TakeSetStance ==
    ASSUME TypeOK, VoteInv, NEW n \in Node, NEW id \in TxSet,
           NEW W \in [TxSet -> SUBSET Validator], NEW C \in [TxSet -> SUBSET Validator],
           \A T \in TxSet : W[T] \cup C[T] \subseteq voters(prev[n], view[n], T),
           leaderProposed(prev[n], view[n], id), takeSet(n, id, W), phase[n] # "accepted",
           setID'[n] = id, cached'[n] = C, prev' = prev, view' = view, sent' = sent
    PROVE  proposals \subseteq proposals' /\ VoteFollowsLeader' /\ Stance(n)'
<1> SUFFICES ASSUME NEW L, NEW w, L = prev[n], w = view[n]
             PROVE  proposals \subseteq proposals' /\ VoteFollowsLeader' /\ Stance(n)'
  OBVIOUS
<1> DEFINE takes == result[n] = None /\ ~isLeader(n, L, w)
           self == selfVote(n, id, takes)
           V == W[id] \cup self
<1>1. /\ proposals' = propose(self, L, w, id)
      /\ result'[n] = IF takes THEN id ELSE result[n]
      /\ voted'[n] = [W EXCEPT ![id] = V]
      /\ prev'[n] = L /\ view'[n] = w
  BY Zenon DEF takeSet, TypeOK
<1>2. phase'[n] \in IF takes THEN checkVoting(n, L, V, "establish")
                    ELSE IF result[n] # None THEN checkVoting(n, L, V, phase[n])
                    ELSE {phase[n]}
  BY Zenon DEF takeSet, TypeOK
<1>3. self \in SUBSET Validator /\ (n \in Validator /\ takes => n \in self)
  BY SelfVoteFacts, SetAssumption, Zenon
<1>4. proposals \subseteq proposals'  BY <1>1, Zenon DEF propose
<1>5. leaderProposed(L, w, id)'  BY <1>4, VotersGrow
<1> HIDE DEF self
<1>6. VoteFollowsLeader'  BY <1>1, <1>3, <1>5, ProposeFollows, Zenon DEF VoteInv
<1>7. self \subseteq voters(L, w, id)'  BY <1>1, <1>3 DEF propose, voters
<1>8. (\A T \in TxSet : voted[n][T] \cup cached[n][T] \subseteq voters(L, w, T))'
  <2> SUFFICES ASSUME NEW T \in TxSet
               PROVE  voted'[n][T] \cup cached'[n][T] \subseteq voters(L, w, T)'
    OBVIOUS
  <2>1. voters(L, w, T) \subseteq voters(L, w, T)'  BY <1>4, VotersGrow
  <2>2. voted'[n][T] = IF T = id THEN V ELSE W[T]  BY <1>1
  <2>3. W[T] \subseteq voters(L, w, T) /\ C[T] \subseteq voters(L, w, T)  OBVIOUS
  <2>4. CASE T = id  BY <1>7, <2>1, <2>2, <2>3, <2>4
  <2>5. CASE T # id  BY <2>1, <2>2, <2>3, <2>5
  <2> QED  BY <2>4, <2>5
<1>9. id # None  BY SetAssumption
<1>10. /\ (setID[n] # None => leaderProposed(L, w, setID[n]))'
       /\ (result[n] # None => setID[n] # None /\ leaderProposed(L, w, result[n]))'
       /\ (result[n] # None /\ n \in Validator => n \in voters(L, w, result[n]))'
  <2>1. CASE takes  BY <1>1, <1>3, <1>5, <1>7, <1>9, <2>1, Zenon
  <2>2. CASE ~takes
    <3>1. result'[n] = result[n]  BY <1>1, <2>2
    <3>2. /\ result[n] # None => leaderProposed(L, w, result[n])
          /\ result[n] # None /\ n \in Validator => n \in voters(L, w, result[n])
      BY DEF VoteInv, Stance
    <3>3. \A T : /\ voters(L, w, T) \subseteq voters(L, w, T)'
                 /\ leaderProposed(L, w, T) => leaderProposed(L, w, T)'
      BY <1>4, VotersGrow
    <3> QED  BY <1>5, <1>9, <3>1, <3>2, <3>3
  <2> QED  BY <2>1, <2>2, Zenon
<1>11. (phase[n] = "accepted" =>
          /\ result[n] # None
          /\ \/ Cardinality(voted[n][setID[n]]) >= quorum
             \/ Cardinality(proposersFinished(L)) >= quorum)'
  <2> SUFFICES ASSUME phase'[n] = "accepted"
               PROVE  /\ result'[n] # None
                      /\ \/ Cardinality(voted'[n][id]) >= quorum
                         \/ Cardinality(proposersFinished(L)') >= quorum
    OBVIOUS
  <2>1. voted'[n][id] = V  BY <1>1
  <2>2. result'[n] # None  BY <1>1, <1>2, <1>9
  <2>3. Cardinality(V) >= quorum \/ movedOn(n, L)  BY <1>2, Zenon DEF checkVoting
  <2>4. movedOn(n, L) => Cardinality(proposersFinished(L)') >= quorum
    BY FinishedGrows, Zenon DEF movedOn
  <2> QED  BY <2>1, <2>2, <2>3, <2>4
<1>12. Stance(n)'  BY <1>1, <1>8, <1>10, <1>11, Zenon DEF Stance
<1> QED  BY <1>4, <1>6, <1>12, Zenon

\* A vote that is counted or cached, and what the leader's makes of the cached ones.
LEMMA VotesAfterReal ==
    ASSUME TypeOK, VoteInv, NEW n \in Node, NEW p \in proposals, forThisView(n, p)
    PROVE  /\ votesAfter(n, p.from, p.set) \in [TxSet -> SUBSET Validator]
           /\ cachedAfter(n, p.from, p.set) \in [TxSet -> SUBSET Validator]
           /\ \A T \in TxSet :
                votesAfter(n, p.from, p.set)[T] \cup cachedAfter(n, p.from, p.set)[T]
                  \subseteq voters(prev[n], view[n], T)
           /\ p.set \in TxSet
           /\ isLeader(p.from, prev[n], view[n]) => leaderProposed(prev[n], view[n], p.set)
<1> DEFINE v == p.from
           S == p.set
<1>1. p \in Proposal /\ S \in TxSet /\ v \in Validator /\ p.prev = prev[n] /\ p.view = view[n]
  BY DEF TypeOK, Proposal, forThisView
<1>2. v \in voters(prev[n], view[n], S)  BY <1>1, ProposalIsVote DEF voters
<1>3. \A T \in TxSet : voted[n][T] \cup cached[n][T] \subseteq voters(prev[n], view[n], T)
  BY Zenon DEF VoteInv, Stance
<1>4. voted[n] \in [TxSet -> SUBSET Validator] /\ cached[n] \in [TxSet -> SUBSET Validator]
  BY DEF TypeOK
<1> HIDE DEF v, S
<1>5. /\ votesAfter(n, v, S) \in [TxSet -> SUBSET Validator]
      /\ cachedAfter(n, v, S) \in [TxSet -> SUBSET Validator]
  BY <1>1, <1>4 DEF votesAfter, cachedAfter
<1>6. ASSUME NEW T \in TxSet
      PROVE votesAfter(n, v, S)[T] \cup cachedAfter(n, v, S)[T] \subseteq voters(prev[n], view[n], T)
  <2>1. votesAfter(n, v, S)[T] \subseteq voters(prev[n], view[n], T)
    BY <1>1, <1>2, <1>3, <1>4 DEF votesAfter
  <2>2. cachedAfter(n, v, S)[T] \subseteq voters(prev[n], view[n], T)
    BY <1>1, <1>2, <1>3, <1>4 DEF cachedAfter
  <2> QED  BY <2>1, <2>2
<1>7. isLeader(v, prev[n], view[n]) => leaderProposed(prev[n], view[n], S)
  BY <1>1, <1>2 DEF leaderProposed
<1> QED  BY <1>1, <1>5, <1>6, <1>7 DEF v, S

LEMMA PeerProposalStance ==
    ASSUME TypeOK, VoteInv, NEW n \in Node, NEW p \in proposals, NEW got \in BOOLEAN,
           peerProposal(n, p, got)
    PROVE  proposals \subseteq proposals' /\ VoteFollowsLeader' /\ Stance(n)'
<1> SUFFICES ASSUME NEW L, NEW w, L = prev[n], w = view[n]
             PROVE  proposals \subseteq proposals' /\ VoteFollowsLeader' /\ Stance(n)'
  OBVIOUS
<1> DEFINE S == p.set
           v == p.from
           id == IF leads(n, v, S) THEN S ELSE setID[n]
           W == votesAfter(n, v, S)
           C == cachedAfter(n, v, S)
<1>0. forThisView(n, p)  BY Zenon DEF peerProposal
<1>1. /\ W \in [TxSet -> SUBSET Validator] /\ C \in [TxSet -> SUBSET Validator]
      /\ \A T \in TxSet : W[T] \cup C[T] \subseteq voters(L, w, T)
      /\ S \in TxSet
      /\ isLeader(v, L, w) => leaderProposed(L, w, S)
  BY <1>0, VotesAfterReal
<1>2. /\ setID'[n] = id /\ cached'[n] = C /\ prev' = prev /\ view' = view /\ sent' = sent
      /\ phase[n] # "accepted"
  BY DEF peerProposal, forThisView, TypeOK
<1>3. id # None => leaderProposed(L, w, id)
  <2>1. CASE leads(n, v, S)  BY <1>1, <2>1 DEF leads
  <2>2. CASE ~leads(n, v, S)  BY <2>2 DEF VoteInv, Stance
  <2> QED  BY <2>1, <2>2, Zenon
<1>4. \/ got /\ id = S /\ takeSet(n, S, W)
      \/ /\ voted' = [voted EXCEPT ![n] = W]
         /\ \E ph \in IF result[n] # None /\ ~got THEN checkVoting(n, prev[n], W[id], phase[n])
                      ELSE {phase[n]} :
              phase' = [phase EXCEPT ![n] = ph]
         /\ result' = result /\ proposals' = proposals
  BY Zenon DEF peerProposal
<1>5. result[n] # None => id # None
  BY <1>1, SetAssumption, Zenon DEF VoteInv, Stance
<1> HIDE DEF S, v, id, W, C
<1>6. CASE got /\ id = S /\ takeSet(n, S, W)
  <2>1. S # None  BY <1>1, SetAssumption
  <2> QED  BY <1>1, <1>2, <1>3, <1>6, <2>1, TakeSetStance, ZenonT(30)
<1>7. CASE /\ voted' = [voted EXCEPT ![n] = W]
           /\ \E ph \in IF result[n] # None /\ ~got THEN checkVoting(n, prev[n], W[id], phase[n])
                        ELSE {phase[n]} :
                phase' = [phase EXCEPT ![n] = ph]
           /\ result' = result /\ proposals' = proposals
  <2>1. voted'[n] = W /\ result'[n] = result[n]  BY <1>7 DEF TypeOK
  <2>2. phase'[n] \in IF result[n] # None /\ ~got THEN checkVoting(n, L, W[id], phase[n])
                      ELSE {phase[n]}
    BY <1>7 DEF TypeOK
  <2>3. VoteFollowsLeader'
    BY <1>7 DEF VoteInv, VoteFollowsLeader, leaderProposed, voters
  <2>4. \A T : voters(L, w, T)' = voters(L, w, T) /\ leaderProposed(L, w, T)' = leaderProposed(L, w, T)
    BY <1>7 DEF voters, leaderProposed
  <2>5. /\ result[n] # None => leaderProposed(L, w, result[n])
        /\ result[n] # None /\ n \in Validator => n \in voters(L, w, result[n])
    BY Zenon DEF VoteInv, Stance
  <2>6. (\A T \in TxSet : voted[n][T] \cup cached[n][T] \subseteq voters(L, w, T))'
    BY <1>1, <1>2, <2>1, <2>4, Zenon
  <2>7. /\ (setID[n] # None => leaderProposed(L, w, setID[n]))'
        /\ (result[n] # None => setID[n] # None /\ leaderProposed(L, w, result[n]))'
        /\ (result[n] # None /\ n \in Validator => n \in voters(L, w, result[n]))'
    BY <1>2, <1>3, <1>5, <2>1, <2>4, <2>5
  <2>8. (phase[n] = "accepted" =>
          /\ result[n] # None
          /\ \/ Cardinality(voted[n][setID[n]]) >= quorum
             \/ Cardinality(proposersFinished(L)) >= quorum)'
    <3> SUFFICES ASSUME phase'[n] = "accepted"
                 PROVE  /\ result[n] # None
                        /\ \/ Cardinality(W[id]) >= quorum
                           \/ Cardinality(proposersFinished(L)') >= quorum
      BY <1>2, <2>1, Zenon
    <3>1. result[n] # None /\ "accepted" \in checkVoting(n, L, W[id], phase[n])
      BY <1>2, <2>2
    <3>2. Cardinality(W[id]) >= quorum \/ movedOn(n, L)  BY <1>2, <3>1 DEF checkVoting
    <3>3. movedOn(n, L) => Cardinality(proposersFinished(L)') >= quorum
      BY <1>2, FinishedGrows, Zenon DEF movedOn
    <3> QED  BY <3>1, <3>2, <3>3
  <2>9. Stance(n)'  BY <1>2, <2>6, <2>7, <2>8, Zenon DEF Stance
  <2> QED  BY <1>7, <2>3, <2>9
<1> QED  BY <1>4, <1>6, <1>7

\* The leader's own vote.
LEMMA CollectingStance ==
    ASSUME TypeOK, VoteInv, NEW n \in Node, NEW S \in TxSet, phaseCollecting(n, S)
    PROVE  proposals \subseteq proposals' /\ VoteFollowsLeader' /\ Stance(n)'
<1> SUFFICES ASSUME NEW L, NEW w, L = prev[n], w = view[n]
             PROVE  proposals \subseteq proposals' /\ VoteFollowsLeader' /\ Stance(n)'
  OBVIOUS
<1>1. /\ n \in Validator /\ isLeader(n, L, w) /\ phase[n] = "open" /\ S # None
      /\ prev'[n] = L /\ view'[n] = w /\ setID'[n] = S /\ result'[n] = S
      /\ cached' = cached /\ sent' = sent /\ proposals' = propose({n}, L, w, S)
  BY SetAssumption DEF phaseCollecting, collects, TypeOK
<1>2. voted'[n] = IF S = Empty THEN voted[n] ELSE [voted[n] EXCEPT ![S] = {n}]
  BY DEF phaseCollecting, TypeOK
<1>3. proposals \subseteq proposals' /\ n \in voters(L, w, S)'  BY <1>1 DEF propose, voters
<1>4. leaderProposed(L, w, S)'  BY <1>1, <1>3 DEF leaderProposed
<1>5. VoteFollowsLeader'
  <2>1. {n} \in SUBSET Validator  BY <1>1
  <2> QED  BY <1>1, <1>4, <2>1, ProposeFollows, Zenon DEF VoteInv
<1>6. (\A T \in TxSet : voted[n][T] \cup cached[n][T] \subseteq voters(L, w, T))'
  <2> SUFFICES ASSUME NEW T \in TxSet
               PROVE  voted'[n][T] \cup cached[n][T] \subseteq voters(L, w, T)'
    BY <1>1, Zenon
  <2>1. voters(L, w, T) \subseteq voters(L, w, T)'  BY <1>3, VotersGrow
  <2>2. voted[n][T] \cup cached[n][T] \subseteq voters(L, w, T)  BY DEF VoteInv, Stance
  <2>3. voted'[n][T] = voted[n][T] \/ (T = S /\ voted'[n][T] = {n})  BY <1>2 DEF TypeOK
  <2> QED  BY <1>3, <2>1, <2>2, <2>3
<1>7. (phase[n] = "accepted" =>
          /\ result[n] # None
          /\ \/ Cardinality(voted[n][setID[n]]) >= quorum
             \/ Cardinality(proposersFinished(L)) >= quorum)'
  <2> SUFFICES ASSUME phase'[n] = "accepted"
               PROVE  \/ Cardinality(voted'[n][S]) >= quorum
                      \/ Cardinality(proposersFinished(L)') >= quorum
    BY <1>1
  <2>1. S # Empty /\ "accepted" \in checkVoting(n, L, {n}, "establish")
    BY <1>1 DEF phaseCollecting, TypeOK
  <2>2. voted'[n][S] = {n}  BY <1>2, <2>1, Zenon DEF TypeOK
  <2>3. Cardinality({n}) >= quorum \/ movedOn(n, L)  BY <2>1 DEF checkVoting
  <2>4. movedOn(n, L) => Cardinality(proposersFinished(L)') >= quorum
    BY <1>1, FinishedGrows, Zenon DEF movedOn
  <2> QED  BY <2>2, <2>3, <2>4
<1>8. Stance(n)'  BY <1>1, <1>3, <1>4, <1>6, <1>7, Zenon DEF Stance
<1> QED  BY <1>3, <1>5, <1>8

\* One node's step keeps the invariant if its own new stance is sound.
LEMMA VoteInvFrom ==
    ASSUME VoteInv, NEW n \in Node, sent \subseteq sent',
           proposals \subseteq proposals' /\ VoteFollowsLeader' /\ Stance(n)',
           \A m \in Node \ {n} :
                /\ prev'[m] = prev[m] /\ view'[m] = view[m] /\ phase'[m] = phase[m]
                /\ setID'[m] = setID[m] /\ result'[m] = result[m]
                /\ voted'[m] = voted[m] /\ cached'[m] = cached[m],
           \A m \in Node : proposalCache'[m] \subseteq proposals'
    PROVE  VoteInv'
<1>1. ASSUME NEW m \in Node \ {n} PROVE Stance(m)'
  <2>1. Stance(m)  BY DEF VoteInv
  <2> QED  BY <2>1, StanceFrame
<1>2. \A m \in Node : Stance(m)'
  <2> TAKE m \in Node
  <2>1. CASE m = n  BY <2>1
  <2>2. CASE m # n  BY <1>1, <2>2
  <2> QED  BY <2>1, <2>2
<1> QED  BY <1>2, Zenon DEF VoteInv

LEMMA StartRoundVotes ==
    ASSUME TypeOK, VoteInv, NEW n \in Node, NEW L \in Ledger, NEW md, NEW req, NEW got \in BOOLEAN,
           startRoundInternal(n, L, md, req, got), sent \subseteq sent'
    PROVE  VoteInv'
<1> DEFINE P == replayed(n, md, L, 0)
<1>1. P \in SUBSET proposalCache[n] /\ \A p \in P : p.prev = L /\ p.view = 0  BY ReplayedFacts, SMTT(30)
<1>2. clear(n, L, 0, P, leaderSet(P, L, 0), got)  BY DEF startRoundInternal
<1>3. 0 \in 0..MaxView  BY BoundAssumption
<1> HIDE DEF P
<1>4. proposals \subseteq proposals' /\ VoteFollowsLeader' /\ Stance(n)'
  BY <1>1, <1>2, <1>3, ClearStance, Zenon
<1>5. \A m \in Node \ {n} :
        /\ prev'[m] = prev[m] /\ view'[m] = view[m] /\ phase'[m] = phase[m]
        /\ setID'[m] = setID[m] /\ result'[m] = result[m]
        /\ voted'[m] = voted[m] /\ cached'[m] = cached[m]
  BY <1>2 DEF clear, TypeOK
<1>6. \A m \in Node : proposalCache'[m] \subseteq proposals'
  <2>1. proposalCache' = [proposalCache EXCEPT ![n] = cacheAfter(n, md, L)]
    BY DEF startRoundInternal
  <2>2. cacheAfter(n, md, L) \subseteq proposalCache[n]  BY ReplayedFacts, Zenon
  <2>3. \A m \in Node : proposalCache'[m] \subseteq proposalCache[m]  BY <2>1, <2>2 DEF TypeOK
  <2> QED  BY <1>4, <2>3, Zenon DEF VoteInv
<1> QED  BY <1>4, <1>5, <1>6, VoteInvFrom

LEMMA ViewChangeVotes ==
    ASSUME TypeOK, VoteInv, NEW n \in Node, NEW w \in 0..MaxView, NEW md, NEW req,
           NEW got \in BOOLEAN, NEW timeouts, onViewChange(n, w, md, req, got, timeouts),
           sent \subseteq sent'
    PROVE  VoteInv'
<1> SUFFICES ASSUME NEW L \in Ledger, L = prev[n] PROVE VoteInv'  BY DEF TypeOK
<1> DEFINE P == replayed(n, md, L, w)
<1>1. P \in SUBSET proposalCache[n] /\ \A p \in P : p.prev = L /\ p.view = w  BY ReplayedFacts, SMTT(30)
<1>2. clear(n, L, w, P, leaderSet(P, L, w), got)  BY DEF onViewChange
<1> HIDE DEF P
<1>4. proposals \subseteq proposals' /\ VoteFollowsLeader' /\ Stance(n)'
  BY <1>1, <1>2, ClearStance, Zenon
<1>5. \A m \in Node \ {n} :
        /\ prev'[m] = prev[m] /\ view'[m] = view[m] /\ phase'[m] = phase[m]
        /\ setID'[m] = setID[m] /\ result'[m] = result[m]
        /\ voted'[m] = voted[m] /\ cached'[m] = cached[m]
  BY <1>2 DEF clear, TypeOK
<1>6. \A m \in Node : proposalCache'[m] \subseteq proposals'
  <2>1. proposalCache' = [proposalCache EXCEPT ![n] = cacheAfter(n, md, L)]
    BY DEF onViewChange
  <2>2. cacheAfter(n, md, L) \subseteq proposalCache[n]  BY ReplayedFacts
  <2>3. \A m \in Node : proposalCache'[m] \subseteq proposalCache[m]  BY <2>1, <2>2 DEF TypeOK
  <2> QED  BY <1>4, <2>3, Zenon DEF VoteInv
<1> QED  BY <1>4, <1>5, <1>6, VoteInvFrom, Zenon

\* A step that leaves the votes alone.
LEMMA VotesUnchanged ==
    ASSUME TypeOK, VoteInv, sent \subseteq sent', \A m \in Node : proposalCache'[m] \subseteq proposals,
           UNCHANGED <<prev, view, phase, setID, result, voted, cached, proposals>>
    PROVE  VoteInv'
<1>1. VoteFollowsLeader'  BY DEF VoteInv, VoteFollowsLeader, leaderProposed, voters
<1>2. ASSUME NEW m \in Node PROVE Stance(m)'
  <2>1. Stance(m)  BY DEF VoteInv
  <2> QED  BY <2>1, StanceFrame
<1> QED  BY <1>1, <1>2 DEF VoteInv

LEMMA CheckChangeViewVotes ==
    ASSUME TypeOK, VoteInv, NEW n \in Node, NEW w \in 1..MaxView, NEW tv, NEW got \in BOOLEAN,
           NEW req, NEW timeouts, sent' = sent,
           \/ changeView(n, w, tv, req, got, timeouts)
           \/ changeLedger(n, w, req)
           \/ keepView(n, w, tv, req, timeouts)
    PROVE  VoteInv'
<1>1. CASE changeView(n, w, tv, req, got, timeouts)
  <2>1. PICK md \in PreStart : onViewChange(n, w, md, req, got, timeouts)  BY <1>1 DEF changeView
  <2>2. w \in 0..MaxView /\ sent \subseteq sent'  BY BoundAssumption
  <2> QED  BY <2>1, <2>2, ViewChangeVotes
<1>2. CASE changeLedger(n, w, req)
  <2>1. PICK L \in Ledger : startRoundInternal(n, L, "switchedLedger", req, FALSE)
    BY <1>2, Zenon DEF changeLedger
  <2>2. FALSE \in BOOLEAN /\ sent \subseteq sent'  OBVIOUS
  <2> QED  BY <2>1, <2>2, StartRoundVotes, Zenon
<1>3. CASE keepView(n, w, tv, req, timeouts)
  <2>1. /\ UNCHANGED <<prev, view, phase, setID, result, voted, cached, proposals>>
        /\ proposalCache' = proposalCache
    BY <1>3 DEF keepView
  <2>2. \A m \in Node : proposalCache'[m] \subseteq proposals  BY <2>1, Zenon DEF VoteInv
  <2> QED  BY <2>1, <2>2, VotesUnchanged
<1> QED  BY <1>1, <1>2, <1>3

LEMMA VoteInit == Init => VoteInv
<1> SUFFICES ASSUME Init PROVE VoteInv  OBVIOUS
<1>1. ASSUME NEW n \in Node PROVE Stance(n)
  BY <1>1 DEF Init, Stance
<1>2. VoteFollowsLeader /\ \A n \in Node : proposalCache[n] \subseteq proposals
  BY DEF Init, VoteFollowsLeader
<1> QED  BY <1>1, <1>2 DEF VoteInv

LEMMA VoteStep == TypeOK /\ VoteInv /\ [Next]_vars => VoteInv'
<1> SUFFICES ASSUME TypeOK, VoteInv, [Next]_vars PROVE VoteInv'  OBVIOUS
<1>1. ASSUME NEW n \in Node, NEW S \in TxSet, phaseCollecting(n, S) PROVE VoteInv'
  <2>1. proposals \subseteq proposals' /\ VoteFollowsLeader' /\ Stance(n)'
    BY <1>1, CollectingStance
  <2>2. \A m \in Node \ {n} :
          /\ prev'[m] = prev[m] /\ view'[m] = view[m] /\ phase'[m] = phase[m]
          /\ setID'[m] = setID[m] /\ result'[m] = result[m]
          /\ voted'[m] = voted[m] /\ cached'[m] = cached[m]
    BY <1>1 DEF phaseCollecting, TypeOK
  <2>3. sent \subseteq sent' /\ \A m \in Node : proposalCache'[m] \subseteq proposals'
    BY <1>1, <2>1, Zenon DEF phaseCollecting, VoteInv
  <2> QED  BY <2>1, <2>2, <2>3, VoteInvFrom, Zenon
<1>2. ASSUME NEW n \in Node, NEW S \in TxSet, gotTxSet(n, S) PROVE VoteInv'
  <2>1. /\ takeSet(n, S, voted[n]) /\ setID[n] = S /\ phase[n] # "accepted"
        /\ prev' = prev /\ view' = view /\ sent' = sent /\ setID' = setID /\ cached' = cached
        /\ proposalCache' = proposalCache
    BY <1>2 DEF gotTxSet
  <2>2. voted[n] \in [TxSet -> SUBSET Validator] /\ cached[n] \in [TxSet -> SUBSET Validator]
    BY DEF TypeOK
  <2>3. /\ \A T \in TxSet : voted[n][T] \cup cached[n][T] \subseteq voters(prev[n], view[n], T)
        /\ leaderProposed(prev[n], view[n], S)
    BY <2>1, SetAssumption DEF VoteInv, Stance
  <2>4. proposals \subseteq proposals' /\ VoteFollowsLeader' /\ Stance(n)'
    BY <2>1, <2>2, <2>3, TakeSetStance
  <2>5. \A m \in Node \ {n} :
          /\ prev'[m] = prev[m] /\ view'[m] = view[m] /\ phase'[m] = phase[m]
          /\ setID'[m] = setID[m] /\ result'[m] = result[m]
          /\ voted'[m] = voted[m] /\ cached'[m] = cached[m]
    BY <2>1 DEF takeSet, TypeOK
  <2>6. sent \subseteq sent' /\ \A m \in Node : proposalCache'[m] \subseteq proposals'
    BY <2>1, <2>4, Zenon DEF VoteInv
  <2> QED  BY <2>4, <2>5, <2>6, VoteInvFrom
<1>3. ASSUME NEW n \in Node, NEW p \in proposals, saveNextProposal(n, p) PROVE VoteInv'
  <2>1. /\ UNCHANGED <<prev, view, phase, setID, result, voted, cached, proposals>>
        /\ sent \subseteq sent'
    BY <1>3, Zenon DEF saveNextProposal
  <2>2. \A m \in Node : proposalCache'[m] \subseteq proposals
    BY <1>3 DEF saveNextProposal, VoteInv, TypeOK
  <2> QED  BY <2>1, <2>2, VotesUnchanged
<1>4. ASSUME NEW n \in Node, NEW p \in proposals, NEW got \in BOOLEAN, peerProposal(n, p, got)
      PROVE VoteInv'
  <2>1. proposals \subseteq proposals' /\ VoteFollowsLeader' /\ Stance(n)'
    BY <1>4, PeerProposalStance
  <2>2. \A m \in Node \ {n} :
          /\ prev'[m] = prev[m] /\ view'[m] = view[m] /\ phase'[m] = phase[m]
          /\ setID'[m] = setID[m] /\ result'[m] = result[m]
          /\ voted'[m] = voted[m] /\ cached'[m] = cached[m]
    <3>1. \A m \in Node \ {n} : /\ prev'[m] = prev[m] /\ view'[m] = view[m]
                                /\ setID'[m] = setID[m] /\ cached'[m] = cached[m]
      BY <1>4 DEF peerProposal, TypeOK
    <3>2. \A m \in Node \ {n} : /\ phase'[m] = phase[m] /\ result'[m] = result[m]
                                /\ voted'[m] = voted[m]
      BY <1>4 DEF peerProposal, takeSet, TypeOK
    <3> QED  BY <3>1, <3>2, Zenon
  <2>3. sent \subseteq sent' /\ \A m \in Node : proposalCache'[m] \subseteq proposals'
    BY <1>4, <2>1, Zenon DEF peerProposal, VoteInv
  <2> QED  BY <2>1, <2>2, <2>3, VoteInvFrom, Zenon
<1>5. ASSUME NEW n \in Node, NEW got \in BOOLEAN, checkTimeout(n, got) PROVE VoteInv'
  <2> DEFINE w == view[n] + 1
             req == recvViewChange(viewChangeReq[n], viewChange(n, w, prev[n]))
  <2>1. w \in 1..MaxView /\ sent' = sent
    BY <1>5, BoundAssumption DEF checkTimeout, TypeOK
  <2>2. changeView(n, w, w, req, got, 1) \/ keepView(n, w, w, req, 1)  BY <1>5, Zenon DEF checkTimeout
  <2> HIDE DEF w, req
  <2> QED  BY <2>1, <2>2, CheckChangeViewVotes
<1>6. ASSUME NEW n \in Node, NEW vc \in viewChanges, NEW got \in BOOLEAN, peerViewChange(n, vc, got)
      PROVE VoteInv'
  <2> DEFINE req == recvViewChange(viewChangeReq[n], vc)
  <2>1. vc.toView \in 1..MaxView /\ sent' = sent
    BY <1>6, Zenon DEF peerViewChange, TypeOK, ViewChange
  <2>2. CASE phase[n] = "accepted"
    <3>1. /\ UNCHANGED <<prev, view, phase, setID, result, voted, cached, proposals>>
          /\ proposalCache' = proposalCache /\ sent \subseteq sent'
      BY <1>6, <2>2, Zenon DEF peerViewChange
    <3>2. \A m \in Node : proposalCache'[m] \subseteq proposals  BY <3>1 DEF VoteInv
    <3> QED  BY <3>1, <3>2, VotesUnchanged
  <2>3. CASE phase[n] # "accepted"
    <3>1. \/ changeView(n, vc.toView, toView[n], req, got, 0)
          \/ changeLedger(n, vc.toView, req)
          \/ keepView(n, vc.toView, toView[n], req, 0)
      BY <1>6, <2>3 DEF peerViewChange
    <3> HIDE DEF req
    <3> QED  BY <2>1, <3>1, CheckChangeViewVotes
  <2> QED  BY <2>2, <2>3
<1>7. ASSUME NEW n \in Node, NEW L \in Ledger, NEW M \in Ledger, NEW validates \in BOOLEAN,
             NEW got \in BOOLEAN, doAccept(n, L, validates, M, got)
      PROVE VoteInv'
  <2>1. PICK md \in PreStart : startRoundInternal(n, M, md, viewChangeReq[n], got)
    BY <1>7, Zenon DEF doAccept
  <2>2. sent \subseteq sent'  BY <1>7 DEF doAccept
  <2> QED  BY <2>1, <2>2, StartRoundVotes
<1>8. ASSUME NEW n \in Node, NEW L \in Ledger, checkLedger(n, L) PROVE VoteInv'
  <2>1. /\ startRoundInternal(n, L, "switchedLedger", viewChangeReq[n], FALSE)
        /\ sent \subseteq sent' /\ FALSE \in BOOLEAN
    BY <1>8, Zenon DEF checkLedger
  <2> QED  BY <2>1, StartRoundVotes, Zenon
<1>9. ASSUME NEW n \in Node, rollback(n) PROVE VoteInv'
  <2>1. /\ startRoundInternal(n, valid[n], "switchedLedger", {}, FALSE)
        /\ sent \subseteq sent' /\ FALSE \in BOOLEAN /\ valid[n] \in Ledger
    BY <1>9, Zenon DEF rollback, TypeOK
  <2> QED  BY <2>1, StartRoundVotes, Zenon
<1>10. ASSUME NEW n \in Node, NEW L \in Ledger, checkLedgerAccept(n, L) PROVE VoteInv'
  <2>1. /\ UNCHANGED <<prev, view, phase, setID, result, voted, cached, proposals>>
        /\ proposalCache' = proposalCache /\ sent \subseteq sent'
    BY <1>10 DEF checkLedgerAccept
  <2>2. \A m \in Node : proposalCache'[m] \subseteq proposals  BY <2>1 DEF VoteInv
  <2> QED  BY <2>1, <2>2, VotesUnchanged
<1>11. CASE UNCHANGED vars
  <2>1. /\ UNCHANGED <<prev, view, phase, setID, result, voted, cached, proposals>>
        /\ proposalCache' = proposalCache /\ sent \subseteq sent'
    BY <1>11 DEF vars
  <2>2. \A m \in Node : proposalCache'[m] \subseteq proposals  BY <2>1 DEF VoteInv
  <2> QED  BY <2>1, <2>2, VotesUnchanged
<1> QED
  BY <1>1, <1>2, <1>3, <1>4, <1>5, <1>6, <1>7, <1>8, <1>9, <1>10, <1>11 DEF Next

\* Every vote that a node counts or caches was cast in its round and view
\* (peerProposalInternal and checkCache), for any number of validators.
THEOREM VotesAlwaysReal == Spec => []VotesAreReal
<1>1. VoteInv => VotesAreReal  BY DEF VoteInv, Stance, VotesAreReal
<1> QED  BY <1>1, TypeInit, TypeStep, VoteInit, VoteStep, PTL DEF Spec

\* Every vote is for what the leader of that view proposed (gotTxSet).
THEOREM VotesAlwaysFollowLeader == Spec => []VoteFollowsLeader
<1>1. VoteInv => VoteFollowsLeader  BY DEF VoteInv
<1> QED  BY <1>1, TypeInit, TypeStep, VoteInit, VoteStep, PTL DEF Spec

\* A node closes a ledger only on a set that the leader of the view proposed, with
\* a quorum of votes for the leader's last set, or behind a quorum that has moved
\* on (checkVoting and haveConsensus).
THEOREM AlwaysClosedByConsensus == Spec => []ClosedByConsensus
<1>1. TypeOK /\ VoteInv => ClosedByConsensus
  <2> SUFFICES ASSUME TypeOK, VoteInv, NEW n \in Node, phase[n] = "accepted"
               PROVE  /\ leaderProposed(prev[n], view[n], result[n])
                      /\ \/ /\ leaderProposed(prev[n], view[n], setID[n])
                            /\ Cardinality(voters(prev[n], view[n], setID[n])) >= quorum
                         \/ Cardinality(proposersFinished(prev[n])) >= quorum
    BY DEF ClosedByConsensus
  <2>1. Stance(n) /\ setID[n] \in TxSet \cup {None}  BY DEF VoteInv, TypeOK
  <2>2. /\ setID[n] \in TxSet /\ leaderProposed(prev[n], view[n], setID[n])
        /\ leaderProposed(prev[n], view[n], result[n])
        /\ voted[n][setID[n]] \subseteq voters(prev[n], view[n], setID[n])
        /\ \/ Cardinality(voted[n][setID[n]]) >= quorum
           \/ Cardinality(proposersFinished(prev[n])) >= quorum
    BY <2>1, Zenon DEF Stance
  <2>3. voters(prev[n], view[n], setID[n]) \subseteq Validator  BY DEF voters
  <2> QED  BY <2>2, <2>3, QuorumGrows
<1> QED  BY <1>1, TypeInit, TypeStep, VoteInit, VoteStep, PTL DEF Spec

-----------------------------------------------------------------------------
(* Validations.                                                            *)

\* The inductive invariant: a validator has validated one ledger of a sequence, on
\* its own vote, and a validated ledger has a quorum.
SignInv ==
    /\ SignedWasVoted
    /\ \A v \in Validator : \A K, L \in Ledger :
            <<v, K>> \in sent /\ <<v, L>> \in sent /\ Len(K) = Len(L) => K = L
    /\ \A n \in Node : valid[n] = <<>> \/ enough(valid[n])

LEMMA EnoughGrows ==
    ASSUME sent \subseteq sent', NEW L, enough(L)
    PROVE  enough(L)'
<1>1. signers(L) \subseteq signers(L)' /\ signers(L)' \subseteq Validator  BY DEF signers
<1> QED  BY <1>1, QuorumGrows DEF enough

LEMMA ClearGrows ==
    ASSUME NEW n, NEW L, NEW w, NEW P, NEW S, NEW got, clear(n, L, w, P, S, got)
    PROVE  proposals \subseteq proposals'
BY DEF clear, propose

\* Proposals are sent for good; only the accept job validates, and only
\* checkLedgerAccept sets the validated ledger.
LEMMA Sending ==
    ASSUME [Next]_vars
    PROVE  /\ proposals \subseteq proposals'
           /\ \/ UNCHANGED <<sent, valid>>
              \/ /\ valid' = valid
                 /\ \E n \in Node, L, M \in Ledger, validates, got \in BOOLEAN :
                        doAccept(n, L, validates, M, got)
              \/ /\ sent' = sent
                 /\ \E n \in Node, L \in Ledger : enough(L) /\ valid' = [valid EXCEPT ![n] = L]
<1>1. ASSUME NEW n \in Node, NEW S \in TxSet, phaseCollecting(n, S) \/ gotTxSet(n, S)
      PROVE  proposals \subseteq proposals' /\ UNCHANGED <<sent, valid>>
  BY <1>1 DEF phaseCollecting, gotTxSet, takeSet, propose
<1>2. ASSUME NEW n \in Node, NEW p \in proposals, NEW got \in BOOLEAN,
             saveNextProposal(n, p) \/ peerProposal(n, p, got)
      PROVE  proposals \subseteq proposals' /\ UNCHANGED <<sent, valid>>
  BY <1>2, Zenon DEF saveNextProposal, peerProposal, takeSet, propose
<1>3. ASSUME NEW n \in Node, NEW L, NEW md, NEW req, NEW got, startRoundInternal(n, L, md, req, got)
      PROVE  proposals \subseteq proposals'
  BY <1>3, ClearGrows DEF startRoundInternal
<1>4. ASSUME NEW n \in Node, NEW w, NEW tv, NEW req, NEW got, NEW timeouts,
             \/ changeView(n, w, tv, req, got, timeouts)
             \/ changeLedger(n, w, req)
             \/ keepView(n, w, tv, req, timeouts)
      PROVE  proposals \subseteq proposals'
  BY <1>3, <1>4, ClearGrows, Zenon DEF changeView, changeLedger, keepView, onViewChange
<1>5. ASSUME NEW n \in Node, NEW got \in BOOLEAN, checkTimeout(n, got)
      PROVE  proposals \subseteq proposals' /\ UNCHANGED <<sent, valid>>
  BY <1>4, <1>5, Zenon DEF checkTimeout
<1>6. ASSUME NEW n \in Node, NEW vc \in viewChanges, NEW got \in BOOLEAN, peerViewChange(n, vc, got)
      PROVE  proposals \subseteq proposals' /\ UNCHANGED <<sent, valid>>
  BY <1>4, <1>6, Zenon DEF peerViewChange
<1>7. ASSUME NEW n \in Node, NEW L \in Ledger, NEW M \in Ledger, NEW validates \in BOOLEAN,
             NEW got \in BOOLEAN, doAccept(n, L, validates, M, got)
      PROVE  proposals \subseteq proposals' /\ valid' = valid
  BY <1>3, <1>7 DEF doAccept
<1>8. ASSUME NEW n \in Node, NEW L \in Ledger, checkLedger(n, L) \/ rollback(n)
      PROVE  proposals \subseteq proposals' /\ UNCHANGED <<sent, valid>>
  BY <1>3, <1>8, Zenon DEF checkLedger, rollback
<1>9. ASSUME NEW n \in Node, NEW L \in Ledger, checkLedgerAccept(n, L)
      PROVE  /\ proposals \subseteq proposals' /\ sent' = sent
             /\ enough(L) /\ valid' = [valid EXCEPT ![n] = L]
  BY <1>9 DEF checkLedgerAccept
<1>10. CASE UNCHANGED vars  BY <1>10 DEF vars
<1>11. <<>> \in Ledger /\ TRUE \in BOOLEAN  BY LedgerFacts
<1>12. CASE Next
  <2>1. PICK n \in Node :
          \/ \E S \in TxSet : phaseCollecting(n, S) \/ gotTxSet(n, S)
          \/ \E p \in proposals, got \in BOOLEAN : saveNextProposal(n, p) \/ peerProposal(n, p, got)
          \/ \E got \in BOOLEAN : checkTimeout(n, got)
          \/ \E vc \in viewChanges, got \in BOOLEAN : peerViewChange(n, vc, got)
          \/ \E L, M \in Ledger, validates, got \in BOOLEAN : doAccept(n, L, validates, M, got)
          \/ \E L \in Ledger : checkLedger(n, L) \/ rollback(n)
          \/ \E L \in Ledger : checkLedgerAccept(n, L)
    BY <1>11, <1>12, Zenon DEF Next
  <2>2. CASE \E S \in TxSet : phaseCollecting(n, S) \/ gotTxSet(n, S)  BY <1>1, <2>2
  <2>3. CASE \E p \in proposals, got \in BOOLEAN : saveNextProposal(n, p) \/ peerProposal(n, p, got)
    BY <1>2, <2>3
  <2>4. CASE \E got \in BOOLEAN : checkTimeout(n, got)  BY <1>5, <2>4
  <2>5. CASE \E vc \in viewChanges, got \in BOOLEAN : peerViewChange(n, vc, got)  BY <1>6, <2>5
  <2>6. CASE \E L, M \in Ledger, validates, got \in BOOLEAN : doAccept(n, L, validates, M, got)
    BY <1>7, <2>6
  <2>7. CASE \E L \in Ledger : checkLedger(n, L) \/ rollback(n)  BY <1>8, <2>7
  <2>8. CASE \E L \in Ledger : checkLedgerAccept(n, L)  BY <1>9, <2>8
  <2> QED  BY <2>1, <2>2, <2>3, <2>4, <2>5, <2>6, <2>7, <2>8
<1> QED  BY <1>10, <1>12

LEMMA SignInit == Init => SignInv
BY DEF Init, SignInv, SignedWasVoted

LEMMA SignStep == TypeOK /\ VoteInv /\ SignInv /\ [Next]_vars => SignInv'
<1> SUFFICES ASSUME TypeOK, VoteInv, SignInv, [Next]_vars PROVE SignInv'  OBVIOUS
<1>1. proposals \subseteq proposals'  BY Sending
<1>2. ASSUME sent' = sent
      PROVE  /\ SignedWasVoted'
             /\ (\A v \in Validator : \A K, L \in Ledger :
                   <<v, K>> \in sent /\ <<v, L>> \in sent /\ Len(K) = Len(L) => K = L)'
             /\ \A L : enough(L)' = enough(L)
  <2>1. SignedWasVoted'  BY <1>1, <1>2 DEF SignInv, SignedWasVoted
  <2>2. \A L : enough(L)' = enough(L)  BY <1>2 DEF enough, signers
  <2> QED  BY <1>2, <2>1, <2>2 DEF SignInv
<1>3. CASE UNCHANGED <<sent, valid>>
  BY <1>2, <1>3 DEF SignInv, enough, signers
<1>4. CASE \E n \in Node, L \in Ledger :
             sent' = sent /\ enough(L) /\ valid' = [valid EXCEPT ![n] = L]
  <2>1. PICK n \in Node, L \in Ledger : sent' = sent /\ enough(L) /\ valid' = [valid EXCEPT ![n] = L]
    BY <1>4, Zenon
  <2>2. \A m \in Node : valid'[m] = <<>> \/ enough(valid'[m])
    BY <2>1 DEF SignInv, TypeOK
  <2>3. \A m \in Node : (valid[m] = <<>> \/ enough(valid[m]))'
    BY <2>1, <2>2, Zenon DEF enough, signers
  <2> QED  BY <1>2, <2>1, <2>3 DEF SignInv
<1>5. ASSUME valid' = valid, NEW n \in Node, NEW L \in Ledger, NEW M \in Ledger,
             NEW validates \in BOOLEAN, NEW got \in BOOLEAN, doAccept(n, L, validates, M, got)
      PROVE  SignInv'
  <2>1. CASE ~validates
    <3>1. UNCHANGED <<sent, valid>>  BY <1>5, <2>1, Zenon DEF doAccept
    <3> QED  BY <1>3, <3>1
  <2>2. CASE validates
    <3>1. /\ n \in Validator /\ sent' = sent \cup {<<n, L>>}
          /\ \A K \in Ledger : <<n, K>> \in sent => Len(K) < Len(L)
          /\ L = Append(prev[n], result[n]) /\ phase[n] = "accepted"
      BY <1>5, <2>2 DEF doAccept, validated, canValidateSeq
    <3>2. SignedWasVoted'
      <4>1. /\ result[n] \in TxSet /\ prev[n] \in Ledger /\ view[n] \in 0..MaxView
            /\ proposal(n, prev[n], view[n], result[n]) \in proposals'
        BY <1>1, <3>1 DEF VoteInv, Stance, voters, TypeOK
      <4>2. \E w \in 0..MaxView, S \in TxSet, K \in Ledger :
              L = Append(K, S) /\ proposal(n, K, w, S) \in proposals'
        BY <3>1, <4>1, Zenon
      <4>3. ASSUME NEW s \in sent'
            PROVE  \E w \in 0..MaxView, S \in TxSet, K \in Ledger :
                     s[2] = Append(K, S) /\ proposal(s[1], K, w, S) \in proposals'
        <5>1. CASE s \in sent  BY <1>1, <5>1 DEF SignInv, SignedWasVoted
        <5>2. CASE s = <<n, L>>
          <6>1. s[1] = n /\ s[2] = L  BY <5>2
          <6> QED  BY <4>2, <6>1
        <5> QED  BY <3>1, <5>1, <5>2
      <4> QED  BY <4>3 DEF SignedWasVoted
    <3>3. ASSUME NEW v \in Validator, NEW J \in Ledger, NEW K \in Ledger,
                 <<v, J>> \in sent', <<v, K>> \in sent', Len(J) = Len(K)
          PROVE  J = K
      <4>0. Len(J) \in Nat /\ Len(K) \in Nat /\ Len(L) \in Nat  BY LedgerFacts, BoundAssumption
      <4>1. \A I : <<v, I>> \in sent' => <<v, I>> \in sent \/ (v = n /\ I = L)
        BY <3>1, Zenon
      <4>2. CASE v # n  BY <3>3, <4>1, <4>2 DEF SignInv
      <4>3. CASE v = n
        <5>1. CASE <<n, J>> \in sent /\ <<n, K>> \in sent  BY <3>1, <3>3, <5>1 DEF SignInv
        <5>2. CASE <<n, J>> \in sent /\ K = L  BY <3>1, <3>3, <4>0, <5>2
        <5>3. CASE <<n, K>> \in sent /\ J = L  BY <3>1, <3>3, <4>0, <5>3
        <5> QED  BY <3>3, <4>1, <4>3, <5>1, <5>2, <5>3
      <4> QED  BY <4>2, <4>3
    <3>4. \A m \in Node : (valid[m] = <<>> \/ enough(valid[m]))'
      <4> SUFFICES ASSUME NEW m \in Node, NEW K, K = valid[m] PROVE K = <<>> \/ enough(K)'
        BY <1>5
      <4>1. K = <<>> \/ enough(K)  BY DEF SignInv
      <4> QED  BY <3>1, <4>1, EnoughGrows
    <3> QED  BY <3>2, <3>3, <3>4, Zenon DEF SignInv
  <2> QED  BY <2>1, <2>2
<1> QED  BY <1>3, <1>4, <1>5, Sending

\* Nobody validates a ledger without having voted for it (doAccept).
THEOREM SignedAlwaysVoted == Spec => []SignedWasVoted
<1>1. SignInv => SignedWasVoted  BY DEF SignInv
<1> QED
  BY <1>1, TypeInit, TypeStep, VoteInit, VoteStep, SignInit, SignStep, PTL DEF Spec

\* Through all view changes, rollbacks and switched ledgers, two validated ledgers
\* of one sequence are the same (checkLedgerAccept, canValidateSeq).
THEOREM ValidatedAlwaysAgree == Spec => []ValidatedAgree
<1>1. TypeOK /\ SignInv => ValidatedAgree
  <2> SUFFICES ASSUME TypeOK, SignInv, NEW m \in Node, NEW n \in Node,
                      Len(valid[m]) = Len(valid[n])
               PROVE  valid[m] = valid[n]
    BY DEF ValidatedAgree
  <2>1. valid[m] \in Ledger /\ valid[n] \in Ledger  BY DEF TypeOK
  <2>2. CASE valid[m] = <<>> \/ valid[n] = <<>>
    <3>1. Len(<<>>) = 0  BY EmptySeq
    <3> QED  BY <2>1, <2>2, <3>1, LedgerFacts
  <2>3. CASE enough(valid[m]) /\ enough(valid[n])
    <3>1. PICK v \in Validator : v \in signers(valid[m]) /\ v \in signers(valid[n])
      BY <2>3, QuorumsIntersect DEF enough, signers
    <3> QED  BY <2>1, <3>1, Zenon DEF SignInv, signers
  <2> QED  BY <2>2, <2>3 DEF SignInv
<1> QED
  BY <1>1, TypeInit, TypeStep, VoteInit, VoteStep, SignInit, SignStep, PTL DEF Spec

-----------------------------------------------------------------------------
(* Decisions.                                                              *)

\* A step of n leaves the other nodes' decisions alone.
elsewhere(n) == \A m \in Node : m # n => keeps(m)

\* clear, and what is built on it, moves n to the ledger L and no other node anywhere.
LEMMA ClearElsewhere ==
    ASSUME TypeOK, NEW n \in Node, NEW L, NEW w, NEW P, NEW S, NEW got, clear(n, L, w, P, S, got)
    PROVE  elsewhere(n) /\ prev'[n] = L
<1>1. PICK ph : phase' = [phase EXCEPT ![n] = ph]  BY DEF clear
<1> QED  BY <1>1 DEF clear, elsewhere, keeps, TypeOK

LEMMA RoundElsewhere ==
    ASSUME TypeOK, NEW n \in Node, NEW L, NEW md, NEW req, NEW got,
           startRoundInternal(n, L, md, req, got)
    PROVE  elsewhere(n) /\ prev'[n] = L
BY ClearElsewhere DEF startRoundInternal

\* A change of view, or its refusal, is n's own affair.
LEMMA ViewElsewhere ==
    ASSUME TypeOK, NEW n \in Node, NEW w, NEW tv, NEW req, NEW got, NEW timeouts,
           changeView(n, w, tv, req, got, timeouts) \/ keepView(n, w, tv, req, timeouts)
    PROVE  elsewhere(n)
<1>1. CASE changeView(n, w, tv, req, got, timeouts)
  <2>1. PICK md : onViewChange(n, w, md, req, got, timeouts)  BY <1>1 DEF changeView
  <2> QED  BY <2>1, ClearElsewhere DEF onViewChange
<1>2. CASE keepView(n, w, tv, req, timeouts)
  BY <1>2 DEF keepView, elsewhere, keeps
<1> QED  BY <1>1, <1>2

\* So is a set that n takes.
LEMMA TakeSetElsewhere ==
    ASSUME TypeOK, NEW n \in Node, NEW id, NEW W, takeSet(n, id, W), UNCHANGED <<prev, view>>,
           NEW S, setID' = [setID EXCEPT ![n] = S]
    PROVE  elsewhere(n)
<1>1. PICK ph : phase' = [phase EXCEPT ![n] = ph]  BY DEF takeSet
<1>2. \A m \in Node : m # n => result'[m] = result[m] /\ voted'[m] = voted[m]
  BY DEF takeSet, TypeOK
<1> QED  BY <1>1, <1>2 DEF elsewhere, keeps, TypeOK

\* The handlers that do nothing while a ledger is being accepted.
LEMMA OpenElsewhere ==
    ASSUME TypeOK, NEW n \in Node,
           \/ \E S \in TxSet : phaseCollecting(n, S)
           \/ \E S \in TxSet : gotTxSet(n, S)
           \/ \E p \in proposals, got \in BOOLEAN : peerProposal(n, p, got)
           \/ \E got \in BOOLEAN : checkTimeout(n, got)
           \/ \E L \in Ledger : checkLedger(n, L)
           \/ rollback(n)
    PROVE  phase[n] # "accepted" /\ elsewhere(n)
<1>1. ASSUME NEW S \in TxSet, phaseCollecting(n, S)  PROVE phase[n] # "accepted" /\ elsewhere(n)
  <2>1. PICK ph : phase' = [phase EXCEPT ![n] = ph]  BY <1>1 DEF phaseCollecting
  <2>2. \A m \in Node : m # n => voted'[m] = voted[m]  BY <1>1 DEF phaseCollecting, TypeOK
  <2> QED  BY <1>1, <2>1, <2>2 DEF phaseCollecting, collects, elsewhere, keeps, TypeOK
<1>2. ASSUME NEW S \in TxSet, gotTxSet(n, S)  PROVE phase[n] # "accepted" /\ elsewhere(n)
  <2>1. setID' = [setID EXCEPT ![n] = setID[n]]  BY <1>2 DEF gotTxSet, TypeOK
  <2> QED  BY <1>2, <2>1, TakeSetElsewhere DEF gotTxSet
<1>3. ASSUME NEW p \in proposals, NEW got \in BOOLEAN, peerProposal(n, p, got)
      PROVE  phase[n] # "accepted" /\ elsewhere(n)
  <2>1. PICK S : setID' = [setID EXCEPT ![n] = S]  BY <1>3 DEF peerProposal
  <2>2. CASE \E W : takeSet(n, p.set, W)
    BY <1>3, <2>1, <2>2, TakeSetElsewhere DEF peerProposal, forThisView
  <2>3. CASE \E W, ph : voted' = [voted EXCEPT ![n] = W] /\ phase' = [phase EXCEPT ![n] = ph]
                        /\ UNCHANGED result
    BY <1>3, <2>1, <2>3 DEF peerProposal, forThisView, elsewhere, keeps, TypeOK
  <2> QED  BY <1>3, <2>2, <2>3 DEF peerProposal
<1>4. ASSUME NEW got \in BOOLEAN, checkTimeout(n, got)
      PROVE  phase[n] # "accepted" /\ elsewhere(n)
  BY <1>4, ViewElsewhere DEF checkTimeout
<1>5. ASSUME NEW L \in Ledger, checkLedger(n, L)  PROVE phase[n] # "accepted" /\ elsewhere(n)
  BY <1>5, RoundElsewhere DEF checkLedger
<1>6. CASE rollback(n)  BY <1>6, RoundElsewhere DEF rollback
<1> QED  BY <1>1, <1>2, <1>3, <1>4, <1>5, <1>6

\* No step of any node revises a decision.
LEMMA StandsStep ==
    ASSUME TypeOK, [Next]_vars  PROVE \A n \in Node : stands(n)
<1>1. CASE UNCHANGED vars  BY <1>1 DEF vars, stands, keeps
<1>2. ASSUME NEW n \in Node, phase[n] # "accepted" /\ elsewhere(n)
      PROVE  \A m \in Node : stands(m)
  BY <1>2 DEF elsewhere, stands
<1>3. ASSUME NEW n \in Node, NEW p \in proposals, saveNextProposal(n, p)
      PROVE  \A m \in Node : stands(m)
  BY <1>3 DEF saveNextProposal, stands, keeps
<1>4. ASSUME NEW n \in Node, NEW L \in Ledger, checkLedgerAccept(n, L)
      PROVE  \A m \in Node : stands(m)
  BY <1>4 DEF checkLedgerAccept, stands, keeps
<1>5. ASSUME NEW n \in Node, NEW vc \in viewChanges, NEW got \in BOOLEAN,
             peerViewChange(n, vc, got)
      PROVE  \A m \in Node : stands(m)
  <2>1. CASE phase[n] = "accepted"  BY <1>5, <2>1 DEF peerViewChange, stands, keeps
  <2>2. CASE phase[n] # "accepted"
    <3> DEFINE req == recvViewChange(viewChangeReq[n], vc)
    <3>1. CASE changeLedger(n, vc.toView, req)
      BY <1>2, <2>2, <3>1, RoundElsewhere DEF changeLedger
    <3>2. CASE changeView(n, vc.toView, toView[n], req, got, 0)
               \/ keepView(n, vc.toView, toView[n], req, 0)
      BY <1>2, <2>2, <3>2, ViewElsewhere
    <3> QED  BY <1>5, <2>2, <3>1, <3>2 DEF peerViewChange
  <2> QED  BY <2>1, <2>2
<1>6. ASSUME NEW n \in Node, NEW L \in Ledger, NEW M \in Ledger, NEW validates \in BOOLEAN,
             NEW got \in BOOLEAN, doAccept(n, L, validates, M, got)
      PROVE  \A m \in Node : stands(m)
  <2>1. PICK md \in PreStart : startRoundInternal(n, M, md, viewChangeReq[n], got)
    BY <1>6 DEF doAccept
  <2>2. elsewhere(n) /\ prev'[n] = M  BY <2>1, RoundElsewhere
  <2>3. stands(n)  BY <1>6, <2>2 DEF doAccept, stands
  <2> QED  BY <2>2, <2>3 DEF elsewhere, stands
<1> QED  BY <1>1, <1>2, <1>3, <1>4, <1>5, <1>6, OpenElsewhere DEF Next

\* Once a round is decided, no handler changes what the accept job builds its ledger
\* from before that job has run (the checks of the phase in PopConsensus).
THEOREM DecisionsStand == Spec => DecisionStands
<1>1. TypeOK /\ [Next]_vars => [\A n \in Node : stands(n)]_vars  BY StandsStep
<1> QED  BY <1>1, TypeCorrect, PTL DEF Spec, DecisionStands
=============================================================================
