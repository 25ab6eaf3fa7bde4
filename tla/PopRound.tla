------------------------------ MODULE PopRound ------------------------------
(***************************************************************************)
(* The rounds of PoP consensus, PopConsensus.cpp: the leader of a view     *)
(* proposes a transaction set, the others vote for it, a quorum of votes   *)
(* closes a ledger; on a timeout a quorum of view changes moves on to the  *)
(* next view and leader, and after timeoutCOUNT_ROLLBACK timeouts a node   *)
(* starts again from its validated ledger.                                 *)
(*                                                                         *)
(* Every handler holds RCLConsensus::mutex_ and is one step; the accept    *)
(* job that follows a closed ledger runs on its own, so doAccept is one.   *)
(* The network may lose, delay and reorder messages: what was sent stays   *)
(* in proposals and viewChanges and may be handled at any time, or again   *)
(* (every timeout sends the view change anew; HashRouter forgets a         *)
(* proposal it has suppressed).  The validation layer is LedgerValidation; *)
(* here it is reduced to the validations sent and the ledgers they make    *)
(* valid.                                                                  *)
(*                                                                         *)
(* The first ledger <<>> is one that everybody has validated, not genesis: *)
(* the init phase is over, and with it waitingConsensusReach_.             *)
(***************************************************************************)
EXTENDS ViewChangeManager

CONSTANTS
    N,                      \* number of validators
    Observer,               \* nodes that are not validators
    TxSet,                  \* transaction sets
    Empty,                  \* the empty one, which omitEMPTY never closes
    None,                   \* no set
    PreStart,               \* the modes that preStartRound may choose
    timeoutCOUNT_ROLLBACK,
    MaxSeq,                 \* bound: ledgers closed on top of the first
    MaxView,                \* bound: views
    MaxViewChange           \* bound: view changes sent, not counting repeated ones

ASSUME SizeAssumption == N \in Nat \ {0} /\ Observer \cap (0..(N - 1)) = {}
ASSUME SetAssumption == None \notin TxSet
ASSUME ModeAssumption == PreStart \subseteq {"proposing", "observing"}
ASSUME BoundAssumption == /\ timeoutCOUNT_ROLLBACK \in Nat /\ MaxSeq \in Nat
                          /\ MaxView \in Nat /\ MaxViewChange \in Nat

Validator == 0..(N - 1)
Node == Validator \cup Observer
Ledger == UNION {[1..k -> TxSet] : k \in 0..MaxSeq}

VARIABLES
    prev,           \* previousLedger_ and prevLedgerID_
    view,           \* view_
    toView,         \* toView_
    phase,          \* phase_
    mode,           \* mode_
    setID,          \* setID_, what the leader proposed
    result,         \* result_, the set this node took a stance on
    voted,          \* txSetVoted_, no entry being the empty set
    cached,         \* txSetCached_
    proposalCache,  \* proposalCache_
    viewChangeReq,  \* viewChangeManager_
    timeOutCount,   \* timeOutCount_
    valid,          \* the validated ledger
    proposals,      \* proposals sent
    viewChanges,    \* view changes sent
    sent            \* validations sent, <<validator, ledger>>

vars == <<prev, view, toView, phase, mode, setID, result, voted, cached, proposalCache,
          viewChangeReq, timeOutCount, valid, proposals, viewChanges, sent>>

Proposal == [from : Validator, prev : Ledger, view : 0..MaxView, set : TxSet]
ViewChange == [from : Validator, toView : 1..MaxView, prev : Ledger]

TypeOK ==
    /\ prev \in [Node -> Ledger]
    /\ view \in [Node -> 0..MaxView]
    /\ toView \in [Node -> 0..MaxView]
    /\ phase \in [Node -> {"open", "establish", "accepted"}]
    /\ mode \in [Node -> {"proposing", "observing", "switchedLedger"}]
    /\ setID \in [Node -> TxSet \cup {None}]
    /\ result \in [Node -> TxSet \cup {None}]
    /\ voted \in [Node -> [TxSet -> SUBSET Validator]]
    /\ cached \in [Node -> [TxSet -> SUBSET Validator]]
    /\ proposalCache \in [Node -> SUBSET Proposal]
    /\ viewChangeReq \in [Node -> SUBSET ViewChange]
    /\ timeOutCount \in [Node -> 0..(timeoutCOUNT_ROLLBACK + 1)]
    /\ valid \in [Node -> Ledger]
    /\ proposals \in SUBSET Proposal
    /\ viewChanges \in SUBSET ViewChange
    /\ sent \in SUBSET (Validator \X Ledger)

Init ==
    /\ prev = [n \in Node |-> <<>>]
    /\ view = [n \in Node |-> 0]
    /\ toView = [n \in Node |-> 0]
    /\ phase = [n \in Node |-> "open"]
    /\ mode \in [Node -> PreStart]
    /\ setID = [n \in Node |-> None]
    /\ result = [n \in Node |-> None]
    /\ voted = [n \in Node |-> [S \in TxSet |-> {}]]
    /\ cached = [n \in Node |-> [S \in TxSet |-> {}]]
    /\ proposalCache = [n \in Node |-> {}]
    /\ viewChangeReq = [n \in Node |-> {}]
    /\ timeOutCount = [n \in Node |-> 0]
    /\ valid = [n \in Node |-> <<>>]
    /\ proposals = {} /\ viewChanges = {} /\ sent = {}

-----------------------------------------------------------------------------
(* Votes.                                                                  *)

\* ValidatorList::calculateQuorum
quorum == IF N < 4 THEN N ELSE N - ((N - 1) \div 3)

\* PopAdaptor::isLeader, ValidatorList::getLeaderPubKey
isLeader(v, L, w) == v = (Len(L) + 1 + w) % N

proposal(v, L, w, S) == [from |-> v, prev |-> L, view |-> w, set |-> S]

\* The proposals sent once the validators in V (one, or none) have proposed S.
propose(V, L, w, S) == proposals \cup {proposal(v, L, w, S) : v \in V}

areCompatible(L, M) == \A i \in 1..MaxSeq : i <= Len(L) /\ i <= Len(M) => L[i] = M[i]

signers(L) == {v \in Validator : <<v, L>> \in sent}

\* checkLedgerAccept: a quorum of validations.
enough(L) == Cardinality(signers(L)) >= quorum

\* Mutant: the enforcer lets a validator sign its last sequence again.
canValidateAgain(n, L) == \A K \in Ledger : <<n, K>> \in sent => Len(K) <= Len(L)

\* Validations::canValidateSeq
canValidateSeq(n, L) == \A K \in Ledger : <<n, K>> \in sent => Len(K) < Len(L)

\* proposersFinished: the validators that have validated a ledger after L.
proposersFinished(L) ==
    {v \in Validator : \E M \in Ledger : Len(M) > Len(L) /\ areCompatible(L, M) /\ <<v, M>> \in sent}

\* haveConsensus's MovedOn: the node knows of a quorum that has finished.  Not with
\* the quorum of a ledger that it has signed itself: that one it would have validated.
movedOn(n, L) ==
    /\ Cardinality(proposersFinished(L)) >= quorum
    /\ \A M \in Ledger : enough(M) /\ <<n, M>> \in sent => Len(M) <= Len(valid[n])

\* Mutant: one vote less than the quorum is enough.
checkVotingShort(n, L, V, ph) ==
    IF Cardinality(V) + 1 >= quorum THEN {"accepted"}
    ELSE IF movedOn(n, L) THEN {"accepted", ph} ELSE {ph}

\* checkVoting of a node in phase ph that has a stance, with the votes V for its
\* setID_: the phases it may be in afterwards.
checkVoting(n, L, V, ph) ==
    IF Cardinality(V) >= quorum THEN {"accepted"}
    ELSE IF movedOn(n, L) THEN {"accepted", ph} ELSE {ph}

-----------------------------------------------------------------------------
(* Rounds and views start.                                                 *)

\* The cached proposals that checkCache replays, which it does only when proposing.
replayed(n, md, L, w) ==
    {p \in proposalCache[n] : md = "proposing" /\ p.prev = L /\ p.view = w}

\* checkCache drops those of earlier sequences, if it has one of this sequence.
cacheAfter(n, md, L) ==
    IF md = "proposing" /\ \E p \in proposalCache[n] : Len(p.prev) = Len(L)
    THEN {p \in proposalCache[n] : Len(p.prev) >= Len(L)} ELSE proposalCache[n]

votesIn(P, S) == {p.from : p \in {q \in P : q.set = S}}

\* The set that the leader proposes in P; it never votes for an empty one.
leaderSet(P, L, w) ==
    LET led == {p \in P : isLeader(p.from, L, w) /\ p.set # Empty}
    IN  IF led = {} THEN None ELSE (CHOOSE p \in led : TRUE).set

\* The votes of n itself for the set S: one, if it has the set and may vote.
selfVote(n, S, got) == {v \in {n} \cap Validator : S # None /\ got}

\* What startRoundInternal and onViewChange have in common: all is cleared, and the
\* proposals P are replayed, in an order that makes no difference.  With the leader's
\* among them there is a set S to vote for, at once if got says that it is at hand.
clear(n, L, w, P, S, got) ==
    /\ prev' = [prev EXCEPT ![n] = L]
    /\ view' = [view EXCEPT ![n] = w]
    /\ setID' = [setID EXCEPT ![n] = S]
    /\ result' = [result EXCEPT ![n] = IF got THEN S ELSE None]
    /\ voted' = [voted EXCEPT ![n] =
                    [T \in TxSet |-> IF T = S THEN votesIn(P, S) \cup selfVote(n, S, got) ELSE {}]]
    /\ cached' = [cached EXCEPT ![n] = [T \in TxSet |-> IF T \in {S, Empty} THEN {} ELSE votesIn(P, T)]]
    /\ \E ph \in IF S # None /\ got
                 THEN checkVoting(n, L, votesIn(P, S) \cup selfVote(n, S, got), "establish")
                 ELSE {"open"} :
         phase' = [phase EXCEPT ![n] = ph]
    /\ proposals' = propose(selfVote(n, S, got), L, w, S)

startRoundInternal(n, L, md, req, got) ==
    /\ mode' = [mode EXCEPT ![n] = md]
    /\ toView' = [toView EXCEPT ![n] = 0]
    /\ timeOutCount' = [timeOutCount EXCEPT ![n] = 0]
    /\ viewChangeReq' = [viewChangeReq EXCEPT ![n] = IF md = "proposing" THEN onNewRound(req, L) ELSE req]
    /\ proposalCache' = [proposalCache EXCEPT ![n] = cacheAfter(n, md, L)]
    /\ clear(n, L, 0, replayed(n, md, L, 0), leaderSet(replayed(n, md, L, 0), L, 0), got)

\* The adaptor's onViewChanged chooses the mode; toView_ is left alone.  timeouts is
\* what checkTimeout counts afterwards.
onViewChange(n, w, md, req, got, timeouts) ==
    /\ mode' = [mode EXCEPT ![n] = md]
    /\ timeOutCount' = [timeOutCount EXCEPT ![n] = timeouts]
    /\ viewChangeReq' = [viewChangeReq EXCEPT ![n] = onViewChanged(req, w, Len(prev[n]))]
    /\ proposalCache' = [proposalCache EXCEPT ![n] = cacheAfter(n, md, prev[n])]
    /\ clear(n, prev[n], w, replayed(n, md, prev[n], w),
             leaderSet(replayed(n, md, prev[n], w), prev[n], w), got)

-----------------------------------------------------------------------------
(* Proposing and voting.                                                   *)

\* Mutant: one timeout too late.
rollbackDueLate(n) == timeOutCount[n] > timeoutCOUNT_ROLLBACK + 1

\* timerEntry rolls back before it collects or looks at the time again.
rollbackDue(n) == timeOutCount[n] > timeoutCOUNT_ROLLBACK

\* Mutant: the leader of the view that is asked for proposes.
collectsEarly(n) ==
    /\ n \in Validator /\ isLeader(n, prev[n], toView[n])
    /\ phase[n] = "open" /\ result[n] = None /\ ~rollbackDue(n)

collects(n) ==
    /\ n \in Validator /\ isLeader(n, prev[n], view[n])
    /\ phase[n] = "open" /\ result[n] = None /\ ~rollbackDue(n)

\* phaseCollecting of the leader: the set S is what the pool has.  An empty set is
\* announced, but nobody votes for it.
phaseCollecting(n, S) ==
    /\ collects(n) /\ Len(prev[n]) < MaxSeq
    /\ result' = [result EXCEPT ![n] = S]
    /\ setID' = [setID EXCEPT ![n] = S]
    /\ proposals' = propose({n}, prev[n], view[n], S)
    /\ voted' = IF S = Empty THEN voted ELSE [voted EXCEPT ![n] = [@ EXCEPT ![S] = {n}]]
    /\ \E ph \in IF S = Empty THEN {"open"} ELSE checkVoting(n, prev[n], {n}, "establish") :
         phase' = [phase EXCEPT ![n] = ph]
    /\ UNCHANGED <<prev, view, toView, mode, cached, proposalCache, viewChangeReq, timeOutCount,
                   valid, viewChanges, sent>>

\* gotTxSet, of a node whose setID_ is id and whose votes are W: without a stance
\* it takes this one, and votes.
takeSet(n, id, W) ==
    LET takes == result[n] = None /\ ~isLeader(n, prev[n], view[n])
        V == W[id] \cup selfVote(n, id, takes)
    IN  /\ result' = IF takes THEN [result EXCEPT ![n] = id] ELSE result
        /\ voted' = [voted EXCEPT ![n] = [W EXCEPT ![id] = V]]
        /\ proposals' = propose(selfVote(n, id, takes), prev[n], view[n], id)
        /\ \E ph \in IF takes THEN checkVoting(n, prev[n], V, "establish")
                     ELSE IF result[n] # None THEN checkVoting(n, prev[n], V, phase[n])
                     ELSE {phase[n]} :
             phase' = [phase EXCEPT ![n] = ph]

\* A set that was asked for, or that a peer shares, arrives.
gotTxSet(n, id) ==
    /\ phase[n] # "accepted" /\ setID[n] = id
    /\ takeSet(n, id, voted[n])
    /\ UNCHANGED <<prev, view, toView, mode, setID, cached, proposalCache, viewChangeReq,
                   timeOutCount, valid, viewChanges, sent>>

\* Mutant: the view of a proposal is not compared.
forThisViewAny(n, p) == phase[n] # "accepted" /\ p.prev = prev[n]

forThisView(n, p) == phase[n] # "accepted" /\ p.prev = prev[n] /\ p.view = view[n]

\* checkSaveNextProposal, for a proposal that peerProposalInternal does not handle
\* now: one is kept for a sequence and a sender, of the highest view.
saveNextProposal(n, p) ==
    LET old == {q \in proposalCache[n] : q.from = p.from /\ Len(q.prev) = Len(p.prev)}
    IN  /\ p.from # n /\ ~forThisView(n, p)
        /\ \/ Len(p.prev) > Len(prev[n])
           \/ Len(p.prev) = Len(prev[n]) /\ p.view > view[n]
        /\ \A q \in old : q.view < p.view
        /\ proposalCache' = [proposalCache EXCEPT ![n] = (@ \ old) \cup {p}]
        /\ UNCHANGED <<prev, view, toView, phase, mode, setID, result, voted, cached,
                       viewChangeReq, timeOutCount, valid, proposals, viewChanges, sent>>

\* The votes after v's proposal for S.  A vote for a set that is known is counted,
\* the leader's makes the set known along with the votes cached for it, any other
\* is cached.
leads(n, v, S) == voted[n][S] = {} /\ isLeader(v, prev[n], view[n])

votesAfter(n, v, S) ==
    IF leads(n, v, S) THEN [voted[n] EXCEPT ![S] = {v} \cup cached[n][S]]
    ELSE IF voted[n][S] # {} THEN [voted[n] EXCEPT ![S] = @ \cup {v}] ELSE voted[n]

cachedAfter(n, v, S) ==
    IF leads(n, v, S) THEN [cached[n] EXCEPT ![S] = {}]
    ELSE IF voted[n][S] = {} THEN [cached[n] EXCEPT ![S] = @ \cup {v}] ELSE cached[n]

\* peerProposalInternal; got says that the set itself comes along or is at hand.
peerProposal(n, p, got) ==
    LET S == p.set
        v == p.from
        id == IF leads(n, v, S) THEN S ELSE setID[n]
        W == votesAfter(n, v, S)
    IN  /\ v # n /\ forThisView(n, p)
        /\ ~(leads(n, v, S) /\ S = Empty)
        /\ got => result[n] = None \/ isLeader(v, prev[n], view[n])
        /\ setID' = [setID EXCEPT ![n] = id]
        /\ cached' = [cached EXCEPT ![n] = cachedAfter(n, v, S)]
        /\ \/ got /\ id = S /\ takeSet(n, S, W)
           \/ /\ ~(got /\ id = S)
              /\ voted' = [voted EXCEPT ![n] = W]
              /\ \E ph \in IF result[n] # None /\ ~got THEN checkVoting(n, prev[n], W[id], phase[n])
                           ELSE {phase[n]} :
                   phase' = [phase EXCEPT ![n] = ph]
              /\ UNCHANGED <<result, proposals>>
        /\ UNCHANGED <<prev, view, toView, mode, proposalCache, viewChangeReq, timeOutCount,
                       valid, viewChanges, sent>>

-----------------------------------------------------------------------------
(* View changes.                                                           *)

\* checkChangeView for view w, with toView_ = tv, after the message was filed in
\* req: to the new view, ...
changeView(n, w, tv, req, got, timeouts) ==
    /\ IF tv = w THEN haveConsensus(req, w, view[n], prev[n], quorum)
       ELSE shouldTriggerViewChange(req, w, prev[n], quorum)
    /\ toView' = [toView EXCEPT ![n] = tv]
    /\ \E md \in PreStart : onViewChange(n, w, md, req, got, timeouts)

\* ... or to the ledger on top of which the others ask for it (handleWrongLedger;
\* leaveConsensus repeats the proposal that was sent), ...
changeLedger(n, w, req) ==
    \E L \in Ledger :
        /\ L # prev[n] /\ Len(L) >= Len(prev[n])
        /\ shouldTriggerViewChange(req, w, L, quorum)
        /\ areCompatible(valid[n], L)
        /\ startRoundInternal(n, L, "switchedLedger", req, FALSE)

\* ... or nowhere, when there is no quorum or the ledger is missing.
keepView(n, w, tv, req, timeouts) ==
    /\ ~(IF tv = w THEN haveConsensus(req, w, view[n], prev[n], quorum)
         ELSE shouldTriggerViewChange(req, w, prev[n], quorum))
    /\ toView' = [toView EXCEPT ![n] = tv]
    /\ viewChangeReq' = [viewChangeReq EXCEPT ![n] = req]
    /\ timeOutCount' = [timeOutCount EXCEPT ![n] = @ + timeouts]
    /\ UNCHANGED <<prev, view, phase, mode, setID, result, voted, cached, proposalCache, proposals>>

\* checkTimeout, launchViewChange: toView_ becomes the next view.
checkTimeout(n, got) ==
    LET w == view[n] + 1
        vc == viewChange(n, w, prev[n])
        req == recvViewChange(viewChangeReq[n], vc)
    IN  /\ n \in Validator /\ phase[n] # "accepted" /\ ~rollbackDue(n) /\ w <= MaxView
        /\ vc \in viewChanges \/ Cardinality(viewChanges) < MaxViewChange
        /\ viewChanges' = viewChanges \cup {vc}
        /\ changeView(n, w, w, req, got, 1) \/ keepView(n, w, w, req, 1)
        /\ UNCHANGED <<valid, sent>>

\* peerViewChangeInternal
peerViewChange(n, vc, got) ==
    LET req == recvViewChange(viewChangeReq[n], vc)
    IN  /\ vc.from # n
        /\ \/ /\ phase[n] = "accepted"
              /\ viewChangeReq' = [viewChangeReq EXCEPT ![n] = req]
              /\ UNCHANGED <<prev, view, toView, phase, mode, setID, result, voted, cached,
                             proposalCache, timeOutCount, proposals>>
           \/ /\ phase[n] # "accepted"
              /\ \/ changeView(n, vc.toView, toView[n], req, got, 0)
                 \/ toView[n] # vc.toView /\ changeLedger(n, vc.toView, req)
                 \/ keepView(n, vc.toView, toView[n], req, 0)
        /\ UNCHANGED <<valid, viewChanges, sent>>

-----------------------------------------------------------------------------
(* Ledgers.                                                                *)

\* Mutant: a node that is no validator validates too.
validatedByAny(n, L) ==
    /\ canValidateSeq(n, L) /\ areCompatible(valid[n], L)
    /\ Cardinality(voted[n][setID[n]]) >= quorum

\* What doAccept validates: its own ledger L, on the votes of a quorum.
validated(n, L) ==
    /\ n \in Validator /\ canValidateSeq(n, L) /\ areCompatible(valid[n], L)
    /\ Cardinality(voted[n][setID[n]]) >= quorum

\* The accept job: doAccept builds the ledger L and may validate it (not when the
\* network moved on without us), and endConsensus starts the next round, on L or on
\* a ledger M that checkLastClosedLedger prefers: by its validations, or because it
\* is the last closed one of other nodes.
doAccept(n, L, validates, M, got) ==
    /\ phase[n] = "accepted" /\ L = Append(prev[n], result[n])
    /\ validates => validated(n, L)
    /\ M = L \/ /\ M # prev[n] /\ (signers(M) # {} \/ \E m \in Node : prev[m] = M)
                /\ Len(M) >= Len(valid[n]) /\ areCompatible(valid[n], M)
    /\ sent' = IF validates THEN sent \cup {<<n, L>>} ELSE sent
    /\ \E md \in PreStart : startRoundInternal(n, M, md, viewChangeReq[n], got)
    /\ UNCHANGED <<valid, viewChanges>>

\* checkLedger, handleWrongLedger: a quorum has validated a ledger that is neither
\* next to nor behind ours.
checkLedger(n, L) ==
    /\ phase[n] # "accepted" /\ L # prev[n] /\ enough(L)
    /\ Len(L) >= Len(valid[n]) /\ (areCompatible(prev[n], L) => Len(L) > Len(prev[n]) + 1)
    /\ areCompatible(valid[n], L)
    /\ startRoundInternal(n, L, "switchedLedger", viewChangeReq[n], FALSE)
    /\ UNCHANGED <<valid, viewChanges, sent>>

\* Mutant: the timer rolls back a ledger that is being accepted.
rollbackAccepted(n) ==
    /\ rollbackDue(n)
    /\ startRoundInternal(n, valid[n], "switchedLedger", {}, FALSE)
    /\ UNCHANGED <<valid, viewChanges, sent>>

\* The rollback of timerEntry, which also clears the view changes.
rollback(n) ==
    /\ phase[n] # "accepted" /\ rollbackDue(n)
    /\ startRoundInternal(n, valid[n], "switchedLedger", {}, FALSE)
    /\ UNCHANGED <<valid, viewChanges, sent>>

\* checkLedgerAccept and doValid.
checkLedgerAccept(n, L) ==
    /\ enough(L) /\ Len(L) > Len(valid[n])
    /\ valid' = [valid EXCEPT ![n] = L]
    /\ UNCHANGED <<prev, view, toView, phase, mode, setID, result, voted, cached, proposalCache,
                   viewChangeReq, timeOutCount, proposals, viewChanges, sent>>

-----------------------------------------------------------------------------
Next ==
    \E n \in Node :
        \/ \E S \in TxSet : phaseCollecting(n, S)
        \/ \E S \in TxSet : gotTxSet(n, S)
        \/ \E p \in proposals : saveNextProposal(n, p)
        \/ \E p \in proposals, got \in BOOLEAN : peerProposal(n, p, got)
        \/ \E got \in BOOLEAN : checkTimeout(n, got)
        \/ \E vc \in viewChanges, got \in BOOLEAN : peerViewChange(n, vc, got)
        \/ \E L, M \in Ledger, validates, got \in BOOLEAN : doAccept(n, L, validates, M, got)
        \/ \E L \in Ledger : checkLedger(n, L)
        \/ rollback(n)
        \/ \E L \in Ledger : checkLedgerAccept(n, L)

Spec == Init /\ [][Next]_vars

-----------------------------------------------------------------------------
(* Properties.                                                             *)

\* Who has sent a proposal for the set in the view, and who has asked for a view.
voters(L, w, S) == {v \in Validator : proposal(v, L, w, S) \in proposals}
askers(w, L) == {v \in Validator : viewChange(v, w, L) \in viewChanges}

leaderProposed(L, w, S) == \E v \in Validator : isLeader(v, L, w) /\ v \in voters(L, w, S)

\* The votes that a node counts in txSetVoted_, and those it keeps in txSetCached_,
\* are votes that were cast for that set in the round and the view it is in now:
\* no step of the clearing, caching and replaying carries over a vote of another
\* ledger, view or set.
VotesAreReal ==
    \A n \in Node, S \in TxSet :
        voted[n][S] \cup cached[n][S] \subseteq voters(prev[n], view[n], S)

\* Whatever is voted for in a view was proposed there by the leader of that view
\* (getLeaderPubKey): a vote never originates with another node, and never moves
\* from one view to another.
VoteFollowsLeader ==
    \A p \in proposals : leaderProposed(p.prev, p.view, p.set)

\* A ledger is only closed on a decision: the leader of the view has proposed the
\* set that it is built from (result_), and a quorum voted for the leader's last
\* proposal of the view that the node knows of (setID_), or a quorum has already
\* validated a later ledger (MovedOn).
ClosedByConsensus ==
    \A n \in Node :
        phase[n] = "accepted" =>
            /\ leaderProposed(prev[n], view[n], result[n])
            /\ \/ /\ leaderProposed(prev[n], view[n], setID[n])
                  /\ Cardinality(voters(prev[n], view[n], setID[n])) >= quorum
               \/ Cardinality(proposersFinished(prev[n])) >= quorum

\* A step leaves the decision of n alone.
keeps(n) ==
    /\ prev'[n] = prev[n] /\ view'[n] = view[n] /\ phase'[n] = phase[n]
    /\ result'[n] = result[n] /\ setID'[n] = setID[n] /\ voted'[n] = voted[n]

\* A step leaves alone what n decided, carries it out, or moves n to another ledger
\* that does not contradict its validated one.
stands(n) ==
    phase[n] = "accepted" =>
        \/ keeps(n)
        \/ prev'[n] = Append(prev[n], result[n])
        \/ /\ prev'[n] # prev[n] /\ Len(prev'[n]) >= Len(valid[n])
           /\ areCompatible(valid[n], prev'[n])

\* A decision stands until it is carried out: once the phase is accepted, neither
\* proposals, sets, view changes and timeouts that arrive before the accept job runs,
\* nor a rollback change what doAccept builds the ledger from and with which votes.
\* The node leaves the phase for the ledger that was decided, or for one that
\* does not contradict its validated ledger.
DecisionStands == [][\A n \in Node : stands(n)]_vars

\* A validator only validates a ledger made of a set that it voted for itself, on
\* top of that very ledger, in some view.
SignedWasVoted ==
    \A s \in sent :
        \E w \in 0..MaxView, S \in TxSet, L \in Ledger :
            s[2] = Append(L, S) /\ proposal(s[1], L, w, S) \in proposals

\* Validated ledgers of the same sequence are the same ledger, whatever nodes do
\* with views, rollbacks and switched ledgers in between: a validator validates a
\* sequence once (canValidateSeq), and quorums intersect.
ValidatedAgree ==
    \A m, n \in Node : Len(valid[m]) = Len(valid[n]) => valid[m] = valid[n]

\* No view is skipped: a node is in a view only if, for this and for each view
\* before it, a quorum of the validators has asked for it on top of the node's
\* ledger.  This although checkChangeView follows a quorum to any view.
NoViewSkipped ==
    \A n \in Node : \A w \in 1..view[n] : Cardinality(askers(w, prev[n])) >= quorum

\* ConsensusTypes.h says of the result's txns that they are "The set of transactions
\* consensus agrees go in the ledger", and of the state Yes "We have consensus along
\* with the network": the set that a node closes with is the one that a quorum voted
\* for (or the network moved on).
ResultIsConsensus ==
    \A n \in Node :
        phase[n] = "accepted" =>
            \/ Cardinality(voters(prev[n], view[n], result[n])) >= quorum
            \/ Cardinality(proposersFinished(prev[n])) >= quorum

\* ripple/app/ledger/README.md says of a validated ledger that its transactions
\* "will always remain part of the permanent, public history": two ledgers that a
\* quorum has validated are part of one chain.
ValidatedHistory ==
    \A L, M \in Ledger : enough(L) /\ enough(M) => areCompatible(L, M)
=============================================================================
