-------------------------- MODULE LedgerValidation --------------------------
(***************************************************************************)
(* How the validators of a PoP network turn closed ledgers into fully      *)
(* validated ones: peersafe/consensus/Validations.h (the received          *)
(* validations and the sequence enforcer), RpcaPopAdaptor.cpp, the accept  *)
(* job of PopAdaptor.cpp, and what LedgerMaster.cpp keeps.                 *)
(*                                                                         *)
(* Nothing is assumed of the rounds that precede the accept job: a node    *)
(* may close any transaction set on top of its last closed ledger.  All    *)
(* validators run the code; messages may be lost, delayed and reordered,   *)
(* nodes restart, and time passes (an enforcer expires, a round rolls      *)
(* back).  A ledger is the sequence of the transaction sets of its         *)
(* history, which is what its hash identifies; <<>> is the genesis ledger  *)
(* and, where a ledger may be absent, stands for none.                     *)
(*                                                                         *)
(* checkLedgerAccept and the doValid that follows it are two steps: no     *)
(* lock is held between them, and the accept job, the thread that handles  *)
(* a peer's message and the AcquisitionDone job all run them.              *)
(***************************************************************************)
EXTENDS Integers, Sequences, FiniteSets

CONSTANTS
    Node,           \* the nodes
    Validator,      \* the trusted validators among them
    TxSet,          \* transaction sets
    MaxSeq,         \* bound: ledgers after genesis
    MayForget,      \* bound: the nodes whose enforcers expire and that restart
    MaxViewChange   \* bound: view changes sent

ASSUME ValidatorAssumption == Validator \subseteq Node /\ Validator # {} /\ IsFiniteSet(Validator)
ASSUME BoundAssumption == MaxSeq \in Nat /\ MaxViewChange \in Nat

VARIABLES
    lcl,            \* previousLedger_, the last closed ledger
    valid,          \* LedgerMaster::mValidLedger
    lastValid,      \* LedgerMaster::mLastValidLedger
    building,       \* LedgerMaster::mBuildingLedgerSeq
    enforcer,       \* Validations::localSeqEnforcer_ of each validator
    vals,           \* Validations::byLedger_, as <<validator, ledger>>
    cache,          \* Validations::lastValidations_: its ledger
    have,           \* ledgers stored locally
    accepting,      \* the ledger that the accept job has built
    pend,           \* <<node, thread, ledger>> between checkLedgerAccept and doValid
    waiting,        \* PopConsensus::waitingConsensusReach_
    sent,           \* validations sent, <<validator, ledger>>
    vcs,            \* view changes sent, with the sender's previous ledger
    validated,      \* history: <<node, ledger>> accepted by validations
    forgot          \* history: the validators whose enforcer was reset

nodeVars == <<lcl, valid, lastValid, building, enforcer, cache, have, accepting, waiting>>
vars == <<nodeVars, vals, pend, sent, vcs, validated, forgot>>

Thread == {"accept", "peer", "acquire"}
Ledger == UNION {[1..k -> TxSet] : k \in 0..MaxSeq}
genesis == <<>>

TypeOK ==
    /\ lcl \in [Node -> Ledger]
    /\ valid \in [Node -> Ledger]
    /\ lastValid \in [Node -> Ledger]
    /\ building \in [Node -> 0..(MaxSeq + 1)]
    /\ enforcer \in [Validator -> 0..MaxSeq]
    /\ vals \in [Node -> SUBSET (Validator \X Ledger)]
    /\ cache \in [Node -> Ledger]
    /\ have \in [Node -> SUBSET Ledger]
    /\ accepting \in [Node -> Ledger]
    /\ pend \in SUBSET (Node \X Thread \X Ledger)
    /\ waiting \in [Node -> BOOLEAN]
    /\ sent \in SUBSET (Validator \X Ledger)
    /\ vcs \in SUBSET (Validator \X Ledger)
    /\ validated \in SUBSET (Node \X Ledger)
    /\ forgot \in SUBSET Validator

Init ==
    /\ lcl = [n \in Node |-> genesis]
    /\ valid = [n \in Node |-> genesis]
    /\ lastValid = [n \in Node |-> genesis]
    /\ building = [n \in Node |-> 0]
    /\ enforcer = [n \in Validator |-> 0]
    /\ vals = [n \in Node |-> {}]
    /\ cache = [n \in Node |-> genesis]
    /\ have = [n \in Node |-> {genesis}]
    /\ accepting = [n \in Node |-> genesis]
    /\ pend = {}
    /\ waiting = [n \in Node |-> TRUE]
    /\ sent = {} /\ vcs = {} /\ validated = {}
    /\ forgot = {}

-----------------------------------------------------------------------------
(* Predicates of the code.                                                 *)

\* ValidatorList::calculateQuorum
calculateQuorum(unlSize) == IF unlSize < 4 THEN unlSize ELSE unlSize - ((unlSize - 1) \div 3)

quorum == calculateQuorum(Cardinality(Validator))

\* Validations::getTrustedForLedger, of the validations V.
trustedFor(V, L) == {v \in Validator : <<v, L>> \in V}

enough(V, L) == Cardinality(trustedFor(V, L)) >= quorum

\* areCompatible(validLedger, testLedger): the shorter is the other's prefix.
areCompatible(L, M) ==
    \A i \in 1..MaxSeq : i <= Len(L) /\ i <= Len(M) => L[i] = M[i]

\* LedgerMaster::isCompatible.  With a hash only (mLastValidLedger), a ledger
\* older than it cannot be judged.
isCompatible(n, L) ==
    \/ valid[n] = genesis
    \/ /\ areCompatible(valid[n], L)
       /\ Len(L) >= Len(lastValid[n]) => areCompatible(lastValid[n], L)

\* getLastValidations: from the cache C, or from the database, where a validated
\* ledger is saved with its validations.
getLastValidations(n, L, C) == C = L \/ <<n, L>> \in validated

\* Mutant: one validation less than the quorum is enough.
acceptsOneShort(n, L, V, C, H) ==
    /\ L \in H /\ Len(L) > Len(valid[n])
    /\ Cardinality(trustedFor(V, L)) + 1 >= quorum \/ getLastValidations(n, L, C)

\* checkLedgerAccept(info), with the validations V, the cache C and the stored
\* ledgers H.
accepts(n, L, V, C, H) ==
    /\ L \in H
    /\ Len(L) > Len(valid[n])
    /\ enough(V, L) \/ getLastValidations(n, L, C)

\* Mutant: the last validations are not filed.
cacheAfterLost(n, L) == cache[n]

\* Validations::setLastValidations, for the ledger checkLedgerAccept accepted.
cacheAfter(n, L) == IF Len(L) >= Len(cache[n]) THEN L ELSE cache[n]

\* setLastValidLedger, from checkLedgerAccept(hash, seq).
lastValidAfter(n, L, V) ==
    IF Len(L) >= Len(valid[n]) /\ enough(V, L) /\ Len(L) > Len(lastValid[n])
    THEN L ELSE lastValid[n]

threadIdle(n, th) == \A L \in Ledger : <<n, th, L>> \notin pend

\* RCLConsensus::mutex_ is free and the phase is not accepted: the accept job,
\* which runs without the mutex, is over.
roundRuns(n) == accepting[n] = genesis /\ threadIdle(n, "accept") /\ threadIdle(n, "peer")

\* The thread runs checkLedgerAccept for L when cond holds, and goes on to doValid
\* when it accepts.
checkAccept(n, th, L, cond, V, H) ==
    IF cond /\ accepts(n, L, V, cache[n], H)
    THEN /\ pend' = pend \cup {<<n, th, L>>}
         /\ cache' = [cache EXCEPT ![n] = cacheAfter(n, L)]
    ELSE UNCHANGED <<pend, cache>>

-----------------------------------------------------------------------------
(* The accept job.                                                         *)

\* Mutant: the sequence is added to the one before, not stored.
setBuildingLedgerAdds(n) ==
    /\ roundRuns(n)
    /\ building' = [building EXCEPT ![n] = @ + Len(lcl[n]) + 1]
    /\ UNCHANGED <<lcl, valid, lastValid, enforcer, cache, have, accepting, waiting,
                   vals, pend, sent, vcs, validated, forgot>>

\* onCollectFinish, peerProposalInternal: a proposal starts the building of a
\* ledger.
setBuildingLedger(n) ==
    /\ roundRuns(n) /\ building[n] # Len(lcl[n]) + 1
    /\ building' = [building EXCEPT ![n] = Len(lcl[n]) + 1]
    /\ UNCHANGED <<lcl, valid, lastValid, enforcer, cache, have, accepting, waiting,
                   vals, pend, sent, vcs, validated, forgot>>

\* The ledgers beyond the open one that consensusBuilt finds among the saved
\* validations (it asks for more than the quorum), the highest ones.
savedUp(n, L, V) ==
    LET ahead == {M \in Ledger : Len(M) > Len(L) + 1 /\ Cardinality(trustedFor(V, M)) > quorum}
    IN  {M \in ahead : \A K \in ahead : Len(K) <= Len(M)}

\* consensusBuilt: the built ledger, or one that validations were saved up for.
consensusBuilt(n, L, V, H) ==
    \E M \in IF Len(L) <= Len(valid[n]) \/ accepts(n, L, V, cache[n], H) \/ savedUp(n, L, V) = {}
             THEN {L} ELSE savedUp(n, L, V) :
        checkAccept(n, "accept", M, TRUE, V, H)

\* PopAdaptor::doAccept up to consensusBuilt.  The node validates what it built
\* if it is compatible and canValidateSeq allows it ("full" when proposing,
\* "partial", which nobody counts, when not), or not at all (not validating,
\* MovedOn).  Its own validation goes through handleNewValidation, where the
\* ledger being built is left to consensusBuilt.
doAccept(n, set, how) ==
    LET L == Append(lcl[n], set)
        V == IF how = "full" THEN vals[n] \cup {<<n, L>>} ELSE vals[n]
        H == have[n] \cup {L}
    IN  /\ accepting[n] = genesis /\ threadIdle(n, "accept")
        /\ building[n] = Len(L) /\ Len(L) <= MaxSeq
        /\ how # "none" => n \in Validator /\ isCompatible(n, L) /\ Len(L) > enforcer[n]
        /\ enforcer' = IF how = "none" THEN enforcer ELSE [enforcer EXCEPT ![n] = Len(L)]
        /\ sent' = IF how = "full" THEN sent \cup {<<n, L>>} ELSE sent
        /\ vals' = [vals EXCEPT ![n] = V]
        /\ lastValid' = IF how = "full" THEN [lastValid EXCEPT ![n] = lastValidAfter(n, L, V)]
                        ELSE lastValid
        /\ have' = [have EXCEPT ![n] = H]
        /\ accepting' = [accepting EXCEPT ![n] = L]
        /\ building' = [building EXCEPT ![n] = 0]
        /\ consensusBuilt(n, L, V, H)
        /\ UNCHANGED <<lcl, valid, waiting, vcs, validated, forgot>>

\* The rest of doAccept: switchLCL and a second checkLedgerAccept, then
\* endConsensus starts the next round.
switchLCL(n) ==
    /\ accepting[n] # genesis /\ threadIdle(n, "accept")
    /\ lcl' = [lcl EXCEPT ![n] = accepting[n]]
    /\ accepting' = [accepting EXCEPT ![n] = genesis]
    /\ building' = [building EXCEPT ![n] = 0]
    /\ checkAccept(n, "accept", accepting[n], TRUE, vals[n], have[n])
    /\ UNCHANGED <<valid, lastValid, enforcer, have, waiting, vals, sent, vcs, validated, forgot>>

\* LedgerMaster::doValid, setValidLedger: without looking at the sequence of the
\* ledger that is validated now.
doValid(n, th, L) ==
    /\ <<n, th, L>> \in pend
    /\ pend' = pend \ {<<n, th, L>>}
    /\ valid' = [valid EXCEPT ![n] = L]
    /\ validated' = validated \cup {<<n, L>>}
    /\ UNCHANGED <<lcl, lastValid, building, enforcer, cache, have, accepting, waiting,
                   vals, sent, vcs, forgot>>

-----------------------------------------------------------------------------
(* Messages and acquired ledgers.                                          *)

\* handleNewValidation of a peer's validation that passes the receiver's
\* SeqEnforcer for its validator, which expires as well.  It is checked at once if
\* it is newer than the one in current_, where rollback and expiry make room.
handleNewValidation(n, v, L, current) ==
    LET V == vals[n] \cup {<<v, L>>}
        increasing == \A M \in Ledger : <<v, M>> \in vals[n] => Len(M) < Len(L)
    IN  /\ <<v, L>> \in sent \ vals[n] /\ v # n
        /\ threadIdle(n, "peer")
        /\ increasing \/ n \in MayForget
        /\ increasing /\ v \notin forgot => current
        /\ vals' = [vals EXCEPT ![n] = V]
        /\ lastValid' = IF current THEN [lastValid EXCEPT ![n] = lastValidAfter(n, L, V)]
                        ELSE lastValid
        /\ checkAccept(n, "peer", L, current /\ Len(L) # building[n], V, have[n])
        /\ UNCHANGED <<lcl, valid, building, enforcer, have, accepting, waiting,
                       sent, vcs, validated, forgot>>

\* A ledger arrives from a node that has it; AcquisitionDone checks it.
acquisitionDone(n, L) ==
    /\ L \notin have[n] /\ \E m \in Node : L \in have[m]
    /\ threadIdle(n, "acquire")
    /\ have' = [have EXCEPT ![n] = @ \cup {L}]
    /\ checkAccept(n, "acquire", L, TRUE, vals[n], have[n] \cup {L})
    /\ UNCHANGED <<lcl, valid, lastValid, building, enforcer, accepting, waiting,
                   vals, sent, vcs, validated, forgot>>

\* peerValidationSetData: a peer that has validated L answers with the
\* validations that it accepted it for.
peerValidationSetData(n, L) ==
    /\ \E m \in Node : <<m, L>> \in validated
    /\ Len(L) > Len(valid[n]) /\ threadIdle(n, "peer")
    /\ cache' = [cache EXCEPT ![n] = cacheAfter(n, L)]
    /\ pend' = IF accepts(n, L, vals[n], cacheAfter(n, L), have[n])
               THEN pend \cup {<<n, "peer", L>>} ELSE pend
    /\ UNCHANGED <<lcl, valid, lastValid, building, enforcer, have, accepting, waiting,
                   vals, sent, vcs, validated, forgot>>

-----------------------------------------------------------------------------
(* Changes of the last closed ledger outside the accept job.               *)

setLcl(n, L) ==
    /\ lcl' = [lcl EXCEPT ![n] = L]
    /\ building' = [building EXCEPT ![n] = 0]
    /\ UNCHANGED <<valid, lastValid, enforcer, cache, have, accepting, waiting,
                   vals, pend, sent, vcs, validated, forgot>>

\* handleWrongLedger, from checkLedger (a quorum of validations for a ledger that
\* is neither next to nor behind ours) or from checkChangeView (a quorum of view
\* changes on another ledger that is not older than ours).
handleWrongLedger(n, L) ==
    /\ roundRuns(n) /\ L # lcl[n]
    /\ \/ /\ enough(vals[n], L)
          /\ Len(L) >= Len(valid[n])
          /\ areCompatible(lcl[n], L) => Len(L) > Len(lcl[n]) + 1
       \/ enough(vcs, L) /\ Len(L) >= Len(lcl[n])
    /\ L \in have[n] /\ isCompatible(n, L)
    /\ setLcl(n, L)

\* checkLastClosedLedger, switchLastClosedLedger, from endConsensus: the ledger
\* that the validations, or the peers' status, prefer (the preference itself, a
\* matter of LedgerTrie, is left open); never the parent of our own.
switchLastClosedLedger(n, L) ==
    /\ roundRuns(n) /\ building[n] = 0
    /\ L # lcl[n] /\ ~(areCompatible(L, lcl[n]) /\ Len(lcl[n]) = Len(L) + 1)
    /\ L \in have[n] /\ isCompatible(n, L)
    /\ setLcl(n, L)

\* The rollback of timerEntry after timeoutCOUNT_ROLLBACK timeouts, to the
\* validated ledger, or to the one acquired in the init phase if it is ahead.
rollback(n) ==
    /\ roundRuns(n)
    /\ setLcl(n, valid[n]) \/ (Len(lcl[n]) > Len(valid[n]) /\ setLcl(n, lcl[n]))

launchViewChange(n) ==
    /\ n \in Validator /\ roundRuns(n) /\ Cardinality(vcs) < MaxViewChange
    /\ vcs' = vcs \cup {<<n, lcl[n]>>}
    /\ UNCHANGED <<nodeVars, vals, pend, sent, validated, forgot>>

\* Mutant: a single view change takes effect.
onViewChangeAlone(n) ==
    /\ waiting[n] /\ roundRuns(n) /\ <<n, lcl[n]>> \in vcs
    /\ waiting' = [waiting EXCEPT ![n] = FALSE]
    /\ valid' = [valid EXCEPT ![n] = lcl[n]]
    /\ UNCHANGED <<lcl, lastValid, building, enforcer, cache, have, accepting,
                   vals, pend, sent, vcs, validated, forgot>>

\* onViewChange of a node that has seen none yet: onConsensusReached takes the
\* last closed ledger, on which a quorum changed its view, as fully validated.
onViewChange(n) ==
    /\ waiting[n] /\ roundRuns(n) /\ enough(vcs, lcl[n])
    /\ waiting' = [waiting EXCEPT ![n] = FALSE]
    /\ valid' = IF Len(lcl[n]) > Len(valid[n]) /\ isCompatible(n, lcl[n])
                THEN [valid EXCEPT ![n] = lcl[n]] ELSE valid
    /\ UNCHANGED <<lcl, lastValid, building, enforcer, cache, have, accepting,
                   vals, pend, sent, vcs, validated, forgot>>

-----------------------------------------------------------------------------
(* Time and restarts.                                                      *)

\* SeqEnforcer: valSeqExpires_ after the last validation its sequence is forgotten.
expireEnforcer(n) ==
    /\ n \in Validator \cap MayForget /\ enforcer[n] > 0
    /\ enforcer' = [enforcer EXCEPT ![n] = 0]
    /\ forgot' = forgot \cup {n}
    /\ UNCHANGED <<lcl, valid, lastValid, building, cache, have, accepting, waiting,
                   vals, pend, sent, vcs, validated>>

\* A restart: the ledgers and the validated one are in the databases, all else
\* is new.
restart(n) ==
    /\ n \in MayForget
    /\ forgot' = forgot \cup ({n} \cap Validator)
    /\ enforcer' = [v \in Validator |-> IF v = n THEN 0 ELSE enforcer[v]]
    /\ lcl' = [lcl EXCEPT ![n] = valid[n]]
    /\ lastValid' = [lastValid EXCEPT ![n] = genesis]
    /\ building' = [building EXCEPT ![n] = 0]
    /\ vals' = [vals EXCEPT ![n] = {}]
    /\ cache' = [cache EXCEPT ![n] = genesis]
    /\ accepting' = [accepting EXCEPT ![n] = genesis]
    /\ pend' = {p \in pend : p[1] # n}
    /\ waiting' = [waiting EXCEPT ![n] = TRUE]
    /\ UNCHANGED <<valid, have, sent, vcs, validated>>

-----------------------------------------------------------------------------
Next ==
    \E n \in Node :
        \/ setBuildingLedger(n)
        \/ \E set \in TxSet, how \in {"full", "partial", "none"} : doAccept(n, set, how)
        \/ switchLCL(n)
        \/ \E th \in Thread, L \in Ledger : doValid(n, th, L)
        \/ \E v \in Validator, L \in Ledger, current \in BOOLEAN :
             handleNewValidation(n, v, L, current)
        \/ \E L \in Ledger : acquisitionDone(n, L)
        \/ \E L \in Ledger : peerValidationSetData(n, L)
        \/ \E L \in Ledger : handleWrongLedger(n, L)
        \/ \E L \in Ledger : switchLastClosedLedger(n, L)
        \/ rollback(n)
        \/ launchViewChange(n)
        \/ onViewChange(n)
        \/ expireEnforcer(n)
        \/ restart(n)

Spec == Init /\ [][Next]_vars

\* Threads run on, a ledger that is asked for arrives, and the timeouts repeat
\* until a peer has answered with its validation set.  Nothing is assumed of the
\* delivery of the validations themselves.
Fairness ==
    \A n \in Node, L \in Ledger :
        /\ \A th \in Thread : WF_vars(doValid(n, th, L))
        /\ WF_vars(acquisitionDone(n, L))
        /\ WF_vars(peerValidationSetData(n, L))

FairSpec == Spec /\ Fairness

-----------------------------------------------------------------------------
(* Properties.                                                             *)

VQ == INSTANCE ValidationQuorum WITH
        Quorums <- {S \in SUBSET Validator : Cardinality(S) >= quorum},
        seqOf <- [L \in Ledger |-> Len(L)]

\* The node's steps are steps of ValidationQuorum: nothing but an expired or
\* restarted enforcer lets a validator sign a sequence twice, and no thread calls
\* doValid for a ledger that has no quorum of signed validations, whether it was
\* found in byLedger_, in the cache of the last validations or in a peer's
\* validation set.  Hence Agreement of ValidationQuorum.
ImplementsQuorum == VQ!Spec

\* A ledger that a node takes as fully validated has a quorum behind it, of
\* validations or, through the shortcut of the first view change, of view changes
\* on it.
ValidIsBacked ==
    \A n \in Node :
        valid[n] # genesis => enough(sent, valid[n]) \/ enough(vcs, valid[n])

\* Once some node has fully validated a ledger, every other node's validated
\* ledger gets at least that far, even if it lost all the validations or ignored
\* them because it was building that sequence: the peer's validation set is
\* enough.
ValidatedSpreads ==
    \A n \in Node, L \in Ledger :
        (\E m \in Node : <<m, L>> \in validated) ~> Len(valid[n]) >= Len(L)
=============================================================================
