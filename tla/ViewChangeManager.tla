------------------------- MODULE ViewChangeManager -------------------------
(***************************************************************************)
(* peersafe/consensus/pop/impl/ViewChangeManager.cpp: the view changes a   *)
(* node has received.  viewChangeReq_ maps a view to a map from validators *)
(* to their last view change for it; here it is the set of those messages, *)
(* with at most one per view and sender.  A view change names the ledger   *)
(* that its sender works on; a ledger is the sequence of the transaction   *)
(* sets closed since the first one.                                        *)
(***************************************************************************)
EXTENDS Integers, Sequences, FiniteSets

viewChange(v, toView, L) == [from |-> v, toView |-> toView, prev |-> L]

\* The last message of a sender for a view replaces the one before, even if that
\* was about a later ledger.
recvViewChange(req, vc) ==
    {r \in req : r.toView # vc.toView \/ r.from # vc.from} \cup {vc}

\* Drop what is about an earlier ledger, or about another one of this sequence.
onNewRound(req, L) == {r \in req : Len(r.prev) > Len(L) \/ r.prev = L}

onViewChanged(req, newView, seq) == {r \in req : r.toView > newView /\ Len(r.prev) >= seq}

\* Mutant: whatever the ledger.
askedByAny(req, toView, L) == {r.from : r \in {q \in req : q.toView = toView}}

\* Who asks for the view on top of L.
askedBy(req, toView, L) ==
    {r.from : r \in {q \in req : q.toView = toView /\ q.prev = L}}

haveConsensus(req, toView, curView, L, quorum) ==
    Cardinality(askedBy(req, toView, L)) >= quorum /\ toView > curView

\* True of the ledger, if any, on top of which a quorum asks for the view: in
\* contrast to haveConsensus, whatever the current view.
shouldTriggerViewChange(req, toView, L, quorum) ==
    Cardinality(askedBy(req, toView, L)) >= quorum
=============================================================================
