------------------------------ MODULE HotStuff ------------------------------
(***************************************************************************)
(* The HotStuff consensus of peersafe/consensus/hotstuff: the rounds of    *)
(* RoundManager and RoundState, the voting rules of HotstuffCore, the      *)
(* collection of votes in PendingVotes, the certificates and commits of    *)
(* BlockStorage.                                                           *)
(*                                                                         *)
(* Timeout certificates are never formed (PendingVotes::insertVote), so a  *)
(* round opens only with the certificate of the round before: the round of *)
(* a block is one more than the round of the block it extends.  A block is *)
(* therefore the sequence of the authors of its chain, its round is its    *)
(* length, and what it extends is its front.  ProposalGenerator makes one  *)
(* proposal per round, and the nil block of a round is determined by what  *)
(* it extends, so the sequence identifies the block as its hash does.  A   *)
(* certificate, like a vote, names a block and the number of timeouts tc.  *)
(* The current round is one more than the highest certified round.         *)
(*                                                                         *)
(* Peer messages are handled under the consensus mutex; handle_proposal    *)
(* jobs and the round timer run without it, so ConstructAndSignVote takes  *)
(* two steps: its checks, and the signature.  Messages are never removed:  *)
(* they may be lost, delayed, reordered and duplicated.  A vote or         *)
(* proposal that waits for a block (cache_votes_, blockAcquiring_) is one  *)
(* that is still on its way.  The ledger layer (StateCompute) is external: *)
(* it may fail to execute or to verify a block at any time.                *)
(***************************************************************************)
EXTENDS Integers, Sequences, FiniteSets

CONSTANTS
    N,          \* number of validators
    None,       \* no vote
    MaxRound,   \* bound: rounds in which validators act
    MaxTimer,   \* bound: rounds in which round timers expire
    MaxTimeout  \* bound: expiries of round timers

ASSUME NAssumption == N \in Nat \ {0}
ASSUME BoundAssumption == MaxRound \in Nat /\ MaxTimer \in Nat /\ MaxTimeout \in Nat

Validator == 0..(N - 1)

\* The author of a nil block.
Nil == N

ASSUME NoneAssumption == None \notin [block : Seq(0..N), tc : Nat, timeout : BOOLEAN]

VARIABLES
    store,       \* BlockStorage and RoundState of each validator
    safety,      \* HotstuffCore::safety_data_
    jobs,        \* queued handle_proposal jobs
    voting,      \* calls of ConstructAndSignVote past their checks
    timeouts,    \* number of expiries so far
    proposals,   \* proposals broadcast
    votes        \* votes sent: author, recipients, vote, highest certificate

vars == <<store, safety, jobs, voting, timeouts, proposals, votes>>

\* ValidatorList::calculateQuorum
quorum == IF N < 4 THEN N ELSE N - ((N - 1) \div 3)

\* HotstuffAdaptor::GetValidProposer
GetValidProposer(round) == round % N

Block == Seq(0..N)
QuorumCert == [block : Block, tc : Nat]
Vote == [block : Block, tc : Nat, timeout : BOOLEAN]

Round(block) == Len(block)
Parent(block) == SubSeq(block, 1, Len(block) - 1)

vote(block, tc, timeout) == [block |-> block, tc |-> tc, timeout |-> timeout]
cert(block, tc) == [block |-> block, tc |-> tc]

\* Block::new_genesis_block
genesis == cert(<<>>, 0)

\* current_round_ of the validator with block store s
CurrentRound(s) == Round(s.hqc.block) + 1

NoVotes == [v \in Validator |-> None]

\* Hotstuff::start
Init ==
    /\ store = [n \in Validator |->
                  [hqc |-> genesis, blocks |-> {<<>>}, committed |-> {<<>>},
                   send_vote |-> None, author_to_vote |-> NoVotes, signatures |-> {}]]
    /\ safety = [n \in Validator |->
                  [last_vote |-> None, last_voted_round |-> 0, preferred_round |-> 0]]
    /\ timeouts = 0
    /\ jobs = [n \in Validator |-> {}]
    /\ voting = [n \in Validator |-> {}]
    /\ proposals = {}
    /\ votes = {}

-----------------------------------------------------------------------------
(* Certificates.                                                           *)

\* ConstructLedgerInfo: a certificate commits the block two rounds before.
CommitInfo(block) == SubSeq(block, 1, Len(block) - 2)

\* preCommit: commits a block of a round above the committed ones, if it is known.
commits(s, qc) ==
    /\ Round(qc.block) > 2
    /\ CommitInfo(qc.block) \in s.blocks
    /\ \A b \in s.committed : Round(b) < Round(CommitInfo(qc.block))

\* Mutant: a certificate commits the block it certifies.
openRoundCommits(s, qc) ==
    [s EXCEPT !.hqc = qc, !.committed = @ \cup {qc.block},
              !.send_vote = None, !.author_to_vote = NoVotes, !.signatures = {}]

\* Mutant: a commit replaces the earlier ones.
openRoundForgets(s, qc) ==
    [s EXCEPT !.hqc = qc, !.committed = IF commits(s, qc) THEN {CommitInfo(qc.block)} ELSE @,
              !.send_vote = None, !.author_to_vote = NoVotes, !.signatures = {}]

\* insertQuorumCert and RoundState::ProcessCertificates: the certificate becomes
\* the highest one, commits, and opens the next round with no votes.
openRound(s, qc) ==
    [s EXCEPT !.hqc = qc,
              !.committed = IF commits(s, qc) THEN @ \cup {CommitInfo(qc.block)} ELSE @,
              !.send_vote = None, !.author_to_vote = NoVotes, !.signatures = {}]

hasNewerCertificate(s, qc) == Round(qc.block) > Round(s.hqc.block)

\* VoteData::Verify: a nil block has no timestamp, so it lags behind a proposal.
Verify(qc) ==
    LET r == Round(qc.block)
    IN  ~(r > 1 /\ qc.block[r] = Nil /\ qc.block[r - 1] # Nil)

\* The certified block is fetched from the sender if unknown, then SyncUp.
SyncUp(s, qc) ==
    LET t == [s EXCEPT !.blocks = @ \cup {qc.block}]
    IN  IF hasNewerCertificate(s, qc) THEN openRound(t, qc) ELSE t

\* EnsureRoundAndSyncUp, up to the comparison of the rounds after SyncUp.
EnsureRound(s, round, qc) ==
    /\ round >= CurrentRound(s)
    /\ hasNewerCertificate(s, qc) => Verify(qc)

-----------------------------------------------------------------------------
(* Proposals and votes.                                                    *)

\* GenerateThenBroadCastProposalInTimer, SignProposal: the valid proposer of the
\* round and its timeouts extends the highest certificate, once per round, unless
\* it has voted in the round; its own handle_proposal job is queued at once.
GenerateProposal(n) ==
    LET qc == store[n].hqc
        round == CurrentRound(store[n])
        p == cert(Append(qc.block, n), qc.tc)
    IN  /\ round <= MaxRound
        /\ GetValidProposer(round + qc.tc) = n
        /\ p \notin proposals
        /\ round > safety[n].last_voted_round
        /\ proposals' = proposals \cup {p}
        /\ jobs' = [jobs EXCEPT ![n] = @ \cup {p}]
        /\ UNCHANGED <<store, safety, voting, timeouts, votes>>

\* peerProposal: CheckProposal, then a handle_proposal job.
CheckProposal(n, p) ==
    LET qc == cert(Parent(p.block), p.tc)
    IN  /\ p.block[Len(p.block)] # n
        /\ EnsureRound(store[n], Round(p.block), qc)
        /\ store' = [store EXCEPT ![n] = SyncUp(@, qc)]
        /\ jobs' = [jobs EXCEPT ![n] = @ \cup {p}]
        /\ UNCHANGED <<safety, voting, timeouts, proposals, votes>>

\* recordVote, then sendVote or broadcast with the sender's highest certificate.
send(n, s, v, to) ==
    /\ store' = [store EXCEPT ![n] = [s EXCEPT !.send_vote = v]]
    /\ votes' = votes \cup {[from |-> n, to |-> to, vote |-> v, sync |-> s.hqc]}

\* A last vote on a block whose parent is the genesis block does not count.
hasLastVote(sd) == sd.last_vote # None /\ Round(sd.last_vote.block) > 1

\* What the checks of ConstructAndSignVote end in: no vote for a block that extends
\* less than the preferred round, the last vote if it is of the same round, no vote
\* for a round that is not above the last voted one, otherwise a new vote.
Answer(sd, block) ==
    CASE Round(block) - 1 < sd.preferred_round -> "refuse"
      [] Round(block) - 1 >= sd.preferred_round /\ ~hasLastVote(sd) -> "sign"
      [] Round(block) - 1 >= sd.preferred_round /\ hasLastVote(sd) ->
            IF Round(sd.last_vote.block) = Round(block) THEN "repeat"
            ELSE IF Round(block) > sd.last_voted_round THEN "sign" ELSE "stale"

\* Mutant: the preferred round follows every block, also downwards.
SafetyAfterAny(sd, block) ==
    IF Answer(sd, block) = "refuse" THEN sd
    ELSE [sd EXCEPT !.preferred_round = Round(block) - 2,
                    !.last_voted_round = IF hasLastVote(sd) /\ Answer(sd, block) # "stale"
                                         THEN Round(block) ELSE @]

\* VerifyAndUpdatePreferredRound, VerifyAndUpdateLastVoteRound
SafetyAfter(sd, block) ==
    IF Answer(sd, block) = "refuse" THEN sd
    ELSE [sd EXCEPT !.preferred_round = IF Round(block) - 2 > @ THEN Round(block) - 2 ELSE @,
                    !.last_voted_round = IF hasLastVote(sd) /\ Answer(sd, block) # "stale"
                                         THEN Round(block) ELSE @]

\* ExecuteAndVote up to the signature: the block is executed and stored; the vote
\* is refused, or repeated, or about to be signed.
ExecuteAndVote(n, v, to) ==
    LET s == [store[n] EXCEPT !.blocks = @ \cup {v.block}]
        answer == Answer(safety[n], v.block)
    IN  /\ safety' = [safety EXCEPT ![n] = SafetyAfter(@, v.block)]
        /\ \/ /\ answer \in {"refuse", "stale"}
              /\ store' = [store EXCEPT ![n] = s]
              /\ UNCHANGED <<voting, votes>>
           \/ /\ answer = "repeat"
              /\ send(n, s, [safety[n].last_vote EXCEPT !.timeout = v.timeout], to)
              /\ UNCHANGED voting
           \/ /\ answer = "sign"
              /\ store' = [store EXCEPT ![n] = s]
              /\ voting' = [voting EXCEPT ![n] = @ \cup {[vote |-> v, to |-> to]}]
              /\ UNCHANGED votes

\* The end of ConstructAndSignVote and of its caller, not reached when the ledger
\* layer does not verify the block (ExtensionCheck).
SignVote(n, w) ==
    /\ voting' = [voting EXCEPT ![n] = @ \ {w}]
    /\ safety' = [safety EXCEPT ![n].last_vote = [w.vote EXCEPT !.timeout = FALSE]]
    /\ send(n, store[n], w.vote, w.to)
    /\ UNCHANGED <<jobs, timeouts, proposals>>

\* ProcessProposal, on a handle_proposal job: nothing when the block cannot be
\* executed (compute).  The vote goes to the proposer of the next round.
ProcessProposal(n, p) ==
    /\ jobs' = [jobs EXCEPT ![n] = @ \ {p}]
    /\ GetValidProposer(Round(p.block) + p.tc) = p.block[Len(p.block)]
    /\ ExecuteAndVote(n, vote(p.block, p.tc, FALSE),
                      {GetValidProposer(Round(p.block) + 1 + p.tc)})
    /\ UNCHANGED <<timeouts, proposals>>

\* ProcessLocalTimeout: repeats the vote recorded in the round, signed for one more
\* timeout, or votes for a nil block.
ProcessLocalTimeout(n) ==
    LET sent == store[n].send_vote
        hqc == store[n].hqc
    IN  /\ CurrentRound(store[n]) <= MaxTimer
        /\ IF sent # None /\ Round(sent.block) > 1
           THEN /\ send(n, store[n], vote(sent.block, hqc.tc + 1, TRUE), Validator)
                /\ UNCHANGED <<safety, voting>>
           ELSE ExecuteAndVote(n, vote(Append(hqc.block, Nil), hqc.tc, TRUE), Validator)
        /\ timeouts < MaxTimeout /\ timeouts' = timeouts + 1
        /\ UNCHANGED <<jobs, proposals>>

-----------------------------------------------------------------------------
(* Collecting votes.                                                       *)

\* PendingVotes::insertVote: an author's vote replaces its earlier one if it counts
\* another number of timeouts or adds the timeout signature.
replaces(earlier, v) ==
    \/ earlier = None
    \/ earlier.tc # v.tc
    \/ earlier.block = v.block /\ ~earlier.timeout /\ v.timeout

\* Mutant: votes on one block are counted together whatever their timeouts.
SignersOfBlock(signatures, qc) ==
    {a \in Validator : \E s \in signatures : s[1] = a /\ s[2].block = qc.block}

\* The signatures li_digest_to_votes_ holds for the data of a vote.
Signers(signatures, qc) == {a \in Validator : <<a, qc>> \in signatures}

\* A vote that completes a quorum of signatures on its data makes a certificate.
insertVote(s, author, v) ==
    LET qc == cert(v.block, v.tc)
        signatures == s.signatures \cup {<<author, qc>>}
    IN  IF Cardinality(Signers(signatures, qc)) >= quorum
        THEN openRound(s, qc)
        ELSE [s EXCEPT !.author_to_vote[author] = v, !.signatures = signatures]

\* ProcessVote: a vote is counted in its own round, once its block is known, by the
\* proposer of the next round, or by everyone if it is a timeout.
countsVote(n, s, v) ==
    /\ Round(v.block) = CurrentRound(s)
    /\ v.block \in s.blocks
    /\ v.timeout \/ GetValidProposer(Round(v.block) + 1 + v.tc) = n

ProcessVote(n, m) ==
    /\ n \in m.to
    /\ EnsureRound(store[n], Round(m.vote.block), m.sync)
    /\ LET s == SyncUp(store[n], m.sync)
       IN  store' = [store EXCEPT ![n] =
                       IF countsVote(n, s, m.vote) /\ replaces(s.author_to_vote[m.from], m.vote)
                       THEN insertVote(s, m.from, m.vote) ELSE s]
    /\ UNCHANGED <<safety, jobs, voting, timeouts, proposals, votes>>

Next ==
    \E n \in Validator :
        \/ GenerateProposal(n)
        \/ \E p \in proposals : CheckProposal(n, p)
        \/ \E p \in jobs[n] : ProcessProposal(n, p)
        \/ ProcessLocalTimeout(n)
        \/ \E w \in voting[n] : SignVote(n, w)
        \/ \E m \in votes : ProcessVote(n, m)

Spec == Init /\ [][Next]_vars

-----------------------------------------------------------------------------
(* Properties.                                                             *)

SafetyData ==
    [last_vote : {None} \cup Vote, last_voted_round : Nat, preferred_round : Nat]

Store ==
    [hqc : QuorumCert, blocks : SUBSET Block, committed : SUBSET Block,
     send_vote : {None} \cup Vote, author_to_vote : [Validator -> {None} \cup Vote],
     signatures : SUBSET (Validator \X QuorumCert)]

\* Every variable has its type: what a validator has queued was proposed, and the
\* preferred round of HotstuffCore never falls below zero.
TypeOK ==
    /\ store \in [Validator -> Store]
    /\ safety \in [Validator -> SafetyData]
    /\ jobs \in [Validator -> SUBSET proposals]
    /\ voting \in [Validator -> SUBSET [vote : Vote, to : SUBSET Validator]]
    /\ timeouts \in Nat
    /\ proposals \in SUBSET QuorumCert
    /\ votes \in SUBSET [from : Validator, to : SUBSET Validator, vote : Vote, sync : QuorumCert]

\* The validators that signed a vote on the data of a certificate.
signedBy(qc) ==
    {a \in Validator : \E m \in votes : m.from = a /\ cert(m.vote.block, m.vote.tc) = qc}

Certified(qc) == qc = genesis \/ Cardinality(signedBy(qc)) >= quorum

\* Every certificate a validator holds or sends, in a proposal or with a vote, is
\* backed by a quorum of validators that signed a vote on just that block and number
\* of timeouts, however insertVote replaced the votes of its authors meanwhile.
CertificatesReal ==
    /\ \A n \in Validator : Certified(store[n].hqc)
    /\ \A p \in proposals : Certified(cert(Parent(p.block), p.tc))
    /\ \A m \in votes : Certified(m.sync)

\* ConstructAndSignVote: "if already voted on this round, send back the previous
\* vote".  After the first round, which the code exempts, a validator signs no two
\* blocks of one round.
OneVotePerRound ==
    LET late == {m \in votes : Round(m.vote.block) > 1}
    IN  \A m1, m2 \in late :
            m1.from = m2.from /\ Round(m1.vote.block) = Round(m2.vote.block)
                => m1.vote.block = m2.vote.block

prefix(b, c) == Len(b) <= Len(c) /\ b = SubSeq(c, 1, Len(b))

\* The blocks that validators commit lie on one chain as long as OneVotePerRound
\* holds: neither the second vote that ConstructAndSignVote allows in the first
\* round, nor late jobs, repeated timeouts or skipped rounds make two commits differ.
CommitAgreement ==
    OneVotePerRound =>
        \A m, n \in Validator : \A b \in store[m].committed, c \in store[n].committed :
            prefix(b, c) \/ prefix(c, b)

CL == INSTANCE CommitLog WITH committed <- [n \in Validator |-> store[n].committed],
                              safe <- OneVotePerRound

\* The validators' steps are steps of CommitLog: insertQuorumCert and preCommit only
\* add blocks of higher rounds, whichever certificates arrive late or repeatedly with
\* proposals and votes, and only a second vote in a round can let a commit leave the
\* chain of the others.
ImplementsLog == CL!Spec
=============================================================================
