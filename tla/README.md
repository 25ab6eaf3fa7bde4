# ChainSQL: TLA+ models and proofs

TLA+ modules, TLC configurations and TLAPS proofs for `chainsqld`, the node
software of ChainSQL (a fork of rippled with its own consensus, transaction pool
and table storage). Paths below are relative to `src/src/`.

All nodes are taken to run the code. They may crash and restart (but for HotStuff), and their
messages may be lost, delayed, reordered and repeated; none is malicious.

## 1. The system and its parts

A node receives transactions, pools them, agrees with the other validators on
a set of them, closes a ledger with the set, and takes the ledger as fully
validated once a quorum of validators has signed it. The consensus is chosen by
the configuration (`RCLConsensus.cpp`): PoP (the default), RPCA or HotStuff.
Validated ledgers feed the table synchronisation, which replays SQL
transactions into a database.

| part | state | operations | what is hard |
|---|---|---|---|
| transaction pool (`TxPool`) | the pool and its index, the avoid set by hash and by sequence, the sync status | insertTx, removeTxs, removeTx, updateAvoid, clearAvoid, removeExpired, timerEntry | two containers updated by hand under locks taken per transaction; ledgers removed out of order by two threads |
| validation of ledgers (`Validations.h`, `RpcaPopAdaptor`, `LedgerMaster`) | received validations, the sequence enforcer, last closed and validated ledger, the cache of the last validations | validate, handleNewValidation, checkLedgerAccept, doValid, AcquisitionDone, peerValidationSetData | three threads validate without a common lock; enforcers expire; nodes roll back and restart |
| PoP rounds (`PopConsensus`, `ViewChangeManager`) | phase, view, votes, cached proposals, view changes | phaseCollecting, peerProposal, gotTxSet, checkTimeout, peerViewChange, the accept job, the rollback | votes of other rounds and views, repeated view changes, rollback after timeouts |
| HotStuff (`RoundManager`, `HotstuffCore`, `BlockStorage`, `PendingVotes`) | the highest certificate, known and committed blocks, collected votes, the safety data | GenerateProposal, CheckProposal, ProcessProposal, ProcessVote, ProcessLocalTimeout, SyncUp, commit | jobs and timers without the consensus mutex, votes signed again after a timeout, certificates that arrive late |
| RPCA (`RpcaConsensus`) | positions, disputes, thresholds | phaseOpen, phaseEstablish, peerProposal, updateOurPositions | stale positions, integer percentages, bow-outs |
| ledger trie, preferred ledger | trie of validated branches | insert, remove, getPreferred | a pure algorithm with branching data |
| table synchronisation (`TableSync`, `TableSyncItem`) | the item's state, two queues, three job flags, the table's row of SyncTableState | TableSyncThread, LocalSyncThread with SeekTableTxLedger, OperateSQLThread with DealWithEveryLedgerData | three jobs that share an item, retries after a lost connection, crashes between slices, spans of ledgers skipped |
| table storage (`first_storage`) | SQL transactions ahead of consensus | the jobs of `TableStorageItem` | rollback against ledger order |
| connection pool, bloom index, schemas | small shared containers | get/release/sweep, processSections, create/remove | unlocked accesses, reads of what may have gone |
| ledger acquisition, overlay, validator list, network operations | | | modelled as far as the parts above use them |
| transactors, smart contracts, payment engine, SQL text, cryptography, RPC, node store | | | not modelled: computation on data, interpreters, I/O |

`PROJECT.json` lists every component with its sources, and the main hazards with their
lines and the properties that cover them.

## 2. Modules

| module | models | depends on |
|---|---|---|
| `TxPool` | `peersafe/app/misc/TxPool.{h,cpp}` and its callers | |
| `ValidationQuorum` | the promise of the validation layer (abstract) | |
| `LedgerValidation` | the validation layer in detail; implements `ValidationQuorum` | `ValidationQuorum` (INSTANCE) |
| `ViewChangeManager` | `peersafe/consensus/pop/impl/ViewChangeManager.cpp` | |
| `PopRound` | `peersafe/consensus/pop/impl/PopConsensus.cpp` and `PopAdaptor.cpp` | `ViewChangeManager` |
| `CommitLog` | the promise of HotStuff to the ledger layer (abstract) | |
| `HotStuff` | `peersafe/consensus/hotstuff/impl/`; implements `CommitLog` | `CommitLog` (INSTANCE) |
| `TableReplay` | the promise of the table synchronisation to the readers of the database (abstract) | |
| `TableSync` | `peersafe/app/table/impl/TableSync.cpp` and `TableSyncItem.cpp`; implements `TableReplay` | `TableReplay` (INSTANCE) |

`MC...` modules give constants for TLC, `...Proofs` modules hold the theorems
(those about `TableSync` are in three: types and lemmas in `TableSyncProofs`, what is
executed in `TableOrderProofs`, what is searched in `TableCoverProofs`).
Operators named as a mutant in their comment are not part of a model: each is a
plausible bug, with which the property it is paired with in `PROJECT.json` fails.

### TxPool

One variable per container: `mTxsSet`, `mTxsHash`, `mAvoidBySeq`,
`mAvoidByHash`, `mSyncStatus`. A step is what happens under one hold of the locks:
`removeTxs` is therefore several steps of a thread (`removeTxsItem`,
`removeTxsClearAvoid`, `checkSyncStatus`, `checkSyncStatusInit`), run by the thread
that validates and by the timer. A transaction has a slot, its (account,
sequence), and a LastLedgerSequence; the rest of it does not matter. The history
variables `cleared`, `synced` and `firstSeq` serve the properties.
`topTransactions` only reads.

### ValidationQuorum and LedgerValidation

`ValidationQuorum` says what the layer may do: a validator signs rising
sequences unless its enforcer was reset, and a node validates a ledger only with
a quorum of signatures.

`LedgerValidation` has the code: closing a ledger and the accept job, received
validations (current or stale), the check `checkLedgerAccept` and the `doValid`
that follows it as two steps of any of three threads, the acquisition of ledgers,
the peers' validation sets, view changes with the shortcut for the first ledger,
wrong and switched last closed ledgers, rollback, expiry and restart. A ledger is
the sequence of the transaction sets in its history, which is what its hash
stands for. Nothing is assumed of the rounds: any set may be closed.

### PopRound

The handlers of `PopConsensus` hold `RCLConsensus::mutex_`, so each is one step,
with everything it calls: a round that starts replays cached proposals, a vote
that completes a quorum closes the ledger in the same step. The accept job runs
without the mutex and is a step of its own (`doAccept`), which also sends the
validation, picks the last closed ledger for the next round (its own, or another
one that it hears of) and starts it. `checkLedgerAccept` is the validation layer
reduced to its promise. What was sent stays in `proposals`, `viewChanges` and
`sent`, and may be handled late, in any order, again, or never.

The number of validators is `N`; the leader is `(sequence + view) % N` and
the quorum is that of `ValidatorList::calculateQuorum`. `PreStart` are the modes
that `preStartRound` may choose.

Left out: mode wrongLedger, the init phase and its announcements, changes of the
validator list, close times, and the exchange of messages that acquires a ledger.

### HotStuff

Timeout certificates are never formed (the code that aggregates them is commented
out), so a round opens only with the certificate of the round before. A block is
therefore the sequence of the authors of its chain, and its round is its length;
`Nil` is the author of a nil block. A certificate, like a vote, names a block and a
number of timeouts, and both are covered by the signature.

`store` is what a validator's `BlockStorage`, `RoundState` and `PendingVotes` hold,
`safety` its `safety_data_`. Peer messages are handled under the consensus mutex:
`CheckProposal` and `ProcessVote` are one step each, with the synchronisation to the
certificate they carry, the commit it brings and the round it opens. The
`handle_proposal` jobs and the round timer run without that mutex:
`ConstructAndSignVote` reads the safety data in one step (`ExecuteAndVote`) and
records the vote in another (`SignVote`). Messages stay in `proposals` and
`votes`; a vote that waits for its block in the code is one that is handled later.
The ledger layer behind a block may refuse it at any time.

`CommitLog` is the view from outside: each validator commits blocks of higher and
higher rounds, takes none back, and all commits lie on one chain until some validator
has signed two blocks of a round. The mapping takes `store[n].committed` for the
log and `OneVotePerRound` for `safe`.

### TableSync

One table, replayed from the node's own ledgers. A ledger's transactions for the
table come in slices, each committed with the table's row of SyncTableState by one
database transaction; `slices` says how many each ledger has. `item` is the
`TableSyncItem`; `syncJob`, `localJob` and `sqlJob` are the three jobs with their
local variables, idle when their flag is false. A step is what no other job can
see the middle of: one ledger read by `SeekTableTxLedger` with the `SendData` that
follows, one slice of `DealWithEveryLedgerData`, and, apart from these, the reset of
a job's flag. `contents` is a history variable: the slices the table is made of.

The row stores the hash of the last transaction executed; in the model a slice
stands for it. `TableEntry(k, txn, prev)` is what the table's entry in ledger k
says of the last two ledgers that touched the table: the search decides on these
two numbers alone, as the code does. A ledger may be published with a gap behind
it and the gap be filled later. Faults: the connection is lost at any statement; a
commit fails, with the connection or not, before or after it took effect; the node
crashes and starts again at any time.

`TableReplay` is the view of those who query the database: the table grows by the
ledgers' slices in order and is not dropped once its creation is complete; each failed
commit may spoil one step. The mapping takes `contents` for the table, `failed` for the
failures, and reads from the row whether the creation is complete.

Left out: data from peers (`remote_sync`, off by default), conditions on a table,
tables dropped, renamed or created again, several tables, and the requests of
table storage to stop and restart an item.

## 3. Runs

| run | instance | shows |
|---|---|---|
| `tx_pool` | 2 transactions that share a slot, 3 ledgers, 2 threads, fairness | containers and index agree (`PoolConsistent`); avoid entries can be released (`AvoidFiled`) and stay so (`AvoidReleased`); an available pool missed no ledger (`AvailableMeansSynced`); one that is not asks for the highest ledger it misses (`AsksForMissing`); a pool that fell behind recovers (`PoolRecovers`) |
| `validation_quorum` | 4 validators, quorums of 3, 2 competing ledgers | `Agreement` |
| `ledger_validation` | 2 validators, 2 sets, 1 ledger, expiry and restart | every step is one of `ValidationQuorum` (`ImplementsQuorum`) |
| `ledger_spread` | 2 validators, 2 sets, 1 ledger, 2 view changes, fairness | a valid ledger has a quorum behind it (`ValidIsBacked`); a validated ledger reaches everybody (`ValidatedSpreads`) |
| `pop_round` | 2 validators, 3 sets with the empty one, 1 ledger, 2 view changes | `VotesAreReal`, `VoteFollowsLeader`, `ClosedByConsensus`, `ValidatedAgree`, `NoViewSkipped`; nothing that arrives while a ledger is being accepted changes it (`DecisionStands`) |
| `pop_follower` | 1 validator and an observer, 2 ledgers, views up to 2 | `SignedWasVoted`, `NoViewSkipped` for a node that follows |
| `hotstuff` | 2 validators, 3 rounds, 2 expired timers in the first 2 rounds | certificates have a quorum of signatures (`CertificatesReal`); commits lie on one chain while nobody votes twice in a round after the first (`CommitAgreement`), and only grow (`ImplementsLog`) |
| `table_sync` | 4 ledgers, 2 of them with 2 slices for the table, spans of 2, 1 retry, 1 failed commit, 1 crash, fairness | slices are executed once and in order, up to one break for each failed commit (`ExecutedInOrder`); row and table move together (`ImplementsReplay`); nothing between the row and the item's position is skipped (`NothingSkipped`); what is queued is taken (`QueueTaken`) |
| `pop_result`, `pop_history`, `hotstuff_vote`, `table_wait` | see section 5 | where the code differs from what its comments and docs say |

Bounds. Competing ledgers need two sets; with three ledgers two can be missing in the pool at once (that the pool keeps within its capacity is left
to the proof: the two transactions exclude each other before it is full); a view that could be skipped needs a second view;
a stale vote needs a second round or view. A HotStuff commit needs a certificate of
round 3, a second vote an expired timer. The table run needs a ledger that leaves
the table alone between two that touch it, a ledger with two slices (a crash
between them), and a span with a change in it next to one without. With 2 validators
the quorum is both of them; quorums that are a proper subset are in
`validation_quorum` (3 of 4), and in the proofs, which hold for every number of
validators. A node that is no validator is in `pop_follower` and in the proofs;
`ledger_spread` leaves it out for the sake of competing sets and view changes. `MaxSeq`, `MaxRound`, `MaxTimer`, `MaxTimeout`, `MaxFail`, `MaxCrash`,
`MaxView` and `MaxViewChange` cut off counters that the code lets grow. The runs of
`PopRound`, `HotStuff` and `TableSync` do not check for deadlock because the
bounded instance stops at `MaxSeq` or `MaxRound`. Symmetry is used over
transaction sets or validators that the instance does not tell apart, in runs without liveness. `pop_history` looks
only at behaviours in which the validators' messages are late (`Unheard`), which
is enough for a counterexample.

Fairness. `tx_pool`: the heartbeat timer keeps firing, a thread inside
`removeTxs` runs on, and the ledgers asked for are fetched (`acquireLedger`, an
assumption about the peers). `ledger_spread`: threads run on, a requested
ledger arrives, and a peer eventually answers with its validation set, which a
node asks for again on every timeout. Nothing is assumed of the delivery of
validations. `table_sync` and `table_wait`: a job that was queued runs and goes on
(`SyncJob`, `LocalJob`, `SQLJob`: the job queue), ledgers are published and
`TryTableSync` is called for each. Nothing is assumed of the database: a
connection may be lost every time until the retries are used up.

## 4. Theorems

All for any values of the constants that satisfy the named assumptions.

| theorem | statement | inductive invariant |
|---|---|---|
| `TxPoolProofs!PoolAlwaysConsistent` | `PoolConsistent` | inductive with `TypeOK` |
| `TxPoolProofs!AvoidAlwaysFiled`, `AvoidAlwaysReleased` | `AvoidFiled`, `AvoidReleased` | `AvoidInv`: only validated sequences are cleared, threads work on validated sequences |
| `TxPoolProofs!AvailableAlwaysSynced` | `AvailableMeansSynced` | `SyncInv`: what lies below the start or in `mapSynced` was removed, and the highest ledger is in `mapSynced` until the start passes it |
| `TxPoolProofs!AlwaysAsksForMissing` | `AsksForMissing` | `FetchInv`: only validated ledgers are stored, removed and recorded; `AskInv`: what was removed is below the start or in `mapSynced`, and `prevHash` is the highest gap between the start and the highest ledger |
| `ValidationQuorumProofs!AgreementHolds` | `Agreement`, for any quorum system | `IInv`: a validated ledger has a quorum; an enforcer that was not reset bounds what was signed |
| `LedgerValidationProofs!Refinement` | `ImplementsQuorum` | `LInv`: what was received was sent; ledgers that are pending, cached or validated have a quorum |
| `LedgerValidationProofs!ValidAlwaysBacked` | `ValidIsBacked` | `LInv` |
| `LedgerValidationProofs!NoFork` | `Agreement` of the detailed model | the refinement, and that quorums of `calculateQuorum` intersect |
| `PopRoundProofs!VotesAlwaysReal`, `VotesAlwaysFollowLeader` | `VotesAreReal`, `VoteFollowsLeader` | `VoteInv`: the stance of every node in its round and view (`Stance`), the leader's proposal behind every vote |
| `PopRoundProofs!AlwaysClosedByConsensus` | `ClosedByConsensus` | `VoteInv` |
| `PopRoundProofs!ValidatedAlwaysAgree`, `SignedAlwaysVoted` | `ValidatedAgree`, `SignedWasVoted` | `SignInv`: one signature per sequence, each of a set voted for; a valid ledger has a quorum |
| `PopRoundProofs!NeverSkipsView` | `NoViewSkipped` | `ViewInv`: nobody asks for a view before the one below it could be entered |
| `PopRoundProofs!DecisionsStand` | `DecisionStands` (an action property) | `TypeOK`: each handler either refuses phase accepted or leaves the decision alone |
| `HotStuffProofs!CertificatesAlwaysReal` | `CertificatesReal` | `IInv` with `Sound`: every block proposed, signed or about to be signed extends a chain of certified blocks |
| `HotStuffProofs!CommitsAlwaysAgree` | `CommitAgreement` | `Sound`, and that two quorums have a common member |
| `HotStuffProofs!CommitsGrowOneChain` | `ImplementsLog` | `IInv` and `CommitsAlwaysAgree`; each step makes the log of one validator grow, or leaves all logs alone (`StepGrowsOrQuiet`) |
| `TableOrderProofs!ExecutedAlwaysInOrder` | `ExecutedInOrder`, for any number of failed commits | `OrderInv` with `Ordered`: see below |
| `TableOrderProofs!TableReplaysLedgers` | `ImplementsReplay` | the same |
| `TableCoverProofs!NothingEverSkipped` | `NothingSkipped` | `IInv` with `Sound`: see below |

`TypeCorrect` of `TxPoolProofs`, `LedgerValidationProofs` and `PopRoundProofs` and
`TypesAlwaysCorrect` of `HotStuffProofs` and `TableSyncProofs` prove `TypeOK`.

None of these invariants is inductive alone: the votes a node counts are real
because what it cached was, a ledger about to be validated had its quorum when it
was checked, a view was entered because nobody could ask for the next one early.

HotStuff. That commits agree is an argument about chains: a committed block and
every block of the chain up to the certificate that commits it have a quorum. Of two
such chains, the longer one has a certified block in each round of the shorter one,
and a validator that is in both quorums of a round signed only one block of it.
The first round is the exception, in which the code lets a validator sign twice; a
commit needs a certified round 3, and from round 2 on the chains agree, hence also
below. The preferred round is not needed as long as `OneVotePerRound` holds, and
section 5 shows that it may not.

That HotStuff implements `CommitLog` adds what a step may do: handling one message can
synchronise to two certificates and so commit twice, each time a block of a round above
all committed ones (`preCommit`); jobs and timers commit nothing, and a second vote of a
round, which ends `safe`, is never signed in a step that commits.

Table synchronisation, the order. A failed commit leaves row, item, queue and table
in disagreement, so an invariant that says they agree does not survive it. `Ordered`
keeps accounts instead. `Linked` holds whatever failed: the queue is a chain in which
each ledger is the next that touches the table (`QueueChained`), the search knows the
end of that chain or can find nothing more (`SeekLinked`), hashes name slices that
exist. The number of breaks in the table never exceeds the number of failed commits;
and while the two are equal `Aligned` holds: the row tells which slice was executed
last (`Tells`), the item's update hash is the row's, the queue goes on where the row
ends, and the slice to be executed is the next one or the one just recorded. Only a
failed commit can end the agreement, and it raises the number of failures, which
leaves room for the one break that may follow; that break, recorded with the row,
brings row and table together again. The creation drops the table and the breaks
with it. The refinement adds that the creation is executed on a complete table only
while a failed commit is not accounted for.

Table synchronisation, the search. As long as no commit failed, `Sound` ties together
what three jobs and the database hold: the row's hash lies in the first ledger after
its sequence that touches the table (`RowSound`); the queue covers every such ledger
from the row to the item's position (`QueueSound`); the item knows the last one before
its position and the row's hash (`ItemSound`), the search the last one before its own
(`SeekSound`), so that a span without a newer one can be skipped; and a blocked
reply can never carry data (`BlockSound`).

Only model-checked: `PoolRecovers`, `ValidatedSpreads` and `QueueTaken` (liveness
under fairness is outside what TLAPS proves, as are ENABLED, induction over data and RECURSIVE
operators, which no module uses).

## 5. Where the code differs from its documentation

- `pop_result`: the votes are counted for `setID_`, the ledger is built from
  `result_`. After a leader proposed twice in one view they differ, and a node
  closes a ledger with a set that has no quorum. Validated ledgers of one sequence
  agree all the same (`ValidatedAgree`).
- `pop_history`: all validators sign a ledger, the validations are late, all roll
  back. They may not sign that sequence again, but they sign the next one on
  another chain: two ledgers with a quorum, neither in the other's history.
  Agreement holds per sequence only.
- `hotstuff_vote`: `ConstructAndSignVote` is to send back the previous vote of a
  round. A `handle_proposal` job and the round timer both pass its checks before
  either records a vote: the validator signs two blocks of the round.
- `table_wait`: a waiting item is to change to `SYNC_BLOCK_STOP` when the local
  search is finished. The search sets that state before its job clears
  `bLocalSyncThread_`; a `TableSyncThread` in between puts the item back to waiting
  and starts no search. With one table it waits until the node restarts.

Seen while modelling, described here without a run of their own:

- `checkLedgerAccept` compares sequences, `doValid` does not, and no lock spans the
  two: the validated ledger can go back to an earlier one (`LedgerMaster.cpp:396`),
  though `LedgerMaster.h:110` calls it the last fully validated ledger.
- View changes for view 1 that come after the jump to view 2 move a PoP node back to
  view 1: the branch at `PopConsensus.cpp:1315` does not compare views.
- A HotStuff round whose votes are split between the proposal and the nil block never
  ends, since timeout certificates are not aggregated (`PendingVotes.cpp:119`), though
  `RoundManager.cpp:195` describes the aggregation.
- The certificate of a nil block on top of a proposal fails `VoteData::Verify` (the nil
  block has no time stamp), so a node that lags behind cannot synchronise with it.
- The assert at `RoundManager.cpp:668` can fail: a certificate may move the round past
  that of the message it came with.
- A commit of a slice that fails for another reason than the connection is logged and
  the next slice follows; a commit lost with the connection has moved the item's update
  hash already. Either way a slice can be left out or executed twice, at most once for
  each failed commit (`ExecutedInOrder`).
- After a refused commit the row can move past a ledger that was not executed: the next
  reply without transactions raises LedgerSeq (`TableSyncItem.cpp:1048`) and leaves
  TxnLedgerSeq. After a restart the search compares the table's entries with a last
  transaction that is too old and may find none of the ledgers that follow. This is why
  `NothingSkipped` ends with the first failed commit.
- A ledger below `pool_start_seq` that is removed first moves the start of the pool back
  (`checkSyncStatus`): the pool then asks for more ledgers than it needs, and none is missed.
- A stopped item that is still listed keeps `TableSyncThread` in an endless loop
  (`TableSync.cpp:1273`), and with it every other table.
- What is queued after the last look of `OperateSQLThread` at its queue and before the
  reset of its flag waits for the next ledger (`TableSyncItem.cpp:1288`).

Also worth knowing: `Agreement` excepts validators that lost their enforcer
(it expires, and a restart starts it afresh); such a validator can sign a sequence
twice. And a validator in mode observing still proposes, since the code asks
`validating()`.

## 6. Not modelled

- RPCA rounds (disputes, avalanche thresholds): a protocol of their own, used only when
  the configuration asks for it; the validation layer they share with PoP is modelled.
- The preferred ledger of `LedgerTrie`: a pure algorithm; the models leave the choice
  open, so what they show does not rest on it.
- HotStuff epochs, restarts and the ledgers behind the blocks; PoP's init phase and mode
  wrongLedger; changes of the validator list.
- Table data from peers, conditions, dropped and recreated tables, several tables, table
  storage ahead of consensus, dump and audit.
- Progress of PoP rounds: messages stay available in the model, so a liveness property
  would assume that a lost view change is received in the end. Progress of HotStuff does
  not hold (section 5).
- Connection pool, bloom index, schemas: small containers with unlocked accesses, listed
  among the components.
- Transactors, smart contracts, the payment engine, SQL text, cryptography, RPC, overlay
  connections, node store: computation on data, interpreters and I/O, out of a model
  checker's reach. They are most of the code.
