# A TLA+ model of Axiom-BFT (RBFT)

This directory models the consensus core of the repository: the replica state
machine of the Go package `rbft`, and the encoding of its messages. TLA+ modules
translate the handlers, TLC checks them on small instances, and TLAPS proves
the safety results of the normal case, of state transfer and of the choice a
new view makes, for every number of validators, batches and heights.

## The system

A cluster of validators orders batches of transactions. Each node runs one
event loop (`listenEvent`, `processEvent`) over consensus messages, local events
(timers, executor reports) and pool notifications; every handler runs to its
end before the next event is taken, and a handler processes its own messages
by direct calls. Concurrency is therefore *between* nodes and between a node
and its timers, executor and transaction pool, which post events.

| Component | State | Operations | Interaction |
|---|---|---|---|
| Validator set, quorums (`chain_config.go`, `helper.go`) | N, F, validator set, primary, tracker of recent proposers | `updateDerivedData`, `commonCaseQuorum`, `calPrimaryIDByView`, `wrfCalPrimaryIDByView`, `AddBlock` | read by every handler |
| Normal case (`rbft_impl.go`, `store_mgr.go`) | `certStore`, `seqMap`, `batchStore`, `outstandingReqBatches`, `committedCert`, `missingBatchesInFetching`, `lastExec` | `recvPrePrepare`, `recvPrepare`, `recvCommit`, `commitPendingBlocks`, `recvFetchMissingResponse` | three message types, pool, executor, timers |
| Checkpoints (`rbft_impl.go`) | `localCheckpoints`, `checkpointStore`, `higherCheckpoints`, H, `waitCheckpointBatchExecute`, `waitCheckpointFinished` | `recvCheckpointBlockExecutedEvent`, `checkpoint`, `recvCheckpoint`, `moveWatermarks` | cleans the normal case, blocks events and view changes while waiting |
| State transfer (`rbft_impl.go`) | `highStateTarget`, `StateTransferring`, `SkipInProgress` | `updateHighStateTarget`, `tryStateTransfer`, `recvStateUpdatedEvent` | application's `StateUpdate`, view change |
| View change (`viewchange_mgr.go`) | view, `viewChangeStore`, `newViewStore`, `qlist`, `plist`, `viewChangeSeqNo` | `sendViewChange`, `recvViewChange`, `sendNewView`, `recvNewView`, `assignSequenceNumbers`, `processNewView` | drops certs, reassigns heights |
| Recovery (`recovery_mgr.go`) | sync-state answers | `fetchRecoveryPQC`, `recvFetchPQCResponse`, `initSyncState`, `recvSyncStateResponse` | feeds certs back into the normal case |
| Batch manager (`batch_mgr.go`) | `seqNo`, `cacheBatch`, batch timers | `maybeSendPrePrepare`, `findNextPrepareBatch`, `primaryResubmitTransactions` | transaction pool |
| Epoch manager (`epoch_mgr.go`) | epoch, `configBatchInOrder`, `configBatchToExecute` | `turnIntoEpoch`, `fetchCheckpoint`, `processEpochChangeProof` | replaces the validator set |
| Timers, status, dispatch (`timer_mgr.go`, `status_mgr.go`, `exec.go`) | registered timer keys, two status words, cached events | `softStartTimerWithNewTT`, `createTimer`, `on`/`off`, `reProcessCacheEvents` | all of the above |
| Messages (`common/consensus`) | none | `MarshalVTStrict`, `SizeVT`, `UnmarshalVT` of 38 messages, `CloneVT` of 9 and `EqualVT` of 7 | every message sent, stored or signed |
| Persistence (`persist.go`) | Q/P/C sets, Q/P lists, batches, checkpoints, H, view | `persist*`, `restoreState`, `restoreCert` | restart |

What is hard here: quorums that complete in any order of arrival, duplicated
and late messages, a Byzantine primary, blocks that become executable while a
checkpoint block is still executing, memory that is garbage-collected while
old messages are in transit, view changes refused at the wrong moment, timers
that fired but still count as started, and restart from a partially written
log. `PROJECT.json` lists these hazards at their lines. Several of them are out
of reach of the repository's tests by construction: with `isTest` set the two
waiting states of a checkpoint are never entered (`rbft_impl.go:1781`, `:1861`).

What makes each part correct:

- normal case: agreement on the batch of a height; one prepare per height;
  commits and executions backed by quorums; execution in order, once; a
  proposed batch is eventually executed or the view is left;
- checkpoints: H only moves to what F+1 correct ledgers hold; nothing a live
  cert needs is cleaned; a node that waits can stop waiting;
- view change: what was executed in an earlier view is chosen in the next;
- state transfer: a lagging node reaches a target backed by a correct node;
- persistence: a restart neither forgets a vote nor casts a second one;
- messages: what is sent is what is read, and equal contents hash to equal bytes;
- epochs: all nodes change the validator set at the same height.

## Modules

| Module | Contents |
|---|---|
| `RbftQuorum` | N, F and the three quorum sizes |
| `NormalCase` | the normal case and its checkpoints message by message; the properties of one replica, whatever the others do |
| `NormalCaseSafety` | the properties between replicas when at most F validators are faulty, and the fair specification |
| `ViewChange` | view changes, new views, recovery and restart over several views |
| `Ledger` | what the replicas promise together; `NormalCase` implements it within a view, `ViewChange` over several |
| `StateTransfer` | checkpoints of others, targets and state transfer at one replica |
| `Persistence` | database writes, crash and restart of one replica |
| `RbftMessages`, `WireFormat` | the consensus messages and their encoding |
| `NormalCaseProofs` | type correctness of `NormalCase` |
| `AgreementProofs` | the inductive invariant, agreement and the quorum theorems |
| `ExecutionProofs` | the inductive invariant of one replica's certs, execution, cleaning and checkpoints |
| `RefinementProofs` | `NormalCase` implements `Ledger` |
| `LedgerProofs` | consistency of the abstract ledger |
| `StateTransferProofs` | the inductive invariant and the properties of `StateTransfer` |
| `PersistenceProofs` | the inductive invariant of memory, database and pending writes, and what survives a restart |
| `ViewChangeProofs` | the inductive invariant of `ViewChange` and what follows from it; what `assignSequenceNumbers` keeps, from any view changes |
| `MC*` | constants and symmetry sets for TLC |

### How `NormalCase` corresponds to the code

`node[r]` is one record, the memory of a correct node `r`. `certStore` is split
by field: `prePrep` is the set of ids whose cert holds a pre-prepare,
`prepare[id]` and `commit[id]` are the senders recorded, `sentPrepare`,
`sentCommit`, `sentExecute` the flags. The other fields carry the Go names. A
map from digests or heights is a set of ids `[n, d]`. The fields `out*` and
`executed` are histories: what the node has broadcast and handed to `Execute`.

Every handler is an operator from records to records named after the Go
function, so a handler that calls another is a composition (`SendPrepare` ends
in `RecvPrepare`, which may end in `SendCommit`, `RecvCommit` and
`CommitPendingBlocks`), and an event is one step, as in the event loop. The loop
of `commitPendingBlocks` is written in closed form: `PendingRun` is the set of
heights it executes before it stops.

- **Network.** A message is read from its sender's history: it may arrive any
  time later, any number of times, in any order or never. A validator in `Byz`
  may send anything at any time; one in neither `Byz` nor `Correct` is silent.
  A node in `Correct` that is no validator is a candidate. Signatures and sender
  identities are taken as authentic.
- **Pool** (external). `PoolResult` is what `GetRequestsByHashList` may answer:
  all transactions, some missing, or an error.
- **Proposals.** Which batch the primary has at hand is left open
  (`ProposeBatch`), so the resubmission of `cacheBatch` after a stable checkpoint
  is the same step taken next.
- **Checkpoint waiting.** While the checkpoint block executes only whitelisted
  events run (`CanProcess`, `RecvFetchPQCResponse`, `InitRecovery`). A deferred
  message is one that arrives later. `BlockExecuted(r, stable)` is the report of
  the executor; `stable` says whether the other checkpoints of a quorum were
  already stored. The checkpoints of others are counted when they complete a
  quorum (`CheckpointVotes`); a block hash stands for the blocks up to it.
- **View.** One view is modelled here. Leaving it (`SendViewChange`,
  `InitRecovery`) sets `left` and drops certs and `seqMap` as `getVcBasis` does;
  what happens in later views is in `ViewChange`. Reasons to leave that lie outside
  (null requests, f+1 view changes, sync state) are the actions `StartViewChange`
  and `InitRecovery`, switched on by `Suspicion`.
- **Timer.** `newViewTimer` is off, running, or expired with its key still
  registered, which is what `softStartTimerWithNewTT` looks at; the posted event
  is `vcEvent`.

Assumed: one epoch and no config batch, primary rotation (not the weighted
random election), a chain that starts at height 0, no state transfer in
progress, production mode (`isTest` false).

### How `ViewChange` corresponds to the code

The same shape, for several views: `node[r]` is one record, handlers are
operators, messages are read from the histories `out*`. The normal case is
taken quorum by quorum (`RecvPrepareQuorum`, `RecvCommitQuorum`,
`RecvCheckpointQuorum`): `NormalCase` shows that a quorum is what a vote rests on,
here the step that completes it is one action.

- `EnterViews` is `beforeSendVC`, `getVcBasis` and the broadcast of `sendViewChange`,
  for the views a replica goes through in one call: `Climb` joins the smallest higher
  view F+1 validators ask for, and receiving its own view change may make it join
  the next. The P and Q lists are the same for all of them. A handler that
  returns a local event leaves it in `event`, and `Settle` processes it, as
  `processEvent` loops until no event is left.
- `InitialCheckpoints`, `ConditionA1`, `ConditionA2`, `NullCondition` and
  `AssignSequenceNumbers` are the choice of the x-set. Where the code takes the
  first match of a map iteration, every match is possible.
- `RecvNewView` receives the view changes inside a new view in any order
  (`after[i]` has the states after i of them).
- `ReceiveViewChange` groups arrivals: a view change that is only stored commutes
  with every other step, so it arrives together with the one that makes
  `recvViewChange` do more (`OnlyStored`, `Suffices`).
- `RecvRecoveryResponse` takes the view of the responses, also a lower one.
- `Restart` keeps what `persist.go` stores; `Persistence` has the writes.
- `TryStateTransfer`, `StateUpdated` install the ledger of a checkpoint. `localCkpt` is
  the set of stored checkpoints, one per height (`SaveCheckpoint`).

Scope: all replicas follow the code (a faulty primary of a later view is not
modelled). `QuorumViewChange` and the answers to `FetchView` deliver the same
view changes and new views as `ReceiveViewChange` and `ReceiveNewView`. A
pre-prepare with missing transactions is one that arrives later. The errors of
`ReConstructBatchByOrder`, config batches, and the validator information of the
automatic view change are left out.

`Ledger` is the abstract specification: replicas append a run of batches that no
replica ahead contradicts, or take over a prefix. `ViewChange!OneLedger`
instantiates it with `ledger <- [r \in Replicas |-> node[r].ledger]` and runs of one
batch, `NormalCaseSafety!OneLedger` with the blocks of `executed` in order and
runs of any length, as `commitPendingBlocks` executes all that is ready; every
other step is a stutter.

### How `StateTransfer` corresponds to the code

One replica, `s`, receives checkpoints one by one. `TrackHigher` and `WeakSets` are
`weakCheckpointSetOutOfRange` (with its `>`), `Vouched` and `Mismatch`
`compareCheckpointWithWeakSet`, `QuorumCheckpoint` the end of `recvCheckpoint`. Two
digests, the right one and a wrong one, are enough: with at most F faulty
validators there are at most F+1 different values at a height, so the stop for
more than F+1 values cannot fire. The replica itself may be the faulty one: it
then executes a block wrongly and must be put right. Heights count checkpoint
periods. The report of a block is part of its execution (other events are
cached in between). The view change is its start and the checkpoint the new
view begins from. Steps that change nothing are stuttering. Config
checkpoints, epochs and candidates are left out.

### How `Persistence` corresponds to the code

A handler changes `mem` at once and leaves its database writes and broadcasts
in `todo`, a set whose members are numbered in the order of the code: the writes
of one loop over a Go map share a number and are done in any order, but
`persistDelQPCSet` finishes an id before the next (`Due`). `WriteNext` does one, and
`CrashAndRestart` may come between any two (`CrashInRewrite` says whether also
within the rewriting of the P and Q lists). `ReadStore` is what `restoreState` and
`restoreCert` read, certs whose pre-prepare is deleted and whose prepares are not
included; `RestoreState` ends in `moveWatermarks`, whose writes may be interrupted
again. The other replicas are an environment that does not equivocate.
Batches and C sets are left out: no report in a view change depends on them.

### How `RbftMessages` and `WireFormat` correspond to the code

`RbftMessages` lists, for each of the 38 messages of `rbft_vtproto.pb.go`, the
fields its `MarshalToSizedBufferVTStrict`, `SizeVT` and `UnmarshalVT` handle with
number and kind. For the messages the program compares (`VcBasis` in
`recvViewChange`, `NodeDynamicInfo`, and what they contain: 7) it lists what `EqualVT`
compares, for those it copies (`SignedCheckpoint` and what it contains, `Prepare`,
`Commit`: 9) what `CloneVT` copies; on the others these functions are never called. The
lists are taken each from its own function of the source, so that a function that
forgets or swaps a field differs from the others, as it would in the code.
`WireFormat` is the encoding they share: varints, tags, delimited fields, maps in
any order, unknown fields, merging. A message is built, encoded, cut anywhere,
decoded. Not modelled: skipping fixed-width and group fields of unknown
messages, varints above 2^31 and their overflow error, map entries whose value
comes before their key.

## Runs

Runs with validators have four of them (F = 1, quorum 3), the smallest set the
code accepts and the only size at which every quorum is tight.

| Run | Configuration | Shows |
|---|---|---|
| `agreement` | Byzantine primary, three correct backups, two batches, one height | `Agreement`, `OnePreparePerSeq`, `CommitHasPrepareQuorum`, `ExecutedHasCommitQuorum`, `ExecutedIsDurable` and `BuildsOneLedger` (the refinement of `Ledger`) under equivocation |
| `order` | one correct backup, Byzantine primary and validator, three heights, K = 2, all pool answers, PQC answers, timer, view changes | `TypeOK`, no missed quorum (`PreparedSendsCommit`, `CommittedIsTracked`), `ExecutedOnceInOrder`, `CheckpointBeforeNextBlock` |
| `cluster` | correct primary and two backups, one crashed validator, K = 1, view changes | `BatchKeptUntilExecuted`, `PendingBlockHasTimer`, `StableCheckpointIsBacked` |
| `liveness` | as `cluster` with K = 2, fair specification | `ProposedIsExecuted` |
| `viewchange` | three views, one height, two batches, any replica suspects at any time, the first primary cut off | `TypeOK`, `NewViewKeepsCommitted`, `OneBatchPerView`, `CommitIsSettled`, `CommittedIsReported`, `ImplementsLedger` (52,603 states) |
| `recovery` | two views, two heights, three batches, K = 1, one replica restarts or resends its view change at any time once height 1 is stable, another one has missed height 1 and transfers state | `NewViewKeepsCommitted`, `ImplementsLedger` (157,641 states) |
| `transfer` | one replica, it or another validator faulty, heights to 3, window 1, two view changes | `TransferTargetIsCorrect`, `StableCheckpointIsCorrect`, `NeverStops`, `TransferUnderWay`, `OnlyWrongBlocksAreCut` (91,015 states) |
| `restart` | two batches, two heights, K = 1, two views, one crash between any two writes outside the rewriting of the lists | `CommitSurvivesRestart`, `PrepareSurvivesRestart` (4.8 million states) |
| `codec` | all messages, nested to depth 5, every pair of fields, long values, maps, lists, unknown fields, cut anywhere | `RoundTrip`, `SizeIsLength`, `CutIsNotMisread`, `SignedBytesAgree`, `CloneIsEqual` (7 and 9 of the messages) (14,461 states) |
| `pruned_null`, `rollback`, `crash` | see findings | each refutes one statement of a comment |

**Bounds.** `MaxSeq` bounds heights, `L` is larger than `MaxSeq` in `order` so that
the watermark is not what limits it. Two digests are what equivocation needs,
three heights with K = 2 what a run of blocks across a checkpoint needs. A
single correct replica against Byzantine validators sees every message sequence
that any cluster could send it, so the properties of one replica need no second
one. For view changes three views are what an entry of P or Q needs to outlive a
view in which nothing was prepared; the first primary is cut off from view-change
messages because it then lags, which leaves the tight quorum of the other
three; two batches are a committed one and one that competes with it. `viewchange` has no
recovery and one height; in `recovery` view changes, restarts and state transfers
happen at a height above a stable checkpoint (`FirstIsStable`), where watermarks have
moved, certs are gone and one replica lags. Of the ledger no more is claimed than one
replica that restarts or recovers: with two of them (`rollback`), or with a null
request that a quorum committed (`pruned_null`), what was committed can be lost.
`OnePreparePerSeq` across garbage collection and `ExecutedHasCommitQuorum` on
candidates are covered by the theorems. In `transfer` the digest of the last
checkpoint can differ from that of the quorum only with six validators or more;
a run with N = 6 and heights to 2 passes too. Deadlock is not checked in the
protocol runs: with bounded heights and views a finished run stops.

**Symmetry.** Batches are interchangeable and so are correct backups (`ViewChange`
uses the symmetry of batches only, as primaries are fixed; in `recovery` the batch of
height 1 is a fixed one and the others are interchangeable). The liveness run uses
no symmetry; a constraint fixes the batch of height 1 instead.

**Fairness.** `FairSpec` assumes that every message is delivered once
(`FirstDelivery`), that the event loop takes what is queued, that the executor
reports the checkpoint block, that the pool completes a missing batch and that
a running timer fires. Nothing else is fair: not proposals, view changes or
Byzantine messages. The lost wake-up (known deviations) is why delivery, not redelivery, is
the interesting assumption: no commit is sent twice. `ProposedIsExecuted` allows
the view to be left, which is how the code gets out of a lost wake-up.

## Findings

1. `pruned_null`: where a new view has a gap below a batch, it puts a null request
   (`NullCondition`), and a quorum may commit it. `assignSequenceNumbers` of the
   next view change prunes the null requests at and above the last height for which
   it selected a batch (`viewchange_mgr.go:1738`), committed or not. A replica that
   executed the null block keeps it, while the new primary goes on from its own
   `lastExec` and may propose a batch for that height. The comment on the loop asks
   whether this is safe; that on the function promises a request for every height.
   `NewViewKeepsCommitted` is therefore stated for batches. The run keeps to
   behaviours in which the pre-prepare of height 1 is lost (`FirstIsLost`), which is
   how the gap comes about.
2. `rollback`: a replica that recovers asks for view v+1 with the P and Q lists it
   has then. Recovery responses take it back to view v
   (`viewchange_mgr.go:1209`), where it goes on to prepare and commit; the others
   keep its view change as a vote for v+1. When two replicas have recovered so,
   a third view change makes a quorum whose x-set misses a batch committed in v.
3. `crash`: `getVcBasis` deletes the stored P and Q lists before it stores the new
   ones one by one (`helper.go:518`). Entries of earlier views exist nowhere else
   in the database at that time, so a crash there loses the report of a committed
   batch.

**Known deviations without a run.** The models contain these steps; the code does
not keep what its comments say, and no checked property claims it does:

- when the checkpoint block has been executed nothing calls `commitPendingBlocks`
  (`rbft_impl.go:1860`): if the next block's commits are all in, it stays until an
  unrelated message or the timer (lost wake-up); `PendingBlockHasTimer` says that
  there is a timer;
- the timer that should rescue a block left behind may have fired while
  `waitCheckpointFinished` refused the view change; its key stays registered and
  `softStartTimerWithNewTT` (`timer_mgr.go:146`) starts nothing any more;
- `waitCheckpointFinished` is set although `checkpoint()` returned without
  generating one, because the view was left in the meantime (`rbft_impl.go:1862`,
  `:1894`); while it is set view changes are refused;
- the automatic view change at `viewChangeSeqNo` is asked for right after
  `waitCheckpointFinished` was set, and refused (`rbft_impl.go:1872`);
- cleaning one height removes the outstanding batch of another height that has
  the same digest (`rbft_impl.go:2301`);
- `weakCheckpointSetOutOfRange` wants more than F+1 matching checkpoints where its
  comment says f+1 (`rbft_impl.go:2253`);
- the reused `FetchBatchResponse` (`exec.go:48`) is never reset, and `UnmarshalVT`
  merges: its request list grows with every response received;
- a `ViewChange` is not handled in `waitCheckpointFinished` (`viewchange_mgr.go:97`), a
  `NewView` is, and so are the view changes in it. A replica in normal status in view v that
  gets the new view of w >= v + 2 then climbs: `recvViewChange` sets its view to w - 1
  before it calls `sendViewChange` (`viewchange_mgr.go:470`), which refuses
  (`:298`). It stays in normal status in view w - 1, which it never
  entered, and if it is the primary of w - 1 it proposes there without having sent a
  new view. The instances of the runs have no room for it: it needs two heights, a
  checkpoint at one of them, and a third view.

## Proofs

Assumptions: `ValidatorAssumption` (a finite set of at least four validators),
`ConstantAssumption` and `TransferAssumption` (types of the parameters, faulty
validators do not run the code, at most F of them in `StateTransfer`) and, in
`NormalCaseSafety`, `FaultAssumption` (at most F validators do not run the code).

**Agreement** (`NormalCaseProofs`, `AgreementProofs`).

- `TypeCorrect`: `Spec => []TypeOK`, one lemma per handler.
- `Invariance`: `Spec => []IInv`. Agreement is not inductive: it says nothing of
  votes. `IInv` adds, for each replica, `Ordered` and `Authentic`. The conjunct that
  carries the argument is that a batch for which a prepare was sent is still in
  `seqMap`, *or* its height is at or below H, *or* the view was left. In the first
  case the conflict test of `recvPrePrepare` refuses another batch, in the other
  two the pre-prepare is refused by `inWV` and `InViewChange`; so forgetting
  `seqMap` is harmless. `Authentic` says that recorded votes were sent and that
  commits and executions are backed by them. Each handler maps a good record to a
  good one and only adds to the messages sent (`Grows`), so handlers compose and
  no step of one replica breaks the invariant of another.
- `OnePreparePerSeqHolds`, `CommitHasPrepareQuorumHolds`,
  `ExecutedHasCommitQuorumHolds` follow from `IInv` without a bound on faults.
- `AgreementHolds`: two backings of one height share, by the size of
  `CommonCaseQuorum`, a correct backup, or the correct primary, which proposed
  only one (`Overlap`, `OneBackedBatch`).
- `ExecutedIsDurableHolds`: a commit quorum and any N-F validators share a
  correct one. This is the premise on which a view change must build.

**Execution** (`ExecutionProofs`). `ExecInvariance` proves `ExecInv`: every record
is `Sound` between events. The parts of `Sound` depend on each other. `Wakes` and
`Tracks` (no prepared or committed cert is missed) are broken inside a handler, for
the cert at hand, and restored by the calls it makes; the lemmas carry the set of
excepted ids. They need `Flags`: the votes of the replica itself and the sent flags
agree, or `sendCommit` could be skipped for a cert that has no commit. `Heights` and
`Checkpointed` give order and checkpoints; `Checkpointed` needs the case that the view
was left while the checkpoint block executed, in which the checkpoint is never
generated and no further block executed. `Window` relates `seqMap`, `batchStore` and
`executed` above H, which is why the cleaning of `moveWatermarks` takes no batch still
needed (`Kept`). A batch whose digest was executed at another height may be gone:
`batchStore` is keyed by digest, and the property says so. `StableIsReached` and
`Agreement` give `StableCheckpointIsBacked`; the other five theorems need no bound
on faults: they hold against validators that send anything.

**Refinement** (`RefinementProofs`, `LedgerProofs`). `NormalCaseRefinesLedger`:
`Spec => BuildsOneLedger`. `Heights` makes `executed` a sequence; `StepOutcome` says
that a step changes one replica and takes no block back, so the ledger grows by a
run; `Agreement` in the next state gives the guard of `Execute`.
`LedgerIsConsistent`: the abstract ledger keeps `Consistent`, hence so do the
implementations.

**State transfer** (`StateTransferProofs`). None of the properties is inductive:
that a target is right rests on what is stored, and what is stored on who sent
it. `IInv` says that wrong checkpoints come from faulty validators (`Authentic`; so
F+1 equal ones are right, `EnoughIsGood`), that the target has reached every height
with a stored quorum (`Targeted`; this is why the digest of the message that
happens to come last, `rbft_impl.go:2036`, does no harm), and that the checkpoints
kept are right up to some height and wrong above it (`Kept`; so the replica that is
itself wrong cuts back only wrong blocks). From it `TargetIsCorrect`,
`StableIsCorrect`, `ReplicaNeverStops`, `SkipMeansTransfer` and the action property
`RightBlocksStay`.

**Restart** (`PersistenceProofs`). `Invariance`: `Spec /\ ~CrashInRewrite => []IInv`, for
any number of heights, views, batches and crashes. That a restart reports what was
sent is not inductive: it looks at the database only, while what the database
becomes depends on the writes the handler has left. `IInv` relates the three. The
certs in memory are stored or their write is pending, and no deletion is pending
for them (`Certs`); a list entry in memory is stored and stays, or is about to be
stored (`Lists`); old list entries are deleted before new ones are stored, and what
is sent is stored first (`Order`); a watermark on its way to the database is a
checkpoint of a quorum (`Certified`); and what was sent is in the lists in memory or
in a stored cert (`Told`). `CalcPSetCovers` and `CalcQSetVouches` say that merging
certs into the lists keeps what they answer for: of each height the entry of the
highest view stays, and an entry of that view is unique because primaries do not
equivocate. `WriteGood` takes one write, `RestartGood` the restart.
`CommitSurvivesRestartHolds` and `PrepareSurvivesRestartHolds` follow by applying the
restart to any state in which the lists are not being rewritten. Without
`~CrashInRewrite` they are false: `crash` shows it.

**View changes** (`ViewChangeProofs`). `ClusterAlways`: `Spec => []Cluster(node)`. What a
handler may rely on depends on how much has gone wrong, so the invariant has
layers, each under a premise of its own:

- always: every field of every replica is typed (`States`) and `WellFormed`. Ids and
  view changes are of views within the bound, there is one stored view change per
  view and sender, and a new view that was sent is what `sendNewView` computes from
  its view changes (`Computed`). `RangesAlways` follows;
- as long as the reported checkpoints agree (`CheckpointsAgree`): `Checkpointed`. All
  checkpoints a replica stores, aims at, or has in a view change or new view are
  among those reported, and none that it stores is above its ledger. So a quorum of
  checkpoints never moves H past the ledger: `TypeCorrect` (`TypeOK`). After a fork it
  could, which is why the premise is there;
- as long as, besides, nobody has sent a recovery view change (`NobodyRecovers`):
  `Voted`. A replica has proposed only in views it is the primary of and below what it
  has passed (`ProposesInView`), has sent one new view per view (`OneNewView`), which
  stands until it is entered, with its batches at hand or on their way and all its
  heights passed when it is (`NewViewsStand`); while it transfers state it has not spoken in
  its view (`SilentInTransfer`); and whatever a replica pre-prepared, prepared or
  committed its view's primary proposed (`FollowsPrimaries`). So all that is said of a
  view comes from one replica, and that one says one thing per height:
  `OneBatchAlways` (`OneBatchPerView`). A recovery takes a replica back into a view it was
  in, with `seqMap` and certs gone; then the argument fails;
- under the same premises: `Tells`, what view changes tell of the votes. For each commit
  a replica sent above H, and each block it executed there, it has an entry among its
  P list and its certs (`Remembers`), which no clean-up drops and which `calcPSet` does not
  lose (`HighestEntry`). So every view change it sent for a later view reported the
  height (`Told`), and view changes are stored and built into new views as they were sent
  (`HeardOf`). A quorum of commits and the quorum of the null condition share a
  replica, which gives `CommittedIsReportedAlways` (`CommittedIsReported`): a height at
  which a quorum committed is never declared empty by a later view; its batch is
  selected from reported entries. Which one is selected is left to `CommitIsSettled`.

`Leads(s, t, r, G)` says that a handler takes a good state `s` of replica `r` to a
good one and withdraws no message, which what the others rely on needs. Each
handler is shown to lead (`RecvViewChangeGood`, `SendNewViewGood`,
`ResetStateForNewViewGood`, `RecvRecoveryResponseGood`, ...), handlers compose (`LeadsOn`), and
an action is the composition of its calls and of the events they leave
(`SettleGood`). The layers were checked with TLC on the instances of `viewchange` and
`recovery` first; both premises hold in every state of `viewchange`, the first one in
every state of `recovery`, so they are not what makes the theorems true there.

`AssignKeepsSettled` is about the operator `AssignSequenceNumbers` alone: take any view
changes, one per validator, those of at most F faulty validators arbitrary. If a
batch is `Settled` at a height for a quorum C, every x-set has it there. Condition
A1 keeps other batches from being selected because each quorum meets C in a
correct sender, A2 because a correct sender of C would have to have pre-prepared a
different batch later, and the null condition fails because a correct sender of C
reports a P entry. With `Computed` this gives `SettledIsKeptAlways`: in every reachable
state, a new view keeps what a quorum committed if that is settled in its view
changes and lies within L of its base. That it is settled is `CommitIsSettled`, which
TLC checks.

**Only model-checked**, and why:

- `ProposedIsExecuted`: fairness and ENABLED are out of the prover's reach;
- `PendingBlockHasTimer`: checked with correct validators. With a faulty one it is not
  expected to hold, as cleaning removes outstanding batches by digest
  (`rbft_impl.go:2301`), so there is no theorem for all constants to prove;
- `CommitIsSettled`, `NewViewKeepsCommitted` and `ImplementsLedger` of `ViewChange`. With
  recoveries at two replicas `NewViewKeepsCommitted` is false (`rollback`), and with it
  what rests on it. `CommitIsSettled` rests on there being no committed null request
  below a checkpoint (`pruned_null`) and no replica in a view it never entered (the
  last deviation listed above, which takes two heights and a checkpoint). A theorem
  would need both excluded as premises, next to the two of `OneBatchAlways`; what is
  proved are the parts that need neither: that the height is reported
  (`CommittedIsReportedAlways`), and that what is settled is kept (`SettledIsKeptAlways`);
- the codec: induction over data and recursive operators.

## Not modelled

- Epoch manager: config batches, turn-over and epoch-change proofs. They replace
  the validator set, which every module takes as a constant.
- Weighted random election and the tracker of recent proposers: primaries come
  from a given function.
- Sync state (`initSyncState`): its answers only start a recovery, which may start
  at any time here.
- Batch cache and batch timers: which batch comes, and when, is left open.
- The two status words: flags are fields of the records.
- The reflection-based `rbft.pb.go` and the test transaction; metrics, logging,
  mocks and the thin node API carry no protocol state.
- Data races between `step()` and the event loop: events are taken one by one.

## Plan

1. `ViewChange`: `CommitIsSettled` as long as nobody recovers. That merging certs into the
   P and Q lists never loses a height is proved (`Tells`); what is left is that it never
   lowers the view of an entry (for one replica `CalcPSetCovers` has it) and that the
   entries of that view agree. With it `SettledIsKeptAlways` becomes
   `NewViewKeepsCommitted`, and the agreement of the checkpoints need no longer be a
   premise.
2. Later modules: the epoch manager, the weighted election as operators checked
   against a reference definition, batch cache and timers.
