# TLA+ models of the MadNet chain monitor and migration tool

This directory holds TLA+ models of the MadNet code under `src/`, TLC configurations that
check them on small instances, and TLAPS proofs of their main safety properties for every
value of the constants.

## 1. The system

The code under `src/` has two parts. They share no code. They talk to each other only
through the chain and a file.

**The Ethereum monitor** (`src/blockchain/monitor/`).
- `Services.WatchEthereum` (`services.go:185-314`) is called on every tick of the
  monitor loop with the node's `*objects.MonitorState`. Each call does the following, in order:
  1. It checks the endpoint (`EndpointInSync`, lines 325-357: sync progress, then peer
     count). A failure is counted in `CommunicationFailures`. At `RetryCount`
     consecutive failures the node is marked out of sync, both in the state and on the
     admin bus.
  2. It returns if the endpoint is still syncing.
  3. It reads the finalized height twice: once in `UpdateProgress` (lines 359-369),
     then at line 225.
  4. It returns if the chain "shrank" below `HighestBlockProcessed`.
  5. It computes a batch `HBP+1 .. min(HBP+batchSize, finalized)` and fetches the
     batch's logs (`GetEvents`).
  6. It groups the logs by block, then visits the blocks in ascending order. Each log
     goes to the processor registered for its topic (`NewServices`, lines 65-121: nine
     registrations with a nil processor, seven with a real one). A processor that fails
     is only logged.
  7. It sets `HighestBlockProcessed` to the batch end, and sets `InSync` and the admin
     bus flag to whether the batch end reached the finalized height.
- `monitorDB` (`database.go`) saves the state gob-encoded under one key (`UpdateState`)
  and restores it on start (`FindState`).
- `PersistSnapshot` submits a snapshot transaction and swallows every error.

**The migration tool** (`src/cmd/utils/`).
- A `Processor` turns a stream of chain events into a file of JSON command lines:
  - `ValidatorJoined`, `ValidatorSet` and `Deposit` record what they see per epoch.
  - `Snapshot` calls `NextEpoch`. `NextEpoch` writes that epoch's validators, the
    `Migrate` command and its deposits, then moves to the next epoch.
  - `Finalize` writes the balances, the last five snapshots and the epoch.
- Each line is a `CommandObj` (`command.go`). This is a union of six optional fields;
  the `With*` setters clear every field before setting one.
- The `Writer` (`writer.go`) writes the lines through a `bufio.Writer`, and the
  `Reader` (`reader.go`) reads them back.
- The `Migrator` (`migrator.go`) reads the file line by line and dispatches each
  command as a contract transaction. It waits for the receipt before going on to the
  next line. Lines before `startLine` are skipped, but `startLine` is never set
  (`NewMigrator` panics).

**The DKG mathematics** that `spec.md` describes (fields, curves, Shamir shares, NIZK,
BLS) is not part of this repository's source. Only the names of its events appear, in
the monitor's registry.

### Hard behaviours

- **Batch boundaries.** The code makes consecutive calls over the blocks with an
  endpoint whose finalized height lags, or even drops. Together the batches must cover
  each finalized block exactly once, and never a block past finality.
- **Failures in the middle of a call.** Each early return leaves part of the state
  updated: the endpoint fields, the failure count, `HighestBlockFinalized`.
- **Crash and restart.** The in-memory state and the admin bus flag are lost. The
  restored state is whatever was saved last.
- **A failing processor.** Its log is skipped for good.
- **The Processor's maps keyed by epoch.** Snapshot events drive the epoch. The
  deposit loop of `NextEpoch` and the snapshot window of `Finalize` are loops whose
  bounds depend on those maps.
- **A Migrator that crashes in the middle of the file.** With `startLine` fixed at 0,
  a restart replays every command from the first.

## 2. Modules

| module | models | state (VARIABLES) |
|---|---|---|
| `Monitor` | `WatchEthereum`, `EndpointInSync`, `UpdateProgress`, the topic registry, `FindState`, `UpdateState`, crash/restart, the chain finalizing blocks | `state` (the MonitorState), `db` (the saved state or `NoState`), `synchronized` (the admin bus flag), `finalized` (the chain's real finalized height), `restarts` |
| `EventFeed` | what the monitor promises its processors, abstractly: each effective log of the consumed blocks run exactly once, over finalized blocks only, with checkpoint and recovery | `finalized`, `processed`, `checkpoint`, `applied` |
| `MCMonitor` | TLC instance: a five-log, four-block chain | |
| `MonitorProofs` | TLAPS proofs about `Monitor`, including its refinement of `EventFeed` | |
| `Command` | `CommandObj`: the `With*` setters, the `Has*` tests, `Marshal`/`Unmarshal`, the field order of `Migrator.Dispatch`, `Writer.WriteLine` | none (operators only) |
| `CommandProofs` | TLAPS proofs about `Command` | |
| `Processor` | `NewProcessor`, `ValidatorJoined`, `ValidatorSet`, `Deposit`, `Snapshot` with `NextEpoch`, `Finalize` | `epoch`, the maps `validatorIDMap`, `validatorCmdMap`, `migrations`, `deposits`, `finalValidators`, the set `snapShots`, `file` (the lines written, a sequence), `finalized`, `received` (the deposits seen, a history) |
| `MCProcessor` | TLC instance: two validators, two MadIDs | |
| `ProcessorProofs` | TLAPS proofs of the Processor's type invariant and of `LatestSnapshotsMigrated` | |
| `RewardsProofs` | TLAPS proof of `RewardsFromLastMigration` | |
| `Migration` | `Processor` composed with `Migrator.Migrate`, `Reader.ReadLine`, crashes and reruns of the Migrator | the Processor's variables, `mline` (the loop counter), `mstate`, `runs`, `executed` (the lines the chain executed, a history), `confirmed` (the positions of `executed` whose receipt came back) |
| `MCMigration` | TLC instance: one validator | |
| `MigrationProofs` | TLAPS proof of `MigrationComplete` | |

In `Monitor`, each outcome of one `WatchEthereum` call is an action of its own. The
guard of each action is the condition of that outcome's early return:
`WatchEndpointFailure`, `WatchNotSynced`, `WatchProgressFailure`,
`WatchHeightFailure`, `WatchChainShrank`, `WatchCaughtUp`, `WatchEventsFailure` and
`WatchProcess`.

The endpoint's answers are inputs chosen with `\E`:
- the peer count;
- the two finalized heights, each no higher than `finalized`, so either may lag or drop.

The logs are abstracted as follows:
- The logs are numbered in chain order. `LogCount[b]` is the number of logs in
  blocks `1..b`.
- Each log has a topic (`Topic`). The logs in `Failing` are those whose processor
  returns an error.
- The effect of the processors on the state is kept as a count per log (`applied`).

The properties use this count: the model does not add the processors' effects into
a single value, so a repeated or skipped log would show up.

`UpdateState` and `Restart` (`FindState` on start) work with `db` through the gob
round trip.

### Runs

| run | cfg | checks | result |
|---|---|---|---|
| `monitor_safety` | `MCMonitorSafety.cfg` | `TypeOK`, `AppliedExactlyOnce`, `ProcessedOnlyFinalized`, `SyncFlagsAgree`, `CheckpointMonotone` | passes: 184,064 distinct states |
| `monitor_liveness` | `MCMonitorLive.cfg` | `EventuallyProcessed` under `FairSpec` | passes |
| `monitor_refinement` | `MCMonitorFeed.cfg` | `ImplementsEventFeed` | passes |
| `monitor_min_peers` | `MCMonitorPeers.cfg` | `ProcessOnlyWithPeers` | violated: the code bug at `services.go:352` |

The bounds of the safety run:
- four blocks: one with a log, one empty, one with three logs, one with a log;
- a batch size of 2, so a batch can cross an empty block, or be cut short by a lagging
  height;
- logs of a real processor, of a failing processor, of a nil processor and of an
  unregistered topic;
- two failures with `RetryCount = 2`, so both the "still in sync" branch and the
  "out of sync" branch are reached;
- one crash and restart, reachable before or after any save.

The liveness run uses a three-block chain to keep the state graph small.

`SyncFlagsAgree` relates three pieces of state across failures, successes and
restarts:
- the admin bus is marked synchronized only while the monitor state is in sync;
- once `RetryCount` endpoint failures have been counted, the state is out of sync;
- the same holds of the saved state, which a restart brings back.

The code keeps two flags that must agree: `adminHandler`'s `synchronized` and
`state.InSync`. The failure path at `services.go:198` clears both. The success path
sets both, and a restart reads `InSync` back from the database.

**Refinement.** `EventFeed` says what the monitor promises. Each effective log of the
consumed blocks has run exactly once. Blocks are consumed only once finalized. The
position may be saved, and a recovery resumes at the saved position with exactly the
effects of the blocks up to it. `Monitor` maps onto it (`Feed == INSTANCE EventFeed
WITH ...`):
- `processed` is `state.HighestBlockProcessed`;
- `checkpoint` is the saved height;
- `applied` is the per-log count.

`ImplementsEventFeed` checks every step of the monitor against the feed.

**Fairness.** `FairSpec` assumes two things:
- the chain keeps finalizing blocks (weak fairness of `ChainAdvance`);
- an endpoint that answers every call correctly and up to date is available
  infinitely often (strong fairness of `WatchUpToDate`).

The loop calls `WatchEthereum` on every tick, so a healthy endpoint is eventually
used. Nothing in the code makes a failing endpoint recover, which is why this is an
assumption about the environment.

**Finding.** The code at `services.go:352` sets `EthereumInSync = true` only when it
is already true. The comment at line 192 says the check ensures the endpoint "has
peers", but the check never does. `monitor_min_peers` shows the consequence: a batch
is processed after the endpoint reported no peers, with `EndpointMinimumPeers = 1`.

### Proofs (`MonitorProofs`)

The following theorems hold for all constants that satisfy the assumptions of
`Monitor`: any `LogCount` that is monotone from 0, any topics, any failing set, any
positive batch size and any bounds.

- `TypeCorrect`: `Spec => []TypeOK`.
- `InvariantHolds`: `Spec => []IInv`, where
  `IInv == TypeOK /\ AppliedExactlyOnce /\ ProcessedOnlyFinalized /\ CheckpointBehind`.
- `ExactlyOnceHolds`, `OnlyFinalizedHolds` and `CheckpointMonotoneHolds` follow from it.
- `Refinement`: `Spec => ImplementsEventFeed`. Each monitor step maps to a feed step
  or a stutter. `FeedProcessStep` uses `IInv`: a batch starts from exactly-once
  effects and ends at a finalized height, so it is a `Consume`.
- `SyncFlagsAgreeHolds`: `Spec => []SyncFlagsAgree`, by one lemma per kind of step
  (`FailureFlags`, `ProcessFlags`, ...). `SyncFlagsAgree` is inductive once `TypeOK`
  is given.

`AppliedExactlyOnce` is not inductive on its own. A restart copies `db` into `state`,
and `UpdateState` copies `state` into `db`. The invariant therefore needs both copies
to satisfy it, and it needs `CheckpointBehind` (the saved processed height is at most
the in-memory one) for the step property `CheckpointMonotone`.

The proofs rest on these lemmas:
- `BatchExactlyOnce`: processing a batch from an exactly-once state gives an
  exactly-once state.
- `LastBlockBound`: the batch end lies between the processed height and the finalized
  height read.
- the frame lemmas: the early returns touch neither `applied` nor the processed
  height.

What stays with TLC: the liveness property `EventuallyProcessed`, which is out of TLAPS' reach.

## 3. The migration tool

### Processor

Each event handler is one action; its inputs are chosen with `\E` from small sets:
- `ValidatorJoined` records a validator's MadID (`processor.go:61-70`);
- `ValidatorSet` records, for an epoch at most `SetHorizon` ahead of the current one
  that has no migration yet, the validator list in some order and the `Migrate`
  argument (`72-134`);
- `Deposit` appends a deposit id to the current epoch's list (`136-153`);
- `Snapshot` is the whole of `Snapshot` and `NextEpoch` (`155-224`): it records the
  snapshot, writes the `AddValidatorImmediate` lines, the `Migrate` line and the
  `DirectDeposit` lines of the epoch, records each added validator's start epoch in
  `finalValidators`, deletes the epoch's entries, moves to the next epoch and prunes
  snapshots more than ten epochs old;
- `Finalize` (`226-256`) writes one `SetBalancesFor` per validator in any order (Go's
  map order), the five `Snapshot` lines of `epoch-5 .. epoch-1`, and `SetEpoch`.

The file is a sequence of lines; a line is the `Marshal` of a `CommandObj` (module
`Command`), so a line with no field set is the empty record, as `json.Marshal` writes
`{}`. The epoch arithmetic of `Finalize` is done modulo `Word`. The code's word is
2^32; TLC's integers are 32-bit, so the runs use `Word = 65536`. The assumption
`Word > MaxEpoch + 6` keeps a wrapped key above every epoch reached, as 2^32 does.

Assumptions about the event stream, which come from the chain and not from this code:
snapshots arrive in epoch order; one `ValidatorSet` per epoch; its `validatorCount`
matches the list in the consensus DB. The binding's parse errors and DB lookup errors
end the tool and are left out.

### Migration

`Migration` runs the Migrator on the file after `Finalize` (the `close` function has
flushed it). `ReadDispatch` reads line `mline+1`; it passes over lines before
`StartLine` (`Skipped`); it unmarshals the line and dispatches it, or panics when no
field is set. `Receipt` goes on or fails after the transaction executed; `Crash` ends
the process. `StartMigrator` reruns the tool, at most `MaxRuns` times.

### Runs

| run | cfg | checks | result |
|---|---|---|---|
| `processor_rewards` | `MCProcessor.cfg` | `TypeOK`, `RewardsFromLastMigration` | passes: 788,490 distinct states |
| `processor_snapshots` | `MCProcessorSnapshots.cfg` | `LatestSnapshotsMigrated` | passes |
| `processor_deposit_loop` | `MCProcessorDeposits.cfg` | `DepositsWrittenOnce` | violated: code bug, `processor.go:209` |
| `processor_pending_deposits` | `MCProcessorPending.cfg` | `FinalizeMigratesAllDeposits` | violated: code bug, `processor.go:227` |
| `processor_snapshot_underflow` | `MCProcessorEmptyLine.cfg` | `EveryLineHasCommand` | violated: code bug, `processor.go:244` |
| `migration_complete` | `MCMigration.cfg` | `MigrationComplete` | passes: about 1.3 million distinct states |
| `migration_replay` | `MCMigrationReplay.cfg` | `NoResendAfterReceipt` | violated: `migrator.go:30` |

Bounds:
- `processor_rewards` uses three epochs, two validators, `SetHorizon = 1` and one
  deposit. That is enough for a validator to be migrated twice, for a set to be
  announced before its epoch, and for a `ValidatorJoined` to come after the set.
- `processor_snapshots` uses one validator and seven epochs, so `Finalize` runs both
  before and after the sixth epoch, and pruning at ten is reached by the mutant of
  width four.
- `migration_complete` uses five epochs, so that a `Finalize` past the fifth epoch
  writes a file the Migrator can finish. It allows two runs, so a crash or a failed
  receipt is followed by a rerun.

### Findings

1. `NextEpoch` bounds its deposit loop by `len(p.deposits)`, the number of epochs with
   pending deposits, instead of the length of the epoch's list. Only the first deposit
   of each epoch is written.
2. `Finalize` never writes the deposits of the current epoch, i.e. those received
   after the last snapshot.
3. `Finalize` computes `p.epoch-i` in `uint32`. Before the sixth epoch the key wraps
   around, the snapshot is nil, and the line written is `{}`. `Dispatch` panics on it
   ("no type for command").
4. The comments of `Migrator` say each command is written to `w` once it succeeds,
   so that a rerun starts after the recorded ones. `Migrate` never writes to `w` and
   `startLine` is never set. A rerun after a crash or a failed receipt starts again
   at line 1, and sends again every command whose receipt had come back.
   `NoResendAfterReceipt` states the comments' design. The shortest trace is as
   follows: the first run sends line 1 and its receipt comes back, the Migrator
   crashes, and the rerun sends line 1 again. Resending the one command whose
   receipt never came back is a different matter. The recorded design would do that
   as well, so the property does not count it.

`MigrationComplete` holds nevertheless: a run that returns nil has executed the whole
file in order. With finding 3, that needs a `Finalize` after the fifth epoch.

### Proofs (`CommandProofs`)

- `RoundTrip`: `Unmarshal(Marshal(c)) = c` for every `CommandObj`.
- `LineDispatchedAsWritten`: a line written as `Line(k, obj)` with `obj` not nil is
  dispatched as command `k`. It rests on `RoundTrip` and on `OrderCoversKinds` (the
  switch names each kind once).

Together with finding 3 this places the panic: it comes from a nil argument object,
never from the encoding.

### Proofs (`ProcessorProofs`, `RewardsProofs`, `MigrationProofs`)

The theorems hold for every finite validator set, every epoch bound, every horizon,
every deposit bound and every number of runs. They use the assumptions of `Processor`:
- `Word > MaxEpoch + 6`;
- `Nil` is no epoch (`NilEpochAssumption`);
- the validator set is finite.

`TypeCorrect` is `PSpec => []TypeOK`, through `TInv == TypeOK /\ CmdMapPaired`.
`NextEpoch` reads the validator list of an epoch whose migration is pending, so the
type of a line needs that list to exist. The lemmas `*LinesType` give the type of
each block of lines an action writes.

`SnapshotsMigratedHolds` is `PSpec => []LatestSnapshotsMigrated`. It goes through
`SnapshotWindow`: the kept snapshots are exactly those of the ten epochs before
`p.epoch`.

`RewardsHolds` is `PSpec => []RewardsFromLastMigration`. The property is about the
file after `Finalize`. The inductive invariant `RInv` says what the file looks like
before that:
- `NoBalances`: no `SetBalancesFor` line has been written yet;
- `AddedIffStarted`: `finalValidators[v]` is set exactly when some
  `AddValidatorImmediate` line names `v`;
- `StartedAtNextMigrate`: that start epoch is the epoch of the first `Migrate` line
  after `v`'s last `AddValidatorImmediate` line;
- `StartsBehind`: every start epoch is below `p.epoch`;
- `PendingMigrations`: a pending migration carries its own epoch and lists each
  validator once (a `SetToSeqs` ordering).

`Snapshot` appends an `AddValidatorImmediate` block, then one `Migrate`, then
deposits (`AppendMigration`, `AppendOthers`). So the validators it adds get the new
epoch, and the others keep their start. `Finalize` appends one `SetBalancesFor` per
started validator in some order (`FinalizeFile`, `OrderOnto`). The `Word` assumption
makes the `uint32` subtraction exact there. The lemmas about line sets of
concatenated sequences (`LinesInConcat`, `LinesInConcatNone`, `NoLinesConcat`) carry the argument.
The lemmas state "no line of kind k" as the predicate `NoLines(f, k)` and not as the
set equality `LinesIn(f, k) = {}`. The provers then match the lemmas'
hypotheses directly instead of reasoning about set equality.

`MigrationCompleteHolds` is `Spec => []MigrationComplete` for `Migration`, through
`MInv`:
- once started, the Migrator reads a frozen, finalized file;
- within a run, the chain's history ends with lines `1..mline`, in order;
- `mline` never passes the file's length.

Crashes, failed receipts and reruns keep `MInv`.

## 4. What is model-checked only, and what remains

Out of TLAPS' reach, so checked only with TLC:
- liveness: `EventuallyProcessed` (TLAPS does not reason
  about fairness and `ENABLED` here);
- the violated properties of the findings, which are counterexamples and not theorems.

Still to model:
- the Processor's own crash before `close`. The bufio buffer is lost, and `O_EXCL`
  refuses to reopen the file.

Not modelled:
- `PersistSnapshot`, a single transaction whose every error is swallowed;
- the key setters;
- badger itself;
- `NewMigrator`, which only panics;
- the DKG mathematics, which is not in `src/`.
