# A TLA+ verification of the Nectar indexer

Nectar follows a Cardano node over the node-to-client ChainSync protocol and
writes the chain to a TiDB database. This directory holds TLA+ models of the
parts of it whose correctness depends on order, failure or arithmetic, the TLC
configurations that check them on small instances, and proofs, checked by TLAPS,
of what can be proved for every instance.

Paths below are relative to `src/`.

## 1. The system

| component | where | state | operations |
|---|---|---|---|
| Block pipeline | `main.go`, `processors/block_processor.go`, `database/tidb.go`, `database/retry.go` | block queue, the block and attempt of each worker, tables `blocks` and `txes` | roll forward and roll backward handlers, worker loop, resume, shutdown |
| Connections | `database/tidb.go`, `database/retry.go`, `main.go:1405-1468` | one single-connection pool per worker, the pool manager's map of them | create, recover, health check, retry a transaction |
| Transaction components | `processors/*_processor.go`, `stake_address_cache.go`, `*_lru_cache.go` | per-processor caches of keys thought to be stored, the component tables | store inputs, outputs, certificates, withdrawals, assets, scripts, governance actions inside the transaction's database transaction |
| Era and epoch arithmetic | `constants/eras.go`, `processors/era_config.go`, `block_processor.go:813-921`, `main.go:1640-1815` | none | slot to epoch, era, time; epoch boundary test |
| Epoch boundary | `block_processor.go:1030-1091`, `ada_pots_calculator.go`, `epoch_params_provider.go` | ada pots, epoch parameters | compute pots and parameters at a boundary |
| Metadata fetcher | `metadata/fetcher.go` | two bounded queues, the set of hashes being processed, fetch errors | enqueue, five workers, retry, periodic scan, stop |
| State query | `statequery/` | its own node connection, a ticker | poll ledger state, store rewards and stake |
| Error system | `errors/`, `processors/error_collector.go` | map of errors by signature, bounded list, the channel to the dashboard | record, count, clean up, hand on |
| Dashboard and web | `main.go:311-445`, `dashboard/`, `terminal/`, `web/` | the data shown, the hub's channel, clients and their buffers | write a log line, add activity or error, broadcast, register, unregister |
| Configuration and start-up | `config/`, `main.go:455-1275`, `main.go:1850-1935` | the settings, the goroutines of the process, what a log buffer holds | load, check, derive workers, construct, `Start`, `Shutdown` |
| Schema and sign-in | `database/migration_helper.go`, `database/*index*.go`, `models/`, `auth/` | table definitions, a password file | migrate, build indexes, authenticate |

How they interact. The ChainSync client calls the two handlers one at a time on
its own goroutine. The roll forward handler only queues the block; eight workers
take blocks off the queue and call `ProcessBlock`, each on its own single
connection. `ProcessBlock` commits the header in one database transaction and
every transaction of the block in another. The roll backward handler works on
worker 0's connection at the same time as the workers. The processors keep
caches that outlive the database transactions they are filled in, hand anchors
to the metadata fetcher's queues, and report errors to the error system, which
calls back into the dashboard. A health checker goroutine replaces the pools
under the workers.

What is hard: rollbacks concurrent with blocks in flight, workers overtaking one
another, commits whose reply is lost, a crash between the transactions of one
block, the unique slot together with `INSERT IGNORE`, the bounded queue and its
five second limit, and resuming from what the table happens to hold. Every such
place is listed in `PROJECT.json` under `hazards` with its line.

What makes each component correct:

* Block pipeline: nothing the node sends is lost without a trace; what is reported
  processed is stored; the table follows the chain through rollbacks; a restart
  continues without holes; ChainSync is never blocked for ever.
* Connections: a failed database operation is retried or reported; a restart of the
  database is survived; no pool is closed under its user.
* Transaction components: a cached key is a stored key.
* Epoch arithmetic: the definitions of an epoch agree and each boundary is noticed once.
* Epoch boundary: each epoch's pots and parameters are computed once, from what was
  stored before it. (Only when a boundary is noticed and how it takes connections is
  modelled.)
* Metadata fetcher: an anchor is fetched by one worker at a time, is retried a bounded
  number of times and is not lost when a queue is full.
* Error system: one entry for each signature, a bounded map, and nobody who reports an
  error waits for the dashboard.
* Dashboard and web hub: whoever logs gets on; a client is sent to only while its channel
  is open, and leaves when its connection ends.
* State query: a pool of an epoch that counts as done is stored, warned about or was not
  known; no stake is stored for an epoch long before the chain gets there.
* Configuration and start-up: the numbers stay within the operator's limits; once ChainSync
  runs everything it needs is there; messages held back are shown; the process ends when
  asked.

What is not modelled, and why, is in section 10.

## 2. The block pipeline: `BlockIndexer`, `BlockPool`

`BlockIndexer.tla` has one action for each step of a goroutine.

| state | code |
|---|---|
| `nodeTip`, `cursor`, `resync` | the node: its tip, the last point it sent, whether it owes the client the rollback to the intersection that opens every session |
| `proc`, `link` | the process; the ChainSync connection (`failed` once a handler has returned an error: nothing opens it again) |
| `waiting`, `queue` | the block the roll forward handler is trying to queue; `blockQueue` |
| `pc`, `blk`, `tries`, `txi` | program counter, block, attempt and next transaction of each worker |
| `rows`, `txRow` | the tables `blocks` (with its unique slot) and `txes` (with the `block_hash` of each row) |
| `skipped`, `failed`, `acked`, `clean`, `rowless`, `inherited`, `torn` | history, for properties only: what this run resumed above, what has an error logged, what was reported processed, whether a rollback met work in flight, which headers a rollback deleted or a conflict kept out, the rows that were there when this run began, the transactions a deadlock has torn |

| action | code |
|---|---|
| `SwitchChain` | external: the node moves to a longer chain |
| `Start` | `Start`, `startBlockWorkers`, `buildIntersectionPoints`, `startReferenceChainSync` |
| `ChainSyncRollForward`, `EnqueueWaiting`, `EnqueueTimeout`, `EnqueueCancelled` | `chainSyncRollForwardHandler`: the try, and the three cases of the wait |
| `ChainSyncRollBackward`, `RollbackFails`, `RollbackReplyLost` | `chainSyncRollBackwardHandler`, with the branch for a missing target and `performFullRollback`; it may commit and get an error for an answer |
| `Take`, `Preflight`, `RetryBlock`, `StoreHeader`, `StoreTx`, `Finish`, `GiveUp`, `TryLastChance`, `WorkerStop` | `blockWorker`, `ProcessBlock`, `processBlockHeader`, `processEraAwareTransactions`, `processTransaction` |
| `Shutdown`, `Exit` | `Shutdown`, which waits for nobody, and the end of the process, also by a crash |

Abstractions. A database transaction, with the four attempts of
`RetryTransaction`, is one step; when it fails (`DatabaseFaults`) it may have been
committed all the same. The errors of a transaction's parts are passed over, and a deadlock
at one of them ends the whole transaction, so that the commit succeeds with nothing to commit
(`TransactionStore` shows how): `StoreTx` has this as its other outcome, for the
transactions in `DeadlockProne`. Every message `RetryTransaction` would have to pass on
for the worker to recognise a connection error is itself retried there and
replaced, so only the health check at the start of an attempt can send the
worker round its loop (`RetryBlock`). Time is left out: the five seconds and the
back-off may end at any moment. The order of the points sent to the node is the
code's: latest stored block, then origin. The rollback's clean-up of epoch tables
and what a transaction stores beyond its own row are left to other components;
their errors are swallowed by the code and cannot change the control flow here.
The roll forward handler's error for a value that is no block (`main.go:1313-1316`) is left out:
node-to-client ChainSync hands over a `ledger.Block`. `lastProcessedSlot` and the statistics only
feed the dashboard.

`BlockPool.tla` is the abstract specification, for a node that extends one chain:
a pool of blocks of which the `Width` oldest are worked on; a block leaves the
pool when it is stored or reported failed, the youngest may be turned away, and
the end of the process empties it. The mapping takes the queue, the waiting block
and the blocks in the workers' hands for the pool, the `blocks` table for
`stored`, and the number of workers for `Width`.

### Properties

* `NoSilentLoss`: each block of the chain sent since the resume point is on its way
  to a first write, has a row at its slot, or has an error logged for it.
* `AckedHasTxs`: a block reported processed has a row for each of its transactions, but for
  those a deadlock has torn.
* `OnlyRacesLeaveStaleRows`: unless a rollback met work in flight above its point or
  was a rollback to the origin of a table with rows, the table holds blocks of the
  node's chain only.
* `OrphansHaveCause`: a transaction's row is without its block's only if a rollback deleted
  the block, which takes nothing else with it, or the block's slot was taken.
* `ImplementsPool`: the order of the chain up to the number of workers, through crashes
  (no forks, slots that rise).
* `HolesBounded`: up to the last row a run of the process has stored, no more blocks are
  unfinished than there are workers with a connection. An unfinished block is without
  its header or some of its transactions, and neither reported processed nor logged as failed:
  what a crash can lose for good, since the next run resumes above it. A block whose header a
  taken slot keeps out, as after a Byron boundary block, is none of them: it is lost without
  a crash, its worker having reported it processed. (Checked with a fork and a slot taken across
  it, proved for one chain whose blocks may share slots.)
* `BlocksSettle`: a block received is settled or the process stops.
* `CatchesUp`: ChainSync catches up with the node or its connection ends, provided that rollbacks
  are answered (`RollbacksAnswered`; section 3 says when they are not).

### Runs

The chain is `a1..a4` with a fork `b2, b3` after `a1`; `a2` and `b2` share a slot,
`a2` and `b3` a transaction, so that a fork collides on both unique keys. Two
workers are enough for overtaking and for a stale worker beside an active one; a
queue of one makes the third block wait. `MaxRetries = 1` gives each kind of
attempt once: first, repeated, last.

| run | instance | shows |
|---|---|---|
| `Fork` | `a1, a2 / b2, b3`, faults, a deadlock at the transaction both forks have, one crash | `NoSilentLoss`, `AckedHasTxs`, `OnlyRacesLeaveStaleRows`, `OrphansHaveCause`, `HolesBounded` |
| `LineRestart` | `a1..a4`, faults, one crash, no repeated attempts | `ImplementsPool` |
| `ForkLiveness` | the fork with light blocks, faults, the extra attempt of worker 4 at slot 4492900 (`LastChance`), no crash | `BlocksSettle`, `CatchesUp` |
| `ResumeSkips` | a line, one crash | the violation of `ResumeSkipsOnlyStored` |

The chain is finite and the number of crashes bounded, so behaviours end and
deadlock is not checked. Symmetry on the workers is used in safety runs without
`LastChance`, which tells workers apart.

Fairness. `HandlersFair` says that a roll forward handler that can go on does, and that five
seconds pass: the Go scheduler and the runtime timer justify it. The roll backward handler is not
among them: its transaction needs the connection of the first worker and waits for it without a
limit (`main.go:1244-1247`), so that a worker that hangs stops ChainSync with the link open.
`CatchesUp` has `RollbacksAnswered` as its hypothesis and asks nothing of the workers;
`RollbackIsServed` in section 3 says when the hypothesis holds. `BlocksSettle` has `WorkersFair` as its hypothesis: a worker that can take a
step takes one, which holds as long as database operations end; section 3 says when they
do not. No outcome is assumed: an attempt may fail every time, the node need not grow
its chain.

`ResumeSkips` shows where the program differs from what its messages say: workers store
blocks out of order, the process resumes from the highest slot stored, and a hole below it
is never fetched again, nor are the transactions that were missing of a block whose header is
stored. `HolesBounded` says how large that loss is. Other differences are
the exceptions the passing properties name: a rollback deletes from `blocks` only and leaves
the rows of the other tables, although the code expects them to go with it
(`OrphansHaveCause`); a rollback to the origin deletes nothing; a worker may store a block
of an abandoned fork after the rollback (`clean` in `OnlyRacesLeaveStaleRows`); a Byron
boundary block and the block after it share a slot, whose unique key lets one of them in
(`SlotTaken` in `NoSilentLoss`).

### Proofs

`BlockIndexerProofs.tla` proves seven theorems from `ChainAssumption` (blocks form
chains whose slots do not decrease) and `PipelineAssumption` (types of the
constants), for every set of blocks and forks, every number of workers and every
bound:

* `TypeCorrect`: `Spec => []TypeOK`. Beside types, `TypeOK` says that a worker holds a
  block exactly when it is in an attempt, and that a process that is down holds
  nothing; both are needed to type the steps of the workers.
* `NothingLostSilently`: `Spec => []NoSilentLoss`. The invariant is inductive together
  with `TypeOK`: a block is handed from the node to `waiting` or `queue`, on to a
  worker, and from its first write on its slot is taken; a rollback to `p` deletes
  above `p` only, and the chain to `p` has no higher slot.
* `ProcessedHasTransactions`: `Spec => []AckedHasTxs`. The strengthening is `TxsStored`:
  a worker that is at its n-th transaction has stored those before, or they are torn. No step ever
  takes a row out of `txes` (`TxRowsStay`), which is also why a rollback leaves them.
* `QuietRollbacksLeaveNoRow`: `Spec => []OnlyRacesLeaveStaleRows`, if slots rise along a
  chain (`SlotsRise`). A Byron boundary block shares the slot of its successor; a rollback
  between the two would leave the later one. The strengthening `QuietChain` says that, while
  no rollback has met a race, the rows are of one chain, and they and all that is held are on
  the chain of the last point sent.
* `OrphansAreExplained`: `Spec => []OrphansHaveCause`, from `HeaderDone`: the block of a
  worker past the header has a row, or is among those that lost it.
* `PipelineIsPool`: `Spec => ImplementsPool`, if there is one chain with rising slots
  (`NoForks`) and finitely many workers. `LineInv` joins `OrderedLine`, which needs one chain
  only (`OneLine`) and is made of `TypeOK`, `CursorInv` (the cursor is ahead of all that is held; a
  session begins past every row or at the origin) and `OrderInv` (workers, queue and waiting
  block follow one another on the chain), and `HeaderStored`, which needs the rising slots. Each
  action is a step of `BlockPool` or a stutter.
* `HolesAreFew`: `Spec => []HolesBounded`, if there is one chain (`OneLine`); blocks may share
  slots. To `OrderedLine`, `HolesInv` adds that what is sent, and what is below a held block or a
  row of this run, is reported processed, logged as failed, skipped or held (`SentIsKnown`,
  `BelowIsKnown`), and that what waits or is queued is ahead of those rows (`AheadOfRows`): so the
  unfinished blocks are in the hands of workers (`HolesInHands`), of those that have a
  connection (`Unlaunched`). The end of the process drops the blocks but no row, and a bound that
  held keeps holding (`HolesStayDown`).

## 3. Connections: `WorkerConnections`

Each worker has a pool of one connection; the manager's slice says which pool is a
worker's now. The module has the workers, the rollback handler, which borrows the first
worker's pool, the health checker and a server that stops and starts at any time.

| state | code |
|---|---|
| `slot`, `open` | `UnifiedConnectionPool.connections`, and which pools are not closed |
| `held` | the pool inside each worker's processor, which is not told of a replacement |
| `pc`, `tries`, `txTries`, `stage` | where a worker is in `blockWorker`, `ProcessBlock` and `RetryTransaction`, and the counters of both loops |
| `rpc`, `rpool` | the rollback handler waiting for, or holding, the connection |
| `hpc`, `hworker`, `hpool` | the health checker: which connection it is at and the pool it has read |
| `server`, `broken` | the database server and the transactions it has cut |
| `trouble`, `result` | history: whether the server was down, or refused a statement of the block's transactions, since the worker took it; how its last block ended |

| action | code |
|---|---|
| `PickBlock`, `HealthCheck`, `Recover`, `Preflight`, `PreflightRetry`, `PreflightFails` | the worker's loop and its recovery (`main.go:1405-1513`) |
| `LastAttempt` | the last chance of worker 4 at slot 4492900 (`main.go:1489-1512`; `LastChance`) |
| `BeginTx`, `RetryTx`, `BeginFails`, `CommitTx`, `TxRefused`, `CutTx` | `RetryTransaction` and what it passes on; the transaction's function, or its commit, fails by itself (`retry.go:76-99`) |
| `AsksPool`, `NestedQuery` | queries within a transaction that ask the pool for another connection: `processEpochBoundary` (`block_processor.go:1057`), votes and proposals (`governance_processor.go:57, 104, 466`) |
| `RollbackStarts`, `RollbackBegins`, `RollbackEnds` | the roll backward handler's transaction |
| `CheckNext`, `CheckEnds`, `CheckerRecovers` | `healthCheck` and `RecoverConnection` |
| `ServerStops`, `ServerStarts` | external |

A closed pool lets an open transaction end and refuses everything later; a connection
the server has cut is replaced by database/sql itself. Delays are left out. A pool has
a number for the sake of stating that it is current; five are more than can be
distinguished at a time, and a number is taken again only when no one holds it.

* `OpenPoolsAreCurrent`: whoever replaces a pool, at most one pool of a worker is open,
  the one in the slice.
* `DropNeedsCause`: a worker gives a block up only if, since it took the block, the server was
  down or refused a statement of the block's transactions, or someone else replaced its pool. A closed pool met at the start
  is noticed. This is where errors told apart by their text matter: what
  `RetryTransaction` passes on is never what the worker's loop looks for, so that only the
  health check before an attempt leads to a new processor.
* `OnlyNestedQueriesHang`, `RollbackIsServed`: attempts end and ChainSync is not blocked,
  except by a worker that `Hangs`: at an epoch boundary, a vote or a proposal its transaction
  asks the worker's own open pool, whose connection it holds, for another. `HangsForGood`, a
  part of the first, says that this never ends, whatever the server does, and takes the health
  checker with it when it comes by: only a checker that had found the connection bad before
  may still close the pool.

| run | instance | shows |
|---|---|---|
| `Connections` | one worker that may have a last chance, two transactions for each block, one repeated attempt of each kind | all of the above |
| `BoundaryHangs` | the same | the violation of `AttemptEnds`: at a boundary the header's transaction holds the pool's only connection and the computation of the ada pots asks the pool for one |

One worker is enough for TLC since workers share nothing but the health checker, which
visits one at a time, and the rollback handler, which uses the first one's pool; the
proofs are for any number. The server may go down any number of times and stay down.
Fairness (`FairSpec`) is strong for whoever waits for a connection, because database/sql
serves those who wait in turn; the server has none.

`WorkerConnectionsProofs.tla` proves `ConnectionsTyped`, `NoPoolOutlivesReplacement` and
`DropsHaveCause`, for any number of workers, attempts and transactions. The inductive
invariant `PoolInv` joins types and open pools; `DropNeedsCause` needs `CauseInv`: where the
server is down or has cut a transaction there has been `trouble`, and a worker past its health
check whose pool is closed has met trouble or a replacement.
`HangsHaveNoEnd` proves `Spec => HangsForGood`: with the types, a step of another worker, of
the server or of the rollback handler cannot close the pool of one that hangs.

## 4. Slots, epochs and eras: `EpochSchedule`

A slot number is turned into an epoch in three places, into an era in four and into a
time in one. The module has each of them as an operator with the constants of its file,
and the processors that store what they say: `ProcessBlock` adapts a processor to the
epoch of its block and stores a row with slot, type, epoch and time; `RecoverProcessor`
replaces a processor, which is then a Byron one.

* `RowsInOrder`: slot, epoch and time order any two rows alike, across the change of the
  slot's length.
* `ConfigFollowsEra`: a block is stored with batch sizes meant for its era, also by a
  processor just replaced.
* `OneBoundaryBlock`: since Shelley at most one slot of an epoch passes the boundary test.
* `ErasNeverBehind`, `CertificateEpochLags`: how far the definitions that disagree are
  apart. Epoch parameters of 491 to 506 are Conway's though the era begins at 507, the
  dashboards change eras up to 62 slots early, and the epoch stored with a certificate is
  197 or 198 behind its block's. (When the read of the block's slot fails, it is 0, with a warning:
  `certificate_processor.go:424-427`. The arithmetic leaves this out.)

`Schedule` takes the slots on both sides of every boundary of an epoch or an era and the
ones the boundary test looks for, and two workers: arithmetic with constants has its cases
at these slots. The proofs in `EpochScheduleProofs.tla` are for every set of slots:
`ScheduleTyped`, `RowsAreOrdered`, `OneBoundaryInEpoch`, `ConfigsFollowEras`,
`ErasAreNeverBehind`, `CertificatesLag`, from the invariant `RowInv` (a row says what the
operators say of its slot and type) and lemmas on the operators (`EpochMonotone`,
`TimeMonotone`, `BoundaryOffset`). `BoundaryNeverFirst` is
a disagreement, proved: the code logs "Epoch boundary: entering epoch %d at slot %d"
(`block_processor.go:1052`), but since Shelley the slot that passes its test is 259200
slots into the epoch.

## 5. What a transaction stores: `TransactionParts`, `TransactionStore`, `UnitStore`

`TransactionParts.tla` derives from the processors the sequence of statements of a block's
header and of a transaction with given parts: for each, how it meets an existing row, the
cache asked before it, the rows it refers to, whether it is repeated and what its error
ends. `TransactionStore.tla` runs such units, each in a database transaction of its own.
`UnitStore.tla` says what the pipeline may rely on: a unit's row comes in one step and
stays, this may remain unsaid (a lost commit), and a worker is told of it only when the row
is there or a deadlock has torn the unit.

| state | code |
|---|---|
| `unit`, `pos`, `repeat`, `retry` | the unit of each worker, its statement, the attempts of `RetryOperation` and `RetryTransaction` |
| `session`, `pending`, `db` | the connection: in a transaction, out of it after a deadlock, or gone; its uncommitted rows; the committed ones |
| `waits` | workers whose statement waits for another's lock |
| `cached` | the caches of each processor, which are told before the commit |
| `closed` | workers whose processor has a pool that was closed |
| `due`, `refusals`, `losses` | bounds: how often units come, refused statements, connections broken or pools closed |
| `stored`, `reported`, `undone`, `killed` | history: units reported stored, errors passed over, rows rolled back, units whose transaction a deadlock ended |

A batch is one statement and one row; columns' values are left out. The order in which Go
walks a map (withdrawals, mint) is fixed. At the first slot of an epoch the header's unit has the
boundary's statements as well (`ProcessEpochBoundary`): the epoch's row, then what asks the pool for
a second connection. So do the votes of representatives and committees, and some proposals. Such a
worker stays there, and its locks hold up others until `LockTimeout`, unless the health checker
closes the pool (`PoolCloses`, `tidb.go:415`), after which it gets an error (`OutsideFails`) and
its transaction goes on. Certificates of Conway that the processors
recognise but store nothing for have no statement, although
`docs/PROCESSOR_AUDIT_REPORT.md:108` counts all eighteen types as implemented. Some
statements are refused whenever they come, which is a warning in the log: an anchor is inserted
without its key (so that the fetcher is not asked for governance documents), the second vote of
a transaction gets the index of the first, and so its row (`ParentsLostOnlyByRollback` asks of
that row the voter of one of them: `NeedsOf`), the reference of a parameter change to an earlier
action goes to a column that is not there.

* `MissingIsReported`: a unit that counts as stored has all its own rows, except those an
  error was reported for.
* `OrphansOnlyAfterDeadlock`: parts are in the database only with their unit's first row.
* `ParentsLostOnlyByRollback`: a row that a stored one refers to is missing only if it was
  rolled back while a cache kept it, or an error was reported.
* `VisibleAtOnce`: what a unit stores becomes visible in one step.
* `ImplementsUnits`: a unit with all its statements is one step of `UnitStore` or none; a unit
  is in `rows` when its first own row is committed.
* `TransactionEnds`: waits and repetitions end, but for one that asks for a second connection a
  pool nobody closes. Its parts `NeverFallsBack` and `OutsideUntilClosed` say that no step, of
  whomever, takes a worker back within its unit, that each of its own takes it further, and
  that nothing but the closing of the pool ends such a wait.

The exceptions are what the program does. A deadlock ends the whole transaction at the
server, `RetryOperation` repeats only the statement, which then runs on its own and is
committed row by row (`block_processor.go:565`, while the comment at line 246 speaks of one
unit): this is the exception in `OrphansOnlyAfterDeadlock`. A cache entry outlives the
rollback of its row. Errors of scripts, metadata, certificates and votes are passed over
with a warning. The redeemer data of two units with equal data meet at one row.

`Store` starts with one of six loads: two transactions that name the same addresses in
opposite order, and a vote; a header that comes twice, and one at an epoch's first slot; a
transaction that runs a script and comes twice; one transaction with a part of every kind; one of
Conway that governs. Two workers, one repetition of each kind, one refused statement, one broken
connection or closed pool. That is enough for two workers to
meet at a row in each of the ways it can be inserted, and for each error to be met at each
statement. The only fairness is that a worker proceeds, which the waits' time limit
justifies. Loads are finite, so runs end and deadlock is not checked.

`TransactionStoreProofs.tla` proves `StoreTyped`, `StoredIsCompleteOrReported`,
`PartsHaveHead`, `ParentsAreStored` and `UnitsVisibleAtOnce` for any steps that satisfy
`StoreAssumption` and `UnitAssumption` (what a row refers to is ensured before; a unit's
first own row is inserted or the attempt is over), any workers and any bounds. The
strengthening `StoreInv` adds for each worker (`WorkerInv`) that the own rows behind its
position are pending, committed or reported, and that what a cache holds is stored, pending
or undone. `UnitsAreWhole` proves `Spec => ImplementsUnits` from it: only a commit, or a
statement that runs on its own after a deadlock, adds a unit's first row, and it is the
committing worker's (`NewRows`); at the end of an open transaction that row is there
(`EndFacts`). `UnitsToldAreStored` carries `ToldIsStored` over from `UnitStore`.
`UnitsNeverFallBack` (`NeverFallsBack`) and `OutsideHasNoEnd` (`OutsideUntilClosed`) are what
can be proved of the end of a unit: attempt, position and repetition only grow, in this
order, and `StoreTyped` bounds each.

The two assumptions are not left to the loads TLC evaluates them on: `DerivedSteps` proves that
the steps `TransactionParts` derives satisfy both, for any header and for any transaction
(`IsTransaction`) with any numbers of inputs, outputs, assets, certificates, withdrawals, scripts,
redeemers, votes and proposals. The processors loop over these parts, which the module writes
with `FlattenSeq`; `Joined` unfolds its definition at the last part, and `Upwards` is the
induction, by a least counterexample (`Least`, from the library's
`WellFoundedInduction`). `Good` is the property the parts of a unit hand on: each step refers to
rows ensured before it, by steps of its own part or by those of an earlier one (`JoinGood`).

## 6. The metadata fetcher: `MetadataFetcher`

| state | code |
|---|---|
| `refs`, `writing`, `data`, `errors` | `pool_metadata_refs`, those of open transactions, `off_chain_pool_data`, `off_chain_pool_fetch_errors` |
| `request`, `queue`, `asleep` | requests that are alive, the channel, the goroutines that sleep before a retry |
| `pc`, `job`, `processing` | each worker in its loop, and the map of URLs |
| `found` | what a scan has read and not yet queued |
| `again`, `raced`, `unseen` | history: asked for while asked for or settled; URLs two workers may be at; stored with the reply lost |

Actions: `ProcessPoolMetadata`, `TransactionEnds` (the certificate processor asks before
its transaction commits), `ScanUnfetchedMetadata`, `QueueUnfetched`, `CleanupProcessingMap`,
the worker's `Take`, `MarkProcessing`, `StorePoolMetadata`, `StoreReplyLost`, `FetchFails`, `Retry`,
`RecordFetchError`, `RecordRefused`, then `Wake` and `Restart`. The URL leaves the map in the step that
ends the fetch.

* `TypeOK` includes that a request that is alive is in one place only.
* `OneFetchPerUrl`: two workers fetch from one URL only if the map could not keep them
  apart: both had looked before either entered it, or the map was cleared meanwhile.
* `OnlyCopiesContradict`: a document and a permanent error for one reference only after it
  was asked for twice, or after the document was stored and the reply lost, so that each retry
  meets its own row.
* `EveryReferenceSettles`: each stored reference gets a document or an error, if refusals of the
  row with the error come to an end (`RefusalsEnd`). The hypothesis is needed: a text longer than its
  column (255, `offchain.go:33`) is refused every time, that reference never settles, every scan
  asks for it again, and through the scan's limit and the queue it can keep others out. Its part
  `RequestsKept` says that a request keeps its reference, that its retries only grow, and that it
  ends only with a document or an error recorded, a restart or the failure of its last retry.

`Metadata`: two references to one URL, two workers, a queue of one, one retry, two calls, two
requests alive, one fault (a restart or a lost reply); refused rows are not bounded. Two of each is
what a race takes; a queue of one is full at once. Fairness: workers go on; a sleeper and the scan get into the
queue in the end (Go serves senders in turn); none for the clean-up, the certificate processor or
the success of a fetch. The fetcher may be idle, so deadlock is not checked. Governance anchors
are not modelled: the processors insert them without a key (`governance_processor.go:264`), so that
the fetcher is not asked for them; for the rest, the error of the commit that would store such a
document is not looked at (`fetcher.go:479`).

`MetadataFetcherProofs.tla` proves `FetcherTyped`, `FetchesApart`,
`ContradictionsAreCopies` and `NoRequestIsLost` (`RequestsKept`) for any references, workers and
capacities. `FetchInv` adds to
`TypeOK` that a URL outside `raced` is worked on once (`OnOnce`) and is in the map while it is
(`Marked`). `CopiesInv` says that a reference of two live requests, or of one and a row that
settles it, has been asked for again or has its document stored unseen.

## 7. Log lines, errors and the web hub: `Reporting`

Once the dashboard runs, a log line goes to `DashboardLogWriter.Write` under the lock of
Go's standard logger. It becomes an error, which the error system keeps once and hands
to a goroutine through a channel, or an activity, which is broadcast to the hub's clients
through another channel, or is passed over.

| state | code |
|---|---|
| `lock` | the mutex of `log.Logger` |
| `pc`, `line` | where each goroutine is: waiting for the lock, writing, broadcasting, about to log that the channel is full |
| `known`, `pending` | the error system's map; `dashboardErrorChan` |
| `broadcast`, `clients` | the hub's channel (how many messages) and its map |
| `channel`, `buffer`, `reader`, `writer` | each client's channel and its two goroutines |

Actions: `LogLine`, `Report`, `Update` (a figure or activity that does not go through the
logger), `TakeLock`, `Write`, `BroadcastUpdate`, `Forward`, `BackgroundMaintenance`, the hub's
`Register`, `Unregister`, `Deliver`, and a client's `Connect`, `Ping`, `Pong`, `ReadFails`,
`WritePump`. The messages' contents, the lists shown and the file are left out; the size
check and the clean-up of `BackgroundMaintenance` are one step. The pages shipped send no
ping; the server answers any client that does.

* `OnlyPongsCrash`: the hub neither sends on nor closes a closed channel; the answer to a
  ping, which passes it by, may.
* `LogsEnd`, `ErrorsReachDashboard`, `ClientsLeave`: unless logging has stopped (`Jammed`),
  whoever logs gets on, errors come out of the channel and clients leave. `JamsForGood`, a part
  of `LogsEnd`, says what such a stop means: the lock stays taken, whoever waits for it waits for
  good, and when the hub does, no message leaves its channel and no client its map.

`Reporting` has one logging goroutine beside the hub and the reader, one client, two errors
and room for one everywhere, so that every channel is full at some time and an error is
forgotten and met again. `Jammed` is what the code does at "Broadcast channel is full, skip
this update" (`web/websocket.go:98`): it does not skip, it logs, and when the broadcast comes
from a log line the goroutine waits for the lock it holds, and then everyone who logs waits.
Fairness: mutexes and channels serve those who wait in turn, `select` takes each ready case in
the long run; nobody has to log, connect or leave.

`ReportingProofs.tla` proves `ReportingTyped` and `HubNeverCrashes` for any goroutines, clients
and capacities: a client in the hub's map has an open channel, and only the hub closes it.
`JamsHaveNoEnd` proves `Spec => JamsForGood` from the types: the goroutine that has the lock waits
for it, and every step that would free it is that goroutine's.

## 8. The state query service: `StateQuery`

The service has its own connection to the node, asks it every five minutes for its epoch, and
once an epoch for its stake distribution. The node answers for its tip; the pipeline may be
years behind. The client library, gouroboros, is replaced by a fork outside the repository (`go.mod`),
so that each query sees the tip of that moment is an assumption.

| state | code |
|---|---|
| `stored`, `reached`, `known` | `MAX(slot_no)` of `blocks` and its highest value so far, the pools of `pool_hashes`: what the pipeline has done, moved by actions of the environment |
| `nodeEpoch`, `client` | external: the epoch of the node's tip; the connection |
| `at`, `epochNo`, `answer`, `lastEpoch` | `queryLoop` and `queryAndStore`, the reply in hand, the last epoch worked through |
| `stakes` | `epoch_stakes` |
| `warned`, `passed`, `done` | history: what a warning covers, what was passed over in silence, which epochs counted as done |

Actions: `Connect`, `GetEpochNo`, `CheckEpoch`, `GetStakeDistribution`, `StoreStakes`,
`FinishEpoch`, `End`, and the environment's `LoseClient`, `ChainGrows`, `ChainRollsBack` (at most
129600 slots below the best chain), `PoolRegistered`, `NodeAdvances`. A request, the read of the
highest slot (which then counts as 0), the lookup of a pool, the insertion of a row and the
commit may each fail, the last with or without effect.

* `DoneIsStoredOrSaid`: an epoch counts as done whatever failed (`service.go:251`); still, each
  pool of a distribution of that epoch or a later one is stored, warned about, or was passed
  over because the database did not show it.
* `StakeOfItsEpochOrLater`: a row's pool is known and was in the node's distribution in the
  row's epoch or later: the epoch is read before the distribution.
* `NoStakeBeforeEpoch405`: without a fault, no stake of an epoch past 400 is stored before the
  chain reaches epoch 405. The code takes `slot / 432000` for the epoch of the stored chain, as
  if Byron had had Shelley's slots, so the check holds the service back for 197 epochs of
  Shelley and later.
* `NodeEpochReached`: again and again the node's epoch has been worked through, or the
  check, a lost connection or the end prevents it. A lost connection is never made again
  (`RetryBackoff` and `MaxRetries` are used by nothing): its part `BlindForGood`. After a
  restart the epoch is stored anew; the rows there are refused and warned about.

`Query`: two pools, one registered at the start of Shelley and one at the slot from which the
check lets a sync through; the node in epoch 207, 401 and 402; the stored chain at the last
slot of Byron, the first of Shelley and slot 208 * 432000; two faults. These are the values at
which the arithmetic has its cases, and two faults are what it takes to pass the check by a
failing read and then lose a row. Fairness: weak, on the loop, which the scheduler and the
ticker run; it logs, and a jam of the logger (section 7) stops it, which section 9 takes up. The node need not advance, so deadlock is not checked.

`StateQueryProofs.tla` proves `QueryTyped`, `DoneEpochsAccounted`, `StakeIsInTime`,
`NoEarlyStake` and `LostClientStaysLost` (`BlindForGood`), for any pools, epochs, slots and
faults. `QueryInv` says what the loop carries from one step to the next: an epoch the node
was in, a distribution of it or of a later one, the verdict of the check
(`QuotientMeansEpoch` turns the quotient into an epoch). `Start` assumes a chain past Byron;
that the process starts the service only then is shown in `Startup`.

## 9. Configuration and the life of the process: `Configuration`, `Startup`

`Configuration.tla` has the settings as operators: the environment over the file, the check,
the old names for the new, and the number of workers that each of the four modes derives. Numbers
may have any sign: the check looks at `worker_count` only. A dashboard with `enabled: false`
stays off whatever `DASHBOARD_TYPE` says (`main.go:649, 818`).
`Startup.tla` is the process: main, the goroutine that runs `Start`, and the goroutine it leaves
behind to start the state query service, composed with `StateQuery` by `INSTANCE`.

| state | code |
|---|---|
| `main`, `exit`, `runs`, `cfg`, `clear` | where `main` is, how a run ended, the settings until they are applied, `--clear-shelley` |
| `workers`, `dashboard`, `display`, `service` | connections asked for, what is displayed, the service as main and the starter see it |
| `logs` | the buffer main holds back, and what the constructor writes |
| `jammed` | the logger's lock is taken for good (section 7) |
| `starting`, `link`, `queue`, `running`, `cancelled` | `Start`, the node's connection, the block queue, the workers, the context |

| action | code |
|---|---|
| `LoadConfig`, `ApplyConfig` | `config.Load`, validation, `migrateLegacyConfig`, the performance settings |
| `OpenDatabase`, `ClearShelleyData`, `NewIndexer`, `NewIndexerFails`, `NewIndexerPanics`, `GoOnline` | `main`, `NewReferenceAlignedIndexer` |
| `Connect`, `StartServices`, `StartDashboard`, `StartBlockWorkers`, `StartChainSync`, `WorkerEnds`, `StartReturns` | `Start` |
| `LookAtChain`, `StartService` | the goroutine at `main.go:1058` |
| `Killed`, `Signal`, `Shutdown`, `CloseConnection`, `StartFailed`, `Leave` | signals before and after main asks for them, the line main logs before it shuts down, `Shutdown`, `log.Fatalf` |
| `LoggerJams` | a log line meets a full broadcast channel (`JamsForGood` in section 7) |
| `QueryRuns`, `WorldMoves` | the steps of `StateQuery`; the chain moves only under workers |

* `LimitsKept`: whatever mixture of old and new settings passes the check, there is at least one
  worker and no more than the operator allows, but for the conservative mode, which goes up to
  four, and for two panics: a limit and the manual mode without a manual number divide by zero
  (`main.go:636`), and a negative number of workers is no capacity for a slice (`tidb.go:307`).
* `UpAndWorking`: when ChainSync starts, and until a signal, there are workers, each with a
  connection of its own, and queue, connection, display and state query are in place.
* `MessagesKept`: what main holds back is lost only with a start-up that fails or is killed; the
  constructor's messages are lost also where no web page keeps them.
* `EndsWhenAsked`: a signal, or an error of `Start`, ends the process, whatever `Start` is doing,
  unless logging is jammed: main logs before it shuts down (`main.go:774, 776`), waits for the lock
  for good, and has asked for SIGINT and SIGTERM, which then end nothing.
* `ServiceIsStateQuery`: the refinement of `StateQuery`, its loop's fairness unless logging is
  jammed, with its assumption that the chain is past
  Byron when the service starts, although the starter looks once and takes an error for slot 0.

What the run does not call wrong but a reader should know: with a Shelley block in the table
`--clear-shelley` cannot succeed, since its statements name columns the tables do not have
(`multi_assets.tx_out_id`); eight block workers are asked for whatever the configuration
says, and the numbers of connections, batches and queue entries are computed and read by
nobody; a web port that is taken is a line in the log; `Shutdown` stops neither fetcher nor
state query nor workers and waits for none of them; when the workers have ended, `Start`
returns nil, which main does not notice; "Delaying" the state query is for ever in a run.

`Startup`: one run, files and environments with each number given or not, negative, below and
above what the modes derive, the dashboard on, off or disabled, two block workers for one to sixteen connections, one failure of the start-up
and one of the service. A second run adds nothing that the first state of the first does not
have but for the table, which starts at any slot, and is too large. Fairness: weak, on main, on
`Start`, on the starter and on the service's loop: each is a goroutine. All of them
log, so once logging is jammed none owes a step. Nobody has to start or
stop the process, so deadlock is not checked.

`StartupProofs.tla` proves `StartupTyped`, `StartupUpAndWorking`, `StartupMessagesKept`,
`StartupLimitsKept` and `ServiceRefines` (every step is one of `StateQuery` or a stutter), for any
settings, environments, pool sizes and chains. `StartupInv` says, for each place main and `Start`
can be at, what the places before have left behind: `SettingsInv` (checked settings give
workers), `OrderInv` (`Start` runs only while main waits or shuts down), `ProgressInv`, `LogsInv`,
and `ChainInv` (about to start the service, the chain has been past Byron).

## 10. What is proved, what is only checked, what is not modelled

The theorems named above are proved by TLAPS for every value of the constants
(`PROJECT.json` lists them with what each establishes): every safety property of the passing
runs, the type invariants of all components, and the safety half of the refinements
(`ImplementsPool` as a whole, since `BlockPool` has no fairness, and so `ImplementsUnits`;
`ServiceIsStateQuery` but for the fairness of the loop). The type invariants of
`WorkerConnections`, `EpochSchedule`, `TransactionStore`, `Reporting`, `StateQuery` and
`Startup` are proved only, and no run repeats them.

Only checked by TLC, on the instances above: what must eventually happen (`BlocksSettle`,
`CatchesUp`, `OnlyNestedQueriesHang`, `RollbackIsServed`, `TransactionEnds`,
`EveryReferenceSettles`, `LogsEnd`, `ErrorsReachDashboard`, `ClientsLeave`,
`NodeEpochReached`, `EndsWhenAsked`, the fairness of `ServiceIsStateQuery`), since liveness
under fairness and `ENABLED` are out of this prover's reach. What is proved of them is what
a step may do: that the states they except have no end (`HangsHaveNoEnd`, `JamsHaveNoEnd`,
`OutsideHasNoEnd`, `LostClientStaysLost`), and that units and requests do not fall back or
get lost on their way (`UnitsNeverFallBack`, `NoRequestIsLost`). No module with proofs has a
recursive operator; the one induction over data the models need, over the parts of a
transaction, is made by hand (`DerivedSteps`). The two runs that expect a violation,
`ResumeSkips` and `BoundaryHangs`, are statements of the repository that its code does not
keep.

How the modules hang together: `BlockIndexer` takes a database transaction as one step that
succeeds, fails, loses its reply or, for a transaction, is undone by a deadlock unseen;
`WorkerConnections` and `TransactionStore` say how these outcomes come about. `UnitStore`,
which `TransactionStore` implements, is what `StoreHeader` and `StoreTx` take from it: the
row at once or not at all, the answer perhaps lost, the torn transaction. `BlockIndexer` and
`BlockPool`, `TransactionStore` and `UnitStore`, `Startup` and `StateQuery` are composed by
refinement, `TransactionStore` and `TransactionParts` by the constant `Steps`.

Not modelled, and why:

* The figures computed at an epoch boundary (ada pots, copied parameters, rewards): the boundary
  hangs before any of them is stored (`BoundaryHangs`) unless its pool is closed, and then each fails
  and is passed over, as `CalculateAdaPotsForEpoch` and `ProvideEpochParams` in section 5 do;
  rewards read pool statistics that
  nothing writes. The clean-up of these tables by a rollback finds nothing for the same reason.
  When a boundary is noticed and how it takes connections is modelled.
* Of the transaction store: columns' values and the eviction of cached keys, which needs 100,000
  keys. Of the fetcher: governance documents (section 6), the checks of URL, size, hash and JSON, each of which is a fetch that
  fails, the rate limiter, and `Stop`, which only `indexer.Stop` calls, which nothing calls.
* What the dashboards show, handlers and templates: they read. The figure of the distance to the
  tip is taken with unsigned numbers (`main.go:1626`) and feeds the display only.
* Sign-in to the web pages (a token library), and the commands that write a configuration file.
* Schema, migrations and indexes: statements issued once before the pipeline runs. Their unique
  keys, and that no foreign key is created, are part of the models.
* Decoders of ledger replies: conversions; treasury, parameters and rewards replies are only logged.
* What nothing calls: the log interceptors, the second connection recovery, checkpoints, batch
  insertion of assets, the certificate functions for representatives and committees, the
  backfills of pots and parameters.
