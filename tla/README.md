# Verification of ddb-to-firestore

TLA+ models of the program that copies DynamoDB tables into Firestore (through
its MongoDB API) and keeps them up to date from DynamoDB Streams, with the TLC
runs that check them and the proofs TLAPS checks. Paths below are relative to
`src/`; line numbers in the modules are those of the file named with them.

## 1. The system

| Component | Code | State | Operations |
|---|---|---|---|
| Writer pool | `internal/firestore/writer_pool.go` | unbuffered `jobQueue`, semaphore `workers`, channel `closed`, one result channel per job | `Submit`, `worker`, `Close` |
| Checkpoint manager | `internal/checkpoint/manager.go` | one JSON file per source table, `.tmp` beside it, `Manager.mu` | `Save`, `Load`, `Delete`, `UpdateSegmentProgress`, `UpdateTimestamp`, `CreateMigrateCheckpoint`, `CreateLiveCheckpoint` |
| Migrator | `internal/processor/migrator.go` | goroutine per scan segment, a checkpoint in memory that all share | `Migrate`, `MigrateSimple`, `migrateSegment`, `processBatchWithRetry` |
| Replicator | `internal/processor/replicator.go` | checkpoint with one timestamp, the shard being read | `Replicate`, `processStreams`, `processShardSequentially`, `processRecords`, `sortShardsBySequenceNumber`, `createDeleteFilter` |
| Processor, command line | `internal/processor/processor.go`, `cmd/migrate/main.go` | clients per region and endpoint, goroutine and semaphore place per pair, root context | `New`, `RunMigration`, `RunLiveReplication`, `Close`; status, health, dry run |
| DynamoDB client | `internal/dynamodb/client.go` | a table name and scan options | `Scan`, `GetStreamShards`, `GetStreamShardsWithDetails`, `GetShardIterator`, `GetStreamRecords`, conversion of attribute values both ways |
| Firestore client | `internal/firestore/client.go` | a Mongo client | `ExecuteBatch`, `Close` |
| Converter | `internal/converter/converter.go` | none | `ConvertDocument`, `ConvertValue` |
| Configuration | `internal/config/config.go` | none after loading | `Load`, `Validate`, `GetPairConfig` |
| Logging | `internal/utils/logger.go` | none | |

How they interact. `main` loads the configuration, makes a `Processor` (which
makes the clients, the checkpoint manager and the writer pool), and runs every
pair in a goroutine that first takes a place in a semaphore. A migrate pair
runs a `Migrator`: its segments read pages with `Scan`, convert the items, hand
batches to the one writer pool and wait for the result of each, and update and
save the shared checkpoint. A live pair runs a `Replicator`: it copies the
table once with `MigrateSimple`, then reads the shards of the stream one after
the other for ever, drops the records older than the checkpoint's timestamp,
writes the others through the pool, and moves the timestamp. A signal cancels
the root context; `Processor.Close` disconnects Firestore and drains the pool,
after the last pair ended (migrate) or at once (live).

What is hard here: the callers, workers and shutdown of the pool interleave over
three channels; the segments share a map without a lock; the process may be
killed between any two steps and must resume from a file that another segment
may just have been saving; the bulk write is unordered and may succeed in part;
stream records are replayed, and one timestamp decides for all shards which of
them are dropped. None of it has a test in the repository.

What makes each component correct:

* **Writer pool**: an answer tells the truth about what was written; every job is
  answered; the shutdown ends and leaves nothing accepted unreported; no send on
  a closed channel.
* **Checkpoint manager**: a save is atomic against crashes and other
  goroutines; a failed call says so and changes nothing; every call returns.
* **Migrator**: what a resume skips was copied; "completed" and "success" are
  true; a completed segment stays so; nothing is written twice in one run; a
  run ends.
* **Replicator**: what the timestamp drops was applied; a reader that has
  caught up leaves the target equal to the table; all shards are read.
* **Processor**: success means every pair succeeded; every pair gets its turn
  and copies its own table; `Close` meets no working pair of a migrate command.
* **Clients and converter**: a resumed scan starts where the last one ended; an
  item and its deletion meet on one `_id`; a document is what the item's present
  attributes convert to.
* **The commands together**: whatever was run before over the same checkpoint
  file, a live checkpoint can be continued and a migrate that reports success
  has copied what it promised.

## 2. The modules

`WriterPool` — the pool, its callers and the shutdown. `caller[c]` and
`worker[w]` are program counters of the goroutines. A handoff over the
unbuffered queue is one step of two goroutines (`Handoff`); a `Submit` that finds
no worker ready parks (`Park`); when `Close` has closed both channels (
`CloseSignal`, `CloseQueue`) a new `Submit` may be refused (`Refuse`) or panic
(`SubmitPanic`), because Go's `select` chooses among ready cases. `ExecuteBatch`
may write all, some or none of a batch (`BatchOk`, `BatchFail`). `BeginClose`,
`Disconnected`, `Drained` follow `Processor.Close` and `WriterPool.Close`. The
history variables `told`, `applied`, `tries` are read by properties only.
**`WriteJobs`** is what the pool promises its callers, by job: "ok" only if all
was written, "refused" only if nothing was and nothing will be, no write after
"failed". `WriterPool` implements it (`ImplementsWriteJobs`).

`CheckpointFile` — `Save`, `Load` and `Delete` under the read-write mutex, a
save as truncate, write and rename; every system call may fail and the process
may die between any two. **`CheckpointStore`** is the promise: one value per
table, replaced in a single step inside the call. `CheckpointFile` implements
it (`ImplementsStore`, with `value <- file`).

`Migration` — one table's copy. A row is `<<segment, place>>`; a
`LastEvaluatedKey` is a place, nil is 0. `pc[s]` follows `migrateSegment`:
`scan` (a page of any length, which may not notice the end of the segment),
`submit`/`write` (batches, each written document by document), then
`UpdateSegmentProgress` as the single memory writes it is compiled to (`PutKey`,
`PutCount`, `PutDone` in any order, `BeginSum`, `AddCount`, `StoreTotal`): Go
gives a map entry that is written and read without a lock no better guarantee.
`Lock`, `Marshal`, `SaveReturns` are `Manager.Save`. `Crash`, `Cancel`, `Resume`,
`StartFresh`, `LateWrite` are the ways runs end and begin again, with the
batches a cancelled segment leaves in the pool. `Simple = TRUE` is
`MigrateSimple`. The pool is used as `WriteJobs` describes it, the file as
`CheckpointStore` does; this composition is by contract, the two refinements
above discharge it.

`Replicator` — one live pair: the start from nothing, from a migrate checkpoint
or from a live one; the copy, item by item, while the table changes; the stream
as a log whose records sit in shards that close and are succeeded; the loop of
`processStreams`. `cp` is the checkpoint in memory, `file` the one on disk. The
environment changes the table (`Change`), closes shards (`Roll`) and moves the
clock (`Tick`); records carry whole seconds (`SecondOf`), as the timestamp in
`checkpoints/mock-data-table-1.json` does, the first timestamp does not.
`LeaveShard` is every way a shard is given up: an error of `GetShardIterator` or
`GetRecords`, an expired iterator, a failed batch. `Stop` is a kill, a
cancellation, or an error that `Replicate` returns.

`Commands` — migrate, migrate --resume and live in any order over one table, one
collection and the one checkpoint file, each killed or failing anywhere, while
the table changes and the number of segments is set differently between two
runs. A row is read and later written and recorded in one step, a record is
applied and recorded in one step: the steps in between are those of `Migration` and
`Replicator`. Time is counted in changes; a checkpoint carries what the code's does
(mode, segments, progress, timestamp, whether the copy is complete), and `start`
besides, which the code writes and never reads. `Resume` takes a checkpoint of
either mode, as `migrator.go:46` does; `LiveAnew` deletes one of the other mode. The
loop of live replication polls until an error, which may come after any record
and begins the next cycle (`NextCycle`).

`ShardSort` — `sortShardsBySequenceNumber` step by step: the shards of one
DescribeStream, the details of a second one that may know fewer or more, the filter,
the exchange sort with the comparison that puts a missing number last, and the
`int64` the digits are added up in, which wraps at `Half`. The numbers of a stream
have 21 to 40 digits and an `int64` holds 19, so no module assumes that one fits.

`Conversion` — operators for what happens to an item: attribute values to Go
values and back, through the JSON of the checkpoint file, where every number
becomes a float64; names under a convention; nested values; the four transforms.
Go visits a map in any order, so where two names become one `ConvertDocument` is the
set of the documents that may come out. The functions of the code that call
themselves on what lies one level down (`convertFromAttributeValue`, `convertValue`,
`getNestedValue`, `setNestedValue`) call the constant operators `FromNested`,
`ConvertNested`, `GetNested`, `SetNested` there; `Documents.cfg` sets each of these to the
function itself, so TLC checks the recursion of the code, and the theorems hold
whatever becomes of a nested value.

`Documents` — a live cycle on items with attributes: it extends `ShardSort` and
`Conversion`, lists and sorts the shards of a stream, reads them and
executes the operation of every record on the collection, a bag of documents. A
closed shard ends after its last record (`NextShard`); an open one is polled for ever
and left only by an error, as any shard may be at any place (`LeaveShard`).

`Processor` — one run of the program with several pairs: `New` with its clients
per source, the selection by `--pairs`, the semaphore, the collection of errors,
`Close`. What a pair does is reduced to the table it scans and whether it ends.

`MCWriterPool`, `MCMigration`, `MCReplicator`, `MCProcessor`, `MCCommands` and `MCDocuments`
give constants their values for TLC. The modules named `...Proofs` hold the proofs
about the module they are named after. Operators marked "Mutant" are faulty
variants of a definition; each property is known to fail when the variant replaces
the definition.

## 3. The runs

| Run | Bounds | What it shows |
|---|---|---|
| `pool` | 2 callers, 1 worker, 2 batches each, live shutdown | Types; `SlotAlwaysFree`, `ReplyNeverBlocks`, `NothingLeftBehind`; a panic needs a signal (`PanicNeedsSignal`); the inductive invariant `PoolInv`; the pool implements `WriteJobs`; every caller is answered and `Close` finishes |
| `pool_panic` | 2 callers, 1 worker, a batch each | **violation** `NoPanic`: `Submit` against `Close` |
| `checkpoint_file` | 2 goroutines, 2 tables, 2 contents | never a torn file; `ImplementsStore`; every call returns |
| `migrate_resume` | 2 segments of 3 and 1 rows, batches of 2, no `_id`, 2 runs | `ResumeSkipsNothing`, `CompletedIsCopied`, `SuccessIsComplete`, `CompletedStays`, and `FlagsKept`, which the last is proved from |
| `migrate_simple` | the same rows, one of them not convertible, one reader, 2 runs | for the copy without checkpoint: `SuccessIsComplete`, `CopiedOnce` within one run, `RunReturns` |
| `migrate_filtered` | one filtered row | **violation** `CompletedIsCopied`: a page a filter empties ends its segment |
| `replicate` | 2 keys, 3 changes, 2 shards one after the other, 2 starts, 2 ticks a second, batches of 2 | `DroppedIsApplied`, `CaughtUpIsEqual` |
| `replicate_parallel` | 2 shards open at once | **violation** `SkipsOnlyProcessed` |
| `pairs` | 3 pairs or fewer, two of them with one region, 2 at a time, both commands | `SuccessMeansAll`, `QuietAtClose`; a pair that does not read through the client of another (`SharesClient`) copies its own table (`CopiesItsTable`); `EveryPairGetsItsTurn` |
| `commands` | 3 commands, 2 keys in one segment or in one each, 3 changes | `LiveIsHonest`, `SuccessIsComplete`; live replication that goes on catches up once its cycles are no longer left early (`CatchesUp`) |
| `documents` | 8 setups of keys, attributes and mapping; 3 shards, 3 changes; items' `int64` to 8, float64 exact to 4; all sequence numbers beyond the -4..3 they are parsed into | `EachShardOnce`, `SortedByNumber`; after a cycle that read all records, of shards in the order of opening, every item has its one document and no removed item has any (`ItemsAreCopied`, `RemovedAreDeleted`); a key survives the checkpoint file (`KeySurvivesResume`) |
| `shard_order` | 1 setup whose numbers pass the wrap from the first shard to the second | **violation** `Chronological`: the child is read before its parent |

Why the bounds are enough. In the pool two callers compete for one worker: one
of them parks while the batch of the other is executed (`Park` needs a `Submit` that
finds every worker busy, so with as many workers as callers it never happens), is
served when the worker is back, is overtaken by the second batch of the other, or is
woken by `close(wp.closed)` while one job is accepted and another is not; jobs share
nothing but slots and queue, and what several workers do to each other is in the
proofs, which hold for any number. In
the migration, segments meet in the map and in one save, for which two suffice,
and a third page adds no new place to fail; two runs let a second start from
any state of the first. The proofs cover all other sizes. In the replication a
timestamp goes wrong through one record applied and another not, on one key or
two, in one batch or two, before or after a restart: three changes of two keys
over two shards and two starts contain these cases; `MaxTime = 2` with two
ticks in a second puts the start into the middle of a second. Three pairs with
two places leave one that waits. Three commands allow any two to meet over what a
third left (a migrate killed, live over its file, migrate --resume over that);
two keys in one segment or in two are the least that tell a changed segment count.
In `documents` the setups are the cases of the mapping: a primary key mapped to
`_id`, none, a composite key, an item's own `_id`, numbers beyond the exact ones,
two names that become one, transforms that fail; three changes suffice to
put, change and remove one item, or to swap two, over the shards that
two rolls leave. The sequence numbers are beyond the `int64` of the model as those of
a stream are beyond the real one: 9, 10, 11 keep their order when parsed, 11, 12
in another setup do not, and the properties of the documents speak of the cycles,
sorted or only listed, that come in the order of opening (`Ordered`). `MaxDocuments` only stops cycles over inserts without `_id`.

Every cfg says `CHECK_DEADLOCK FALSE` except `CheckpointFile.cfg`: a bounded
number of batches, runs or changes, a process that ended, or a pair that waits
for ever is a state without successor in the others. In `CheckpointFile`
somebody can always go on, and deadlock is checked.

Fairness. *Pool*: weak fairness of each goroutine and of `Close`, since the Go
scheduler runs what can run and the driver returns from a bulk write; strong
fairness of a caller's handoff, since the runtime serves parked senders in
order. *Checkpoint*: weak fairness of each call, strong fairness of the mutex,
which Go keeps from starving a waiter. *Migration*: weak fairness of each
segment and of the collector: a scan or a batch is answered, with an error
perhaps. *Processor*: weak fairness of the pairs and of the main goroutine.
*Commands*: weak fairness of the copy and of the polls, which `CatchesUp` is about; a
stop of the command or a change of the table ends its promise, and errors that
leave cycle after cycle early (`GivesUp`) void it: the code does not limit them, so the
property has their end as its premise. That a cycle ends is not assumed. In no
run is a signal, a restart or the success of a call assumed.

## 4. What the runs found

* **Submit against Close** (`writer_pool.go:50-58, 91-92`). Both channels are
  closed and both cases of the select are ready; the send panics. Only the live
  command closes the pool while pairs submit (`processor.go:211-213`).
* **An empty page ends a segment** (`migrator.go:161`). DynamoDB applies a
  filter after it has read a page, so a page may be empty and not the last.
* **One timestamp for all shards** (`replicator.go:713`, comment at 255). What
  one shard moves the timestamp to makes the unread records of another shard
  too old to be processed. The same happens, with one shard at a time, when a
  shard is left because of an error and its child is read: `DroppedIsApplied` and
  `CaughtUpIsEqual` therefore ask that, once a second shard exists, no shard was
  left early (`ReadInOrder`).
* **Shards out of order** (`replicator.go:574-593, 623-633`; run `shard_order`). Line
  551 says "sorts shards by their starting sequence number for chronological order", as
  does line 247. Numbers have more digits than `int64` holds; what is left of them keeps
  the order only where no wrap lies between two shards (`ShardsAscendWithinAWrap`),
  else the child is read first and the parent's older values are applied last.

Disagreements that no run shows:

* **Clients without a table of their own** (`processor.go:45-53`,
  `client.go:164`). The second pair of a region and endpoint copies the first pair's
  table, though `src/README.md:146` calls `source` the table configuration of each pair.
  `CopiesItsTable` exempts these pairs by `SharesClient`.
* **No retries**. `src/README.md:17` and `376-379` promise "Exponential backoff retry
  logic" with "per-operation retry limits", `README.md:133` and `config.go:27` a
  `maxRetries`; `migrator.go:273` says "The writer pool handles its own retries
  internally", `replicator.go:457` "with retry logic". The worker calls `ExecuteBatch`
  once (`writer_pool.go:75`), `maxRetries` goes into the pair's
  configuration, from which nobody reads it, as nobody reads `retryDelayMs`, and `LogRetry` has no caller: a failed batch is
  reported and not tried again (`NoBatchIsRetried`). It is repeated only when a
  resume or the next cycle reads its items again.
* **Binary values are not Base64**. `src/README.md:245, 248` and the comments at
  `client.go:556, 636` say so; lines 506-568 make plain strings of the bytes, and
  `convertFromAttributeValue` of `Conversion` does as they do. No property depends on it.

A live pair never gives its semaphore place back and the default is one place
(`processor.go:184`): `EveryPairGetsItsTurn` says that a pair gets its turn unless live
pairs hold every place.

Weaknesses the models contain and the properties exempt, each by a named
operator: changes made in the second the replication starts in
(`InStartSecond`), two records of one key in one unordered batch (`mixed`),
rows and records the converter rejects (`Bad`), rows behind a filter
(`Filtered`), a second run over documents without `_id` (`CopiedOnce` is
about one run), items removed between two commands (`MayBeOrphan`), a key that does
not become the `_id` alone (`KeyBecomesId`), numbers that do not fit (`KeysAreExact`),
shards read in another order than that of opening (`Ordered`), a page of shards that is
full or a shard left early (`CaughtUp` of `Documents`), pairs of one region (`SharesClient`). Weaknesses
without a property are listed as hazards with a note.

## 5. What is proved

Proved by TLAPS for every value of the constants that satisfies the named
assumption of the module (finite segments, positive batch size, finitely many
workers; distinct special values in `CheckpointFile`; every key in a segment of each
count, one of which is 1, in `Commands`; a positive `Half` in `ShardSort`; finitely many
lineages and positive batch size, frequency and seconds in `Replicator`; in `Documents`
shards numbered from 1, mappings that the validation accepts, and tables whose keys
have the same attributes of one key type each, `DocumentsAssumption` and
`KeyAssumption`; positive limits, an even one for floats, in `Conversion`):

* `PoolIsInvariant`: `TypeOK` and `PoolInv` of `WriterPool`. `PoolInv` follows a batch
  from its caller to a worker and back: `CallersInv` (a batch not begun, or still
  in `Submit`, is `Untouched`; what the caller was told agrees with where it is),
  `WorkersInv` (a worker in its loop body is the only one with its batch, whose
  result channel is empty, and has called `ExecuteBatch` as often as its place
  says), `AnswersInv` (an answer "ok" means wholly written, an answer of `Submit` means
  never tried, a tried batch without answer is in a worker's hands) and
  `CloseInv` (`Close` runs against callers only after a signal). None of the
  properties is inductive alone: that a send does not block rests on the batch
  being held once, which rests on it being untouched in `Submit`. From it follow
  `RepliesNeverBlock`, `NoBatchIsRetried`, `DrainLeavesNothing`, `PanicsNeedASignal`,
  `SlotsAreEnough` and `PoolTypes`.
* `PoolImplementsWriteJobs`: `WriterPool` implements `WriteJobs`. A caller's step is
  `Submit`, `Ok`, `Fail`, `Refuse`, `Cancel` or a stutter, a worker's bulk write is `Write` or a
  stutter, the shutdown changes nothing the callers see.
* `MigrationTypes`: `TypeOK` of `Migration`.
* `ResumeIsSafe`: `Spec => []ResumeSkipsNothing`, filter or not. The property is not
  inductive: the file is written from an image that was marshalled from a
  memory that a segment updates from a key taken from a page. `KeysCopied`
  therefore says of each of these keys what the property says of the file's, and
  `PageCopied` says of a page in progress that its rows are copied up to the
  last batch or are in the batch. That an entry may be torn does no harm,
  because each of its words is honest by itself: the argument is word by word.
* `CompletionIsHonest` (assuming `Filtered = {}`, the case `migrate_filtered`
  shows to be necessary): `CompletedIsCopied` and `SuccessIsComplete`, the latter
  also on its own as `SuccessIsOfTheTable`.
  `EndsCopied` says that whatever claims the end of a segment (`ClaimsEnd`: a flag
  in memory, image or file, a goroutine that is done or about to record its
  end) is right; `ClaimIsFounded` shows that a new claim is made only where the
  scan ended.
* `FlagsAreKept`, `CompletionIsKept`: `Spec => CompletedStays`, an action property, from `FlagsKept`:
  `Manager.mu` makes the goroutine in its save the only one that marshals, what it
  has marshalled of a completed segment says so, and a segment whose flag is
  set goes nowhere but to the end of its save.
* `FirstRunCopiesOnce`: `Spec => []CopiedOnce`: the first run writes no row twice, so
  without `_id` it leaves no second document. From `WrittenOnce`: a scan goes on
  after the rows that are stored, a batch takes rows after them, and a batch the
  pool still has of an abandoned call belongs to a segment that failed and reads no more.
  With `KeysCopied`, the key recorded after a page is where the next page begins.
* `FileTypes`, `FileIsNeverTorn`: `TypeOK`, `FileNeverTorn` and `MutexHolds` of
  `CheckpointFile`, from `FileInv`, which adds that a process between lock and unlock
  is the only one and that what is renamed is what it marshalled.
* `FileImplementsStore`: `CheckpointFile` implements `CheckpointStore`; every step
  maps to a step or a stutter under `FileInv`.
* `ProcessorTypes`, `SuccessIsOfAll`, `CloseIsQuiet`: `TypeOK`, `SuccessMeansAll` and
  `QuietAtClose` of `Processor`, from `PairsInv`: the error of a failed pair is in the
  channel or collected, and a command that returned has no pair under way.
  `FirstPairsCopyTheirTable`: `CopiesItsTable`, as the clients are those of the first
  pair of each source while a pair is at work.
* `CommandsTypes`, `LiveCheckpointsAreHonest`, `CommandsSuccessIsComplete`: `TypeOK`,
  `LiveIsHonest` and `SuccessIsComplete` of `Commands`, for any number of keys, changes,
  commands and segment counts. The invariant has `Good` at its centre, what a
  checkpoint promises: `Honest`, a finished copy and the records from `ts` on make the
  collection right but for orphans; `Covered`, what the progress covers was copied
  unless it changed since. It is stated of the file and of the checkpoint in memory
  alike, because any command may come next. `LogInv` ties table and log, `RunInv` the
  checkpoint to what the program is doing, `PageFresh` says that a value read early
  has changed since only by records that are still to come, `Copied` and `Applied` what the copy and
  the cycle have done so far. A resumed copy of another segment count is safe because
  the count is taken from the checkpoint and not from the configuration.
* `SortKeepsTheShards`, `SortFollowsNumbers`: `EachShardOnce` and `SortedByNumber` of
  `ShardSort`, for any list and any sequence numbers. The exchange sort keeps left of
  place i what is not after anything to the right of it, and at i a shard not
  after those compared so far; that `After` is transitive and asymmetric also for
  numbers that wrap (they are integers after all) is a lemma.

* `ReplicatorTypes`, `DropsAreApplied`, `CaughtUpReadersAgree`: `TypeOK`,
  `DroppedIsApplied` and `CaughtUpIsEqual` of `Replicator`, for any number of keys,
  changes, shards and starts, any batch size, checkpoint frequency and clock.
  Neither property is inductive: that a dropped record was applied depends on how
  the timestamp came where it is. The invariant speaks of *settled* records, those
  the cycle has passed (`Passed`) and those the timestamp in memory or in the file
  drops (`Due`, `Dropped`): they have reached the target (`SeenInv`), and the last one
  of its key stands in it (`RightInv`). `StepSettles` says, action by action, what
  may settle a record; the step that needs an argument is `BatchOk`, where the
  timestamp moves to the last record of the batch: as times and, with one lineage,
  shards grow along the log (`TimeInv`, `ShardInv`), what is older than that record
  lies in a shard the cycle has left (`CycleInv`) or in the page's past (`PageInv`).
  `NoOldWrite` is why a replay does not put an old value over a settled one.
  `CopyInv` gives the beginning: what was made before the second of the start is in
  the copy. Both rest on `ReadInOrder`; `CaughtUpIsEqual` excepts keys with two
  records in one batch because the bulk write is unordered, and both except the
  second of the start. These cases are findings or hazards of their own.

* `DocumentsTypeCorrect`, `ReplicationSortsShards`, `KeysSurviveResume`, `ItemsCopied`,
  `RemovedDeleted`: `TypeOK`, `EachShardOnce` and `SortedByNumber`, `KeySurvivesResume`,
  `ItemsAreCopied` and `RemovedAreDeleted` of `Documents`, for any tables, mappings,
  transforms and number of shards and changes. The first lemmas are about the
  operators. `FloatIsExact` and `KeyComesBack`: numbers up to `FloatExact` and all strings
  come back from the checkpoint file as they were. `TransformsKeepId`: transforms of
  other fields that do not end in an error leave the `_id` alone; the list of transforms is finite and
  of any length, and the induction goes over the first place where the claim would
  fail. `DocumentId` with `DeletesKey`: `ConvertDocument`, whatever
  order the map is visited in, and `createDeleteFilter`, which sees only the key, name
  the same `_id`; `IdsDiffer`: two keys never share one. All three need
  `KeyBecomesId` (`Found`), which is what the two properties are stated for.
  The invariant is `DocumentsInv`. `LogInv` and `TableInv` tie the log to the table: the
  last record of a key says what the table holds. `Clean` says that the collection has
  at most one document of an `_id`, and only of keys with a record. `ReadInv` says that the
  reader, when its last record is m, has the rest of the log before it (`Ahead`),
  and that if it has read as many records as m, so none was missed,
  the collection reflects the last record among the first m of every key (`Agrees`).
  `CountInv` bounds the records a cycle has read by those it passed, the ones in shards it
  finished or up to its place in the present one. What is still ahead comes later in the log because the shards
  of the cycle are in the order they were opened in, which `CaughtUp` asks for (`Ordered`) and
  `ShardsAscendWithinAWrap` proves of every sorted cycle whose numbers have no wrap of
  `int64` between them, whatever their size. Nothing else is asked of the reader: it may
  leave shards early and replay them, and counts only when it has read every record.
* `DocumentsSort`: every behaviour of `Documents` is one of `ShardSort` (`Spec => SortSpec`), so
  what is proved of the sort holds within the replication.

`KeysCopied`, `EndsCopied`, `WrittenOnce`, `FileInv`, `PairsInv` and `DocumentsInv` are
invariants the proofs rest on; TLC checked them as invariants of the runs before
they were proved.

Every safety and action property that a passing run checks has its theorem.
Model-checked only: the liveness properties (`EveryCallerAnswered`, `CloseFinishes`,
`EveryCallReturns`, `RunReturns`, `EveryPairGetsItsTurn`, `CatchesUp`; fairness and ENABLED
are out of the prover's reach), and what the conversions make of a value
below the top level, which the theorems leave open.

## 6. Not modelled

* Logging, status, health, dry run and validate read and print. Loading,
  defaults and environment variables of the configuration, connecting and Ping have
  no state the rest depends on beyond what the constants say.
* The machine's crash (nothing is synced by the program): `Crash` is that of the
  process.
* `MongoStorage`, `Manager.List`, `ConvertStreamRecord`, `processShards`, `processShard`,
  the single-document calls of the Firestore client: no caller, or errors only.
* A changed stream ARN (the checkpoint's timestamp would be used for the new
  stream) and records trimmed after a day: what the service then returns is not in the
  code. Sleeping between cycles has no effect on what is read.
* Two pairs with one source table and two targets share one checkpoint file
  (`manager.go:261`); the pairs of `Processor` have a table each.
* In `Conversion`: fractions and the digits of a decimal, the layouts of dates, JSON
  parsing (the constants `TimeOf`, `NumberOf`, `ArrayOf`, `ObjectOf` say what the library reads from a
  string), and how the driver encodes a nil. A value that is not a string or a number never is a key.
* In `Documents`: timestamps, batches and failures, which are in `Replicator`; a change
  during the sort, which could as well come after it.

## 7. Plan

The order was: the pool and the checkpoint file, because everything else rests on
their contracts; the copy, whose resume is the program's main promise; the
stream; the pairs; then the commands together, and the documents. What is
left, in order of worth:

1. A stream ARN that changes and trimmed shards, once the code says what is
   meant to happen then.
2. Two pairs over one checkpoint file, as a composition of two `Commands`.
3. Liveness of a failing shard in `Replicator`: that a record is applied if
   its shard can be read often enough needs a fairness of the service that the
   code does not state.
