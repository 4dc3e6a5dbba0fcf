------------------------------ MODULE Migration ------------------------------
(***************************************************************************)
(* The full copy of one table (internal/processor/migrator.go): a goroutine *)
(* per scan segment reads pages, has the writer pool write them in batches, *)
(* and records how far it came in a checkpoint that all segments share and  *)
(* that survives the process.  Simple = TRUE is MigrateSimple, the copy     *)
(* without checkpoint that live replication starts with.                    *)
(*                                                                         *)
(* A row of segment s is the pair <<s, k>>, k its place in the order of the *)
(* scan; a LastEvaluatedKey is the place of the last row read, 0 is nil.    *)
(* The writer pool is used as WriteJobs describes it, the checkpoint file   *)
(* as CheckpointStore does.                                                *)
(***************************************************************************)
EXTENDS Naturals, FiniteSets

CONSTANTS Segment,     \* scan segments, SegmentCount of them
          Rows,        \* Rows[s]: how many rows the segment s has
          Filtered,    \* rows the configured FilterExpression rejects
          Bad,         \* rows ConvertDocument rejects
          BatchSize,   \* rows per write batch
          Readers,     \* capacity of the semaphore, ParallelReaders
          HasId,       \* documents carry an _id: writes are upserts
          Simple,      \* MigrateSimple instead of Migrate
          MaxRuns      \* bound: runs of the command

NoOne == "none"   \* no segment: Manager.mu is free

ASSUME MigrationAssumption ==
    /\ NoOne \notin Segment
    /\ IsFiniteSet(Segment)
    /\ Rows \in [Segment -> Nat]
    /\ BatchSize \in Nat \ {0}
    /\ Readers \in Nat
    /\ HasId \in BOOLEAN
    /\ Simple \in BOOLEAN
    /\ MaxRuns \in Nat

Row == Segment \X Nat

VARIABLES
    main,      \* the command: not running, running, or returned
    runs,      \* times it was started
    ctxDone,   \* its context is cancelled
    pc,        \* pc[s]: where the goroutine of s is
    lastKey,   \* lastKey[s]: lastEvaluatedKey, where the next Scan starts
    high,      \* high[s]: the last row the page covers
    pageKey,   \* pageKey[s]: result.LastEvaluatedKey of the page
    cut,       \* cut[s]: the last row of the page handed to a batch
    unsent,    \* unsent[s]: rows of the batch in the pool, not yet written
    count,     \* count[s]: processedCount of this run
    final,     \* final[s]: the checkpoint update is the one after the loop
    stores,    \* stores[s]: fields of the segment's entry still to be stored
    toSum,     \* toSum[s]: entries s has not added to its total yet
    total,     \* total[s]: the sum s computes over all entries
    mem,       \* the checkpoint in memory, shared by all segments
    img,       \* the JSON being marshalled by the holder of Manager.mu
    left,      \* entries it has not read yet
    mu,        \* who holds Manager.mu
    file,      \* the checkpoint file
    hasFile,   \* it exists
    late,      \* rows of abandoned batches the pool may still write
    stored,    \* rows in the target
    twice      \* rows the target has more than one document for

local == <<pc, lastKey, high, pageKey, cut, unsent, count, final, stores, toSum, total>>
saving == <<img, left, mu>>
disk == <<file, hasFile>>
target == <<late, stored, twice>>
command == <<main, runs, ctxDone>>
vars == <<command, local, mem, saving, disk, target>>

Field == {"key", "count", "done"}

\* Mutant: a failed segment keeps its place in the semaphore.
ActiveLeak == {"scan", "submit", "write", "put", "sum", "lock", "marshal", "failed"}

\* The places in the code of a segment that holds a place in the semaphore.
Active == {"scan", "submit", "write", "put", "sum", "lock", "marshal"}

\* A checkpoint: per segment a key, a count and a flag, and their total.
Image == [key : [Segment -> Nat], count : [Segment -> Nat],
          done : [Segment -> BOOLEAN], total : Nat]

Empty == [key   |-> [s \in Segment |-> 0],
          count |-> [s \in Segment |-> 0],
          done  |-> [s \in Segment |-> FALSE],
          total |-> 0]

TypeOK ==
    /\ main \in {"idle", "running", "success", "error"}
    /\ runs \in Nat
    /\ ctxDone \in BOOLEAN
    /\ pc \in [Segment -> Active \cup {"off", "wait", "done", "failed"}]
    /\ lastKey \in [Segment -> Nat]
    /\ high \in [Segment -> Nat]
    /\ pageKey \in [Segment -> Nat]
    /\ cut \in [Segment -> Nat]
    /\ unsent \in [Segment -> SUBSET Nat]
    /\ count \in [Segment -> Nat]
    /\ final \in [Segment -> BOOLEAN]
    /\ stores \in [Segment -> SUBSET Field]
    /\ toSum \in [Segment -> SUBSET Segment]
    /\ total \in [Segment -> Nat]
    /\ mem \in Image
    /\ img \in Image
    /\ left \in SUBSET Segment
    /\ mu \in Segment \cup {NoOne}
    /\ file \in Image
    /\ hasFile \in BOOLEAN
    /\ late \in SUBSET Row
    /\ stored \in SUBSET Row
    /\ twice \in SUBSET Row

Zero == [s \in Segment |-> 0]

Init ==
    /\ main = "idle" /\ runs = 0 /\ ctxDone = FALSE
    /\ pc = [s \in Segment |-> "off"]
    /\ lastKey = Zero /\ high = Zero /\ pageKey = Zero /\ cut = Zero
    /\ unsent = [s \in Segment |-> {}]
    /\ count = Zero
    /\ final = [s \in Segment |-> FALSE]
    /\ stores = [s \in Segment |-> {}]
    /\ toSum = [s \in Segment |-> {}]
    /\ total = Zero
    /\ mem = Empty /\ img = Empty /\ left = {} /\ mu = NoOne
    /\ file = Empty /\ hasFile = FALSE
    /\ late = {} /\ stored = {} /\ twice = {}

\* The items a Scan returns for the rows after lo up to hi.
Items(s, lo, hi) == {k \in (lo + 1)..hi : <<s, k>> \notin Filtered}

\* The items of the page that are in no batch yet; the next batch takes the
\* first BatchSize of them, or what there is, up to its last item.
Remaining(s) == Items(s, cut[s], high[s])
BatchUpTo(s, end) == {k \in Remaining(s) : k <= end}
IsNextBatch(s, end) ==
    \/ Cardinality(BatchUpTo(s, end)) = BatchSize
    \/ Cardinality(BatchUpTo(s, end)) < BatchSize /\ BatchUpTo(s, end) = Remaining(s)

\* A write reaches the target: it replaces the document with its _id, or
\* adds one.
WriteDoc(r) ==
    /\ stored' = stored \cup {r}
    /\ twice' = IF r \in stored /\ ~HasId THEN twice \cup {r} ELSE twice
-----------------------------------------------------------------------------
(* The command. *)

\* Goroutines start for the segments the checkpoint does not call completed.
Spawn(checkpoint) ==
    /\ pc' = [s \in Segment |-> IF checkpoint.done[s] THEN "off" ELSE "wait"]
    /\ lastKey' = checkpoint.key
    /\ count' = Zero
    /\ mem' = checkpoint
    /\ UNCHANGED <<high, pageKey, cut, unsent, final, stores, toSum, total>>

\* migrate --resume with a checkpoint on disk.
Resume ==
    /\ main = "idle" /\ runs < MaxRuns
    /\ ~Simple /\ hasFile
    /\ Spawn(file)
    /\ main' = "running" /\ runs' = runs + 1
    /\ UNCHANGED <<ctxDone, saving, disk, target>>

\* migrate without --resume, or with nothing to resume: the new checkpoint is
\* saved before the copy begins.  MigrateSimple saves none.
StartFresh ==
    /\ main = "idle" /\ runs < MaxRuns
    /\ Spawn(Empty)
    /\ file' = IF Simple THEN file ELSE Empty
    /\ hasFile' = (hasFile \/ ~Simple)
    /\ main' = "running" /\ runs' = runs + 1
    /\ UNCHANGED <<ctxDone, saving, target>>

\* "failed to save initial checkpoint", or the one on disk cannot be loaded.
StartFails ==
    /\ main = "idle" /\ runs < MaxRuns
    /\ ~Simple
    /\ main' = "error" /\ runs' = runs + 1
    /\ UNCHANGED <<ctxDone, local, mem, saving, disk, target>>

\* Mutant: the errors of the segments are not looked at.
FinishUnchecked ==
    /\ main = "running"
    /\ \A s \in Segment : pc[s] \in {"off", "done", "failed"}
    /\ main' = "success"
    /\ UNCHANGED <<runs, ctxDone, local, mem, saving, disk, target>>

\* Every goroutine has ended: the errors they sent decide.
Finish ==
    /\ main = "running"
    /\ \A s \in Segment : pc[s] \in {"off", "done", "failed"}
    /\ main' = IF \E s \in Segment : pc[s] = "failed" THEN "error" ELSE "success"
    /\ UNCHANGED <<runs, ctxDone, local, mem, saving, disk, target>>

\* SIGINT or SIGTERM
Cancel ==
    /\ main = "running" /\ ~ctxDone
    /\ ctxDone' = TRUE
    /\ UNCHANGED <<main, runs, local, mem, saving, disk, target>>

\* Everything in memory is gone: the process was killed, ...
Reset ==
    /\ main' = "idle" /\ ctxDone' = FALSE
    /\ pc' = [s \in Segment |-> "off"]
    /\ lastKey' = Zero /\ high' = Zero /\ pageKey' = Zero /\ cut' = Zero
    /\ unsent' = [s \in Segment |-> {}]
    /\ count' = Zero
    /\ final' = [s \in Segment |-> FALSE]
    /\ stores' = [s \in Segment |-> {}]
    /\ toSum' = [s \in Segment |-> {}]
    /\ total' = Zero
    /\ mem' = Empty /\ img' = Empty /\ left' = {} /\ mu' = NoOne
    /\ late' = {}
    /\ UNCHANGED <<runs, disk, stored, twice>>

Crash == main = "running" /\ Reset

\* ... or it exits after Close has drained the pool.
Exit == main \in {"success", "error"} /\ late = {} /\ Reset
-----------------------------------------------------------------------------
(* A segment: migrateSegment and migrateSegmentSimple. *)

GoTo(s, where) == pc' = [pc EXCEPT ![s] = where]

\* semaphore <- struct{}{}
Acquire(s) ==
    /\ pc[s] = "wait"
    /\ Cardinality({r \in Segment : pc[r] \in Active}) < Readers
    /\ GoTo(s, "scan")
    /\ UNCHANGED <<command, lastKey, high, pageKey, cut, unsent, count, final,
                   stores, toSum, total, mem, saving, disk, target>>

\* The update of the checkpoint begins: in the loop, or after it.  Without
\* checkpoint the loop goes on, or the segment is done.
Record(s, isFinal) ==
    /\ final' = [final EXCEPT ![s] = isFinal]
    /\ stores' = [stores EXCEPT ![s] = IF Simple THEN {} ELSE Field]
    /\ GoTo(s, IF ~Simple THEN "put" ELSE IF isFinal THEN "done" ELSE "scan")

\* A page of the table: DynamoDB reads as many rows as it likes, sets no
\* LastEvaluatedKey only at the end of the segment, and need not notice that
\* it has reached it.  A page without items ends the loop.
ScanPage(s) ==
    /\ pc[s] = "scan" /\ ~ctxDone
    /\ \E e \in lastKey[s]..Rows[s], next \in 0..Rows[s] :
        /\ e > lastKey[s] \/ e = Rows[s]
        /\ \/ e > lastKey[s] /\ next = e
           \/ e = Rows[s] /\ next = 0
        /\ high' = [high EXCEPT ![s] = e]
        /\ pageKey' = [pageKey EXCEPT ![s] = next]
        /\ cut' = [cut EXCEPT ![s] = lastKey[s]]
        /\ IF Items(s, lastKey[s], e) = {}
           THEN Record(s, TRUE)
           ELSE GoTo(s, "submit") /\ UNCHANGED <<final, stores>>
    /\ UNCHANGED <<command, lastKey, unsent, count, toSum, total, mem, saving, disk, target>>

\* The context is done, or Scan returns an error.
ScanFails(s) ==
    /\ pc[s] = "scan"
    /\ GoTo(s, "failed")
    /\ UNCHANGED <<command, lastKey, high, pageKey, cut, unsent, count, final,
                   stores, toSum, total, mem, saving, disk, target>>

\* Mutant: a row is lost between two batches.
SubmitSkipsRow(s) ==
    /\ pc[s] = "submit"
    /\ \E end \in Remaining(s) :
        /\ IsNextBatch(s, end)
        /\ cut' = [cut EXCEPT ![s] = end + 1]
        /\ LET operations == {k \in BatchUpTo(s, end) : <<s, k>> \notin Bad} IN
            /\ unsent' = [unsent EXCEPT ![s] = operations]
            /\ GoTo(s, IF operations = {} THEN "submit" ELSE "write")
    /\ UNCHANGED <<command, lastKey, high, pageKey, count, final, stores, toSum, total,
                   mem, saving, disk, target>>

\* Mutant: the next batch begins with the last row of this one.
SubmitOverlap(s) ==
    /\ pc[s] = "submit"
    /\ \E end \in Remaining(s) :
        /\ IsNextBatch(s, end)
        /\ cut' = [cut EXCEPT ![s] = IF end < high[s] THEN end - 1 ELSE end]
        /\ LET operations == {k \in BatchUpTo(s, end) : <<s, k>> \notin Bad} IN
            /\ unsent' = [unsent EXCEPT ![s] = operations]
            /\ GoTo(s, IF operations = {} THEN "submit" ELSE "write")
    /\ UNCHANGED <<command, lastKey, high, pageKey, count, final, stores, toSum, total,
                   mem, saving, disk, target>>

\* Convert the next rows of the page and submit what could be converted; a
\* batch of which nothing is left is done.
SubmitBatch(s) ==
    /\ pc[s] = "submit"
    /\ \E end \in Remaining(s) :
        /\ IsNextBatch(s, end)
        /\ cut' = [cut EXCEPT ![s] = end]
        /\ LET operations == {k \in BatchUpTo(s, end) : <<s, k>> \notin Bad} IN
            /\ unsent' = [unsent EXCEPT ![s] = operations]
            /\ GoTo(s, IF operations = {} THEN "submit" ELSE "write")
    /\ UNCHANGED <<command, lastKey, high, pageKey, count, final, stores, toSum, total,
                   mem, saving, disk, target>>

\* The pool writes one document of the batch.
Write(s) ==
    /\ pc[s] = "write"
    /\ \E k \in unsent[s] :
        /\ WriteDoc(<<s, k>>)
        /\ unsent' = [unsent EXCEPT ![s] = @ \ {k}]
    /\ UNCHANGED <<command, pc, lastKey, high, pageKey, cut, count, final, stores,
                   toSum, total, mem, saving, disk, late>>

\* The result is nil: every document was written.
BatchOk(s) ==
    /\ pc[s] = "write"
    /\ unsent[s] = {}
    /\ GoTo(s, "submit")
    /\ UNCHANGED <<command, lastKey, high, pageKey, cut, unsent, count, final,
                   stores, toSum, total, mem, saving, disk, target>>

\* Mutant: a failed batch is logged and the page goes on.
BatchFailsIgnored(s) ==
    /\ pc[s] = "write"
    /\ unsent' = [unsent EXCEPT ![s] = {}]
    /\ GoTo(s, "submit")
    /\ UNCHANGED <<command, lastKey, high, pageKey, cut, count, final, stores,
                   toSum, total, mem, saving, disk, target>>

\* The result is an error: the segment ends.
BatchFails(s) ==
    /\ pc[s] = "write"
    /\ unsent' = [unsent EXCEPT ![s] = {}]
    /\ GoTo(s, "failed")
    /\ UNCHANGED <<command, lastKey, high, pageKey, cut, count, final, stores,
                   toSum, total, mem, saving, disk, target>>

\* ctx.Done: the segment ends, the pool goes on with the batch.
Abandon(s) ==
    /\ pc[s] = "write" /\ ctxDone
    /\ late' = late \cup {<<s, k>> : k \in unsent[s]}
    /\ unsent' = [unsent EXCEPT ![s] = {}]
    /\ GoTo(s, "failed")
    /\ UNCHANGED <<command, lastKey, high, pageKey, cut, count, final, stores,
                   toSum, total, mem, saving, disk, stored, twice>>

\* An abandoned batch goes on, or fails unnoticed.
LateWrite(r) ==
    /\ r \in late
    /\ late' = late \ {r}
    /\ WriteDoc(r) \/ UNCHANGED <<stored, twice>>
    /\ UNCHANGED <<command, local, mem, saving, disk>>

\* The page is written: count it, and update the checkpoint when the count is
\* a multiple of the batch size.
PageDone(s) ==
    /\ pc[s] = "submit"
    /\ Remaining(s) = {}
    /\ LET n == count[s] + Cardinality(Items(s, lastKey[s], high[s])) IN
        /\ count' = [count EXCEPT ![s] = n]
        /\ lastKey' = [lastKey EXCEPT ![s] = pageKey[s]]
        /\ \/ n % BatchSize = 0 /\ ~Simple /\ Record(s, FALSE)
           \/ (n % BatchSize # 0 \/ Simple) /\ pageKey[s] = 0 /\ Record(s, TRUE)
           \/ /\ (n % BatchSize # 0 \/ Simple) /\ pageKey[s] # 0
              /\ GoTo(s, "scan") /\ UNCHANGED <<final, stores>>
    /\ UNCHANGED <<command, high, pageKey, cut, unsent, toSum, total, mem, saving, disk, target>>
-----------------------------------------------------------------------------
(* The checkpoint: UpdateSegmentProgress, without a lock, and Save, under    *)
(* Manager.mu.                                                               *)

\* One word of the map entry is stored; the compiler chooses the order.
PutKey(s) ==
    /\ pc[s] = "put" /\ "key" \in stores[s]
    /\ mem' = [mem EXCEPT !.key[s] = lastKey[s]]
    /\ stores' = [stores EXCEPT ![s] = @ \ {"key"}]
    /\ UNCHANGED <<command, pc, lastKey, high, pageKey, cut, unsent, count, final,
                   toSum, total, saving, disk, target>>

PutCount(s) ==
    /\ pc[s] = "put" /\ "count" \in stores[s]
    /\ mem' = [mem EXCEPT !.count[s] = count[s]]
    /\ stores' = [stores EXCEPT ![s] = @ \ {"count"}]
    /\ UNCHANGED <<command, pc, lastKey, high, pageKey, cut, unsent, count, final,
                   toSum, total, saving, disk, target>>

PutDone(s) ==
    /\ pc[s] = "put" /\ "done" \in stores[s]
    /\ mem' = [mem EXCEPT !.done[s] = final[s]]
    /\ stores' = [stores EXCEPT ![s] = @ \ {"done"}]
    /\ UNCHANGED <<command, pc, lastKey, high, pageKey, cut, unsent, count, final,
                   toSum, total, saving, disk, target>>

\* Mutant: the total is adjusted by the entry's count, after that was stored.
BeginSumDelta(s) ==
    /\ pc[s] = "put" /\ stores[s] = {}
    /\ toSum' = [toSum EXCEPT ![s] = {s}]
    /\ total' = [total EXCEPT ![s] = mem.total - mem.count[s]]
    /\ GoTo(s, "sum")
    /\ UNCHANGED <<command, lastKey, high, pageKey, cut, unsent, count, final,
                   stores, mem, saving, disk, target>>

\* The counts of all entries are added up, ...
BeginSum(s) ==
    /\ pc[s] = "put" /\ stores[s] = {}
    /\ toSum' = [toSum EXCEPT ![s] = Segment]
    /\ total' = [total EXCEPT ![s] = 0]
    /\ GoTo(s, "sum")
    /\ UNCHANGED <<command, lastKey, high, pageKey, cut, unsent, count, final,
                   stores, mem, saving, disk, target>>

AddCount(s, r) ==
    /\ pc[s] = "sum" /\ r \in toSum[s]
    /\ total' = [total EXCEPT ![s] = @ + mem.count[r]]
    /\ toSum' = [toSum EXCEPT ![s] = @ \ {r}]
    /\ UNCHANGED <<command, pc, lastKey, high, pageKey, cut, unsent, count, final,
                   stores, mem, saving, disk, target>>

\* ... and the sum becomes the checkpoint's ProcessedCount.
StoreTotal(s) ==
    /\ pc[s] = "sum" /\ toSum[s] = {}
    /\ mem' = [mem EXCEPT !.total = total[s]]
    /\ total' = [total EXCEPT ![s] = 0]
    /\ GoTo(s, "lock")
    /\ UNCHANGED <<command, lastKey, high, pageKey, cut, unsent, count, final, stores,
                   toSum, saving, disk, target>>

\* Mutant: Save does not lock the manager.
LockNothing(s) ==
    /\ pc[s] = "lock"
    /\ img' = [Empty EXCEPT !.total = mem.total]
    /\ left' = Segment
    /\ GoTo(s, "marshal")
    /\ UNCHANGED <<command, lastKey, high, pageKey, cut, unsent, count, final, stores,
                   toSum, total, mem, mu, disk, target>>

\* Save: take the lock and start to marshal; ProcessedCount comes first.
Lock(s) ==
    /\ pc[s] = "lock"
    /\ mu = NoOne
    /\ mu' = s
    /\ img' = [Empty EXCEPT !.total = mem.total]
    /\ left' = Segment
    /\ GoTo(s, "marshal")
    /\ UNCHANGED <<command, lastKey, high, pageKey, cut, unsent, count, final,
                   stores, toSum, total, mem, disk, target>>

\* The encoder reads the entry of r, in the order of the map's iteration.
Marshal(s, r) ==
    /\ pc[s] = "marshal" /\ r \in left
    /\ img' = [img EXCEPT !.key[r] = mem.key[r],
                          !.count[r] = mem.count[r],
                          !.done[r] = mem.done[r]]
    /\ left' = left \ {r}
    /\ UNCHANGED <<command, local, mem, mu, disk, target>>

\* After a save: the end of the segment, of the loop, or the next page.
Continue(s) ==
    IF final[s]
    THEN GoTo(s, "done") /\ UNCHANGED <<final, stores>>
    ELSE IF pageKey[s] = 0
         THEN Record(s, TRUE)
         ELSE GoTo(s, "scan") /\ UNCHANGED <<final, stores>>

\* The file is replaced, or stays as it is and a warning is logged.
SaveReturns(s) ==
    /\ pc[s] = "marshal"
    /\ \/ left = {} /\ file' = img /\ hasFile' = TRUE
       \/ UNCHANGED disk
    /\ mu' = NoOne /\ left' = {} /\ img' = Empty
    /\ Continue(s)
    /\ UNCHANGED <<command, lastKey, high, pageKey, cut, unsent, count, toSum, total,
                   mem, target>>
-----------------------------------------------------------------------------
SegmentStep(s) ==
    \/ Acquire(s) \/ ScanPage(s) \/ ScanFails(s) \/ SubmitBatch(s)
    \/ Write(s) \/ BatchOk(s) \/ BatchFails(s) \/ Abandon(s) \/ PageDone(s)
    \/ PutKey(s) \/ PutCount(s) \/ PutDone(s)
    \/ BeginSum(s) \/ (\E r \in Segment : AddCount(s, r)) \/ StoreTotal(s)
    \/ Lock(s) \/ (\E r \in Segment : Marshal(s, r)) \/ SaveReturns(s)

Next ==
    \/ Resume \/ StartFresh \/ StartFails \/ Finish \/ Cancel \/ Crash \/ Exit
    \/ \E r \in late : LateWrite(r)
    \/ \E s \in Segment : SegmentStep(s)

Spec == Init /\ [][Next]_vars

(***************************************************************************)
(* DynamoDB answers a scan and the writer pool a batch, with a result or   *)
(* an error, and the Go scheduler runs every goroutine that can run; that  *)
(* the operator cancels, or starts the command again, is not assumed.      *)
(***************************************************************************)
Fairness ==
    /\ \A s \in Segment : WF_vars(SegmentStep(s))
    /\ WF_vars(Finish)

FairSpec == Spec /\ Fairness
-----------------------------------------------------------------------------
(* Properties. *)

\* The rows of s up to k that can be copied are in the target.
CopiedUpTo(s, k) ==
    \A i \in 1..k : <<s, i>> \in stored \cup Filtered \cup Bad

\* A resume skips no row that is not in the target, wherever the previous run
\* was killed or failed.  (migrator.go:143-144, 170-181; manager.go:191-195)
ResumeSkipsNothing ==
    \A s \in Segment : CopiedUpTo(s, file.key[s])

\* A segment the checkpoint calls completed, and which no later run reads, is
\* in the target to its last row.  (migrator.go:94, 199-206)
CompletedIsCopied ==
    \A s \in Segment : file.done[s] => CopiedUpTo(s, Rows[s])

\* A command that reports success has copied the table, in this run and in
\* those it resumed.  (migrator.go:123-131, 363-376)
SuccessIsComplete ==
    main = "success" => \A s \in Segment : CopiedUpTo(s, Rows[s])

\* While a run goes on, no save of another segment takes back that a segment
\* is completed, or its rows would be copied again.  (manager.go:86-94)
CompletedStays ==
    [][main = "running" /\ main' = "running" =>
         \A s \in Segment : file.done[s] => file'.done[s]]_vars

\* One run inserts no document twice, even without _id.  (migrator.go:148-197,
\* 230-242)
CopiedOnce == runs <= 1 => twice = {}

\* A run ends, unless it is killed.  (migrator.go:102-103, 111-120)
RunReturns == main = "running" ~> main # "running"

\* While a page is written, the rows up to the last batch are copied or in
\* that batch, and the key it will leave behind is its end, or nil at the end
\* of the segment.
PageCopied(s) ==
    pc[s] \in {"submit", "write"} =>
        /\ IF pageKey[s] = 0 THEN high[s] = Rows[s] ELSE pageKey[s] = high[s]
        /\ \A i \in 1..cut[s] :
             \/ <<s, i>> \in stored \cup Filtered \cup Bad
             \/ pc[s] = "write" /\ i \in unsent[s]

\* The inductive form of ResumeSkipsNothing: every key that the segment, the
\* checkpoint in memory or one being marshalled holds names copied rows only.
KeysCopied ==
    \A s \in Segment :
        /\ CopiedUpTo(s, lastKey[s])
        /\ CopiedUpTo(s, mem.key[s])
        /\ CopiedUpTo(s, img.key[s])
        /\ CopiedUpTo(s, file.key[s])
        /\ PageCopied(s)

\* Something says that the copy of s has reached its end.
ClaimsEnd(s) ==
    \/ mem.done[s] \/ img.done[s] \/ file.done[s]
    \/ pc[s] = "done"
    \/ pc[s] = "off" /\ main \in {"running", "success"}
    \/ pc[s] \in {"put", "sum", "lock", "marshal"} /\ (final[s] \/ pageKey[s] = 0)

\* The inductive form of CompletedIsCopied and SuccessIsComplete, for a table
\* that is scanned without a filter.
EndsCopied ==
    \A s \in Segment :
        /\ ClaimsEnd(s) => CopiedUpTo(s, Rows[s])
        /\ main = "success" => pc[s] \in {"off", "done"}

\* The places of a segment between its update of the checkpoint and the end
\* of its save.
Saving == {"put", "sum", "lock", "marshal"}

\* The inductive form of CompletedStays: whoever holds Manager.mu is alone in
\* its save, what it has marshalled falls behind neither the file nor gets
\* ahead of the memory, and a segment whose flag is set changes it no more.
FlagsKept ==
    /\ \A s \in Segment : pc[s] = "marshal" <=> mu = s
    /\ main = "idle" => \A s \in Segment : pc[s] = "off"
    /\ Simple => \A s \in Segment : pc[s] \notin Saving /\ ~file.done[s]
    /\ \A s \in Segment : mem.done[s] =>
          pc[s] \in {"off", "done"} \/ (pc[s] \in Saving /\ final[s])
    /\ main = "running" => \A s \in Segment :
          /\ file.done[s] => mem.done[s]
          /\ mu # NoOne /\ img.done[s] => mem.done[s]
          /\ mu # NoOne /\ file.done[s] => img.done[s] \/ s \in left

\* The rows of s that are in the target; no one else copies rows of s.
StoredUpTo(s, k) == \A r \in stored : r[1] = s => r[2] <= k

\* The inductive form of CopiedOnce: in the first run the scan goes on after the
\* rows that are copied, a batch takes rows after them, and the segment whose
\* abandoned batch the pool still writes has ended.
WrittenOnce ==
    runs <= 1 =>
        /\ twice = {}
        /\ runs = 0 => stored = {} /\ late = {} /\ \A s \in Segment : pc[s] = "off"
        /\ \A r \in late : r \notin stored /\ pc[r[1]] = "failed"
        /\ \A s \in Segment :
              /\ pc[s] \in {"wait", "scan"} => StoredUpTo(s, lastKey[s])
              /\ pc[s] \in Saving /\ ~final[s] /\ pageKey[s] # 0 => StoredUpTo(s, lastKey[s])
              /\ pc[s] \in {"submit", "write"} => cut[s] <= high[s] /\ StoredUpTo(s, cut[s])
              /\ pc[s] = "write" => \A k \in unsent[s] : k <= cut[s] /\ <<s, k>> \notin stored
=============================================================================
