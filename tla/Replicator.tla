----------------------------- MODULE Replicator -----------------------------
(***************************************************************************)
(* Live replication of one table (internal/processor/replicator.go): the   *)
(* start with or without a checkpoint, the copy of the table by            *)
(* MigrateSimple, and the loop that reads the shards of the table's stream *)
(* one after the other, each from its beginning, drops the records older   *)
(* than the timestamp of the checkpoint, writes the others in batches and  *)
(* moves the timestamp.                                                    *)
(*                                                                         *)
(* The n-th change of the table is the record log[n] of its stream; the    *)
(* value of a key is the number of the change that put it, or None.  The   *)
(* checkpoint file is used as CheckpointStore describes it; a batch is     *)
(* reported by the writer pool as WriteJobs does.  A cancelled process     *)
(* does what a killed one does: the batch it leaves behind may be written  *)
(* in part before it is gone.                                              *)
(***************************************************************************)
EXTENDS Naturals, Sequences, FiniteSets

CONSTANTS Key,          \* primary keys of the table
          Bad,          \* keys whose items ConvertDocument rejects
          Lineage,      \* shards of the stream at the beginning
          Home,         \* Home[k]: the lineage of shards the key k is in
          BatchSize,    \* records per write batch
          Frequency,    \* CheckpointFrequency
          Second,       \* ticks of the clock in a second
          MaxTime,      \* bound: ticks
          MaxChanges,   \* bound: changes of the table
          MaxShards,    \* bound: shards of the stream
          MaxRuns       \* bound: starts of the program

ASSUME ReplicatorAssumption ==
    /\ Home \in [Key -> Lineage]
    /\ IsFiniteSet(Lineage)
    /\ {BatchSize, Frequency, Second} \subseteq Nat \ {0}
    /\ {MaxTime, MaxChanges, MaxShards, MaxRuns} \subseteq Nat

None == 0
NoShard == 0

VARIABLES
    clock,      \* the time
    log,        \* the changes of the table: the records of the stream
    shards,     \* the shards of the stream in the order of their creation
    pc,         \* where the program is
    runs,       \* times it was started
    cp,         \* replicationCheckpoint: its Timestamp and its
                \* InitialMigrationComplete
    file,       \* the checkpoint file: its mode and the same
    scanned,    \* scanned[k]: changes made when the copy read k
    unread,     \* keys the copy has not read yet
    uncopied,   \* keys the copy has not written yet
    todo,       \* shards the cycle has not read yet
    sorted,     \* they are sorted by sequence number
    shard,      \* the shard being read
    pos,        \* the last record of it that GetRecords has returned
    atEnd,      \* nextIterator is "": the shard is closed and read
    page,       \* of filteredRecords those whose batch is not written yet
    done,       \* i: how many of them are written
    batch,      \* the batch in the pool
    unwritten,  \* its records that are not written yet
    target,     \* target[k]: the value of k in Firestore
    seen,       \* records whose effect has reached the target (history)
    start,      \* the timestamp replication started with (history)
    mixed,      \* keys that had two records in one batch (history)
    brokeOff    \* a shard was left before its end (history)

source == <<clock, log, shards>>
copy == <<scanned, unread, uncopied>>
cycle == <<todo, sorted, shard, pos, atEnd>>
writing == <<page, done, batch, unwritten>>
checkpoint == <<cp, file, start>>
vars == <<source, pc, runs, checkpoint, copy, cycle, writing, target, seen, mixed, brokeOff>>

\* A record carries the second it was made in.
SecondOf(t) == t - (t % Second)

Timestamps == 0..MaxTime
Checkpoints == [ts : Timestamps, complete : BOOLEAN]
Files == [mode : {"none", "migrate", "live"}, ts : Timestamps, complete : BOOLEAN]
Records == [key : Key, put : BOOLEAN, shard : Nat, time : Timestamps]

TypeOK ==
    /\ clock \in Timestamps
    /\ log \in Seq(Records) /\ Len(log) <= MaxChanges
    /\ \A n \in 1..Len(log) : log[n].shard \in 1..Len(shards)
    /\ shards \in Seq([line : Lineage, open : BOOLEAN])
    /\ pc \in {"idle", "save", "copy", "list", "pick", "get", "batch", "write"}
    /\ runs \in 0..MaxRuns
    /\ cp \in Checkpoints
    /\ file \in Files
    /\ scanned \in [Key -> 0..Len(log)]
    /\ unread \subseteq uncopied /\ uncopied \subseteq Key
    /\ todo \subseteq 1..Len(shards)
    /\ sorted \in BOOLEAN
    /\ shard \in 0..Len(shards)
    /\ pos \in 0..Len(log)
    /\ atEnd \in BOOLEAN
    /\ page \subseteq 1..pos /\ done \in Nat
    /\ unwritten \subseteq batch /\ batch \subseteq page
    /\ target \in [Key -> 0..Len(log)]
    /\ seen \subseteq 1..Len(log)
    /\ start \in Timestamps
    /\ mixed \subseteq Key
    /\ brokeOff \in BOOLEAN

\* The table as it was after its first n changes.
ValueAfter(k, n) ==
    LET changes == {i \in 1..n : log[i].key = k} IN
    IF changes = {} THEN None
    ELSE LET last == CHOOSE i \in changes : \A j \in changes : j <= i IN
         IF log[last].put THEN last ELSE None

Table(k) == ValueAfter(k, Len(log))

NoCheckpoint == [ts |-> 0, complete |-> FALSE]
NoCopy == [k \in Key |-> 0]

\* The program may find nothing, or what an aborted migrate left behind.
Init ==
    /\ clock = 0 /\ log = <<>>
    /\ shards \in {s \in [1..Cardinality(Lineage) -> [line : Lineage, open : {TRUE}]] :
                     \A l \in Lineage : \E i \in DOMAIN s : s[i].line = l}
    /\ pc = "idle" /\ runs = 0
    /\ cp = NoCheckpoint
    /\ file \in {[mode |-> mode, ts |-> 0, complete |-> FALSE] : mode \in {"none", "migrate"}}
    /\ scanned = NoCopy /\ unread = {} /\ uncopied = {}
    /\ todo = {} /\ sorted = TRUE /\ shard = NoShard /\ pos = 0 /\ atEnd = FALSE
    /\ page = {} /\ done = 0 /\ batch = {} /\ unwritten = {}
    /\ target = [k \in Key |-> None]
    /\ seen = {} /\ start = 0 /\ mixed = {} /\ brokeOff = FALSE
-----------------------------------------------------------------------------
(* The table and its stream. *)

Tick ==
    /\ clock < MaxTime
    /\ clock' = clock + 1
    /\ UNCHANGED <<log, shards, pc, runs, checkpoint, copy, cycle, writing, target, seen,
                   mixed, brokeOff>>

\* An item is put, or removed if it exists; its record enters the open shard
\* of the key.
Change(k, put) ==
    /\ Len(log) < MaxChanges
    /\ put \/ Table(k) # None
    /\ \E s \in 1..Len(shards) :
        /\ shards[s].open /\ shards[s].line = Home[k]
        /\ log' = Append(log, [key |-> k, put |-> put, shard |-> s,
                               time |-> SecondOf(clock)])
    /\ UNCHANGED <<clock, shards, pc, runs, checkpoint, copy, cycle, writing, target, seen,
                   mixed, brokeOff>>

\* A shard is closed and a new one takes its place.
Roll(s) ==
    /\ shards[s].open
    /\ Len(shards) < MaxShards
    /\ shards' = Append([shards EXCEPT ![s].open = FALSE],
                        [line |-> shards[s].line, open |-> TRUE])
    /\ UNCHANGED <<clock, log, pc, runs, checkpoint, copy, cycle, writing, target, seen,
                   mixed, brokeOff>>
-----------------------------------------------------------------------------
(* Replicate. *)

ToCopy == unread' = Key /\ uncopied' = Key /\ scanned' = NoCopy

\* A live checkpoint is found: the copy is made again unless it is complete.
StartFromCheckpoint ==
    /\ pc = "idle" /\ runs < MaxRuns
    /\ file.mode = "live"
    /\ runs' = runs + 1
    /\ cp' = [ts |-> file.ts, complete |-> file.complete]
    /\ \/ file.complete /\ pc' = "list" /\ UNCHANGED copy
       \/ ~file.complete /\ pc' = "copy" /\ ToCopy
    /\ UNCHANGED <<source, file, start, cycle, writing, target, seen, mixed, brokeOff>>

\* None is found, or one of the other mode, which is deleted, or not: the
\* timestamp is taken before anything else happens.
StartAnew ==
    /\ pc = "idle" /\ runs < MaxRuns
    /\ file.mode # "live"
    /\ runs' = runs + 1
    /\ cp' = [ts |-> clock, complete |-> FALSE]
    /\ \/ file' = [mode |-> "none", ts |-> 0, complete |-> FALSE]
       \/ UNCHANGED file
    /\ pc' = "save"
    /\ UNCHANGED <<source, start, copy, cycle, writing, target, seen, mixed, brokeOff>>

Save == file' = [mode |-> "live", ts |-> cp'.ts, complete |-> cp'.complete]

\* The stream's ARN is known: the first checkpoint is saved.
SaveFirst ==
    /\ pc = "save"
    /\ UNCHANGED cp
    /\ Save
    /\ start' = cp.ts
    /\ ToCopy
    /\ pc' = "copy"
    /\ UNCHANGED <<source, runs, cycle, writing, target, seen, mixed, brokeOff>>

\* MigrateSimple reads an item, or passes the place where it is not, ...
CopyRead(k) ==
    /\ pc = "copy"
    /\ k \in unread
    /\ unread' = unread \ {k}
    /\ scanned' = [scanned EXCEPT ![k] = Len(log)]
    /\ UNCHANGED <<source, pc, runs, checkpoint, uncopied, cycle, writing, target, seen,
                   mixed, brokeOff>>

\* ... and writes it.  What the table does not hold is not written, and not
\* removed from the target either.
CopyWrite(k) ==
    /\ pc = "copy"
    /\ k \in uncopied \ unread
    /\ uncopied' = uncopied \ {k}
    /\ LET value == ValueAfter(k, scanned[k]) IN
        /\ target' = IF value = None \/ k \in Bad THEN target
                     ELSE [target EXCEPT ![k] = value]
        /\ seen' = IF target'[k] # value /\ k \notin Bad THEN seen
                   ELSE seen \cup {n \in 1..scanned[k] : log[n].key = k}
    /\ scanned' = [scanned EXCEPT ![k] = 0]
    /\ UNCHANGED <<source, pc, runs, checkpoint, unread, cycle, writing, mixed, brokeOff>>

\* The save of the completed copy may fail: a warning is logged.
CopyDone ==
    /\ pc = "copy" /\ uncopied = {}
    /\ cp' = [cp EXCEPT !.complete = TRUE]
    /\ Save \/ UNCHANGED file
    /\ pc' = "list"
    /\ UNCHANGED <<source, runs, start, copy, cycle, writing, target, seen, mixed, brokeOff>>
-----------------------------------------------------------------------------
(* processStreams and processShardSequentially. *)

\* A cycle begins with the shards there are; they stay in the order the
\* service lists them in when their details cannot be had.
ListShards ==
    /\ pc = "list"
    /\ todo' = 1..Len(shards)
    /\ sorted' \in BOOLEAN
    /\ brokeOff' = (brokeOff \/ ~sorted')
    /\ pc' = "pick"
    /\ UNCHANGED <<source, runs, checkpoint, copy, shard, pos, atEnd, writing, target, seen, mixed>>

\* The next shard is read from TRIM_HORIZON; after the last one a new cycle
\* begins.
IsNext(s) == s \in todo /\ (sorted => \A r \in todo : s <= r)

PickShard ==
    /\ pc = "pick"
    /\ \E s \in todo :
        /\ IsNext(s)
        /\ shard' = s
        /\ todo' = todo \ {s}
    /\ pos' = 0 /\ atEnd' = FALSE
    /\ pc' = "get"
    /\ UNCHANGED <<source, runs, checkpoint, copy, sorted, writing, target, seen, mixed, brokeOff>>

CycleEnds ==
    /\ pc = "pick" /\ todo = {}
    /\ pc' = "list"
    /\ UNCHANGED <<source, runs, checkpoint, copy, cycle, writing, target, seen, mixed, brokeOff>>

\* Mutant: the records that were not written are kept.
NoBatchKeepsRecords == page' = {} /\ done' = 0 /\ batch' = {} /\ UNCHANGED unwritten

NoBatch == page' = {} /\ done' = 0 /\ batch' = {} /\ unwritten' = {}

\* An error of GetShardIterator or GetRecords, or a failed batch, ends the
\* shard; the cycle goes on with the next one.
LeaveShard ==
    /\ pc' = "pick"
    /\ shard' = NoShard /\ pos' = 0 /\ atEnd' = FALSE
    /\ NoBatch
    /\ UNCHANGED <<source, runs, checkpoint, copy, todo, sorted, target, seen, mixed>>

RecordsOf(s) == {n \in 1..Len(log) : log[n].shard = s}

GetFails ==
    /\ pc = "get"
    /\ LeaveShard
    /\ brokeOff' = TRUE

\* Mutant: the comparison is strict.
filterStrictly(records) == {n \in records : log[n].time > cp.ts}

\* Records older than the checkpoint's timestamp are dropped.
filterRecordsByTimestamp(records) == {n \in records : log[n].time >= cp.ts}

\* GetRecords returns any number of the next records; only a closed shard
\* comes to an end.
GetRecords ==
    /\ pc = "get"
    /\ \E to \in RecordsOf(shard) \cup {pos} :
        /\ to >= pos
        /\ page' = filterRecordsByTimestamp({n \in RecordsOf(shard) : pos < n /\ n <= to})
        /\ pos' = to
        /\ \/ atEnd' = FALSE
           \/ atEnd' = TRUE /\ ~shards[shard].open /\ \A n \in RecordsOf(shard) : n <= to
    /\ done' = 0
    /\ pc' = "batch"
    /\ UNCHANGED <<source, runs, checkpoint, copy, todo, sorted, shard, batch, unwritten, target,
                   seen, mixed, brokeOff>>

\* The first BatchSize records of the page, or the shorter rest.
IsNextBatch(records) ==
    /\ records # {} /\ \A m \in records, n \in page \ records : m < n
    /\ \/ Cardinality(records) = BatchSize
       \/ records = page /\ Cardinality(records) < BatchSize

\* The batch is converted and submitted; what is not converted is skipped.
SubmitBatch ==
    /\ pc = "batch"
    /\ \E records \in SUBSET page :
        /\ IsNextBatch(records)
        /\ batch' = records
        /\ LET skipped == {n \in records : log[n].put /\ log[n].key \in Bad} IN
            /\ unwritten' = records \ skipped
            /\ seen' = seen \cup skipped
        /\ mixed' = mixed \cup {k \in Key : \E m, n \in records :
                                  m # n /\ log[m].key = k /\ log[n].key = k}
    /\ pc' = "write"
    /\ UNCHANGED <<source, runs, checkpoint, copy, cycle, page, done, target, brokeOff>>

\* The bulk write is unordered.
WriteOne(n) ==
    /\ pc = "write" /\ n \in unwritten
    /\ target' = [target EXCEPT ![log[n].key] = IF log[n].put THEN n ELSE None]
    /\ seen' = seen \cup {n}
    /\ unwritten' = unwritten \ {n}
    /\ UNCHANGED <<source, pc, runs, checkpoint, copy, cycle, page, done, batch, mixed, brokeOff>>

\* Mutant: a failed batch is logged and the page goes on.
BatchFailsGoesOn ==
    /\ pc = "write"
    /\ unwritten' = {}
    /\ UNCHANGED <<source, pc, runs, checkpoint, copy, cycle, page, done, batch, target, seen,
                   mixed, brokeOff>>

BatchFails ==
    /\ pc = "write"
    /\ LeaveShard
    /\ brokeOff' = TRUE

\* The timestamp never moves back.
UpdateTimestamp(t) == cp' = [cp EXCEPT !.ts = IF t > @ THEN t ELSE @]

\* The batch is written.  When the place it ends at is a multiple of
\* CheckpointFrequency, the timestamp of its last record is saved.
BatchOk ==
    /\ pc = "write" /\ unwritten = {}
    /\ page' = page \ batch /\ batch' = {}
    /\ done' = done + Cardinality(batch)
    /\ \/ /\ done' % Frequency = 0
          /\ \E last \in batch :
                /\ \A n \in batch : n <= last
                /\ UpdateTimestamp(log[last].time)
          /\ Save \/ UNCHANGED file
       \/ /\ done' % Frequency # 0
          /\ UNCHANGED <<cp, file>>
    /\ pc' = "batch"
    /\ UNCHANGED <<source, runs, start, copy, cycle, unwritten, target, seen, mixed, brokeOff>>

\* The page is written: the next one, or the next shard.
PageDone ==
    /\ pc = "batch" /\ page = {}
    /\ NoBatch
    /\ \/ ~atEnd /\ pc' = "get" /\ UNCHANGED <<shard, pos, atEnd>>
       \/ atEnd /\ pc' = "pick" /\ shard' = NoShard /\ pos' = 0 /\ atEnd' = FALSE
    /\ UNCHANGED <<source, runs, checkpoint, copy, todo, sorted, target, seen, mixed, brokeOff>>

\* The process ends: it is killed or cancelled, or Replicate returned the error
\* of Load, GetStreamArn, the first Save or a segment of the copy.
Stop ==
    /\ pc # "idle"
    /\ pc' = "idle"
    /\ cp' = NoCheckpoint
    /\ scanned' = NoCopy /\ unread' = {} /\ uncopied' = {}
    /\ todo' = {} /\ sorted' = TRUE /\ shard' = NoShard /\ pos' = 0 /\ atEnd' = FALSE
    /\ NoBatch
    /\ UNCHANGED <<source, runs, file, start, target, seen, mixed, brokeOff>>
-----------------------------------------------------------------------------
Environment ==
    \/ Tick
    \/ \E k \in Key, put \in BOOLEAN : Change(k, put)
    \/ \E s \in 1..Len(shards) : Roll(s)

Program ==
    \/ StartFromCheckpoint \/ StartAnew \/ SaveFirst
    \/ (\E k \in Key : CopyRead(k) \/ CopyWrite(k)) \/ CopyDone
    \/ ListShards \/ PickShard \/ CycleEnds \/ GetFails \/ GetRecords
    \/ SubmitBatch \/ (\E n \in unwritten : WriteOne(n)) \/ BatchFails \/ BatchOk \/ PageDone
    \/ Stop

Next == Environment \/ Program

Spec == Init /\ [][Next]_vars
-----------------------------------------------------------------------------
(* Properties. *)

\* The changes made in the second replication started in carry a time before
\* it, so they are dropped although the copy may have missed them.
InStartSecond(n) == log[n].time = SecondOf(start) /\ SecondOf(start) < start

\* The stream is read in the order of its changes as long as it has one
\* shard, or one shard at a time and none was left before its end.
ReadInOrder == Cardinality(Lineage) = 1 /\ (Len(shards) = 1 \/ ~brokeOff)

Lost(n) == file.complete /\ log[n].time < file.ts /\ n \notin seen

\* What the saved timestamp makes every later read drop has reached the
\* target, in spite of failed batches, failed saves, restarts and pages of any
\* length, for a stream that is read in order.  (replicator.go:394-418, 438-451)
DroppedIsApplied ==
    ReadInOrder => \A n \in 1..Len(log) : Lost(n) => InStartSecond(n)

\* The reader has come to the end of the stream.
CaughtUp ==
    pc = "get" /\ todo = {} /\ shard = Len(shards) /\ \A n \in RecordsOf(shard) : n <= pos

\* A reader that has caught up leaves the target equal to the table, however
\* much it has replayed, but for keys whose changes were in one unordered
\* batch.  (replicator.go:197-210, 690-738)
CaughtUpIsEqual ==
    CaughtUp /\ ReadInOrder =>
        \A k \in Key \ (mixed \cup Bad) :
            \/ target[k] = Table(k)
            \/ \E n \in 1..Len(log) : log[n].key = k /\ InStartSecond(n)

\* replicator.go:255: "Timestamp filtering will automatically skip
\* already-processed records": while no shard is left early, it skips no others.
SkipsOnlyProcessed ==
    ~brokeOff => \A n \in 1..Len(log) : Lost(n) => InStartSecond(n)
=============================================================================
