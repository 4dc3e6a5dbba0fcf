------------------------------ MODULE Commands ------------------------------
(***************************************************************************)
(* The commands of the program in any order over one table, one collection *)
(* and the one checkpoint file that all of them use: migrate, migrate      *)
(* --resume and live (Migrate in internal/processor/migrator.go, Replicate *)
(* in replicator.go), each of which may be killed or fail anywhere, while  *)
(* the table goes on changing.  Documents have an _id.                     *)
(*                                                                         *)
(* Migration and Replicator describe a run of each command in its steps,   *)
(* with its batches, failed writes and clocks.  Here a row is read, and    *)
(* later written and recorded in one step; a record of the stream is read, *)
(* applied and recorded in one step; a write that fails ends the command.  *)
(* The n-th change of the table is log[n], made at time n; it leaves the   *)
(* value n, or None, in its key.  Keys are numbered in the order a scan    *)
(* meets them.                                                             *)
(***************************************************************************)
EXTENDS Naturals, Sequences

CONSTANTS Keys,           \* how many primary keys there are
          SegmentCounts,  \* what segmentCount may be set to between two runs
          Part,           \* Part[n][k]: the segment of k in a scan of n segments
          MaxRuns,        \* bound: commands
          MaxChanges      \* bound: changes of the table

ASSUME CommandsAssumption ==
    /\ Keys \in Nat /\ MaxRuns \in Nat /\ MaxChanges \in Nat
    /\ 1 \in SegmentCounts /\ SegmentCounts \subseteq Nat \ {0}
    /\ \A n \in SegmentCounts : \A k \in 1..Keys : Part[n][k] \in 0..(n - 1)

Key == 1..Keys
Segments == UNION {0..(n - 1) : n \in SegmentCounts}
None == 0

\* The progress of a segment is the last key it covers, or Completed.
Completed == Keys + 1

VARIABLES
    log,      \* the changes of the table, the records of its stream
    table,    \* table[k]: its value
    last,     \* last[k]: the number of its last change, or 0
    target,   \* target[k]: the value of k in the collection
    file,     \* the checkpoint on disk
    cp,       \* the checkpoint in memory
    main,     \* what the program is doing
    runs,     \* commands so far
    page,     \* page[k]: the value of k that this command read last
    left,     \* the keys the copy has not covered yet
    pos       \* records of the stream read in this cycle

disk == <<file, target>>
source == <<log, table, last>>
vars == <<source, disk, cp, main, runs, page, left, pos>>

\* Mode, TotalSegments, SegmentProgress, Timestamp, InitialMigrationComplete;
\* and StartTime, counted in changes, which the code only writes.
Checkpoint == [mode : {"none", "migrate", "live"}, total : SegmentCounts \cup {0},
               upto : [Segments -> 0..Completed], ts : Nat, complete : BOOLEAN, start : Nat]

NoProgress == [s \in Segments |-> 0]
NoCheckpoint == [mode |-> "none", total |-> 0, upto |-> NoProgress, ts |-> 0,
                 complete |-> FALSE, start |-> 0]

CreateMigrateCheckpoint(n) ==
    [mode |-> "migrate", total |-> n, upto |-> NoProgress, ts |-> 0,
     complete |-> FALSE, start |-> Len(log)]

\* The records of the changes that are still to come are the ones to read.
CreateLiveCheckpoint ==
    [mode |-> "live", total |-> 0, upto |-> NoProgress, ts |-> Len(log) + 1,
     complete |-> FALSE, start |-> Len(log)]

TypeOK ==
    /\ log \in Seq([key : Key, put : BOOLEAN])
    /\ table \in [Key -> 0..Len(log)]
    /\ last \in [Key -> 0..Len(log)]
    /\ target \in [Key -> 0..Len(log)]
    /\ file \in Checkpoint
    /\ cp \in Checkpoint
    /\ main \in {"idle", "migrate", "copy", "follow", "success"}
    /\ runs \in Nat
    /\ page \in [Key -> 0..Len(log)]
    /\ left \in SUBSET Key
    /\ pos \in 0..Len(log)

Init ==
    /\ log = <<>>
    /\ table = [k \in Key |-> None]
    /\ last = [k \in Key |-> 0]
    /\ target = [k \in Key |-> None]
    /\ file = NoCheckpoint /\ cp = NoCheckpoint
    /\ main = "idle" /\ runs = 0 /\ pos = 0
    /\ page = [k \in Key |-> None] /\ left = {}

\* An item is put, or removed if it is there.
Change(k, put) ==
    /\ Len(log) < MaxChanges
    /\ put \/ table[k] # None
    /\ log' = Append(log, [key |-> k, put |-> put])
    /\ table' = [table EXCEPT ![k] = IF put THEN Len(log) + 1 ELSE None]
    /\ last' = [last EXCEPT ![k] = Len(log) + 1]
    /\ UNCHANGED <<disk, cp, main, runs, page, left, pos>>

Start ==
    /\ main = "idle" /\ runs < MaxRuns
    /\ runs' = runs + 1
    /\ page' = table
    /\ left' = Key /\ pos' = 0
    /\ UNCHANGED <<source, target>>

\* Scan reads a page with the row of k in it.
ReadRow(k) ==
    /\ main \in {"migrate", "copy"} /\ page[k] # table[k]
    /\ page' = [page EXCEPT ![k] = table[k]]
    /\ UNCHANGED <<source, disk, cp, main, runs, left, pos>>

\* Save replaces the file by the checkpoint in memory, or logs a warning.
Save == file' = cp' \/ UNCHANGED file
-----------------------------------------------------------------------------
(* migrate *)

\* --resume takes the checkpoint there is, whatever command it is of.
Resume ==
    /\ Start
    /\ file.mode # "none"
    /\ cp' = file
    /\ main' = "migrate"
    /\ UNCHANGED file

\* Without --resume, or with nothing to resume, a new one takes its place.
MigrateAnew ==
    /\ Start
    /\ \E n \in SegmentCounts : cp' = CreateMigrateCheckpoint(n)
    /\ file' = cp'
    /\ main' = "migrate"

\* Mutant: a run is divided as the configuration says, lowered after the first.
SegmentCountOfConfig == IF runs > 1 \/ cp.total = 0 THEN 1 ELSE cp.total

\* migrateParallel: a checkpoint of live replication has no segments.
SegmentCount == IF cp.total = 0 THEN 1 ELSE cp.total

\* Mutant: a completed segment is not skipped.
MigrateRowAgain(s) ==
    /\ main = "migrate"
    /\ s < SegmentCount
    /\ cp' = [cp EXCEPT !.upto[s] = @ + 1]
    /\ file' = cp'
    /\ UNCHANGED <<source, target, main, runs, page, left, pos>>

\* The next row of the segment s is read, written, if it is in the table, and
\* recorded; after the last one the segment is completed.
MigrateRow(s) ==
    /\ main = "migrate"
    /\ s < SegmentCount /\ cp.upto[s] # Completed
    /\ LET k == cp.upto[s] + 1 IN
        /\ cp' = [cp EXCEPT !.upto[s] = k]
        /\ target' = IF k \in Key /\ Part[SegmentCount][k] = s /\ page[k] # None
                     THEN [target EXCEPT ![k] = page[k]] ELSE target
    /\ Save
    /\ UNCHANGED <<source, main, runs, page, left, pos>>

MigrateEnds ==
    /\ main = "migrate"
    /\ \A s \in 0..(SegmentCount - 1) : cp.upto[s] = Completed
    /\ main' = "success"
    /\ UNCHANGED <<source, disk, cp, runs, page, left, pos>>
-----------------------------------------------------------------------------
(* live *)

\* A checkpoint of live replication is continued.
LiveAgain ==
    /\ Start
    /\ file.mode = "live"
    /\ cp' = file
    /\ main' = IF file.complete THEN "follow" ELSE "copy"
    /\ UNCHANGED file

\* Mutant: the checkpoint of a migrate command is continued as well.
LiveAnewOrMigrated ==
    /\ Start
    /\ file.mode # "live"
    /\ cp' = IF file.mode = "migrate" THEN
                  [file EXCEPT !.mode = "live", !.complete = TRUE, !.ts = Len(log) + 1]
             ELSE CreateLiveCheckpoint
    /\ file' = cp'
    /\ main' = IF cp'.complete THEN "follow" ELSE "copy"

\* Any other is deleted, and the time is taken before the copy begins.
LiveAnew ==
    /\ Start
    /\ file.mode # "live"
    /\ cp' = CreateLiveCheckpoint
    /\ file' = cp'
    /\ main' = "copy"

\* The old one is deleted, but the new one is not saved: the command fails.
LiveFails ==
    /\ Start
    /\ file.mode # "live"
    /\ file' = NoCheckpoint
    /\ UNCHANGED <<cp, main>>

\* MigrateSimple copies the rows, in the order of its segments, and removes
\* none, ...
CopyRow(k) ==
    /\ main = "copy" /\ k \in left
    /\ left' = left \ {k}
    /\ target' = IF page[k] # None THEN [target EXCEPT ![k] = page[k]] ELSE target
    /\ UNCHANGED <<source, file, cp, main, runs, page, pos>>

\* ... and its end is recorded.
CopyEnds ==
    /\ main = "copy" /\ left = {}
    /\ cp' = [cp EXCEPT !.complete = TRUE]
    /\ Save
    /\ main' = "follow" /\ pos' = 0
    /\ UNCHANGED <<source, target, runs, page, left>>

\* filterRecordsByTimestamp
IsDropped(n) == n < cp.ts

\* Mutant: a removal is dropped, its filter cannot be made.
FollowNoRemoval ==
    /\ main = "follow" /\ pos < Len(log)
    /\ pos' = pos + 1
    /\ target' = IF IsDropped(pos + 1) \/ ~log[pos + 1].put THEN target
                 ELSE [target EXCEPT ![log[pos + 1].key] = pos + 1]
    /\ UNCHANGED <<source, file, cp, main, runs, page, left>>

\* The next record of the stream is dropped, or applied; then its time may be
\* recorded.
Follow ==
    /\ main = "follow" /\ pos < Len(log)
    /\ pos' = pos + 1
    /\ \/ /\ IsDropped(pos + 1)
          /\ UNCHANGED <<target, file, cp>>
       \/ /\ ~IsDropped(pos + 1)
          /\ target' = [target EXCEPT ![log[pos + 1].key] =
                          IF log[pos + 1].put THEN pos + 1 ELSE None]
          /\ (cp' = [cp EXCEPT !.ts = pos + 1] /\ Save) \/ UNCHANGED <<cp, file>>
    /\ UNCHANGED <<source, main, runs, page, left>>

\* An open shard is polled until an error, which may come after any record; the
\* cycle is over then, and the next one reads the stream from its beginning.
NextCycle ==
    /\ main = "follow" /\ pos # 0
    /\ pos' = 0
    /\ UNCHANGED <<source, disk, cp, main, runs, page, left>>

\* The command is over: it returned, failed, or was killed.
Stop ==
    /\ main # "idle"
    /\ main' = "idle" /\ cp' = NoCheckpoint
    /\ left' = {} /\ pos' = 0
    /\ UNCHANGED <<source, disk, runs, page>>
-----------------------------------------------------------------------------
Next ==
    \/ \E k \in Key, put \in BOOLEAN : Change(k, put)
    \/ \E k \in Key : ReadRow(k)
    \/ Resume \/ MigrateAnew \/ (\E s \in Segments : MigrateRow(s)) \/ MigrateEnds
    \/ LiveAgain \/ LiveAnew \/ LiveFails \/ (\E k \in Key : CopyRow(k)) \/ CopyEnds
    \/ Follow \/ NextCycle \/ Stop

Spec == Init /\ [][Next]_vars

\* The copy and the polls of live replication go on; nothing else is assumed to
\* happen, not even that a cycle ends.
Fairness ==
    /\ \A k \in Key : WF_vars(CopyRow(k))
    /\ WF_vars(CopyEnds) /\ WF_vars(Follow)

FairSpec == Spec /\ Fairness
-----------------------------------------------------------------------------
(* Properties. *)

\* The key was removed before the checkpoint was made, so no record of the
\* removal is read, and the copy removes nothing: its document may stay.
MayBeOrphan(c, k) == table[k] = None /\ last[k] <= c.start

\* A finished copy and the records that are still read make the collection
\* equal to the table, but for orphans: whatever commands were run, resumed
\* and killed before, a live checkpoint is one to continue from.
\* (replicator.go:88-145, 201-204; migrator.go:45-50)
LiveIsHonest ==
    file.mode = "live" /\ file.complete =>
        \A k \in Key : target[k] = table[k] \/ last[k] >= file.ts \/ MayBeOrphan(file, k)

\* A migrate command that reports success has copied every item that has not
\* changed since the checkpoint it created or resumed was made, also when the
\* number of segments was changed between two runs or the checkpoint is one
\* of live replication.  (migrator.go:45-60, 75-97; manager.go:213-234)
SuccessIsComplete ==
    main = "success" =>
        \A k \in Key : \/ target[k] = table[k] \/ table[k] = None
                       \/ last[k] > cp.start

\* A cycle is left with records of the stream unread.
GivesUp == NextCycle /\ pos < Len(log)

\* Live replication that is not stopped, and of whose cycles only finitely many
\* are left early, comes to a state in which the collection equals the table but
\* for orphans, or the table changes once more, although every cycle applies
\* records again and a failed one leaves old values.  (replicator.go:226-270)
CatchesUp ==
    <>[][~GivesUp]_vars =>
        \A n \in 0..MaxChanges :
            main = "follow" /\ Len(log) = n ~>
                \/ main # "follow" \/ Len(log) # n
                \/ \A k \in Key : target[k] = table[k] \/ MayBeOrphan(cp, k)
=============================================================================
