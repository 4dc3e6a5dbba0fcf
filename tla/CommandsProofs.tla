--------------------------- MODULE CommandsProofs ---------------------------
(***************************************************************************)
(* Proofs about Commands: whatever commands were run, resumed and killed   *)
(* in any order, a live checkpoint is one to continue from, and a migrate  *)
(* command that reports success has copied what it promised.               *)
(***************************************************************************)
EXTENDS Commands, TLAPS

Count(c) == IF c.total = 0 THEN 1 ELSE c.total

\* What the n-th change left in its key.
Value(n) == IF log[n].put THEN n ELSE None

\* last and table are what the log says.
LogInv ==
    /\ \A k \in Key : last[k] = 0 => table[k] = None
    /\ \A k \in Key : last[k] # 0 =>
          /\ log[last[k]].key = k
          /\ table[k] = Value(last[k])
    /\ \A n \in 1..Len(log) : n <= last[log[n].key]

\* A run and the file are of one command.
RunInv ==
    /\ main # "idle" =>
          /\ cp.mode # "none" /\ file.mode = cp.mode /\ file.start = cp.start
          /\ file.ts <= cp.ts /\ (file.complete => cp.complete)
    /\ main = "copy" => cp.mode = "live" /\ ~cp.complete
    /\ main = "follow" => cp.mode = "live" /\ cp.complete
    /\ main = "success" => \A s \in 0..(Count(cp) - 1) : cp.upto[s] = Completed

\* What changed since a row was read is read again from the stream.
PageFresh ==
    main \in {"migrate", "copy"} =>
        \A k \in Key : page[k] = table[k] \/ (last[k] >= cp.ts /\ last[k] > cp.start)

\* The promises of a checkpoint c about a key, for a table, its last changes
\* and a collection.
Orphan(c, k, tab, las) == tab[k] = None /\ las[k] <= c.start
Replayed(c, k, tab, las, tar) == tar[k] = tab[k] \/ las[k] >= c.ts \/ Orphan(c, k, tab, las)
Kept(c, k, tab, las, tar) == tar[k] = tab[k] \/ tab[k] = None \/ las[k] > c.start

Copied == main = "copy" => \A k \in Key \ left : Replayed(cp, k, table, last, target)

\* The records read in this cycle leave the keys they are the last of right.
Applied ==
    main = "follow" =>
        \A k \in Key : last[k] <= pos => target[k] = table[k] \/ Orphan(cp, k, table, last)

Clock(c, n) ==
    /\ c.ts <= n + 1 /\ c.start <= n
    /\ c.mode = "live" => c.start < c.ts /\ (~c.complete => c.ts = c.start + 1)

Honest(c, tab, las, tar) ==
    c.mode = "live" /\ c.complete => \A k \in Key : Replayed(c, k, tab, las, tar)

\* The keys the progress covers were copied.
Covered(c, tab, las, tar) ==
    \A k \in Key : k <= c.upto[Part[Count(c)][k]] => Kept(c, k, tab, las, tar)

\* What a checkpoint promises after n changes.
Good(c, n, tab, las, tar) ==
    Clock(c, n) /\ Honest(c, tab, las, tar) /\ Covered(c, tab, las, tar)

Inv ==
    /\ LogInv /\ RunInv /\ PageFresh /\ Copied /\ Applied
    /\ Good(cp, Len(log), table, last, target)
    /\ Good(file, Len(log), table, last, target)
-----------------------------------------------------------------------------
LEMMA SegmentOfKey ==
    ASSUME NEW c \in Checkpoint, NEW k \in Key
    PROVE  /\ Count(c) \in SegmentCounts /\ Count(c) \in Nat \ {0}
           /\ Part[Count(c)][k] \in 0..(Count(c) - 1)
           /\ Part[Count(c)][k] \in Segments
  <1>1. c.total \in SegmentCounts \cup {0} /\ 1 \in SegmentCounts
    BY CommandsAssumption DEF Checkpoint
  <1>2. Count(c) \in SegmentCounts
    BY <1>1 DEF Count
  <1>3. Part[Count(c)][k] \in 0..(Count(c) - 1) /\ Count(c) \in Nat \ {0}
    BY <1>2, CommandsAssumption DEF Key
  <1> QED
    BY <1>2, <1>3 DEF Segments

LEMMA SegmentsNumbered == \A s \in Segments : s \in Nat
  BY CommandsAssumption DEF Segments

\* What the steps make of a checkpoint.
LEMMA CheckpointFields ==
    ASSUME NEW c \in Checkpoint
    PROVE  /\ c.mode \in {"none", "migrate", "live"} /\ c.total \in SegmentCounts \cup {0}
           /\ c.upto \in [Segments -> 0..Completed] /\ c.ts \in Nat
           /\ c.complete \in BOOLEAN /\ c.start \in Nat
  BY DEF Checkpoint

LEMMA CheckpointProgress ==
    ASSUME NEW c \in Checkpoint, NEW s \in Segments, NEW u \in 0..Completed
    PROVE  LET d == [c EXCEPT !.upto[s] = u] IN
           /\ d \in Checkpoint
           /\ d.upto = [c.upto EXCEPT ![s] = u]
           /\ d.mode = c.mode /\ d.total = c.total /\ d.ts = c.ts
           /\ d.complete = c.complete /\ d.start = c.start
  BY DEF Checkpoint

LEMMA CheckpointTime ==
    ASSUME NEW c \in Checkpoint, NEW t \in Nat
    PROVE  LET d == [c EXCEPT !.ts = t] IN
           /\ d \in Checkpoint /\ d.ts = t
           /\ d.mode = c.mode /\ d.total = c.total /\ d.upto = c.upto
           /\ d.complete = c.complete /\ d.start = c.start
  BY DEF Checkpoint

LEMMA CheckpointComplete ==
    ASSUME NEW c \in Checkpoint
    PROVE  LET d == [c EXCEPT !.complete = TRUE] IN
           /\ d \in Checkpoint /\ d.complete = TRUE
           /\ d.mode = c.mode /\ d.total = c.total /\ d.upto = c.upto
           /\ d.ts = c.ts /\ d.start = c.start
  BY DEF Checkpoint

LEMMA NoCheckpointIs ==
    /\ NoCheckpoint \in Checkpoint
    /\ NoCheckpoint.mode = "none" /\ NoCheckpoint.ts = 0 /\ NoCheckpoint.start = 0
    /\ NoCheckpoint.complete = FALSE /\ NoCheckpoint.upto = NoProgress
  BY CommandsAssumption DEF NoCheckpoint, NoProgress, Checkpoint, Completed

LEMMA MigrateCheckpointIs ==
    ASSUME NEW n \in SegmentCounts, Len(log) \in Nat
    PROVE  LET c == CreateMigrateCheckpoint(n) IN
           /\ c \in Checkpoint /\ c.mode = "migrate" /\ c.total = n
           /\ c.upto = NoProgress /\ c.ts = 0 /\ c.complete = FALSE /\ c.start = Len(log)
  <1>1. NoProgress \in [Segments -> 0..Completed]
    BY NoCheckpointIs, CheckpointFields
  <1> QED
    BY <1>1 DEF CreateMigrateCheckpoint, Checkpoint

LEMMA LiveCheckpointIs ==
    ASSUME Len(log) \in Nat
    PROVE  LET c == CreateLiveCheckpoint IN
           /\ c \in Checkpoint /\ c.mode = "live" /\ c.total = 0
           /\ c.upto = NoProgress /\ c.ts = Len(log) + 1 /\ c.complete = FALSE
           /\ c.start = Len(log)
  <1>1. NoProgress \in [Segments -> 0..Completed]
    BY NoCheckpointIs, CheckpointFields
  <1> QED
    BY <1>1 DEF CreateLiveCheckpoint, Checkpoint

\* A new checkpoint promises nothing that is not so.
LEMMA GoodNew ==
    ASSUME NEW c \in Checkpoint, NEW n \in Nat, NEW tab, NEW las, NEW tar,
           c.upto = NoProgress, ~c.complete, c.ts <= n + 1, c.start <= n,
           c.mode = "live" => c.ts = c.start + 1
    PROVE  Good(c, n, tab, las, tar)
  <1>1. ASSUME NEW k \in Key PROVE ~(k <= c.upto[Part[Count(c)][k]])
    <2>1. c.upto[Part[Count(c)][k]] = 0
      BY SegmentOfKey DEF NoProgress
    <2> QED
      BY <2>1, CommandsAssumption DEF Key
  <1>2. c.start < c.start + 1
    BY CheckpointFields
  <1> QED
    BY <1>1, <1>2 DEF Good, Clock, Honest, Covered

\* A write of what the table holds, or of what records to come replace.
LEMMA GoodWrite ==
    ASSUME NEW c, NEW n, NEW tab, NEW las, NEW tar, NEW tar2,
           Good(c, n, tab, las, tar),
           \A k \in Key : \/ tar2[k] = tar[k] \/ tar2[k] = tab[k]
                          \/ las[k] >= c.ts /\ las[k] > c.start
    PROVE  Good(c, n, tab, las, tar2)
  BY DEF Good, Honest, Covered, Replayed, Kept

\* A change of the table is a record to come.
LEMMA GoodChange ==
    ASSUME NEW c \in Checkpoint, NEW n \in Nat, NEW tab, NEW las, NEW tab2, NEW las2, NEW tar,
           Good(c, n, tab, las, tar),
           \A k \in Key : (tab2[k] = tab[k] /\ las2[k] = las[k]) \/ las2[k] = n + 1
    PROVE  Good(c, n + 1, tab2, las2, tar)
  <1>1. c.ts \in Nat /\ c.start \in Nat
    BY CheckpointFields
  <1>2. Clock(c, n + 1) /\ n + 1 >= c.ts /\ n + 1 > c.start
    BY <1>1 DEF Good, Clock
  <1> QED
    BY <1>2 DEF Good, Honest, Covered, Replayed, Kept, Orphan

\* A segment goes on to the key u.
LEMMA GoodProgress ==
    ASSUME NEW c \in Checkpoint, NEW d \in Checkpoint, NEW n, NEW tab, NEW las, NEW tar,
           NEW s \in Segments, NEW u \in Nat,
           Good(c, n, tab, las, tar),
           d.mode = c.mode, d.total = c.total, d.ts = c.ts, d.complete = c.complete,
           d.start = c.start, d.upto = [c.upto EXCEPT ![s] = u], u = c.upto[s] + 1,
           u \in Key /\ Part[Count(c)][u] = s => Kept(c, u, tab, las, tar)
    PROVE  Good(d, n, tab, las, tar)
  <1>1. Clock(d, n) /\ Honest(d, tab, las, tar)
    BY DEF Good, Clock, Honest, Replayed, Orphan
  <1>2. ASSUME NEW k \in Key, k <= d.upto[Part[Count(d)][k]] PROVE Kept(d, k, tab, las, tar)
    <2>1. Count(d) = Count(c)
      BY DEF Count
    <2>2. Part[Count(c)][k] \in Segments /\ k \in Nat
      BY SegmentOfKey, CommandsAssumption DEF Key
    <2>3. c.upto \in [Segments -> 0..Completed] /\ c.upto[s] \in Nat
      BY CheckpointFields, CommandsAssumption DEF Completed
    <2>4. CASE Part[Count(c)][k] = s /\ k = u
      BY <2>4 DEF Kept
    <2>5. CASE Part[Count(c)][k] # s \/ k # u
      <3>1. k <= c.upto[Part[Count(c)][k]]
        BY <1>2, <2>1, <2>2, <2>3, <2>5
      <3> QED
        BY <3>1 DEF Good, Covered, Kept
    <2> QED
      BY <2>4, <2>5
  <1> QED
    BY <1>1, <1>2 DEF Good, Covered

\* The time of the checkpoint goes on, or its copy is complete.
LEMMA GoodPromise ==
    ASSUME NEW c \in Checkpoint, NEW d \in Checkpoint, NEW n \in Nat, NEW tab, NEW las, NEW tar,
           Good(c, n, tab, las, tar),
           d.mode = c.mode, d.total = c.total, d.upto = c.upto, d.start = c.start,
           c.mode = "live", d.complete, c.ts <= d.ts, d.ts <= n + 1,
           \A k \in Key : Replayed(d, k, tab, las, tar)
    PROVE  Good(d, n, tab, las, tar)
  <1>1. c.ts \in Nat /\ d.ts \in Nat /\ c.start \in Nat
    BY CheckpointFields
  <1>2. Clock(d, n)
    BY <1>1 DEF Good, Clock
  <1>3. Covered(d, tab, las, tar)
    BY DEF Good, Covered, Kept, Count
  <1> QED
    BY <1>2, <1>3 DEF Good, Honest

LEMMA InvInit == Init => TypeOK /\ Inv
  <1> SUFFICES ASSUME Init PROVE TypeOK /\ Inv
    OBVIOUS
  <1>1. TypeOK
    BY NoCheckpointIs, CommandsAssumption DEF Init, TypeOK, None
  <1>2. LogInv /\ RunInv /\ PageFresh /\ Copied /\ Applied
    BY DEF Init, LogInv, RunInv, PageFresh, Copied, Applied, None
  <1>3. Len(log) \in Nat
    BY <1>1 DEF TypeOK
  <1>4. cp = NoCheckpoint /\ file = NoCheckpoint
    BY DEF Init
  <1>5. Good(NoCheckpoint, Len(log), table, last, target)
    BY <1>3, GoodNew, NoCheckpointIs
  <1> QED
    BY <1>1, <1>2, <1>4, <1>5 DEF Inv
-----------------------------------------------------------------------------
LEMMA MoreChanges ==
    ASSUME NEW n \in Nat, NEW f \in [Key -> 0..n]
    PROVE  f \in [Key -> 0..(n + 1)]
  OBVIOUS

LEMMA ProgressGoesOn ==
    ASSUME NEW c \in Checkpoint, NEW s \in Segments, c.upto[s] # Completed
    PROVE  c.upto[s] \in 0..Keys /\ c.upto[s] + 1 \in 0..Completed
  <1>1. c.upto[s] \in 0..Completed
    BY CheckpointFields
  <1> QED
    BY <1>1, CommandsAssumption DEF Completed

LEMMA ElementOfSequence ==
    ASSUME NEW S, NEW q \in Seq(S), NEW n \in 1..Len(q)
    PROVE  q[n] \in S
  OBVIOUS

LEMMA RecordTypes ==
    ASSUME TypeOK, NEW n \in 1..Len(log)
    PROVE  log[n].key \in Key /\ log[n].put \in BOOLEAN
  <1>1. log[n] \in [key : Key, put : BOOLEAN]
    BY ElementOfSequence DEF TypeOK
  <1> QED
    BY <1>1, Zenon

LEMMA ValueType == \A n \in Nat : Value(n) \in 0..n
  BY DEF Value, None

LEMMA TypesKept == TypeOK /\ [Next]_vars => TypeOK'
  <1> SUFFICES ASSUME TypeOK, [Next]_vars PROVE TypeOK'
    OBVIOUS
  <1> USE DEF TypeOK, None
  <1>0. Len(log) \in Nat
    OBVIOUS
  <1>1. ASSUME NEW k \in Key, NEW put \in BOOLEAN, Change(k, put) PROVE TypeOK'
    <2>1. log' \in Seq([key : Key, put : BOOLEAN]) /\ Len(log') = Len(log) + 1
      BY <1>1 DEF Change
    <2>2. UNCHANGED <<file, cp, main, runs, left, pos, target, page>>
      BY <1>1 DEF Change, disk
    <2>3. table' \in [Key -> 0..Len(log')] /\ last' \in [Key -> 0..Len(log')]
      BY <1>0, <1>1, <2>1 DEF Change
    <2>4. target' \in [Key -> 0..Len(log')] /\ page' \in [Key -> 0..Len(log')]
      BY <1>0, <2>1, <2>2, MoreChanges
    <2>5. pos' \in 0..Len(log')
      BY <1>0, <2>1, <2>2
    <2> QED
      BY <2>1, <2>2, <2>3, <2>4, <2>5
  <1>2. ASSUME NEW k \in Key, ReadRow(k) PROVE TypeOK'
    BY <1>2 DEF ReadRow, source, disk
  <1>3. CASE Resume
    BY <1>3 DEF Resume, Start, source
  <1>4. CASE MigrateAnew
    <2>1. cp' \in Checkpoint /\ file' \in Checkpoint
      BY <1>0, <1>4, MigrateCheckpointIs DEF MigrateAnew
    <2> QED
      BY <1>4, <2>1 DEF MigrateAnew, Start, source
  <1>5. ASSUME NEW s \in Segments, MigrateRow(s) PROVE TypeOK'
    <2>1. cp.upto[s] + 1 \in 0..Completed
      BY <1>5, ProgressGoesOn DEF MigrateRow
    <2>2. cp' \in Checkpoint /\ file' \in Checkpoint
      <3>1. cp' = [cp EXCEPT !.upto[s] = cp.upto[s] + 1] /\ (file' = cp' \/ file' = file)
        BY <1>5 DEF MigrateRow, Save
      <3>2. [cp EXCEPT !.upto[s] = cp.upto[s] + 1] \in Checkpoint
        BY <2>1, CheckpointProgress
      <3> QED
        BY <3>1, <3>2
    <2>3. target' \in [Key -> 0..Len(log)]
      BY <1>5 DEF MigrateRow
    <2> QED
      BY <1>5, <2>2, <2>3 DEF MigrateRow, source
  <1>6. CASE MigrateEnds
    BY <1>6 DEF MigrateEnds, source, disk
  <1>7. CASE LiveAgain
    BY <1>0, <1>7, CommandsAssumption DEF LiveAgain, Start, source
  <1>8. CASE LiveAnew
    <2>1. cp' \in Checkpoint /\ file' \in Checkpoint
      BY <1>0, <1>8, LiveCheckpointIs DEF LiveAnew
    <2> QED
      BY <1>8, <2>1, CommandsAssumption DEF LiveAnew, Start, source
  <1>9. CASE LiveFails
    BY <1>9, NoCheckpointIs DEF LiveFails, Start, source
  <1>10. ASSUME NEW k \in Key, CopyRow(k) PROVE TypeOK'
    BY <1>10 DEF CopyRow, source
  <1>11. CASE CopyEnds
    <2>1. cp' \in Checkpoint /\ file' \in Checkpoint
      BY <1>11, CheckpointComplete DEF CopyEnds, Save
    <2> QED
      BY <1>0, <1>11, <2>1 DEF CopyEnds, source
  <1>12. CASE Follow
    <2>1. pos + 1 \in 1..Len(log) /\ pos' = pos + 1 /\ main' = "follow"
      BY <1>0, <1>12 DEF Follow
    <2>2. cp' \in Checkpoint /\ file' \in Checkpoint
      <3>1. \/ cp' = [cp EXCEPT !.ts = pos + 1] /\ (file' = cp' \/ file' = file)
            \/ cp' = cp /\ file' = file
        BY <1>12 DEF Follow, Save
      <3> QED
        BY <2>1, <3>1, CheckpointTime
    <2>3. log[pos + 1].key \in Key
      BY <2>1, RecordTypes
    <2>4. target' \in [Key -> 0..Len(log)]
      <3>1. \/ target' = target
            \/ target' = [target EXCEPT ![log[pos + 1].key] = Value(pos + 1)]
        BY <1>12 DEF Follow, Value
      <3>2. Value(pos + 1) \in 0..Len(log)
        BY <1>0, <2>1, ValueType
      <3> QED
        BY <1>0, <2>3, <3>1, <3>2
    <2> QED
      <3>1. UNCHANGED <<source, main, runs, page, left>>
        BY <1>12 DEF Follow
      <3>2. pos' \in 0..Len(log)
        BY <1>0, <2>1
      <3> QED
        BY <2>1, <2>2, <2>4, <3>1, <3>2 DEF source
  <1>13. CASE NextCycle
    BY <1>0, <1>13 DEF NextCycle, source, disk
  <1>14. CASE Stop
    BY <1>0, <1>14, NoCheckpointIs DEF Stop, source, disk
  <1>15. CASE UNCHANGED vars
    BY <1>15 DEF vars, source, disk
  <1> QED
    BY <1>1, <1>2, <1>3, <1>4, <1>5, <1>6, <1>7, <1>8, <1>9, <1>10, <1>11, <1>12, <1>13, <1>14,
       <1>15 DEF Next
-----------------------------------------------------------------------------
(* Each action preserves Inv. *)

LEMMA ChangeKeeps ==
    ASSUME TypeOK, Inv, NEW k \in Key, NEW put \in BOOLEAN, Change(k, put)
    PROVE  Inv'
  <1> DEFINE n == Len(log)
  <1>1. n \in Nat /\ Len(log') = n + 1
    BY DEF TypeOK, Change
  <1>2. /\ \A i \in 1..n : log'[i] = log[i]
        /\ log'[n + 1] = [key |-> k, put |-> put]
    BY DEF TypeOK, Change
  <1>3. /\ last'[k] = n + 1
        /\ table'[k] = IF put THEN n + 1 ELSE None
        /\ \A j \in Key : j # k => table'[j] = table[j] /\ last'[j] = last[j]
    BY DEF TypeOK, Change
  <1>4. UNCHANGED <<target, file, cp, main, page, left, pos>>
    BY DEF Change, disk
  <1>5. \A j \in Key : last[j] \in 0..n /\ last'[j] \in 0..(n + 1)
    <2>1. \A j \in Key : last[j] \in 0..n
      BY DEF TypeOK
    <2> QED
      BY <1>1, <1>3, <2>1
  <1>6. cp.ts \in Nat /\ cp.start \in Nat /\ cp.ts <= n + 1 /\ cp.start <= n
    BY CheckpointFields DEF TypeOK, Inv, Good, Clock
  <1>7. LogInv'
    <2>1. ASSUME NEW j \in Key, last'[j] = 0 PROVE table'[j] = None
      BY <1>1, <1>3, <2>1 DEF Inv, LogInv
    <2>2. ASSUME NEW j \in Key, last'[j] # 0
          PROVE  (log[last[j]].key = j /\ table[j] = Value(last[j]))'
      <3>1. CASE j = k
        <4>1. log'[last'[j]] = [key |-> k, put |-> put] /\ last'[j] = n + 1
          BY <1>2, <1>3, <3>1
        <4>2. log'[last'[j]].key = k /\ log'[last'[j]].put = put
          BY <4>1
        <4> QED
          BY <1>3, <3>1, <4>1, <4>2, Zenon DEF Value
      <3>2. CASE j # k
        <4>1. last'[j] = last[j] /\ table'[j] = table[j] /\ last[j] \in 1..n
          BY <1>3, <1>5, <2>2, <3>2
        <4>2. log'[last[j]] = log[last[j]]
          BY <1>2, <4>1
        <4>3. log[last[j]].key = j /\ table[j] = Value(last[j])
          BY <2>2, <4>1 DEF Inv, LogInv
        <4> QED
          BY <4>1, <4>2, <4>3 DEF Value
      <3> QED
        BY <3>1, <3>2
    <2>3. ASSUME NEW i \in 1..Len(log') PROVE i <= last'[log'[i].key]
      <3>1. CASE i = n + 1
        BY <1>1, <1>2, <1>3, <3>1
      <3>2. CASE i \in 1..n
        <4>1. log[i].key \in Key /\ i <= last[log[i].key]
          BY <3>2, RecordTypes DEF Inv, LogInv
        <4> QED
          BY <1>1, <1>2, <1>3, <3>2, <4>1
      <3> QED
        BY <1>1, <2>3, <3>1, <3>2
    <2> QED
      BY <2>1, <2>2, <2>3 DEF LogInv
  <1>8. RunInv'
    BY <1>4 DEF Inv, RunInv, Count
  <1>9. PageFresh'
    BY <1>1, <1>3, <1>4, <1>6 DEF Inv, PageFresh
  <1>10. Copied'
    BY <1>1, <1>3, <1>4, <1>6 DEF Inv, Copied, Replayed, Orphan
  <1>11. Applied'
    <2> SUFFICES ASSUME main = "follow", NEW j \in Key, last'[j] <= pos
                 PROVE  target[j] = table'[j] \/ Orphan(cp, j, table', last')
      BY <1>4 DEF Applied
    <2>1. pos \in 0..n
      BY DEF TypeOK
    <2>2. j # k
      BY <1>1, <1>3, <2>1
    <2> QED
      BY <1>3, <2>2 DEF Inv, Applied, Orphan
  <1>12. ASSUME NEW c \in Checkpoint, Good(c, n, table, last, target)
         PROVE  Good(c, n + 1, table', last', target)
    BY <1>1, <1>3, <1>12, GoodChange
  <1>13. Good(cp, n + 1, table', last', target) /\ Good(file, n + 1, table', last', target)
    BY <1>12 DEF Inv, TypeOK
  <1> QED
    BY <1>1, <1>4, <1>7, <1>8, <1>9, <1>10, <1>11, <1>13 DEF Inv

LEMMA ReadRowKeeps ==
    ASSUME TypeOK, Inv, NEW k \in Key, ReadRow(k)
    PROVE  Inv'
  <1>1. UNCHANGED <<source, disk, cp, main, left, pos>>
    BY DEF ReadRow
  <1>2. PageFresh'
    BY <1>1 DEF TypeOK, ReadRow, Inv, PageFresh, source
  <1> QED
    BY <1>1, <1>2 DEF Inv, LogInv, Value, RunInv, Copied, Applied, source, disk

\* No record has been read: a key without a change is not in the table.
LEMMA NothingApplied ==
    ASSUME TypeOK, Inv, NEW c \in Checkpoint
    PROVE  \A k \in Key : last[k] <= 0 => Orphan(c, k, table, last)
  <1>1. \A k \in Key : last[k] \in Nat
    BY DEF TypeOK
  <1>2. c.start \in Nat
    BY CheckpointFields
  <1> QED
    BY <1>1, <1>2 DEF Inv, LogInv, Orphan

\* A command starts with a checkpoint, which it found or saved.
LEMMA StartKeeps ==
    ASSUME TypeOK, TypeOK', Inv, Start, cp' = file', cp'.mode # "none",
           Good(cp', Len(log), table, last, target),
           main' \in {"migrate", "copy", "follow"},
           main' = "copy" => cp'.mode = "live" /\ ~cp'.complete,
           main' = "follow" => cp'.mode = "live" /\ cp'.complete
    PROVE  Inv'
  <1>1. UNCHANGED <<log, table, last, target>> /\ page' = table /\ left' = Key /\ pos' = 0
    BY DEF Start, source
  <1>2. LogInv'
    BY <1>1 DEF Inv, LogInv, Value
  <1>3. RunInv'
    <2>1. cp'.ts \in Nat
      BY CheckpointFields DEF TypeOK
    <2> QED
      BY <2>1 DEF RunInv
  <1>4. PageFresh'
    BY <1>1 DEF PageFresh
  <1>5. Copied'
    BY <1>1 DEF Copied
  <1>6. Applied'
    <2>1. cp' \in Checkpoint
      BY DEF TypeOK
    <2> QED
      BY <1>1, <2>1, NothingApplied DEF Applied
  <1> QED
    BY <1>1, <1>2, <1>3, <1>4, <1>5, <1>6 DEF Inv

LEMMA StartsKeep ==
    ASSUME TypeOK, TypeOK', Inv, Resume \/ MigrateAnew \/ LiveAgain \/ LiveAnew \/ LiveFails
    PROVE  Inv'
  <1> DEFINE G(c) == Good(c, Len(log), table, last, target)
  <1>1. Len(log) \in Nat /\ Len(log) <= Len(log) + 1 /\ 0 <= Len(log) + 1 /\ 0 <= Len(log)
    BY DEF TypeOK
  <1>2. CASE Resume
    BY <1>2, StartKeeps DEF Resume, Inv
  <1>3. CASE MigrateAnew
    <2>1. PICK n \in SegmentCounts : cp' = CreateMigrateCheckpoint(n)
      BY <1>3 DEF MigrateAnew
    <2>2. /\ cp' \in Checkpoint /\ cp'.mode = "migrate" /\ cp'.upto = NoProgress
          /\ cp'.ts = 0 /\ ~cp'.complete /\ cp'.start = Len(log)
      BY <1>1, <2>1, MigrateCheckpointIs
    <2>3. G(cp')
      BY <1>1, <2>2, GoodNew
    <2> QED
      BY <1>3, <2>2, <2>3, StartKeeps DEF MigrateAnew
  <1>4. CASE LiveAgain
    BY <1>4, StartKeeps DEF LiveAgain, Inv
  <1>5. CASE LiveAnew
    <2>1. cp' = CreateLiveCheckpoint
      BY <1>5 DEF LiveAnew
    <2>2. /\ cp' \in Checkpoint /\ cp'.mode = "live" /\ cp'.upto = NoProgress
          /\ cp'.ts = Len(log) + 1 /\ ~cp'.complete /\ cp'.start = Len(log)
      BY <1>1, <2>1, LiveCheckpointIs
    <2>3. G(cp')
      BY <1>1, <2>2, GoodNew
    <2> QED
      BY <1>5, <2>2, <2>3, StartKeeps DEF LiveAnew
  <1>6. CASE LiveFails
    <2>1. UNCHANGED <<log, table, last, target, cp, main>> /\ main = "idle" /\ file' = NoCheckpoint
      BY <1>6 DEF LiveFails, Start, source
    <2>2. G(file')
      BY <1>1, <2>1, GoodNew, NoCheckpointIs
    <2> QED
      BY <2>1, <2>2 DEF Inv, LogInv, Value, RunInv, PageFresh, Copied, Applied
  <1> QED
    BY <1>2, <1>3, <1>4, <1>5, <1>6

\* A row that is written is the one in the table, or a record of it comes.
LEMMA WriteIsFresh ==
    ASSUME TypeOK, Inv, main \in {"migrate", "copy"}, NEW k \in Key, NEW tar,
           tar[k] = IF page[k] # None THEN page[k] ELSE target[k],
           \A j \in Key : j # k => tar[j] = target[j]
    PROVE  /\ \A j \in Key : \/ tar[j] = target[j] \/ tar[j] = table[j]
                             \/ last[j] >= cp.ts /\ last[j] > cp.start
           /\ Kept(cp, k, table, last, tar)
           /\ tar[k] = table[k] \/ table[k] = None \/ last[k] >= cp.ts
  <1>1. page[k] = table[k] \/ (last[k] >= cp.ts /\ last[k] > cp.start)
    BY DEF Inv, PageFresh
  <1> QED
    BY <1>1 DEF Kept

\* The file is no later than the checkpoint in memory.
LEMMA FileBehind ==
    ASSUME TypeOK, Inv, main # "idle"
    PROVE  \A k \in Key : last[k] >= cp.ts /\ last[k] > cp.start =>
                               last[k] >= file.ts /\ last[k] > file.start
  <1>1. cp.ts \in Nat /\ file.ts \in Nat
    BY CheckpointFields DEF TypeOK
  <1>2. \A k \in Key : last[k] \in Nat
    BY DEF TypeOK
  <1> QED
    BY <1>1, <1>2 DEF Inv, RunInv

LEMMA MigrateRowKeeps ==
    ASSUME TypeOK, TypeOK', Inv, NEW s \in Segments, MigrateRow(s)
    PROVE  Inv'
  <1> DEFINE u == cp.upto[s] + 1
             G(c, tar) == Good(c, Len(log), table, last, tar)
  <1>1. /\ UNCHANGED <<log, table, last, main, page, pos>> /\ main = "migrate"
        /\ cp' = [cp EXCEPT !.upto[s] = u] /\ (file' = cp' \/ file' = file)
    BY DEF MigrateRow, Save, source
  <1>2. target' = IF u \in Key /\ Part[Count(cp)][u] = s
                  THEN (IF page[u] # None THEN [target EXCEPT ![u] = page[u]] ELSE target)
                  ELSE target
    BY DEF MigrateRow, SegmentCount, Count
  <1>3. /\ \A j \in Key : \/ target'[j] = target[j] \/ target'[j] = table[j]
                          \/ last[j] >= cp.ts /\ last[j] > cp.start
        /\ u \in Key /\ Part[Count(cp)][u] = s => Kept(cp, u, table, last, target')
    <2>1. CASE u \in Key /\ Part[Count(cp)][u] = s
      <3>1. /\ target'[u] = IF page[u] # None THEN page[u] ELSE target[u]
            /\ \A j \in Key : j # u => target'[j] = target[j]
        BY <1>2, <2>1 DEF TypeOK
      <3> HIDE DEF u
      <3> QED
        BY <1>1, <2>1, <3>1, WriteIsFresh
    <2>2. CASE ~(u \in Key /\ Part[Count(cp)][u] = s)
      BY <1>2, <2>2
    <2> QED
      BY <2>1, <2>2
  <1>4. G(cp, target') /\ G(file, target')
    <2>1. G(cp, target')
      BY <1>3, GoodWrite DEF Inv
    <2>2. \A j \in Key : \/ target'[j] = target[j] \/ target'[j] = table[j]
                         \/ last[j] >= file.ts /\ last[j] > file.start
      BY <1>1, <1>3, FileBehind
    <2>3. G(file, target')
      BY <2>2, GoodWrite DEF Inv
    <2> QED
      BY <2>1, <2>3
  <1>5. /\ cp'.upto = [cp.upto EXCEPT ![s] = u]
        /\ cp'.mode = cp.mode /\ cp'.total = cp.total /\ cp'.ts = cp.ts
        /\ cp'.complete = cp.complete /\ cp'.start = cp.start
    <2>1. u \in 0..Completed
      BY ProgressGoesOn DEF MigrateRow, TypeOK
    <2> DEFINE d == [cp EXCEPT !.upto[s] = u]
    <2>2. /\ d.upto = [cp.upto EXCEPT ![s] = u]
          /\ d.mode = cp.mode /\ d.total = cp.total /\ d.ts = cp.ts
          /\ d.complete = cp.complete /\ d.start = cp.start
      BY <2>1, CheckpointProgress DEF TypeOK
    <2> QED
      BY <1>1, <2>2
  <1>6. G(cp', target')
    <2>1. u \in Nat /\ cp \in Checkpoint /\ cp' \in Checkpoint
      BY ProgressGoesOn, CommandsAssumption DEF MigrateRow, TypeOK
    <2> HIDE DEF u
    <2>2. u = cp.upto[s] + 1
      BY DEF u
    <2> QED
      BY <1>3, <1>4, <1>5, <2>1, <2>2, GoodProgress
  <1>7. G(file', target')
    BY <1>1, <1>4, <1>6
  <1>8. RunInv'
    <2>1. cp.ts \in Nat
      BY CheckpointFields DEF TypeOK
    <2>2. file'.complete => cp'.complete
      BY <1>1, <1>5, Zenon DEF Inv, RunInv
    <2>3. main' = "migrate" /\ cp'.mode # "none" /\ file'.mode = cp'.mode
      BY <1>1, <1>5 DEF Inv, RunInv
    <2>4. file.start = cp.start /\ file.ts <= cp.ts
      BY <1>1 DEF Inv, RunInv
    <2>5. file'.start = cp'.start /\ file'.ts <= cp'.ts
      <3>1. file' = cp' \/ file' = file
        BY <1>1
      <3>2. cp'.ts = cp.ts /\ cp'.start = cp.start
        BY <1>5
      <3> QED
        BY <2>1, <2>4, <3>1, <3>2
    <2> QED
      BY <2>2, <2>3, <2>5 DEF RunInv
  <1>9. PageFresh'
    BY <1>1, <1>5 DEF Inv, PageFresh
  <1> QED
    BY <1>1, <1>6, <1>7, <1>8, <1>9 DEF Inv, LogInv, Value, Copied, Applied

LEMMA CopyRowKeeps ==
    ASSUME TypeOK, Inv, NEW u \in Key, CopyRow(u)
    PROVE  Inv'
  <1>1. UNCHANGED <<log, table, last, file, cp, main, page>> /\ main = "copy"
    BY DEF CopyRow, source
  <1>2. left' = left \ {u}
    BY DEF CopyRow
  <1>3. /\ target'[u] = IF page[u] # None THEN page[u] ELSE target[u]
        /\ \A j \in Key : j # u => target'[j] = target[j]
    BY DEF TypeOK, CopyRow
  <1>4. /\ \A j \in Key : \/ target'[j] = target[j] \/ target'[j] = table[j]
                          \/ last[j] >= cp.ts /\ last[j] > cp.start
        /\ target'[u] = table[u] \/ table[u] = None \/ last[u] >= cp.ts
    BY <1>1, <1>3, WriteIsFresh
  <1>5. Good(cp, Len(log), table, last, target')
    BY <1>4, GoodWrite DEF Inv
  <1>6. Good(file, Len(log), table, last, target')
    <2>1. \A j \in Key : \/ target'[j] = target[j] \/ target'[j] = table[j]
                         \/ last[j] >= file.ts /\ last[j] > file.start
      BY <1>1, <1>4, FileBehind
    <2> QED
      BY <2>1, GoodWrite DEF Inv
  <1>7. Replayed(cp, u, table, last, target')
    <2>1. cp.ts = cp.start + 1
      BY <1>1 DEF Inv, RunInv, Good, Clock
    <2>2. last[u] \in Nat /\ cp.start \in Nat
      BY CheckpointFields DEF TypeOK
    <2> QED
      BY <1>4, <2>1, <2>2 DEF Replayed, Orphan
  <1>8. Copied'
    <2> SUFFICES ASSUME NEW k \in Key \ (left \ {u})
                 PROVE  Replayed(cp, k, table, last, target')
      BY <1>1, <1>2 DEF Copied
    <2>1. CASE k = u
      BY <1>7, <2>1
    <2>2. CASE k # u
      <3>1. Replayed(cp, k, table, last, target)
        BY <1>1, <2>2 DEF Inv, Copied
      <3> QED
        BY <1>3, <2>2, <3>1 DEF Replayed
    <2> QED
      BY <2>1, <2>2
  <1> QED
    BY <1>1, <1>5, <1>6, <1>8 DEF Inv, LogInv, Value, RunInv, PageFresh, Applied

LEMMA CopyEndsKeeps ==
    ASSUME TypeOK, TypeOK', Inv, CopyEnds
    PROVE  Inv'
  <1>1. /\ UNCHANGED <<log, table, last, target, page>> /\ main = "copy" /\ main' = "follow"
        /\ left = {} /\ pos' = 0 /\ file' \in {cp', file}
    BY DEF CopyEnds, Save, source
  <1>2. /\ cp'.complete /\ cp'.mode = cp.mode /\ cp'.total = cp.total /\ cp'.upto = cp.upto
        /\ cp'.ts = cp.ts /\ cp'.start = cp.start
    <2> DEFINE d == [cp EXCEPT !.complete = TRUE]
    <2>1. /\ d.complete = TRUE /\ d.mode = cp.mode /\ d.total = cp.total /\ d.upto = cp.upto
          /\ d.ts = cp.ts /\ d.start = cp.start
      BY CheckpointComplete DEF TypeOK
    <2>2. cp' = d
      BY DEF CopyEnds
    <2> QED
      BY <2>1, <2>2
  <1>3. cp.mode = "live" /\ cp.ts \in Nat /\ Len(log) \in Nat /\ cp.ts <= Len(log) + 1
    BY <1>1, CheckpointFields DEF TypeOK, Inv, RunInv, Good, Clock
  <1>4. Good(cp', Len(log), table, last, target)
    <2>1. \A k \in Key : Replayed(cp', k, table, last, target)
      BY <1>1, <1>2 DEF Inv, Copied, Replayed, Orphan
    <2>2. cp' \in Checkpoint /\ cp \in Checkpoint /\ cp.ts <= cp'.ts
      BY <1>2, <1>3 DEF TypeOK
    <2> QED
      BY <1>2, <1>3, <2>1, <2>2, GoodPromise DEF Inv
  <1>5. Good(file', Len(log), table, last, target)
    BY <1>1, <1>4 DEF Inv
  <1>6. RunInv'
    <2>1. file.mode = cp.mode /\ file.start = cp.start /\ file.ts <= cp.ts
      BY <1>1 DEF Inv, RunInv
    <2>2. file'.mode = cp'.mode /\ file'.start = cp'.start /\ file'.ts <= cp'.ts
      BY <1>1, <1>2, <1>3, <2>1
    <2> QED
      BY <1>1, <1>2, <1>3, <2>2 DEF RunInv
  <1>7. Applied'
    <2>1. cp' \in Checkpoint
      BY DEF TypeOK
    <2> QED
      BY <1>1, <2>1, NothingApplied DEF Applied
  <1> QED
    BY <1>1, <1>4, <1>5, <1>6, <1>7 DEF Inv, LogInv, Value, PageFresh, Copied

\* After one more record: the keys it is not the last of are as they were.
LEMMA FollowKeeps ==
    ASSUME TypeOK, TypeOK', Inv, Follow
    PROVE  Inv'
  <1> DEFINE n == pos + 1
             r == log[n].key
  <1>1. /\ UNCHANGED <<log, table, last, page>> /\ main = "follow" /\ main' = "follow"
        /\ pos' = n
    <2>1. /\ UNCHANGED <<source, main, runs, page, left>> /\ main = "follow" /\ pos' = pos + 1
      BY Zenon DEF Follow
    <2> QED
      BY <2>1 DEF source
  <1>2. n \in 1..Len(log) /\ pos \in Nat /\ Len(log) \in Nat
    <2>1. pos < Len(log)
      BY Zenon DEF Follow
    <2>2. Len(log) \in Nat /\ pos \in 0..Len(log)
      BY <1>1 DEF TypeOK
    <2> QED
      BY <2>1, <2>2
  <1>3. r \in Key /\ n <= last[r]
    BY <1>2, RecordTypes DEF Inv, LogInv
  <1>4. /\ cp.mode = "live" /\ cp.complete /\ cp.ts \in Nat /\ cp.start \in Nat
        /\ cp.start < cp.ts
    BY <1>1, CheckpointFields DEF TypeOK, Inv, RunInv, Good, Clock
  <1>5. \A k \in Key : last[k] \in Nat
    BY DEF TypeOK
  <1>6. LogInv'
    BY <1>1 DEF Inv, LogInv, Value
  <1>7. PageFresh' /\ Copied'
    BY <1>1 DEF PageFresh, Copied
  <1>8. CASE IsDropped(n) /\ UNCHANGED <<target, file, cp>>
    <2>1. n < cp.ts
      BY <1>8 DEF IsDropped
    <2>2. ASSUME NEW k \in Key, last[k] <= n
          PROVE  target[k] = table[k] \/ Orphan(cp, k, table, last)
      <3>1. Replayed(cp, k, table, last, target)
        BY <1>4 DEF Inv, Good, Honest
      <3>2. ~(last[k] >= cp.ts)
        BY <1>2, <1>4, <1>5, <2>1, <2>2
      <3> QED
        BY <3>1, <3>2 DEF Replayed
    <2>3. Applied'
      BY <1>1, <1>8, <2>2 DEF Applied, Orphan
    <2> QED
      BY <1>1, <1>6, <1>7, <1>8, <2>3 DEF Inv, RunInv
  <1>9. CASE /\ ~IsDropped(n)
             /\ target' = [target EXCEPT ![r] = Value(n)]
             /\ \/ cp' = [cp EXCEPT !.ts = n] /\ file' \in {cp', file}
                \/ UNCHANGED <<cp, file>>
    <2>1. cp.ts <= n
      BY <1>2, <1>4, <1>9 DEF IsDropped
    <2>2. target'[r] = Value(n) /\ \A k \in Key : k # r => target'[k] = target[k]
      BY <1>3, <1>9 DEF TypeOK
    <2>3. last[r] >= cp.ts /\ last[r] > cp.start
      BY <1>2, <1>3, <1>4, <1>5, <2>1
    <2>4. Good(cp, Len(log), table, last, target')
      BY <2>2, <2>3, GoodWrite DEF Inv
    <2>5. Good(file, Len(log), table, last, target')
      <3>1. last[r] >= file.ts /\ last[r] > file.start
        BY <1>1, <1>3, <2>3, FileBehind
      <3> QED
        BY <2>2, <3>1, GoodWrite DEF Inv
    <2>6. ASSUME NEW k \in Key, last[k] <= n
          PROVE  target'[k] = table[k] \/ Orphan(cp, k, table, last)
      <3>1. CASE k = r
        <4>1. last[k] = n /\ last[k] # 0
          BY <1>2, <1>3, <1>5, <2>6, <3>1
        <4> QED
          BY <2>2, <3>1, <4>1 DEF Inv, LogInv
      <3>2. CASE k # r
        <4>1. last[k] # n
          <5>1. last[k] # 0 => log[last[k]].key = k
            BY DEF Inv, LogInv
          <5> QED
            BY <1>2, <3>2, <5>1
        <4>2. last[k] <= pos
          BY <1>2, <1>5, <2>6, <4>1
        <4> QED
          BY <1>1, <2>2, <3>2, <4>2 DEF Inv, Applied
      <3> QED
        BY <3>1, <3>2
    <2>7. /\ cp'.mode = cp.mode /\ cp'.total = cp.total /\ cp'.upto = cp.upto
          /\ cp'.complete = cp.complete /\ cp'.start = cp.start
          /\ cp'.ts \in {n, cp.ts} /\ file' \in {cp', file}
      <3> DEFINE d == [cp EXCEPT !.ts = n]
      <3>1. /\ d.mode = cp.mode /\ d.total = cp.total /\ d.upto = cp.upto
            /\ d.complete = cp.complete /\ d.start = cp.start /\ d.ts = n
        BY <1>2, CheckpointTime DEF TypeOK
      <3>2. cp' \in {d, cp} /\ file' \in {cp', file}
        BY <1>9
      <3> QED
        BY <3>1, <3>2
    <2>8. cp' \in Checkpoint /\ cp \in Checkpoint /\ cp'.complete
      <3>1. cp'.complete
        BY <1>4, <2>7, Zenon
      <3> QED
        BY <3>1 DEF TypeOK
    <2>9. cp.ts <= cp'.ts /\ cp'.ts <= Len(log) + 1 /\ cp'.ts \in Nat
      BY <1>2, <1>4, <2>1, <2>7 DEF Inv, Good, Clock
    <2>10. \A k \in Key : Replayed(cp', k, table, last, target')
      <3> SUFFICES ASSUME NEW k \in Key PROVE Replayed(cp', k, table, last, target')
        OBVIOUS
      <3>1. CASE last[k] <= n
        BY <2>6, <2>7, <3>1 DEF Replayed, Orphan
      <3>2. CASE ~(last[k] <= n)
        <4>1. last[k] >= cp'.ts
          BY <1>2, <1>5, <2>1, <2>7, <2>9, <3>2
        <4> QED
          BY <4>1 DEF Replayed
      <3> QED
        BY <3>1, <3>2
    <2>11. Good(cp', Len(log), table, last, target')
      BY <1>2, <1>4, <2>4, <2>7, <2>8, <2>9, <2>10, GoodPromise
    <2>12. Good(file', Len(log), table, last, target')
      BY <2>5, <2>7, <2>11
    <2>13. Applied'
      BY <1>1, <2>6, <2>7 DEF Applied, Orphan
    <2>14. RunInv'
      <3>1. file.mode = cp.mode /\ file.start = cp.start /\ file.ts <= cp.ts /\ file.ts \in Nat
        BY <1>1, CheckpointFields DEF Inv, RunInv, TypeOK
      <3>2. file'.mode = cp'.mode /\ file'.start = cp'.start /\ file'.ts <= cp'.ts
        BY <1>4, <2>7, <2>9, <3>1
      <3> QED
        BY <1>1, <1>4, <2>7, <2>8, <3>2 DEF RunInv
    <2> QED
      BY <1>1, <1>6, <1>7, <2>11, <2>12, <2>13, <2>14 DEF Inv
  <1>10. CASE ~IsDropped(n)
    <2>1. target' = [target EXCEPT ![r] = Value(n)]
      BY <1>10 DEF Follow, Value
    <2>2. \/ cp' = [cp EXCEPT !.ts = n] /\ file' \in {cp', file}
          \/ UNCHANGED <<cp, file>>
      BY <1>10 DEF Follow, Save
    <2> QED
      BY <1>9, <1>10, <2>1, <2>2
  <1>11. CASE IsDropped(n)
    BY <1>8, <1>11 DEF Follow
  <1> QED
    BY <1>10, <1>11

LEMMA EndsKeep ==
    ASSUME TypeOK, TypeOK', Inv, MigrateEnds \/ NextCycle \/ Stop \/ UNCHANGED vars
    PROVE  Inv'
  <1>1. CASE MigrateEnds
    BY <1>1 DEF MigrateEnds, SegmentCount, Count, Inv, LogInv, Value, RunInv, PageFresh, Copied,
                Applied, source, disk
  <1>2. CASE NextCycle
    <2>1. /\ UNCHANGED <<log, table, last, target, file, cp, main, page>> /\ pos' = 0
          /\ main = "follow"
      BY <1>2 DEF NextCycle, source, disk
    <2>2. Applied'
      BY <2>1, NothingApplied DEF Applied, TypeOK
    <2> QED
      BY <2>1, <2>2 DEF Inv, LogInv, Value, RunInv, PageFresh, Copied
  <1>3. CASE Stop
    <2>1. /\ UNCHANGED <<log, table, last, target, file, page>> /\ main' = "idle"
          /\ cp' = NoCheckpoint
      BY <1>3 DEF Stop, source, disk
    <2>2. Len(log) \in Nat /\ 0 <= Len(log) + 1 /\ 0 <= Len(log)
      BY DEF TypeOK
    <2>3. Good(cp', Len(log), table, last, target)
      BY <2>1, <2>2, GoodNew, NoCheckpointIs
    <2> QED
      BY <2>1, <2>3 DEF Inv, LogInv, Value, RunInv, PageFresh, Copied, Applied
  <1>4. CASE UNCHANGED vars
    BY <1>4 DEF vars, source, disk, Inv, LogInv, Value, RunInv, PageFresh, Copied, Applied
  <1> QED
    BY <1>1, <1>2, <1>3, <1>4

LEMMA InvKept == TypeOK /\ Inv /\ [Next]_vars => Inv'
  <1> SUFFICES ASSUME TypeOK, Inv, [Next]_vars PROVE Inv'
    OBVIOUS
  <1>1. TypeOK'
    BY TypesKept
  <1> QED
    BY <1>1, ChangeKeeps, ReadRowKeeps, StartsKeep, MigrateRowKeeps, CopyRowKeeps, CopyEndsKeeps,
       FollowKeeps, EndsKeep DEF Next

LEMMA CommandsInvariant == Spec => [](TypeOK /\ Inv)
  BY InvInit, InvKept, TypesKept, PTL DEF Spec
-----------------------------------------------------------------------------
\* The types of the state: in particular the progress of a segment, the time
\* of a checkpoint and the place in the stream never leave their ranges.
THEOREM CommandsTypes == Spec => []TypeOK
  BY CommandsInvariant, PTL

\* A live checkpoint of a finished copy is one to continue from, whatever
\* commands made the file what it is.  (replicator.go:88-145, 201-204)
THEOREM LiveCheckpointsAreHonest == Spec => []LiveIsHonest
  <1>1. Inv => LiveIsHonest
    BY DEF Inv, Good, Honest, Replayed, Orphan, MayBeOrphan, LiveIsHonest
  <1> QED
    BY <1>1, CommandsInvariant, PTL

\* A migrate command that reports success has copied every item that has not
\* changed since its checkpoint was made.  (migrator.go:45-60, 75-97)
THEOREM CommandsSuccessIsComplete == Spec => []SuccessIsComplete
  <1>1. TypeOK /\ Inv => SuccessIsComplete
    <2> SUFFICES ASSUME TypeOK, Inv, main = "success", NEW k \in Key
                 PROVE  Kept(cp, k, table, last, target)
      BY DEF SuccessIsComplete, Kept
    <2> DEFINE s == Part[Count(cp)][k]
    <2>1. s \in 0..(Count(cp) - 1)
      BY SegmentOfKey DEF TypeOK
    <2>2. cp.upto[s] = Completed
      BY <2>1 DEF Inv, RunInv
    <2>3. k <= cp.upto[s]
      BY <2>2, CommandsAssumption DEF Completed, Key
    <2> QED
      BY <2>3 DEF Inv, Good, Covered
  <1> QED
    BY <1>1, CommandsInvariant, PTL
=============================================================================
