--------------------------- MODULE ReplicatorProofs ---------------------------
(***************************************************************************)
(* Proofs about Replicator: what the saved timestamp drops was applied,    *)
(* and a reader that has caught up leaves the target equal to the table,   *)
(* for any number of keys, records, shards, restarts and failures, of a    *)
(* stream that is read in order.                                           *)
(*                                                                         *)
(* The argument is about settled records: those this cycle has passed, and *)
(* those a timestamp, in memory or in the file, drops.  A step settles a   *)
(* record that is written or cannot be converted, that is older than the   *)
(* start, or, when the timestamp moves, that was passed already, since the *)
(* stream is in the order of its times (StepSettles).  So settled records  *)
(* were seen (SeenInv), and the last of them of a key stands in the target *)
(* (RightInv), for no older record of the key is in a batch (NoOldWrite).  *)
(***************************************************************************)
EXTENDS Replicator, FiniteSetTheorems, WellFoundedInduction, TLAPS

Streaming == {"list", "pick", "get", "batch", "write"}
Reading == {"get", "batch", "write"}

\* Time goes on, and records carry whole seconds.
TimeInv ==
    /\ start <= clock
    /\ \A n \in 1..Len(log) : log[n].time = SecondOf(log[n].time) /\ log[n].time <= SecondOf(clock)
    /\ \A m, n \in 1..Len(log) : m <= n => log[m].time <= log[n].time

\* With one lineage only the last shard is open, and records go to it.
ShardInv ==
    Cardinality(Lineage) = 1 =>
        /\ \A s \in 1..Len(shards) : shards[s].open => s = Len(shards)
        /\ \A m, n \in 1..Len(log) : m <= n => log[m].shard <= log[n].shard

\* What the checkpoint is while the program is where it is.
StartInv ==
    /\ file.mode # "live" =>
          pc \in {"idle", "save"} /\ ~file.complete /\ seen = {} /\ \A k \in Key : target[k] = None
    /\ pc = "save" => file.mode # "live" /\ ~cp.complete /\ cp.ts <= clock
    /\ file.mode = "live" => start <= file.ts /\ (file.complete \/ file.ts = start)
    /\ pc = "copy" => ~cp.complete /\ ~file.complete /\ cp.ts = start
    /\ pc \in Streaming => cp.complete /\ file.ts <= cp.ts /\ start <= cp.ts
    /\ file.ts <= SecondOf(clock) \/ file.ts = start
    /\ pc \in Streaming => cp.ts <= SecondOf(clock) \/ cp.ts = start

\* What is held where.
PlaceInv ==
    /\ pc \notin {"batch", "write"} => page = {}
    /\ pc # "write" => batch = {}
    /\ pc \notin Reading => shard = NoShard /\ pos = 0 /\ ~atEnd
    /\ pc \in Reading => shard \in 1..Len(shards)
    /\ pc \notin Reading \cup {"pick"} => todo = {}
    /\ page \subseteq RecordsOf(shard)
    /\ pc # "copy" => uncopied = {}
    /\ atEnd => ~shards[shard].open /\ \A n \in RecordsOf(shard) : n <= pos

\* The shards that are left come after the one being read, or are the last ones.
InOrder ==
    /\ \A s \in todo : shard < s
    /\ \A s \in todo, r \in 1..Len(shards) : shard < r /\ r < s =>
           r \in todo \/ (shard = NoShard /\ \A q \in todo : r < q)

\* The cycle takes the shards in their order.
CycleInv == (sorted \/ brokeOff) /\ (ReadInOrder => InOrder)

\* The page holds what the timestamp did not drop, in the order of the log.
PageInv ==
    /\ \A n \in page : log[n].time >= cp.ts
    /\ \A m \in RecordsOf(shard), n \in page : m <= pos /\ m \notin page => m < n \/ log[m].time < cp.ts
    /\ \A m \in batch, n \in page \ batch : m < n
    /\ \A m, n \in batch : m # n /\ log[m].key = log[n].key => log[m].key \in mixed
    /\ batch \ unwritten \subseteq seen

\* Made before replication started.
Early(n) == log[n].time < SecondOf(start)
EarlySeen(k) == \A n \in 1..Len(log) : log[n].key = k /\ Early(n) => n \in seen

\* What stands in the target is a value of its key, not older than these changes.
Placed(k) ==
    target[k] # None =>
        /\ EarlySeen(k)
        /\ log[target[k]].key = k /\ log[target[k]].put
        /\ \A n \in 1..Len(log) : log[n].key = k /\ Early(n) => n <= target[k]

\* The copy has what was made before replication started.
CopyInv ==
    /\ \A k \in Key : Placed(k)
    /\ pc = "copy" => \A k \in Key :
          /\ k \in uncopied \ unread => \A n \in 1..Len(log) : Early(n) => n <= scanned[k]
          /\ k \notin uncopied => EarlySeen(k)
    /\ pc \in Streaming \/ file.complete => \A k \in Key : EarlySeen(k)

\* The records that this cycle has passed.
Passed(n) ==
    LET s == log[n].shard IN
    \/ s = shard /\ n <= pos /\ n \notin page
    \/ n \in batch \ unwritten
    \/ s # shard /\ s \notin todo /\ (s < shard \/ \E r \in todo : s < r)

\* They, and those the timestamp in memory or in the file drops.
Due(n) == Passed(n) \/ log[n].time < cp.ts
Dropped(n) == file.complete /\ log[n].time < file.ts
Settled(n) == (pc \in Streaming /\ Due(n)) \/ Dropped(n)

Known(n) == n \in seen \/ log[n].time < start

\* A settled record has reached the target.
SeenInv == ReadInOrder => \A n \in 1..Len(log) : Settled(n) => Known(n)

Exempt(k) == k \in mixed \cup Bad \/ \E n \in 1..Len(log) : log[n].key = k /\ InStartSecond(n)
Last(n) == \A m \in 1..Len(log) : log[m].key = log[n].key => m <= n
Value(n) == IF log[n].put THEN n ELSE None
Right(n) == Last(n) /\ ~Exempt(log[n].key) => target[log[n].key] = Value(n)

Copied(n) == pc = "copy" /\ log[n].key \notin uncopied /\ Early(n)

\* The last record of a key has its value in the target once it is settled, or
\* in the copy.
RightInv == ReadInOrder => \A n \in 1..Len(log) : Settled(n) \/ Copied(n) => Right(n)

IInv ==
    /\ TypeOK /\ TimeInv /\ ShardInv /\ StartInv /\ PlaceInv
    /\ CycleInv /\ PageInv /\ CopyInv /\ SeenInv /\ RightInv
-----------------------------------------------------------------------------
(* Whole seconds. *)

LEMMA SecondIs ==
    ASSUME NEW t \in Nat
    PROVE  /\ t % Second \in Nat /\ t % Second < Second /\ t % Second <= t
           /\ t \div Second \in Nat
           /\ t = (t \div Second) * Second + (t % Second)
  <1>1. Second \in Nat /\ Second > 0
    BY ReplicatorAssumption
  <1>2. t = (t \div Second) * Second + (t % Second)
    BY <1>1, SMTT(60)
  <1>3. t % Second \in Nat /\ t % Second < Second /\ t % Second <= t
    BY <1>1, SMTT(30)
  <1>4. t \div Second \in Nat
    BY <1>1, SMTT(30)
  <1> QED
    BY <1>2, <1>3, <1>4

LEMMA SecondsType == ASSUME NEW t \in Nat PROVE SecondOf(t) \in Nat /\ SecondOf(t) <= t
  BY SecondIs DEF SecondOf

LEMMA SecondsGrow ==
    ASSUME NEW s \in Nat, NEW t \in Nat, s <= t PROVE SecondOf(s) <= SecondOf(t)
  <1>1. Second \in Nat /\ Second > 0
    BY ReplicatorAssumption
  <1> QED
    BY <1>1, SMTT(60) DEF SecondOf

LEMMA ProductsGrow ==
    ASSUME NEW p \in Nat, NEW q \in Nat, p < q PROVE p * Second + Second <= q * Second
  <1>1. PICK d \in Nat : q = p + 1 + d
    <2>1. q - (p + 1) \in Nat /\ q = p + 1 + (q - (p + 1))
      OBVIOUS
    <2> QED
      BY <2>1
  <1>2. q * Second = p * Second + Second + d * Second
    BY <1>1, ReplicatorAssumption
  <1>3. d * Second \in Nat /\ p * Second \in Nat
    BY ReplicatorAssumption
  <1> QED
    BY <1>2, <1>3, ReplicatorAssumption

LEMMA SecondsWhole == ASSUME NEW t \in Nat PROVE SecondOf(SecondOf(t)) = SecondOf(t)
  <1> DEFINE x == SecondOf(t)
             q == t \div Second
             p == x \div Second
  <1>1. x \in Nat /\ q \in Nat /\ p \in Nat
    BY SecondsType, SecondIs
  <1>2. x = q * Second
    <2>1. t = q * Second + (t % Second) /\ t % Second \in Nat
      BY SecondIs, Zenon
    <2>3. q * Second \in Nat
      BY <1>1, ReplicatorAssumption
    <2>2. x = t - (t % Second)
      BY DEF SecondOf
    <2> HIDE DEF x, q
    <2> QED
      BY <2>1, <2>2, <2>3
  <1>3. x = p * Second + (x % Second) /\ x % Second \in Nat /\ x % Second < Second
    BY <1>1, SecondIs
  <1>4. p * Second \in Nat /\ q * Second \in Nat /\ Second \in Nat
    BY <1>1, ReplicatorAssumption
  <1>5. CASE p < q
    <2>1. p * Second + Second <= q * Second
      BY <1>1, <1>5, ProductsGrow
    <2> HIDE DEF x, p, q
    <2> QED
      BY <2>1, <1>1, <1>2, <1>3, <1>4
  <1>6. CASE q < p
    <2>1. q * Second + Second <= p * Second
      BY <1>1, <1>6, ProductsGrow
    <2> HIDE DEF x, p, q
    <2> QED
      BY <2>1, <1>1, <1>2, <1>3, <1>4
  <1>7. CASE p = q
    <2>1. x % Second = 0
      <3>1. p * Second = q * Second
        BY <1>7
      <3> HIDE DEF x, p, q
      <3> QED
        BY <3>1, <1>1, <1>2, <1>3, <1>4
    <2>2. SecondOf(x) = x - (x % Second)
      BY DEF SecondOf
    <2>3. x - 0 = x
      <3> HIDE DEF x
      <3> QED
        BY <1>1
    <2> QED
      BY <2>1, <2>2, <2>3, Zenon
  <1> HIDE DEF p, q
  <1> QED
    BY <1>1, <1>5, <1>6, <1>7
-----------------------------------------------------------------------------
(* Types, by the part of the state. *)

SourceOK ==
    /\ clock \in Timestamps
    /\ log \in Seq(Records) /\ Len(log) <= MaxChanges
    /\ \A n \in 1..Len(log) : log[n].shard \in 1..Len(shards)
    /\ shards \in Seq([line : Lineage, open : BOOLEAN])

ProgramOK ==
    /\ pc \in {"idle", "save", "copy", "list", "pick", "get", "batch", "write"}
    /\ runs \in 0..MaxRuns
    /\ cp \in Checkpoints
    /\ file \in Files
    /\ start \in Timestamps

CopyOK ==
    /\ scanned \in [Key -> 0..Len(log)]
    /\ unread \subseteq uncopied /\ uncopied \subseteq Key
    /\ mixed \subseteq Key

CycleOK ==
    /\ todo \subseteq 1..Len(shards)
    /\ sorted \in BOOLEAN
    /\ shard \in 0..Len(shards)
    /\ atEnd \in BOOLEAN /\ brokeOff \in BOOLEAN

WritingOK ==
    /\ pos \in 0..Len(log)
    /\ page \subseteq 1..pos /\ done \in Nat
    /\ unwritten \subseteq batch /\ batch \subseteq page

TargetOK ==
    /\ target \in [Key -> 0..Len(log)]
    /\ seen \subseteq 1..Len(log)

LEMMA TypeParts ==
    TypeOK <=> SourceOK /\ ProgramOK /\ CopyOK /\ CycleOK /\ WritingOK /\ TargetOK
  BY Zenon DEF TypeOK, SourceOK, ProgramOK, CopyOK, CycleOK, WritingOK, TargetOK

LEMMA BoundsAreNat ==
    /\ MaxTime \in Nat /\ MaxChanges \in Nat /\ MaxShards \in Nat /\ MaxRuns \in Nat
    /\ BatchSize \in Nat /\ Frequency \in Nat /\ Second \in Nat
  BY ReplicatorAssumption

\* What the types say of the numbers.
LEMMA Numbers ==
    ASSUME SourceOK, ProgramOK
    PROVE  /\ Len(log) \in Nat /\ Len(shards) \in Nat
           /\ clock \in Nat /\ cp.ts \in Nat /\ file.ts \in Nat /\ start \in Nat
           /\ cp.complete \in BOOLEAN /\ file.complete \in BOOLEAN
  <1>1. Len(log) \in Nat /\ Len(shards) \in Nat
    BY DEF SourceOK
  <1>2. clock \in Nat /\ start \in Nat
    BY BoundsAreNat DEF SourceOK, ProgramOK, Timestamps
  <1>3. cp.ts \in Timestamps /\ cp.complete \in BOOLEAN
    BY DEF ProgramOK, Checkpoints
  <1>4. file.ts \in Timestamps /\ file.complete \in BOOLEAN
    BY DEF ProgramOK, Files
  <1>5. \A t \in Timestamps : t \in Nat
    BY BoundsAreNat DEF Timestamps
  <1> QED
    BY <1>1, <1>2, <1>3, <1>4, <1>5

LEMMA RecordIs ==
    ASSUME SourceOK, NEW n \in 1..Len(log)
    PROVE  /\ n \in Nat /\ log[n].key \in Key /\ log[n].put \in BOOLEAN
           /\ log[n].shard \in 1..Len(shards) /\ log[n].shard \in Nat
           /\ log[n].time \in Timestamps /\ log[n].time \in Nat
  <1>1. log[n] \in Records
    BY DEF SourceOK
  <1>2. log[n].key \in Key /\ log[n].put \in BOOLEAN /\ log[n].time \in Timestamps
    BY <1>1 DEF Records
  <1>3. log[n].shard \in 1..Len(shards) /\ Len(shards) \in Nat
    BY DEF SourceOK
  <1> QED
    BY <1>2, <1>3, BoundsAreNat DEF Timestamps

\* A change appends one record of the present second to the open shard s.
Appended(k, put, s) ==
    /\ Len(log') = Len(log) + 1
    /\ \A n \in 1..Len(log) : log'[n] = log[n]
    /\ log'[Len(log) + 1].key = k /\ log'[Len(log) + 1].put = put
    /\ log'[Len(log) + 1].shard = s /\ log'[Len(log) + 1].time = SecondOf(clock)

LEMMA ChangeAppends ==
    ASSUME SourceOK, NEW k \in Key, NEW put \in BOOLEAN, Change(k, put)
    PROVE  /\ log' \in Seq(Records) /\ Len(log) < MaxChanges
           /\ \E s \in 1..Len(shards) :
                 shards[s].open /\ shards[s].line = Home[k] /\ Appended(k, put, s)
  <1>1. PICK s \in 1..Len(shards) :
            /\ shards[s].open /\ shards[s].line = Home[k]
            /\ log' = Append(log, [key |-> k, put |-> put, shard |-> s, time |-> SecondOf(clock)])
    BY DEF Change
  <1> DEFINE rec == [key |-> k, put |-> put, shard |-> s, time |-> SecondOf(clock)]
  <1>2. clock \in 0..MaxTime /\ Len(shards) \in Nat /\ log \in Seq(Records)
    BY DEF SourceOK, Timestamps
  <1>3. SecondOf(clock) \in Nat /\ SecondOf(clock) <= clock
    BY <1>2, BoundsAreNat, SecondsType
  <1>4. SecondOf(clock) \in Timestamps /\ s \in Nat
    BY <1>2, <1>3, BoundsAreNat DEF Timestamps
  <1>5. rec \in Records
    BY <1>4 DEF Records
  <1>6. /\ log' \in Seq(Records) /\ Len(log') = Len(log) + 1 /\ log'[Len(log) + 1] = rec
        /\ \A n \in 1..Len(log) : log'[n] = log[n]
    <2>1. log' = Append(log, rec)
      BY <1>1
    <2> HIDE DEF rec
    <2> QED
      BY <2>1, <1>2, <1>5
  <1>7. rec.key = k /\ rec.put = put /\ rec.shard = s /\ rec.time = SecondOf(clock)
    OBVIOUS
  <1> HIDE DEF rec
  <1>8. Appended(k, put, s)
    BY <1>6, <1>7 DEF Appended
  <1>9. Len(log) < MaxChanges
    BY DEF Change
  <1> QED
    BY <1>1, <1>6, <1>8, <1>9

\* A shard that is rolled is closed, its child is the last one.
LEMMA RollAppends ==
    ASSUME SourceOK, NEW s \in 1..Len(shards), Roll(s)
    PROVE  /\ shards' \in Seq([line : Lineage, open : BOOLEAN])
           /\ Len(shards') = Len(shards) + 1
           /\ \A r \in 1..Len(shards) : shards'[r].open => shards[r].open /\ r # s
  <1> DEFINE S == [line : Lineage, open : BOOLEAN]
             closed == [shards EXCEPT ![s].open = FALSE]
             child == [line |-> shards[s].line, open |-> TRUE]
             shut == [shards[s] EXCEPT !.open = FALSE]
  <1>1. shards \in Seq(S) /\ shards' = Append(closed, child) /\ Len(shards) \in Nat
    BY DEF SourceOK, Roll
  <1>2. shards[s] \in S
    <2> HIDE DEF S
    <2> QED
      BY <1>1
  <1>3. child \in S
    BY <1>2
  <1>4. shut \in S /\ shut.open = FALSE
    BY <1>2
  <1>5. closed = [shards EXCEPT ![s] = shut]
    OBVIOUS
  <1> HIDE DEF S, shut, closed, child
  <1>6. /\ closed \in Seq(S) /\ Len(closed) = Len(shards)
        /\ closed[s] = shut
        /\ \A r \in 1..Len(shards) : r # s => closed[r] = shards[r]
    BY <1>1, <1>4, <1>5
  <1>7. /\ shards' \in Seq(S) /\ Len(shards') = Len(shards) + 1
        /\ \A r \in 1..Len(shards) : shards'[r] = closed[r]
    BY <1>1, <1>3, <1>6
  <1>8. ASSUME NEW r \in 1..Len(shards), shards'[r].open
        PROVE  shards[r].open /\ r # s
    <2>1. closed[r].open
      BY <1>7, <1>8, Zenon
    <2>2. r # s
      BY <2>1, <1>4, <1>6, Zenon
    <2> QED
      BY <2>1, <2>2, <1>6
  <1> QED
    BY <1>7, <1>8 DEF S

\* The program does not change the table.
LEMMA ProgramOnly == Program => UNCHANGED source
  <1>1. ASSUME StartFromCheckpoint \/ StartAnew \/ SaveFirst \/ CopyDone \/ Stop PROVE UNCHANGED source
    BY <1>1 DEF StartFromCheckpoint, StartAnew, SaveFirst, CopyDone, Stop
  <1>2. ASSUME NEW k \in Key, CopyRead(k) \/ CopyWrite(k) PROVE UNCHANGED source
    BY <1>2 DEF CopyRead, CopyWrite
  <1>3. ASSUME ListShards \/ PickShard \/ CycleEnds \/ GetFails \/ GetRecords PROVE UNCHANGED source
    BY <1>3 DEF ListShards, PickShard, CycleEnds, GetFails, GetRecords, LeaveShard
  <1>4. ASSUME SubmitBatch \/ BatchFails \/ BatchOk \/ PageDone PROVE UNCHANGED source
    BY <1>4 DEF SubmitBatch, BatchFails, LeaveShard, BatchOk, PageDone
  <1>5. ASSUME NEW n \in unwritten, WriteOne(n) PROVE UNCHANGED source
    BY <1>5 DEF WriteOne
  <1> QED
    BY <1>1, <1>2, <1>3, <1>4, <1>5 DEF Program

\* The environment does not touch the program.
program == <<pc, runs, checkpoint, copy, cycle, writing, target, seen, mixed, brokeOff>>

LEMMA EnvironmentOnly == Environment => UNCHANGED program
  BY DEF Environment, Tick, Change, Roll, program

Grown ==
    /\ Len(log) <= Len(log') /\ \A n \in 1..Len(log) : log'[n] = log[n]
    /\ Len(shards) <= Len(shards')

LEMMA SourceStep == ASSUME SourceOK, [Next]_vars PROVE SourceOK' /\ Grown
  <1>1. Len(log) \in Nat /\ Len(shards) \in Nat
    BY DEF SourceOK
  <1>2. CASE UNCHANGED source
    <2>1. Grown
      BY <1>1, <1>2 DEF source, Grown
    <2>2. SourceOK'
      BY <1>2 DEF source, SourceOK
    <2> QED
      BY <2>1, <2>2
  <1>3. CASE Tick
    <2>1. clock' \in Timestamps
      BY <1>3, BoundsAreNat DEF Tick, SourceOK, Timestamps
    <2>2. log' = log /\ shards' = shards
      BY <1>3 DEF Tick
    <2> QED
      BY <1>1, <2>1, <2>2 DEF SourceOK, Grown
  <1>4. ASSUME NEW k \in Key, NEW put \in BOOLEAN, Change(k, put)
        PROVE  SourceOK' /\ Grown
    <2>1. PICK s \in 1..Len(shards) : Appended(k, put, s)
      BY <1>4, ChangeAppends
    <2>2. log' \in Seq(Records) /\ Len(log) < MaxChanges
      BY <1>4, ChangeAppends
    <2>3. clock' = clock /\ shards' = shards
      BY <1>4 DEF Change
    <2>4. ASSUME NEW n \in 1..Len(log') PROVE log'[n].shard \in 1..Len(shards)
      <3>1. n \in 1..Len(log) \/ n = Len(log) + 1
        BY <1>1, <2>1 DEF Appended
      <3> QED
        BY <2>1, <3>1 DEF Appended, SourceOK
    <2>5. Len(log') <= MaxChanges
      BY <1>1, <2>1, <2>2, BoundsAreNat DEF Appended
    <2>6. Grown
      BY <1>1, <2>1, <2>3 DEF Grown, Appended
    <2> QED
      BY <2>2, <2>3, <2>4, <2>5, <2>6 DEF SourceOK
  <1>5. ASSUME NEW s \in 1..Len(shards), Roll(s)
        PROVE  SourceOK' /\ Grown
    <2>1. shards' \in Seq([line : Lineage, open : BOOLEAN]) /\ Len(shards') = Len(shards) + 1
      BY <1>5, RollAppends
    <2>2. clock' = clock /\ log' = log
      BY <1>5 DEF Roll
    <2>3. Grown
      BY <1>1, <2>1, <2>2 DEF Grown
    <2>4. \A n \in 1..Len(log) : log[n].shard \in 1..(Len(shards) + 1)
      BY <1>1 DEF SourceOK
    <2> QED
      BY <2>1, <2>2, <2>3, <2>4 DEF SourceOK
  <1>6. Program \/ UNCHANGED vars => UNCHANGED source
    BY ProgramOnly DEF vars
  <1> QED
    BY <1>2, <1>3, <1>4, <1>5, <1>6 DEF Next, Environment

LEMMA NoCheckpointOK == ASSUME SourceOK PROVE NoCheckpoint \in Checkpoints /\ 0 \in Timestamps
  BY BoundsAreNat DEF NoCheckpoint, Checkpoints, Timestamps

LEMMA CheckpointOK ==
    ASSUME NEW t \in Timestamps, NEW b \in BOOLEAN
    PROVE  /\ [ts |-> t, complete |-> b] \in Checkpoints
           /\ \A mode \in {"none", "migrate", "live"} :
                  [mode |-> mode, ts |-> t, complete |-> b] \in Files
  BY DEF Checkpoints, Files

LEMMA CheckpointParts ==
    ASSUME ProgramOK
    PROVE  /\ cp.ts \in Timestamps /\ cp.complete \in BOOLEAN
           /\ file.ts \in Timestamps /\ file.complete \in BOOLEAN
           /\ file.mode \in {"none", "migrate", "live"}
  BY DEF ProgramOK, Checkpoints, Files

\* What a save leaves in the file.
LEMMA Saved ==
    ASSUME Save, cp' \in Checkpoints
    PROVE  /\ file' \in Files
           /\ file'.mode = "live" /\ file'.ts = cp'.ts /\ file'.complete = cp'.complete
  BY DEF Save, Checkpoints, Files

\* What an ended copy and a written batch make of the checkpoint.
LEMMA CopyDoneSets ==
    ASSUME ProgramOK, CopyDone
    PROVE  cp' \in Checkpoints /\ cp'.ts = cp.ts /\ cp'.complete = TRUE
  <1>1. cp \in Checkpoints /\ cp' = [cp EXCEPT !.complete = TRUE]
    BY DEF ProgramOK, CopyDone
  <1> QED
    BY <1>1 DEF Checkpoints

LEMMA BatchOkSets ==
    ASSUME SourceOK, ProgramOK, WritingOK, BatchOk
    PROVE  /\ cp' \in Checkpoints /\ cp'.complete = cp.complete
           /\ \/ cp' = cp
              \/ \E last \in batch :
                    /\ \A n \in batch : n <= last
                    /\ cp.ts < log[last].time /\ cp'.ts = log[last].time
           /\ \/ file' = file
              \/ file'.mode = "live" /\ file'.ts = cp'.ts /\ file'.complete = cp'.complete
           /\ file' \in Files
  <1>1. cp \in Checkpoints /\ file \in Files /\ cp.ts \in Nat
    BY Numbers DEF ProgramOK
  <1>2. CASE UNCHANGED <<cp, file>>
    BY <1>1, <1>2
  <1>3. CASE /\ \E last \in batch :
                   /\ \A n \in batch : n <= last
                   /\ UpdateTimestamp(log[last].time)
             /\ Save \/ UNCHANGED file
    <2>1. PICK last \in batch : (\A n \in batch : n <= last) /\ UpdateTimestamp(log[last].time)
      BY <1>3
    <2>2. last \in 1..Len(log)
      BY DEF WritingOK, SourceOK
    <2>3. log[last].time \in Timestamps /\ log[last].time \in Nat
      BY <2>2, RecordIs
    <2>4. cp' = [cp EXCEPT !.ts = IF log[last].time > cp.ts THEN log[last].time ELSE cp.ts]
      BY <2>1 DEF UpdateTimestamp
    <2>5. /\ cp' \in Checkpoints /\ cp'.complete = cp.complete
          /\ cp' = cp \/ (cp.ts < log[last].time /\ cp'.ts = log[last].time)
      <3>1. CASE log[last].time > cp.ts
        BY <1>1, <2>3, <2>4, <3>1 DEF Checkpoints
      <3>2. CASE ~(log[last].time > cp.ts)
        BY <1>1, <2>4, <3>2 DEF Checkpoints
      <3> QED
        BY <3>1, <3>2
    <2>6. /\ file' \in Files
          /\ file' = file \/ (file'.mode = "live" /\ file'.ts = cp'.ts /\ file'.complete = cp'.complete)
      BY <1>1, <1>3, <2>5, Saved
    <2> QED
      BY <2>1, <2>5, <2>6
  <1> QED
    BY <1>2, <1>3 DEF BatchOk

LEMMA ProgramStep ==
    ASSUME SourceOK, ProgramOK, WritingOK, [Next]_vars PROVE ProgramOK'
  <1>1. /\ cp \in Checkpoints /\ file \in Files /\ start \in Timestamps /\ clock \in Timestamps
        /\ cp.ts \in Timestamps /\ file.ts \in Timestamps
        /\ cp.complete \in BOOLEAN /\ file.complete \in BOOLEAN
        /\ runs \in 0..MaxRuns
        /\ pc \in {"idle", "save", "copy", "list", "pick", "get", "batch", "write"}
    BY CheckpointParts DEF ProgramOK, SourceOK
  <1>2. CASE UNCHANGED <<runs, checkpoint>> /\ pc' \in {"idle", "save", "copy", "list", "pick", "get", "batch", "write"}
    BY <1>2 DEF ProgramOK, checkpoint
  <1>3. CASE StartFromCheckpoint
    <2>1. /\ cp' = [ts |-> file.ts, complete |-> file.complete] /\ UNCHANGED <<file, start>>
          /\ runs' \in 0..MaxRuns /\ pc' \in {"list", "copy"}
      BY <1>1, <1>3, BoundsAreNat DEF StartFromCheckpoint
    <2> QED
      BY <1>1, <2>1, CheckpointOK DEF ProgramOK
  <1>4. CASE StartAnew
    <2>1. /\ cp' = [ts |-> clock, complete |-> FALSE] /\ UNCHANGED start
          /\ file' = file \/ file' = [mode |-> "none", ts |-> 0, complete |-> FALSE]
          /\ runs' \in 0..MaxRuns /\ pc' = "save"
      BY <1>1, <1>4, BoundsAreNat DEF StartAnew
    <2> QED
      BY <1>1, <2>1, CheckpointOK, NoCheckpointOK DEF ProgramOK
  <1>5. CASE SaveFirst
    <2>1. cp' = cp /\ start' = cp.ts /\ runs' = runs /\ pc' = "copy" /\ Save
      BY <1>5 DEF SaveFirst
    <2> QED
      BY <1>1, <2>1, Saved DEF ProgramOK
  <1>6. CASE CopyDone
    <2>1. start' = start /\ runs' = runs /\ pc' = "list" /\ (Save \/ file' = file)
      BY <1>6 DEF CopyDone
    <2> QED
      BY <1>1, <1>6, <2>1, CopyDoneSets, Saved DEF ProgramOK
  <1>7. CASE BatchOk
    <2>1. start' = start /\ runs' = runs /\ pc' = "batch"
      BY <1>7 DEF BatchOk
    <2> QED
      BY <1>1, <1>7, <2>1, BatchOkSets DEF ProgramOK
  <1>8. CASE Stop
    <2>1. UNCHANGED <<runs, file, start>> /\ pc' = "idle" /\ cp' = NoCheckpoint
      BY <1>8 DEF Stop
    <2> QED
      BY <1>1, <2>1, NoCheckpointOK DEF ProgramOK
  <1>9. (\E k \in Key : CopyRead(k) \/ CopyWrite(k)) => UNCHANGED <<pc, runs, checkpoint>>
    BY DEF CopyRead, CopyWrite
  <1>10. ListShards \/ PickShard \/ CycleEnds \/ GetFails \/ GetRecords =>
            UNCHANGED <<runs, checkpoint>> /\ pc' \in {"list", "pick", "get", "batch"}
    BY DEF ListShards, PickShard, CycleEnds, GetFails, GetRecords, LeaveShard
  <1>11. SubmitBatch \/ BatchFails \/ PageDone =>
            UNCHANGED <<runs, checkpoint>> /\ pc' \in {"write", "get", "pick"}
    BY DEF SubmitBatch, BatchFails, LeaveShard, PageDone
  <1>12. (\E n \in unwritten : WriteOne(n)) => UNCHANGED <<pc, runs, checkpoint>>
    BY DEF WriteOne
  <1>13. Environment \/ UNCHANGED vars => UNCHANGED <<pc, runs, checkpoint>>
    BY EnvironmentOnly DEF program, vars
  <1> QED
    BY <1>1, <1>2, <1>3, <1>4, <1>5, <1>6, <1>7, <1>8, <1>9, <1>10, <1>11, <1>12, <1>13
       DEF Next, Program
-----------------------------------------------------------------------------
(* The table as it was. *)

LEMMA LargestOf ==
    ASSUME NEW N \in Nat, NEW S \in SUBSET (1..N), S # {}
    PROVE  \E i \in S : \A j \in S : j <= i
  <1> DEFINE T == {N - j : j \in S}
             Smaller == {xy \in Nat \X Nat : xy[1] < xy[2]}
  <1>1. \A j \in S : j \in Nat /\ N - j \in Nat
    OBVIOUS
  <1>2. T \subseteq Nat
    BY <1>1
  <1>3. T # {}
    <2>1. PICK j \in S : TRUE
      OBVIOUS
    <2>2. N - j \in T
      BY <2>1
    <2> QED
      BY <2>2
  <1>4. IsWellFoundedOn(Smaller, Nat)
    BY NatLessThanWellFounded DEF OpToRel
  <1>5. PICK t \in T : \A u \in T : ~ (<<u, t>> \in Smaller)
    <2> HIDE DEF T, Smaller
    <2> QED
      BY <1>2, <1>3, <1>4, WFMin
  <1>6. PICK i \in S : t = N - i
    BY <1>5
  <1>7. ASSUME NEW j \in S PROVE j <= i
    <2>1. N - j \in T
      OBVIOUS
    <2>2. ~ (<<N - j, N - i>> \in Smaller)
      BY <1>5, <1>6, <2>1
    <2>3. ~ (N - j < N - i)
      BY <1>1, <2>2
    <2> QED
      BY <1>1, <2>3
  <1> QED
    BY <1>7

\* The value of a key is that of the last of its changes.
LEMMA ValueAfterIs ==
    ASSUME SourceOK, NEW k \in Key, NEW n \in 0..Len(log)
    PROVE  \/ ValueAfter(k, n) = None /\ \A i \in 1..n : log[i].key # k
           \/ \E i \in 1..n : /\ log[i].key = k
                              /\ \A j \in 1..n : log[j].key = k => j <= i
                              /\ ValueAfter(k, n) = Value(i)
  <1> DEFINE changes == {i \in 1..n : log[i].key = k}
             last == CHOOSE i \in changes : \A j \in changes : j <= i
  <1>1. CASE changes = {}
    BY <1>1 DEF ValueAfter
  <1>2. CASE changes # {}
    <2>1. n \in Nat
      BY DEF SourceOK
    <2>2. \E i \in changes : \A j \in changes : j <= i
      <3>1. changes \in SUBSET (1..n)
        OBVIOUS
      <3> HIDE DEF changes
      <3> QED
        BY <1>2, <2>1, <3>1, LargestOf
    <2>3. last \in changes /\ \A j \in changes : j <= last
      <3> HIDE DEF changes
      <3> QED
        BY <2>2
    <2>4. ValueAfter(k, n) = Value(last)
      BY <1>2 DEF ValueAfter, Value
    <2> HIDE DEF last
    <2> QED
      BY <2>3, <2>4
  <1> QED
    BY <1>1, <1>2

LEMMA ValueAfterType ==
    ASSUME SourceOK, NEW k \in Key, NEW n \in 0..Len(log)
    PROVE  ValueAfter(k, n) \in 0..Len(log)
  <1>1. Len(log) \in Nat
    BY DEF SourceOK
  <1>2. \A i \in 1..n : Value(i) \in 0..Len(log)
    BY <1>1 DEF Value, None
  <1>3. None \in 0..Len(log)
    BY <1>1 DEF None
  <1> QED
    BY <1>2, <1>3, ValueAfterIs
-----------------------------------------------------------------------------
(* Types of the other parts. *)

LEMMA CopyStep ==
    ASSUME SourceOK, CopyOK, [Next]_vars, Grown PROVE CopyOK'
  <1>1. Len(log) \in Nat /\ Len(log') \in Nat /\ Len(log) <= Len(log')
    BY SourceStep DEF SourceOK, Grown
  <1>2. /\ scanned \in [Key -> 0..Len(log')] /\ NoCopy \in [Key -> 0..Len(log')]
        /\ unread \subseteq uncopied /\ uncopied \subseteq Key /\ mixed \subseteq Key
    BY <1>1 DEF CopyOK, NoCopy
  <1>3. CASE UNCHANGED <<copy, mixed>>
    BY <1>2, <1>3 DEF copy, CopyOK
  <1>4. StartFromCheckpoint \/ SaveFirst => UNCHANGED <<copy, mixed>> \/ (ToCopy /\ UNCHANGED mixed)
    BY DEF StartFromCheckpoint, SaveFirst
  <1>5. CASE ToCopy /\ UNCHANGED mixed
    BY <1>2, <1>5 DEF ToCopy, CopyOK
  <1>6. ASSUME NEW k \in Key, CopyRead(k) PROVE CopyOK'
    <2>1. /\ unread' = unread \ {k} /\ scanned' = [scanned EXCEPT ![k] = Len(log)]
          /\ uncopied' = uncopied /\ mixed' = mixed
      BY <1>6 DEF CopyRead
    <2>2. scanned' \in [Key -> 0..Len(log')]
      BY <1>1, <1>2, <2>1
    <2> QED
      BY <1>2, <2>1, <2>2 DEF CopyOK
  <1>7. ASSUME NEW k \in Key, CopyWrite(k) PROVE CopyOK'
    <2>1. /\ uncopied' = uncopied \ {k} /\ scanned' = [scanned EXCEPT ![k] = 0]
          /\ unread' = unread /\ mixed' = mixed /\ k \notin unread
      BY <1>7 DEF CopyWrite
    <2>2. scanned' \in [Key -> 0..Len(log')]
      BY <1>1, <1>2, <2>1
    <2> QED
      BY <1>2, <2>1, <2>2 DEF CopyOK
  <1>8. CASE SubmitBatch
    <2>1. UNCHANGED copy /\ mixed' \subseteq mixed \cup Key
      BY <1>8 DEF SubmitBatch
    <2> QED
      BY <1>2, <2>1 DEF copy, CopyOK
  <1>9. CASE Stop
    <2>1. scanned' = NoCopy /\ unread' = {} /\ uncopied' = {} /\ mixed' = mixed
      BY <1>9 DEF Stop
    <2> QED
      BY <1>2, <2>1 DEF CopyOK
  <1>10. StartAnew \/ CopyDone \/ ListShards \/ PickShard \/ CycleEnds => UNCHANGED <<copy, mixed>>
    BY DEF StartAnew, CopyDone, ListShards, PickShard, CycleEnds
  <1>11. GetFails \/ GetRecords \/ BatchFails \/ BatchOk \/ PageDone => UNCHANGED <<copy, mixed>>
    BY DEF GetFails, GetRecords, BatchFails, LeaveShard, BatchOk, PageDone
  <1>12. (\E n \in unwritten : WriteOne(n)) => UNCHANGED <<copy, mixed>>
    BY DEF WriteOne
  <1>13. Environment \/ UNCHANGED vars => UNCHANGED <<copy, mixed>>
    BY EnvironmentOnly DEF program, vars
  <1> QED
    BY <1>3, <1>4, <1>5, <1>6, <1>7, <1>8, <1>9, <1>10, <1>11, <1>12, <1>13 DEF Next, Program

LEMMA CycleStep ==
    ASSUME SourceOK, CycleOK, [Next]_vars, Grown PROVE CycleOK'
  <1>1. Len(shards) \in Nat /\ Len(shards') \in Nat /\ Len(shards) <= Len(shards')
    BY SourceStep DEF SourceOK, Grown
  <1>2. /\ todo \subseteq 1..Len(shards') /\ sorted \in BOOLEAN /\ shard \in 0..Len(shards')
        /\ atEnd \in BOOLEAN /\ brokeOff \in BOOLEAN /\ NoShard \in 0..Len(shards')
    BY <1>1 DEF CycleOK, NoShard
  <1>3. CASE todo' \subseteq todo /\ sorted' \in BOOLEAN /\ shard' \in {shard, NoShard}
             /\ atEnd' \in BOOLEAN /\ brokeOff' \in BOOLEAN
    BY <1>2, <1>3 DEF CycleOK
  <1>4. CASE UNCHANGED <<cycle, brokeOff>>
    BY <1>2, <1>4 DEF cycle, CycleOK
  <1>5. CASE ListShards
    <2>1. /\ todo' = 1..Len(shards) /\ sorted' \in BOOLEAN /\ UNCHANGED <<shard, atEnd>>
          /\ brokeOff' = (brokeOff \/ ~sorted')
      BY <1>5 DEF ListShards
    <2>2. brokeOff' \in BOOLEAN
      BY <2>1, Zenon
    <2> QED
      BY <1>1, <1>2, <2>1, <2>2 DEF CycleOK
  <1>6. CASE PickShard
    <2>1. /\ shard' \in todo /\ todo' \subseteq todo /\ atEnd' = FALSE /\ UNCHANGED <<sorted, brokeOff>>
      BY <1>6 DEF PickShard
    <2>2. todo' \subseteq 1..Len(shards') /\ shard' \in 0..Len(shards')
      BY <1>1, <1>2, <2>1
    <2>3. sorted' \in BOOLEAN /\ atEnd' \in BOOLEAN /\ brokeOff' \in BOOLEAN
      BY <1>2, <2>1, Zenon
    <2> QED
      BY <2>2, <2>3 DEF CycleOK
  <1>7. CASE GetRecords
    <2>1. UNCHANGED <<todo, sorted, shard, brokeOff>> /\ atEnd' \in BOOLEAN
      BY <1>7 DEF GetRecords
    <2> QED
      BY <1>2, <1>3, <2>1
  <1>8. GetFails \/ BatchFails => UNCHANGED <<todo, sorted>> /\ shard' = NoShard
                                  /\ atEnd' = FALSE /\ brokeOff' = TRUE
    BY DEF GetFails, BatchFails, LeaveShard
  <1>9. PageDone => UNCHANGED <<todo, sorted, brokeOff>> /\ shard' \in {shard, NoShard}
                    /\ (atEnd' = atEnd \/ atEnd' = FALSE)
    BY DEF PageDone
  <1>10. Stop => todo' = {} /\ sorted' = TRUE /\ shard' = NoShard /\ atEnd' = FALSE /\ brokeOff' = brokeOff
    BY DEF Stop
  <1>11. StartFromCheckpoint \/ StartAnew \/ SaveFirst \/ CopyDone => UNCHANGED <<cycle, brokeOff>>
    BY DEF StartFromCheckpoint, StartAnew, SaveFirst, CopyDone
  <1>12. (\E k \in Key : CopyRead(k) \/ CopyWrite(k)) => UNCHANGED <<cycle, brokeOff>>
    BY DEF CopyRead, CopyWrite
  <1>13. CycleEnds \/ SubmitBatch \/ BatchOk => UNCHANGED <<cycle, brokeOff>>
    BY DEF CycleEnds, SubmitBatch, BatchOk
  <1>14. (\E n \in unwritten : WriteOne(n)) => UNCHANGED <<cycle, brokeOff>>
    BY DEF WriteOne
  <1>15. Environment \/ UNCHANGED vars => UNCHANGED <<cycle, brokeOff>>
    BY EnvironmentOnly DEF program, vars
  <1>16. CASE GetFails \/ BatchFails \/ PageDone \/ Stop
    BY <1>2, <1>3, <1>8, <1>9, <1>10, <1>16
  <1> QED
    BY <1>4, <1>5, <1>6, <1>7, <1>11, <1>12, <1>13, <1>14, <1>15, <1>16 DEF Next, Program

LEMMA BatchIsFinite == ASSUME SourceOK, WritingOK PROVE Cardinality(batch) \in Nat
  <1>1. pos \in Nat /\ batch \subseteq 1..pos
    BY DEF SourceOK, WritingOK
  <1>2. IsFiniteSet(1..pos)
    BY <1>1, FS_Interval
  <1>3. IsFiniteSet(batch)
    BY <1>1, <1>2, FS_Subset
  <1> QED
    BY <1>3, FS_CardinalityType

\* A page has records up to the last one returned.
LEMMA GetRecordsSets ==
    ASSUME SourceOK, WritingOK, GetRecords
    PROVE  /\ pos' \in 0..Len(log) /\ pos <= pos'
           /\ page' = {n \in RecordsOf(shard) : pos < n /\ n <= pos' /\ log[n].time >= cp.ts}
           /\ done' = 0 /\ UNCHANGED <<source, checkpoint, todo, sorted, shard, batch, unwritten>>
           /\ pc' = "batch"
           /\ atEnd' => ~shards[shard].open /\ \A n \in RecordsOf(shard) : n <= pos'
  <1>1. PICK to \in RecordsOf(shard) \cup {pos} :
            /\ to >= pos /\ pos' = to
            /\ page' = filterRecordsByTimestamp({n \in RecordsOf(shard) : pos < n /\ n <= to})
            /\ \/ atEnd' = FALSE
               \/ atEnd' = TRUE /\ ~shards[shard].open /\ \A n \in RecordsOf(shard) : n <= to
    BY DEF GetRecords
  <1>2. Len(log) \in Nat /\ pos \in 0..Len(log) /\ RecordsOf(shard) \subseteq 1..Len(log)
    BY DEF SourceOK, WritingOK, RecordsOf
  <1>3. pos' \in 0..Len(log) /\ pos <= pos'
    BY <1>1, <1>2
  <1>4. page' = {n \in RecordsOf(shard) : pos < n /\ n <= pos' /\ log[n].time >= cp.ts}
    BY <1>1 DEF filterRecordsByTimestamp
  <1>5. done' = 0 /\ UNCHANGED <<source, checkpoint, todo, sorted, shard, batch, unwritten>> /\ pc' = "batch"
    BY DEF GetRecords
  <1>6. atEnd' => ~shards[shard].open /\ \A n \in RecordsOf(shard) : n <= pos'
    BY <1>1
  <1> QED
    BY <1>3, <1>4, <1>5, <1>6

LEMMA WritingStep ==
    ASSUME SourceOK, WritingOK, PlaceInv, [Next]_vars, Grown PROVE WritingOK'
  <1>1. Len(log) \in Nat /\ Len(log') \in Nat /\ Len(log) <= Len(log')
    BY SourceStep DEF SourceOK, Grown
  <1>2. /\ pos \in 0..Len(log') /\ pos \in 0..Len(log) /\ page \subseteq 1..pos /\ done \in Nat
        /\ unwritten \subseteq batch /\ batch \subseteq page /\ 0 \in 0..Len(log')
    BY <1>1 DEF WritingOK
  <1>3. CASE UNCHANGED <<pos, writing>>
    BY <1>2, <1>3 DEF writing, WritingOK
  <1>4. CASE pos' \in {pos, 0} /\ page' = {} /\ batch' = {} /\ unwritten' = {} /\ done' = 0
    BY <1>2, <1>4 DEF WritingOK
  <1>5. CASE PickShard
    <2>1. pos' = 0 /\ UNCHANGED writing /\ pc = "pick"
      BY <1>5 DEF PickShard
    <2>2. page = {}
      BY <2>1 DEF PlaceInv
    <2> QED
      BY <1>2, <2>1, <2>2 DEF writing, WritingOK
  <1>6. CASE GetRecords
    <2>1. pc = "get"
      BY <1>6 DEF GetRecords
    <2>2. batch = {} /\ unwritten = {}
      BY <1>2, <2>1 DEF PlaceInv
    <2>3. page' \subseteq 1..pos' /\ pos' \in 0..Len(log')
      BY <1>1, <1>2, <1>6, GetRecordsSets DEF RecordsOf
    <2> QED
      BY <1>6, <2>2, <2>3, GetRecordsSets DEF WritingOK
  <1>7. CASE SubmitBatch
    <2>1. /\ batch' \subseteq page /\ unwritten' \subseteq batch'
          /\ UNCHANGED <<pos, page, done>>
      BY <1>7 DEF SubmitBatch, cycle
    <2> QED
      BY <1>2, <2>1 DEF WritingOK
  <1>8. CASE BatchOk
    <2>1. /\ page' = page \ batch /\ batch' = {} /\ done' = done + Cardinality(batch)
          /\ unwritten = {} /\ UNCHANGED <<pos, unwritten>>
      BY <1>8 DEF BatchOk, cycle
    <2> QED
      BY <1>2, <2>1, BatchIsFinite DEF WritingOK
  <1>9. ASSUME NEW n \in unwritten, WriteOne(n) PROVE WritingOK'
    <2>1. unwritten' = unwritten \ {n} /\ UNCHANGED <<pos, page, done, batch>>
      BY <1>9 DEF WriteOne, cycle
    <2> QED
      BY <1>2, <2>1 DEF WritingOK
  <1>10. GetFails \/ BatchFails \/ Stop =>
            pos' = 0 /\ page' = {} /\ batch' = {} /\ unwritten' = {} /\ done' = 0
    BY DEF GetFails, BatchFails, LeaveShard, Stop, NoBatch
  <1>11. PageDone => pos' \in {pos, 0} /\ page' = {} /\ batch' = {} /\ unwritten' = {} /\ done' = 0
    BY DEF PageDone, NoBatch
  <1>12. StartFromCheckpoint \/ StartAnew \/ SaveFirst \/ CopyDone => UNCHANGED <<pos, writing>>
    BY DEF StartFromCheckpoint, StartAnew, SaveFirst, CopyDone, cycle
  <1>13. (\E k \in Key : CopyRead(k) \/ CopyWrite(k)) => UNCHANGED <<pos, writing>>
    BY DEF CopyRead, CopyWrite, cycle
  <1>14. ListShards \/ CycleEnds => UNCHANGED <<pos, writing>>
    BY DEF ListShards, CycleEnds, cycle
  <1>15. Environment \/ UNCHANGED vars => UNCHANGED <<pos, writing>>
    BY EnvironmentOnly DEF program, vars, cycle
  <1> QED
    BY <1>3, <1>4, <1>5, <1>6, <1>7, <1>8, <1>9, <1>10, <1>11, <1>12, <1>13, <1>14, <1>15
       DEF Next, Program

LEMMA TargetStep ==
    ASSUME SourceOK, CopyOK, WritingOK, TargetOK, [Next]_vars, Grown PROVE TargetOK'
  <1>1. Len(log) \in Nat /\ Len(log') \in Nat /\ Len(log) <= Len(log')
    BY SourceStep DEF SourceOK, Grown
  <1>2. /\ target \in [Key -> 0..Len(log')] /\ seen \subseteq 1..Len(log')
        /\ \A k \in Key : target[k] \in 0..Len(log)
        /\ \A v \in 0..Len(log) : v \in 0..Len(log')
    BY <1>1 DEF TargetOK
  <1>3. batch \subseteq 1..Len(log') /\ unwritten \subseteq batch /\ page \subseteq 1..Len(log') /\ batch \subseteq 1..Len(log)
    BY <1>1 DEF WritingOK
  <1>4. CASE UNCHANGED <<target, seen>>
    BY <1>2, <1>4 DEF TargetOK
  <1>5. ASSUME NEW k \in Key, CopyWrite(k) PROVE TargetOK'
    <2>1. scanned[k] \in 0..Len(log)
      BY DEF CopyOK
    <2>2. ValueAfter(k, scanned[k]) \in 0..Len(log')
      BY <1>2, <2>1, ValueAfterType
    <2>3. target' = target \/ target' = [target EXCEPT ![k] = ValueAfter(k, scanned[k])]
      BY <1>5 DEF CopyWrite
    <2>4. seen' \subseteq seen \cup 1..scanned[k]
      BY <1>5 DEF CopyWrite
    <2>5. 1..scanned[k] \subseteq 1..Len(log')
      BY <1>1, <2>1
    <2>6. target' \in [Key -> 0..Len(log')]
      BY <1>2, <2>2, <2>3
    <2> QED
      BY <1>2, <2>4, <2>5, <2>6 DEF TargetOK
  <1>6. CASE SubmitBatch
    <2>1. target' = target /\ seen' \subseteq seen \cup page
      BY <1>6 DEF SubmitBatch
    <2> QED
      BY <1>2, <1>3, <2>1 DEF TargetOK
  <1>7. ASSUME NEW n \in unwritten, WriteOne(n) PROVE TargetOK'
    <2>1. /\ target' = [target EXCEPT ![log[n].key] = IF log[n].put THEN n ELSE None]
          /\ seen' = seen \cup {n}
      BY <1>7 DEF WriteOne
    <2>2. n \in 1..Len(log) /\ n \in 1..Len(log')
      BY <1>3
    <2>3. (IF log[n].put THEN n ELSE None) \in 0..Len(log')
      BY <1>1, <2>2 DEF None
    <2>4. target' \in [Key -> 0..Len(log')]
      BY <1>2, <2>1, <2>3
    <2> QED
      BY <1>2, <2>1, <2>2, <2>4 DEF TargetOK
  <1>8. StartFromCheckpoint \/ StartAnew \/ SaveFirst \/ CopyDone \/ Stop => UNCHANGED <<target, seen>>
    BY DEF StartFromCheckpoint, StartAnew, SaveFirst, CopyDone, Stop
  <1>9. (\E k \in Key : CopyRead(k)) => UNCHANGED <<target, seen>>
    BY DEF CopyRead
  <1>10. ListShards \/ PickShard \/ CycleEnds \/ GetFails \/ GetRecords => UNCHANGED <<target, seen>>
    BY DEF ListShards, PickShard, CycleEnds, GetFails, GetRecords, LeaveShard
  <1>11. BatchFails \/ BatchOk \/ PageDone => UNCHANGED <<target, seen>>
    BY DEF BatchFails, LeaveShard, BatchOk, PageDone
  <1>12. Environment \/ UNCHANGED vars => UNCHANGED <<target, seen>>
    BY EnvironmentOnly DEF program, vars
  <1> QED
    BY <1>4, <1>5, <1>6, <1>7, <1>8, <1>9, <1>10, <1>11, <1>12 DEF Next, Program
-----------------------------------------------------------------------------
(* The invariant: the table and its stream. *)

LEMMA TimeStep ==
    ASSUME SourceOK, ProgramOK, TimeInv, StartInv, [Next]_vars PROVE TimeInv'
  <1>1. Len(log) \in Nat /\ clock \in Nat /\ start \in Nat /\ cp.ts \in Nat
    BY Numbers
  <1>2. CASE UNCHANGED <<clock, log, start>>
    BY <1>2 DEF TimeInv
  <1>3. CASE Tick
    <2>1. clock' = clock + 1 /\ log' = log /\ start' = start
      BY <1>3 DEF Tick, checkpoint
    <2>2. /\ SecondOf(clock) <= SecondOf(clock + 1)
          /\ SecondOf(clock) \in Nat /\ SecondOf(clock + 1) \in Nat
      BY <1>1, SecondsGrow, SecondsType
    <2>3. \A n \in 1..Len(log) : log[n].time \in Nat
      BY RecordIs
    <2>4. start <= clock + 1
      BY <1>1 DEF TimeInv
    <2>5. \A n \in 1..Len(log) : log[n].time = SecondOf(log[n].time) /\ log[n].time <= SecondOf(clock + 1)
      BY <2>2, <2>3 DEF TimeInv
    <2>6. \A m, n \in 1..Len(log) : m <= n => log[m].time <= log[n].time
      BY DEF TimeInv
    <2> QED
      BY <2>1, <2>4, <2>5, <2>6, Zenon DEF TimeInv
  <1>4. ASSUME NEW k \in Key, NEW put \in BOOLEAN, Change(k, put) PROVE TimeInv'
    <2>1. PICK s \in 1..Len(shards) : Appended(k, put, s)
      BY <1>4, ChangeAppends
    <2>2. clock' = clock /\ start' = start
      BY <1>4 DEF Change, checkpoint
    <2>3. SecondOf(clock) \in Nat /\ SecondOf(SecondOf(clock)) = SecondOf(clock)
      BY <1>1, SecondsType, SecondsWhole
    <2>4. \A n \in 1..Len(log') : n \in 1..Len(log) \/ n = Len(log) + 1
      BY <1>1, <2>1 DEF Appended
    <2>5. log'[Len(log) + 1].time = SecondOf(clock)
      BY <2>1 DEF Appended
    <2>6. \A n \in 1..Len(log) : log'[n] = log[n] /\ log[n].time \in Nat
      BY <2>1, RecordIs DEF Appended
    <2>7. \A n \in 1..Len(log') : log'[n].time = SecondOf(log'[n].time) /\ log'[n].time <= SecondOf(clock)
      BY <2>3, <2>4, <2>5, <2>6 DEF TimeInv
    <2>8. ASSUME NEW m \in 1..Len(log'), NEW n \in 1..Len(log'), m <= n
          PROVE  log'[m].time <= log'[n].time
      <3>1. CASE n \in 1..Len(log)
        <4>1. m \in 1..Len(log)
          BY <1>1, <2>8, <3>1
        <4> QED
          BY <2>6, <2>8, <3>1, <4>1 DEF TimeInv
      <3>2. CASE n = Len(log) + 1
        BY <2>5, <2>7, <3>2
      <3> QED
        BY <2>4, <3>1, <3>2
    <2> QED
      BY <2>2, <2>7, <2>8, Zenon DEF TimeInv
  <1>5. CASE SaveFirst
    <2>1. clock' = clock /\ log' = log /\ start' = cp.ts /\ pc = "save"
      BY <1>5 DEF SaveFirst, source
    <2>2. cp.ts <= clock
      BY <2>1 DEF StartInv
    <2> QED
      BY <2>1, <2>2 DEF TimeInv
  <1>6. StartFromCheckpoint \/ StartAnew \/ CopyDone \/ Stop => UNCHANGED start
    BY DEF StartFromCheckpoint, StartAnew, CopyDone, Stop
  <1>7. (\E k \in Key : CopyRead(k) \/ CopyWrite(k)) => UNCHANGED start
    BY DEF CopyRead, CopyWrite, checkpoint
  <1>8. ListShards \/ PickShard \/ CycleEnds \/ GetFails \/ GetRecords => UNCHANGED start
    BY DEF ListShards, PickShard, CycleEnds, GetFails, GetRecords, LeaveShard, checkpoint
  <1>9. SubmitBatch \/ BatchFails \/ BatchOk \/ PageDone => UNCHANGED start
    BY DEF SubmitBatch, BatchFails, LeaveShard, BatchOk, PageDone, checkpoint
  <1>10. (\E n \in unwritten : WriteOne(n)) => UNCHANGED start
    BY DEF WriteOne, checkpoint
  <1>11. (\E s \in 1..Len(shards) : Roll(s)) => UNCHANGED <<clock, log, start>>
    BY DEF Roll, checkpoint
  <1>12. Program \/ UNCHANGED vars => UNCHANGED <<clock, log>>
    BY ProgramOnly DEF vars, source
  <1>13. UNCHANGED vars => UNCHANGED start
    BY DEF vars, checkpoint
  <1>14. CASE Program
    BY <1>2, <1>5, <1>6, <1>7, <1>8, <1>9, <1>10, <1>12, <1>14 DEF Program
  <1> QED
    BY <1>2, <1>3, <1>4, <1>11, <1>12, <1>13, <1>14 DEF Next, Environment

LEMMA ShardStep == ASSUME SourceOK, ShardInv, [Next]_vars PROVE ShardInv'
  <1>1. Len(log) \in Nat /\ Len(shards) \in Nat
    BY DEF SourceOK
  <1>2. CASE log' = log /\ shards' = shards
    BY <1>2 DEF ShardInv
  <1>3. ASSUME NEW k \in Key, NEW put \in BOOLEAN, Change(k, put), Cardinality(Lineage) = 1
        PROVE  ShardInv'
    <2>1. PICK s \in 1..Len(shards) : shards[s].open /\ Appended(k, put, s)
      BY <1>3, ChangeAppends
    <2>2. shards' = shards
      BY <1>3 DEF Change
    <2>3. s = Len(shards)
      BY <1>3, <2>1 DEF ShardInv
    <2>4. \A n \in 1..Len(log) : log'[n] = log[n] /\ log[n].shard \in 1..Len(shards)
      BY <2>1, RecordIs DEF Appended
    <2>5. \A n \in 1..Len(log') : n \in 1..Len(log) \/ (n = Len(log) + 1 /\ log'[n].shard = Len(shards))
      BY <1>1, <2>1, <2>3 DEF Appended
    <2>6. ASSUME NEW m \in 1..Len(log'), NEW n \in 1..Len(log'), m <= n
          PROVE  log'[m].shard <= log'[n].shard
      <3>1. CASE n \in 1..Len(log)
        <4>1. m \in 1..Len(log)
          BY <1>1, <2>6, <3>1
        <4> QED
          BY <1>3, <2>4, <2>6, <3>1, <4>1 DEF ShardInv
      <3>2. CASE n = Len(log) + 1 /\ log'[n].shard = Len(shards)
        BY <1>1, <2>4, <2>5, <3>2
      <3> QED
        BY <2>5, <3>1, <3>2
    <2> QED
      BY <1>3, <2>2, <2>6 DEF ShardInv
  <1>4. ASSUME NEW s \in 1..Len(shards), Roll(s), Cardinality(Lineage) = 1
        PROVE  ShardInv'
    <2>1. /\ Len(shards') = Len(shards) + 1
          /\ \A r \in 1..Len(shards) : shards'[r].open => shards[r].open /\ r # s
      BY <1>4, RollAppends
    <2>2. log' = log /\ shards[s].open
      BY <1>4 DEF Roll
    <2>3. ASSUME NEW r \in 1..Len(shards'), shards'[r].open PROVE r = Len(shards')
      <3>1. r \in 1..Len(shards) \/ r = Len(shards')
        BY <1>1, <2>1
      <3>2. CASE r \in 1..Len(shards)
        <4>1. shards[r].open /\ r # s
          BY <2>1, <2>3, <3>2
        <4>2. r = Len(shards) /\ s = Len(shards)
          BY <1>4, <2>2, <3>2, <4>1 DEF ShardInv
        <4> QED
          BY <4>1, <4>2
      <3> QED
        BY <3>1, <3>2
    <2> QED
      BY <1>4, <2>2, <2>3 DEF ShardInv
  <1>5. Program \/ UNCHANGED vars => UNCHANGED <<log, shards>>
    BY ProgramOnly DEF vars, source
  <1>6. Tick => UNCHANGED <<log, shards>>
    BY DEF Tick
  <1>7. Cardinality(Lineage) # 1 => ShardInv'
    BY DEF ShardInv
  <1> QED
    BY <1>2, <1>3, <1>4, <1>5, <1>6, <1>7 DEF Next, Environment
-----------------------------------------------------------------------------
(* The invariant: the checkpoint. *)

\* What StartInv says where the program is.
LEMMA StreamingIs ==
    ASSUME SourceOK, ProgramOK, StartInv, pc \in Streaming \cup {"copy"}
    PROVE  file.mode = "live"
  BY DEF StartInv, Streaming

LEMMA StartKept ==
    ASSUME SourceOK, ProgramOK, StartInv, UNCHANGED checkpoint, clock' = clock,
           \/ pc' = pc \/ (pc \in Streaming /\ pc' \in Streaming) \/ pc' = "idle",
           file.mode # "live" => UNCHANGED <<target, seen>>
    PROVE  StartInv'
  <1>1. cp' = cp /\ file' = file /\ start' = start
    BY DEF checkpoint
  <1>2. pc' \in Streaming => pc \in Streaming
    BY DEF Streaming
  <1>3. pc' \in {"save", "copy"} => pc' = pc
    BY DEF Streaming
  <1>4. /\ pc = "save" => file.mode # "live" /\ ~cp.complete /\ cp.ts <= clock
        /\ file.mode = "live" => start <= file.ts /\ (file.complete \/ file.ts = start)
        /\ pc = "copy" => ~cp.complete /\ ~file.complete /\ cp.ts = start
        /\ pc \in Streaming => cp.complete /\ file.ts <= cp.ts /\ start <= cp.ts
        /\ file.ts <= SecondOf(clock) \/ file.ts = start
        /\ pc \in Streaming => cp.ts <= SecondOf(clock) \/ cp.ts = start
    BY DEF StartInv
  <1>5. ASSUME file'.mode # "live"
        PROVE  /\ pc' \in {"idle", "save"} /\ ~file'.complete /\ seen' = {}
               /\ \A k \in Key : target'[k] = None
    BY <1>1, <1>2, <1>3, <1>5 DEF StartInv, Streaming
  <1> QED
    BY <1>1, <1>2, <1>3, <1>4, <1>5, Zenon DEF StartInv

LEMMA StartStep ==
    ASSUME SourceOK, ProgramOK, WritingOK, TimeInv, StartInv, [Next]_vars
    PROVE  StartInv'
  <1>1. /\ clock \in Nat /\ cp.ts \in Nat /\ file.ts \in Nat /\ start \in Nat
        /\ SecondOf(clock) \in Nat
        /\ cp.complete \in BOOLEAN /\ file.complete \in BOOLEAN
    BY Numbers, SecondsType
  <1>2. CASE Tick
    <2>1. UNCHANGED program /\ clock' = clock + 1
      BY <1>2 DEF Tick, program
    <2>2. SecondOf(clock) <= SecondOf(clock + 1) /\ SecondOf(clock + 1) \in Nat
      BY <1>1, SecondsGrow, SecondsType
    <2>3. UNCHANGED <<pc, cp, file, start, target, seen>>
      BY <2>1 DEF program, checkpoint
    <2>4. /\ file.ts <= SecondOf(clock + 1) \/ file.ts = start
          /\ pc \in Streaming => cp.ts <= SecondOf(clock + 1) \/ cp.ts = start
          /\ pc = "save" => file.mode # "live" /\ ~cp.complete /\ cp.ts <= clock + 1
      BY <1>1, <2>2 DEF StartInv
    <2>5. /\ file.mode # "live" =>
                pc \in {"idle", "save"} /\ ~file.complete /\ seen = {} /\ \A k \in Key : target[k] = None
          /\ file.mode = "live" => start <= file.ts /\ (file.complete \/ file.ts = start)
          /\ pc = "copy" => ~cp.complete /\ ~file.complete /\ cp.ts = start
          /\ pc \in Streaming => cp.complete /\ file.ts <= cp.ts /\ start <= cp.ts
      BY DEF StartInv
    <2> QED
      BY <2>1, <2>3, <2>4, <2>5, Zenon DEF StartInv
  <1>3. CASE StartFromCheckpoint
    <2>1. /\ file.mode = "live" /\ file' = file /\ start' = start /\ clock' = clock
          /\ cp' = [ts |-> file.ts, complete |-> file.complete]
          /\ \/ file.complete /\ pc' = "list"
             \/ ~file.complete /\ pc' = "copy"
      BY <1>3 DEF StartFromCheckpoint, source
    <2>2. cp'.ts = file.ts /\ cp'.complete = file.complete
      BY <2>1
    <2>3. /\ start <= file.ts /\ (file.complete \/ file.ts = start)
          /\ file.ts <= SecondOf(clock) \/ file.ts = start
      BY <2>1 DEF StartInv
    <2> HIDE <1>3
    <2>4. CASE file.complete /\ pc' = "list"
      BY <1>1, <2>1, <2>2, <2>3, <2>4 DEF StartInv, Streaming
    <2>5. CASE ~file.complete /\ pc' = "copy"
      BY <1>1, <2>1, <2>2, <2>3, <2>5 DEF StartInv, Streaming
    <2> QED
      BY <2>1, <2>4, <2>5
  <1>4. CASE StartAnew
    <2>1. /\ pc = "idle" /\ file.mode # "live" /\ pc' = "save"
          /\ cp' = [ts |-> clock, complete |-> FALSE]
          /\ file' = file \/ file' = [mode |-> "none", ts |-> 0, complete |-> FALSE]
          /\ UNCHANGED <<start, target, seen>> /\ clock' = clock
      BY <1>4 DEF StartAnew, source
    <2>2. cp'.ts = clock /\ cp'.complete = FALSE
      BY <2>1
    <2>3. /\ ~file.complete /\ seen = {} /\ (\A k \in Key : target[k] = None)
          /\ file.ts <= SecondOf(clock) \/ file.ts = start
      BY <2>1 DEF StartInv
    <2>4. /\ file'.mode # "live" /\ ~file'.complete
          /\ file'.ts <= SecondOf(clock) \/ file'.ts = start
      BY <1>1, <2>1, <2>3
    <2> QED
      BY <1>1, <2>1, <2>2, <2>3, <2>4 DEF StartInv, Streaming
  <1>5. CASE SaveFirst
    <2>1. pc = "save" /\ cp' = cp /\ Save /\ start' = cp.ts /\ pc' = "copy" /\ clock' = clock
      BY <1>5 DEF SaveFirst, source
    <2>2. ~cp.complete /\ cp \in Checkpoints
      BY <2>1 DEF StartInv, ProgramOK
    <2>3. file'.mode = "live" /\ file'.ts = cp.ts /\ file'.complete = cp.complete
      BY <2>1, <2>2, Saved
    <2> QED
      BY <1>1, <2>1, <2>2, <2>3 DEF StartInv, Streaming
  <1>6. CASE CopyDone
    <2>1. pc = "copy" /\ (Save \/ file' = file) /\ pc' = "list" /\ start' = start /\ clock' = clock
      BY <1>6 DEF CopyDone, source
    <2>2. cp' \in Checkpoints /\ cp'.ts = cp.ts /\ cp'.complete = TRUE
      BY <1>6, CopyDoneSets
    <2>3. file.mode = "live" /\ cp.ts = start /\ ~file.complete /\ start <= file.ts /\ file.ts = start
      BY <2>1, StreamingIs DEF StartInv
    <2>4. file'.mode = "live" /\ file'.ts = start /\ (file'.complete \/ file'.ts = start)
      BY <2>1, <2>2, <2>3, Saved
    <2> QED
      BY <1>1, <2>1, <2>2, <2>3, <2>4 DEF StartInv, Streaming
  <1>7. CASE BatchOk
    <2>1. pc = "write" /\ pc' = "batch" /\ start' = start /\ clock' = clock
      BY <1>7 DEF BatchOk, source
    <2>2. /\ cp.complete /\ file.ts <= cp.ts /\ start <= cp.ts /\ file.mode = "live"
          /\ cp.ts <= SecondOf(clock) \/ cp.ts = start
          /\ start <= file.ts /\ (file.complete \/ file.ts = start)
          /\ file.ts <= SecondOf(clock) \/ file.ts = start
      BY <2>1, StreamingIs DEF StartInv, Streaming
    <2>3. /\ cp'.complete
          /\ cp'.ts \in Nat /\ cp.ts <= cp'.ts
          /\ cp'.ts <= SecondOf(clock) \/ cp'.ts = start
      <3>1. cp'.complete
        BY <1>7, <2>2, BatchOkSets
      <3>2. CASE cp' = cp
        BY <1>1, <2>2, <3>1, <3>2
      <3>3. ASSUME NEW last \in batch, cp.ts < log[last].time, cp'.ts = log[last].time
            PROVE  cp'.ts \in Nat /\ cp.ts <= cp'.ts /\ cp'.ts <= SecondOf(clock)
        <4>1. last \in 1..Len(log)
          BY DEF WritingOK, SourceOK
        <4>2. log[last].time \in Nat /\ log[last].time <= SecondOf(clock)
          BY <4>1, RecordIs DEF TimeInv
        <4> QED
          BY <1>1, <3>3, <4>2
      <3> QED
        BY <1>7, <3>1, <3>2, <3>3, BatchOkSets
    <2>4. file' = file \/ (file'.mode = "live" /\ file'.ts = cp'.ts /\ file'.complete = cp'.complete)
      BY <1>7, BatchOkSets
    <2>5. CASE file' = file
      BY <1>1, <2>1, <2>2, <2>3, <2>5 DEF StartInv, Streaming
    <2>6. CASE file'.mode = "live" /\ file'.ts = cp'.ts /\ file'.complete = cp'.complete
      BY <1>1, <2>1, <2>2, <2>3, <2>6 DEF StartInv, Streaming
    <2> QED
      BY <2>4, <2>5, <2>6
  <1>8. CASE Stop
    <2>1. UNCHANGED <<source, file, start, target, seen>> /\ pc' = "idle"
      BY <1>8 DEF Stop
    <2> QED
      BY <2>1 DEF StartInv, Streaming, source
  <1>9. ASSUME NEW k \in Key, CopyRead(k) \/ CopyWrite(k) PROVE StartInv'
    <2>1. UNCHANGED <<checkpoint, pc, source>> /\ pc = "copy"
      BY <1>9 DEF CopyRead, CopyWrite
    <2> QED
      BY <2>1, StartKept, StreamingIs DEF source
  <1>10. CASE ListShards \/ PickShard \/ CycleEnds \/ GetFails \/ GetRecords
    <2>1. UNCHANGED <<checkpoint, source>> /\ pc \in Streaming /\ pc' \in Streaming
      BY <1>10 DEF ListShards, PickShard, CycleEnds, GetFails, GetRecords, LeaveShard, Streaming
    <2> QED
      BY <2>1, StartKept, StreamingIs DEF source
  <1>11. CASE SubmitBatch \/ BatchFails \/ PageDone
    <2>1. UNCHANGED <<checkpoint, source>> /\ pc \in Streaming /\ pc' \in Streaming
      BY <1>11 DEF SubmitBatch, BatchFails, LeaveShard, PageDone, Streaming
    <2> QED
      BY <2>1, StartKept, StreamingIs DEF source
  <1>12. ASSUME NEW n \in unwritten, WriteOne(n) PROVE StartInv'
    <2>1. UNCHANGED <<checkpoint, source, pc>> /\ pc \in Streaming
      BY <1>12 DEF WriteOne, Streaming
    <2> QED
      BY <2>1, StartKept, StreamingIs DEF source
  <1>13. CASE UNCHANGED <<program, clock>>
    BY <1>13, StartKept DEF program
  <1>14. Environment => Tick \/ UNCHANGED <<program, clock>>
    BY DEF Environment, Tick, Change, Roll, program
  <1>15. UNCHANGED vars => UNCHANGED <<program, clock>>
    BY DEF vars, program, source
  <1> QED
    BY <1>2, <1>3, <1>4, <1>5, <1>6, <1>7, <1>8, <1>9, <1>10, <1>11, <1>12, <1>13, <1>14, <1>15
       DEF Next, Program
-----------------------------------------------------------------------------
(* The invariant: the places in the stream. *)

LEMMA PlaceResting ==
    ASSUME PlaceInv, pc \notin Reading \cup {"pick", "copy"},
           UNCHANGED <<source, cycle, writing>>,
           pc' # "copy" => uncopied' = {},
           pc' \notin Reading
    PROVE  PlaceInv'
  <1>1. /\ page = {} /\ batch = {} /\ shard = NoShard /\ pos = 0 /\ ~atEnd
        /\ todo = {}
    BY DEF PlaceInv, Reading
  <1>2. page' = {} /\ batch' = {} /\ shard' = NoShard /\ pos' = 0 /\ ~atEnd' /\ todo' = {}
    BY <1>1 DEF cycle, writing
  <1> QED
    BY <1>2 DEF PlaceInv, Reading

LEMMA PlaceStep ==
    ASSUME SourceOK, CopyOK, CycleOK, WritingOK, PlaceInv, [Next]_vars
    PROVE  PlaceInv'
  <1>1. /\ Len(log) \in Nat /\ Len(shards) \in Nat
        /\ shard \in Nat /\ pos \in Nat /\ pos <= Len(log)
        /\ NoShard = 0 /\ page \subseteq 1..pos /\ batch \subseteq page
        /\ todo \subseteq 1..Len(shards)
    BY DEF SourceOK, CycleOK, WritingOK, NoShard
  <1>2. CASE UNCHANGED vars \/ Tick
    <2>1. UNCHANGED program /\ log' = log /\ shards' = shards
      BY <1>2 DEF vars, Tick, program, source
    <2> QED
      BY <2>1 DEF PlaceInv, program, copy, cycle, writing, RecordsOf
  <1>3. ASSUME NEW k \in Key, NEW put \in BOOLEAN, Change(k, put) PROVE PlaceInv'
    <2>1. PICK s \in 1..Len(shards) : shards[s].open /\ Appended(k, put, s)
      BY <1>3, ChangeAppends
    <2>2. UNCHANGED program /\ shards' = shards
      BY <1>3 DEF Change, program
    <2>3. UNCHANGED <<pc, page, batch, shard, pos, todo, uncopied, atEnd>>
      BY <2>2 DEF program, copy, cycle, writing
    <2>4. \A n \in page : n \in 1..Len(log') /\ log'[n].shard = shard
      BY <1>1, <2>1 DEF PlaceInv, RecordsOf, Appended
    <2>5. ASSUME atEnd, NEW n \in 1..Len(log'), log'[n].shard = shard PROVE n <= pos
      <3>1. n \in 1..Len(log) \/ n = Len(log) + 1
        BY <1>1, <2>1 DEF Appended
      <3>2. n # Len(log) + 1
        BY <2>1, <2>5 DEF PlaceInv, Appended
      <3>3. log[n].shard = shard /\ n \in 1..Len(log)
        BY <2>1, <2>5, <3>1, <3>2 DEF Appended
      <3> QED
        BY <2>5, <3>3 DEF PlaceInv, RecordsOf
    <2> QED
      BY <2>2, <2>3, <2>4, <2>5 DEF PlaceInv, RecordsOf
  <1>4. ASSUME NEW s \in 1..Len(shards), Roll(s) PROVE PlaceInv'
    <2>1. /\ Len(shards') = Len(shards) + 1
          /\ \A r \in 1..Len(shards) : shards'[r].open => shards[r].open /\ r # s
      BY <1>4, RollAppends
    <2>2. UNCHANGED program /\ log' = log
      BY <1>4 DEF Roll, program
    <2>3. UNCHANGED <<pc, page, batch, shard, pos, todo, uncopied, atEnd>>
      BY <2>2 DEF program, copy, cycle, writing
    <2>4. atEnd => ~shards'[shard].open
      <3>1. atEnd => pc \in Reading /\ ~shards[shard].open
        BY DEF PlaceInv
      <3>2. atEnd => shard \in 1..Len(shards)
        BY <3>1 DEF PlaceInv
      <3> QED
        BY <2>1, <3>1, <3>2
    <2>5. pc \in Reading => shard \in 1..Len(shards')
      BY <1>1, <2>1 DEF PlaceInv
    <2> QED
      BY <2>2, <2>3, <2>4, <2>5 DEF PlaceInv, RecordsOf
  <1>5. CASE StartFromCheckpoint
    <2>1. /\ pc = "idle" /\ pc' \in {"list", "copy"} /\ UNCHANGED <<source, cycle, writing>>
          /\ pc' = "list" => uncopied' = uncopied
      BY <1>5 DEF StartFromCheckpoint, copy
    <2>2. uncopied = {}
      BY <2>1 DEF PlaceInv
    <2> QED
      BY <2>1, <2>2, PlaceResting DEF Reading
  <1>6. CASE StartAnew
    <2>1. pc = "idle" /\ pc' = "save" /\ UNCHANGED <<source, cycle, writing, uncopied>>
      BY <1>6 DEF StartAnew, copy
    <2> QED
      BY <2>1, PlaceResting DEF Reading, PlaceInv
  <1>7. CASE SaveFirst
    <2>1. pc = "save" /\ pc' = "copy" /\ UNCHANGED <<source, cycle, writing>>
      BY <1>7 DEF SaveFirst
    <2> QED
      BY <2>1, PlaceResting DEF Reading
  <1>8. CASE \E k \in Key : CopyRead(k) \/ CopyWrite(k)
    <2>1. pc = "copy" /\ UNCHANGED <<pc, source, cycle, writing>>
      BY <1>8 DEF CopyRead, CopyWrite
    <2> QED
      BY <2>1 DEF PlaceInv, Reading, source, cycle, writing, RecordsOf
  <1>9. CASE CopyDone
    <2>1. pc = "copy" /\ pc' = "list" /\ uncopied' = {} /\ UNCHANGED <<source, cycle, writing>>
      BY <1>9 DEF CopyDone, copy
    <2> QED
      BY <2>1 DEF PlaceInv, Reading, source, cycle, writing, RecordsOf
  <1>10. CASE ListShards
    <2>1. pc = "list" /\ pc' = "pick" /\ UNCHANGED <<source, copy, shard, pos, atEnd, writing>>
      BY <1>10 DEF ListShards
    <2> QED
      BY <2>1 DEF PlaceInv, Reading, source, copy, writing, RecordsOf
  <1>11. CASE PickShard
    <2>1. /\ pc = "pick" /\ pc' = "get" /\ UNCHANGED <<source, copy, writing>>
          /\ shard' \in todo /\ pos' = 0 /\ ~atEnd'
      BY <1>11 DEF PickShard
    <2>2. page = {} /\ batch = {} /\ uncopied = {}
      BY <2>1 DEF PlaceInv
    <2>3. page' = {} /\ batch' = {} /\ uncopied' = {} /\ shard' \in 1..Len(shards')
      BY <1>1, <2>1, <2>2 DEF source, copy, writing
    <2> QED
      BY <2>1, <2>3 DEF PlaceInv, Reading
  <1>12. CASE CycleEnds
    <2>1. pc = "pick" /\ pc' = "list" /\ todo = {} /\ UNCHANGED <<source, copy, cycle, writing>>
      BY <1>12 DEF CycleEnds
    <2> QED
      BY <2>1 DEF PlaceInv, Reading, source, copy, cycle, writing, RecordsOf
  <1>13. CASE GetFails \/ BatchFails
    <2>1. /\ pc \in {"get", "write"} /\ pc' = "pick" /\ UNCHANGED <<source, copy, todo>>
          /\ shard' = NoShard /\ pos' = 0 /\ ~atEnd' /\ page' = {} /\ batch' = {}
      BY <1>13 DEF GetFails, BatchFails, LeaveShard, NoBatch
    <2>2. uncopied' = {}
      BY <2>1 DEF PlaceInv, copy
    <2> QED
      BY <2>1, <2>2 DEF PlaceInv, Reading
  <1>14. CASE GetRecords
    <2>1. /\ pc = "get" /\ pc' = "batch" /\ UNCHANGED <<source, copy, todo, shard, batch>>
          /\ page' \subseteq RecordsOf(shard)
          /\ atEnd' => ~shards[shard].open /\ \A n \in RecordsOf(shard) : n <= pos'
      <3>1. pc = "get" /\ UNCHANGED copy
        BY <1>14 DEF GetRecords
      <3> QED
        BY <1>14, <3>1, GetRecordsSets
    <2>2. batch = {} /\ uncopied = {} /\ shard \in 1..Len(shards) /\ todo = todo
      BY <2>1 DEF PlaceInv, Reading
    <2>3. log' = log /\ shards' = shards /\ shard' = shard /\ batch' = {} /\ uncopied' = {}
      BY <2>1, <2>2 DEF source, copy
    <2> QED
      BY <2>1, <2>2, <2>3 DEF PlaceInv, Reading, RecordsOf
  <1>15. CASE SubmitBatch
    <2>1. pc = "batch" /\ pc' = "write" /\ UNCHANGED <<source, copy, cycle, page>>
      BY <1>15 DEF SubmitBatch
    <2> QED
      BY <2>1 DEF PlaceInv, Reading, source, copy, cycle, RecordsOf
  <1>16. CASE \E n \in unwritten : WriteOne(n)
    <2>1. pc = "write" /\ UNCHANGED <<pc, source, copy, cycle, page, batch>>
      BY <1>16 DEF WriteOne
    <2> QED
      BY <2>1 DEF PlaceInv, Reading, source, copy, cycle, RecordsOf
  <1>17. CASE BatchOk
    <2>1. /\ pc = "write" /\ pc' = "batch" /\ UNCHANGED <<source, copy, cycle>>
          /\ page' = page \ batch /\ batch' = {}
      BY <1>17 DEF BatchOk
    <2> QED
      BY <2>1 DEF PlaceInv, Reading, source, copy, cycle, RecordsOf
  <1>18. CASE PageDone
    <2>1. /\ pc = "batch" /\ UNCHANGED <<source, copy, todo>>
          /\ page' = {} /\ batch' = {}
          /\ \/ pc' = "get" /\ UNCHANGED <<shard, pos, atEnd>>
             \/ pc' = "pick" /\ shard' = NoShard /\ pos' = 0 /\ ~atEnd'
      BY <1>18 DEF PageDone, NoBatch
    <2>2. uncopied' = {} /\ log' = log /\ shards' = shards
      BY <2>1 DEF PlaceInv, copy, source
    <2> QED
      BY <2>1, <2>2 DEF PlaceInv, Reading, RecordsOf
  <1>19. CASE Stop
    <2>1. /\ pc' = "idle" /\ uncopied' = {} /\ todo' = {} /\ shard' = NoShard /\ pos' = 0
          /\ ~atEnd' /\ page' = {} /\ batch' = {}
      BY <1>19 DEF Stop, NoBatch
    <2> QED
      BY <2>1 DEF PlaceInv, Reading
  <1> QED
    BY <1>2, <1>3, <1>4, <1>5, <1>6, <1>7, <1>8, <1>9, <1>10, <1>11, <1>12, <1>13, <1>14, <1>15,
       <1>16, <1>17, <1>18, <1>19 DEF Next, Environment, Program

\* Once the stream is not read in order it never is again.
LEMMA OrderKept ==
    ASSUME SourceOK, [Next]_vars, ReadInOrder' PROVE ReadInOrder
  <1>1. CASE brokeOff' = brokeOff /\ shards' = shards
    BY <1>1 DEF ReadInOrder
  <1>2. CASE UNCHANGED source /\ (brokeOff => brokeOff')
    <2>1. shards' = shards
      BY <1>2 DEF source
    <2> QED
      BY <1>2, <2>1 DEF ReadInOrder
  <1>3. ASSUME NEW s \in 1..Len(shards), Roll(s) PROVE ReadInOrder
    <2>1. Len(shards) \in Nat /\ Len(shards') = Len(shards) + 1
      BY <1>3, RollAppends DEF SourceOK
    <2>2. Len(shards') # 1
      BY <2>1
    <2>3. brokeOff' = brokeOff
      BY <1>3 DEF Roll
    <2> QED
      BY <2>2, <2>3 DEF ReadInOrder
  <1>4. Tick \/ (\E k \in Key, put \in BOOLEAN : Change(k, put)) => brokeOff' = brokeOff /\ shards' = shards
    BY DEF Tick, Change
  <1>5. StartFromCheckpoint \/ StartAnew \/ SaveFirst \/ CopyDone \/ Stop => UNCHANGED brokeOff
    BY DEF StartFromCheckpoint, StartAnew, SaveFirst, CopyDone, Stop
  <1>6. (\E k \in Key : CopyRead(k) \/ CopyWrite(k)) => UNCHANGED brokeOff
    BY DEF CopyRead, CopyWrite
  <1>7. ListShards \/ GetFails \/ BatchFails => (brokeOff => brokeOff')
    BY DEF ListShards, GetFails, BatchFails
  <1>8. PickShard \/ CycleEnds \/ GetRecords \/ SubmitBatch \/ BatchOk \/ PageDone => UNCHANGED brokeOff
    BY DEF PickShard, CycleEnds, GetRecords, SubmitBatch, BatchOk, PageDone
  <1>9. (\E n \in unwritten : WriteOne(n)) => UNCHANGED brokeOff
    BY DEF WriteOne
  <1>10. Program => UNCHANGED source /\ (brokeOff => brokeOff')
    BY ProgramOnly, <1>5, <1>6, <1>7, <1>8, <1>9, Zenon DEF Program
  <1>11. UNCHANGED vars => brokeOff' = brokeOff /\ shards' = shards
    BY DEF vars, source
  <1> QED
    BY <1>1, <1>2, <1>3, <1>4, <1>10, <1>11 DEF Next, Environment

LEMMA CycleInvStep ==
    ASSUME SourceOK, CycleOK, PlaceInv, CycleInv, [Next]_vars PROVE CycleInv'
  <1>1. /\ Len(shards) \in Nat /\ shard \in Nat /\ NoShard = 0
        /\ todo \subseteq 1..Len(shards) /\ \A s \in todo : s \in Nat
    BY DEF SourceOK, CycleOK, NoShard
  <1>2. ReadInOrder => InOrder
    BY DEF CycleInv
  <1>3. ReadInOrder' => ReadInOrder
    BY OrderKept
  <1>4. CASE UNCHANGED <<todo, shard, sorted, shards>> /\ (brokeOff => brokeOff')
    <2>1. UNCHANGED InOrder
      BY <1>4 DEF InOrder
    <2>2. sorted' \/ brokeOff'
      BY <1>4 DEF CycleInv
    <2> QED
      BY <1>2, <1>3, <2>1, <2>2 DEF CycleInv
  <1>5. ASSUME NEW s \in 1..Len(shards), Roll(s) PROVE CycleInv'
    <2>1. Len(shards') = Len(shards) + 1 /\ UNCHANGED <<cycle, brokeOff>>
      BY <1>5, RollAppends DEF Roll
    <2>2. UNCHANGED <<todo, shard, sorted, brokeOff>>
      BY <2>1 DEF cycle
    <2>3. ASSUME InOrder PROVE InOrder'
      <3>1. \A q \in todo, r \in 1..(Len(shards) + 1) : r < q => r \in 1..Len(shards)
        BY <1>1
      <3> QED
        BY <2>1, <2>2, <2>3, <3>1 DEF InOrder
    <2> QED
      BY <1>2, <1>3, <2>2, <2>3 DEF CycleInv
  <1>6. CASE ListShards
    <2>1. /\ todo' = 1..Len(shards) /\ UNCHANGED <<shard, shards>> /\ pc = "list"
          /\ sorted' \in BOOLEAN /\ brokeOff' = (brokeOff \/ ~sorted')
      BY <1>6 DEF ListShards, source
    <2>2. shard = NoShard
      BY <2>1 DEF PlaceInv, Reading
    <2>3. InOrder'
      BY <1>1, <2>1, <2>2 DEF InOrder
    <2>4. sorted' \/ brokeOff'
      BY <2>1
    <2> QED
      BY <2>3, <2>4 DEF CycleInv
  <1>7. CASE PickShard
    <2>1. /\ shard' \in todo /\ todo' = todo \ {shard'} /\ IsNext(shard')
          /\ UNCHANGED <<sorted, shards, brokeOff>> /\ pc = "pick"
      BY <1>7 DEF PickShard, source
    <2>2. shard = NoShard
      BY <2>1 DEF PlaceInv, Reading
    <2>3. ASSUME ReadInOrder PROVE InOrder'
      <3>1. CASE Len(shards) = 1
        <4>1. todo' = {}
          BY <1>1, <2>1, <3>1
        <4> QED
          BY <4>1 DEF InOrder
      <3>2. CASE Len(shards) # 1
        <4>1. sorted
          BY <2>3, <3>2 DEF CycleInv, ReadInOrder
        <4>2. \A q \in todo : shard' <= q
          BY <2>1, <4>1 DEF IsNext
        <4>3. \A q \in todo' : shard' < q
          BY <1>1, <2>1, <4>2
        <4>4. ASSUME NEW q \in todo', NEW r \in 1..Len(shards), shard' < r, r < q
              PROVE  r \in todo'
          <5>1. q \in todo /\ 0 < r
            BY <2>1
          <5>2. r \in todo \/ \A p \in todo : r < p
            BY <1>1, <1>2, <2>2, <2>3, <4>4, <5>1 DEF InOrder
          <5>3. ~ (r < shard')
            BY <1>1, <2>1, <4>4
          <5>4. r \in todo
            BY <2>1, <5>2, <5>3
          <5> QED
            BY <1>1, <2>1, <4>4, <5>4
        <4> QED
          BY <2>1, <4>3, <4>4 DEF InOrder
      <3> QED
        BY <3>1, <3>2
    <2>4. sorted' \/ brokeOff'
      BY <2>1 DEF CycleInv
    <2> QED
      BY <1>3, <2>3, <2>4 DEF CycleInv
  <1>8. CASE /\ UNCHANGED <<todo, sorted, shards>> /\ shard' = NoShard
             /\ pc \in Reading /\ (brokeOff => brokeOff')
    <2>1. ASSUME InOrder PROVE InOrder'
      <3>1. shard # NoShard
        BY <1>1, <1>8 DEF PlaceInv
      <3>2. \A s \in todo : NoShard < s
        BY <1>1
      <3>3. ASSUME NEW s \in todo, NEW r \in 1..Len(shards), r < s
            PROVE  r \in todo \/ \A q \in todo : r < q
        <4>1. CASE shard < r
          BY <2>1, <3>1, <3>3, <4>1 DEF InOrder
        <4>2. CASE r <= shard
          BY <1>1, <2>1, <4>2 DEF InOrder
        <4> QED
          BY <1>1, <4>1, <4>2
      <3> QED
        BY <1>8, <3>2, <3>3 DEF InOrder
    <2>2. sorted' \/ brokeOff'
      BY <1>8 DEF CycleInv
    <2> QED
      BY <1>2, <1>3, <2>1, <2>2 DEF CycleInv
  <1>9. CASE Stop
    <2>1. todo' = {} /\ sorted' = TRUE
      BY <1>9 DEF Stop
    <2> QED
      BY <2>1 DEF CycleInv, InOrder
  <1>10. CASE GetFails \/ BatchFails
    BY <1>8, <1>10 DEF GetFails, BatchFails, LeaveShard, source, Reading
  <1>11. CASE PageDone
    BY <1>4, <1>8, <1>11 DEF PageDone, source, Reading
  <1>12. StartFromCheckpoint \/ StartAnew \/ SaveFirst \/ CopyDone \/ CycleEnds =>
            UNCHANGED <<todo, shard, sorted, brokeOff>>
    BY DEF StartFromCheckpoint, StartAnew, SaveFirst, CopyDone, CycleEnds, cycle
  <1>13. (\E k \in Key : CopyRead(k) \/ CopyWrite(k)) => UNCHANGED <<todo, shard, sorted, brokeOff>>
    BY DEF CopyRead, CopyWrite, cycle
  <1>14. GetRecords \/ SubmitBatch \/ BatchOk => UNCHANGED <<todo, shard, sorted, brokeOff>>
    BY DEF GetRecords, SubmitBatch, BatchOk, cycle
  <1>15. (\E n \in unwritten : WriteOne(n)) => UNCHANGED <<todo, shard, sorted, brokeOff>>
    BY DEF WriteOne, cycle
  <1>16. Program => shards' = shards
    BY ProgramOnly DEF source
  <1>17. Tick \/ (\E k \in Key, put \in BOOLEAN : Change(k, put)) \/ UNCHANGED vars =>
            UNCHANGED <<todo, shard, sorted, brokeOff, shards>>
    BY DEF Tick, Change, vars, cycle, source
  <1>18. CASE Program
    BY <1>4, <1>6, <1>7, <1>9, <1>10, <1>11, <1>12, <1>13, <1>14, <1>15, <1>16, <1>18 DEF Program
  <1> QED
    BY <1>4, <1>5, <1>17, <1>18 DEF Next, Environment
-----------------------------------------------------------------------------
(* The invariant: the page and its batch. *)

LEMMA PageStep ==
    ASSUME SourceOK, ProgramOK, CopyOK, CycleOK, WritingOK, TimeInv, StartInv, PlaceInv, PageInv,
           [Next]_vars
    PROVE  PageInv'
  <1>1. /\ Len(log) \in Nat /\ Len(shards) \in Nat
        /\ shard \in Nat /\ pos \in Nat /\ pos <= Len(log)
        /\ page \subseteq 1..Len(log) /\ batch \subseteq page /\ unwritten \subseteq batch
        /\ cp.ts \in Nat
        /\ \A n \in page : n \in Nat /\ n <= pos
    <2>1. Len(log) \in Nat /\ Len(shards) \in Nat /\ cp.ts \in Nat
      BY Numbers
    <2>2. shard \in Nat
      BY <2>1 DEF CycleOK
    <2>3. /\ pos \in Nat /\ pos <= Len(log) /\ page \subseteq 1..pos
          /\ batch \subseteq page /\ unwritten \subseteq batch
      BY <2>1 DEF WritingOK
    <2>4. page \subseteq 1..Len(log) /\ \A n \in page : n \in Nat /\ n <= pos
      BY <2>1, <2>3
    <2> QED
      BY <2>1, <2>2, <2>3, <2>4
  <1>2. PlaceInv'
    BY PlaceStep
  <1>3. CASE pc' \notin {"batch", "write"}
    <2>1. page' = {} /\ batch' = {}
      BY <1>2, <1>3 DEF PlaceInv
    <2> QED
      BY <2>1 DEF PageInv
  <1>4. CASE UNCHANGED <<cp, log, page, shard, pos, batch, unwritten, mixed, seen>>
    BY <1>4 DEF PageInv, RecordsOf
  <1>5. ASSUME NEW k \in Key, NEW put \in BOOLEAN, Change(k, put) PROVE PageInv'
    <2>1. PICK s \in 1..Len(shards) : Appended(k, put, s)
      BY <1>5, ChangeAppends
    <2>2. UNCHANGED program
      BY <1>5 DEF Change, program
    <2>3. UNCHANGED <<cp, page, shard, pos, batch, unwritten, mixed, seen>>
      BY <2>2 DEF program, cycle, writing, checkpoint
    <2>4. \A n \in 1..Len(log) : log'[n] = log[n]
      BY <2>1 DEF Appended
    <2>5. \A m \in 1..Len(log') : m <= pos => m \in 1..Len(log)
      BY <1>1
    <2>6. \A n \in page : n \in 1..Len(log) /\ log'[n] = log[n]
      BY <1>1, <2>4
    <2>7. \A n \in page : log'[n].time >= cp.ts
      BY <2>6 DEF PageInv
    <2>8. ASSUME NEW m \in 1..Len(log'), log'[m].shard = shard, NEW n \in page, m <= pos, m \notin page
          PROVE  m < n \/ log'[m].time < cp.ts
      <3>1. m \in 1..Len(log) /\ log'[m] = log[m]
        BY <2>4, <2>5, <2>8
      <3>2. m \in RecordsOf(shard)
        BY <2>8, <3>1 DEF RecordsOf
      <3> QED
        BY <2>8, <3>1, <3>2 DEF PageInv
    <2>9. \A m, n \in batch : m # n /\ log'[m].key = log'[n].key => log'[m].key \in mixed
      BY <1>1, <2>6 DEF PageInv
    <2>10. (\A m \in batch, n \in page \ batch : m < n) /\ batch \ unwritten \subseteq seen
      BY DEF PageInv
    <2> QED
      BY <2>3, <2>7, <2>8, <2>9, <2>10 DEF PageInv, RecordsOf
  <1>6. CASE GetRecords
    <2>1. pc = "get" /\ UNCHANGED <<mixed, seen>>
      BY <1>6 DEF GetRecords
    <2>2. batch = {} /\ unwritten = {}
      BY <1>1, <2>1 DEF PlaceInv
    <2>3. /\ page' = {n \in RecordsOf(shard) : pos < n /\ n <= pos' /\ log[n].time >= cp.ts}
          /\ UNCHANGED <<log, cp, shard, batch, unwritten>> /\ pos' \in Nat
      BY <1>1, <1>6, GetRecordsSets DEF source, checkpoint
    <2>4. \A n \in RecordsOf(shard) : n \in Nat /\ log[n].time \in Nat
      BY RecordIs DEF RecordsOf
    <2>5. ASSUME NEW m \in RecordsOf(shard), NEW n \in page', m <= pos', m \notin page'
          PROVE  m < n \/ log[m].time < cp.ts
      <3>1. pos < n /\ n \in Nat /\ m \in Nat
        BY <2>3, <2>4
      <3>2. CASE m <= pos
        BY <1>1, <3>1, <3>2
      <3>3. CASE pos < m
        BY <1>1, <2>3, <2>4, <2>5, <3>3
      <3> QED
        BY <1>1, <3>1, <3>2, <3>3
    <2>6. \A n \in page' : log[n].time >= cp.ts
      BY <2>3
    <2> QED
      BY <2>2, <2>3, <2>5, <2>6 DEF PageInv, RecordsOf
  <1>7. CASE SubmitBatch
    <2>1. PICK records \in SUBSET page :
              /\ IsNextBatch(records)
              /\ batch' = records
              /\ LET skipped == {n \in records : log[n].put /\ log[n].key \in Bad} IN
                  /\ unwritten' = records \ skipped
                  /\ seen' = seen \cup skipped
              /\ mixed' = mixed \cup {k \in Key : \E m, n \in records :
                                        m # n /\ log[m].key = k /\ log[n].key = k}
      BY <1>7 DEF SubmitBatch
    <2>2. UNCHANGED <<cp, log, page, shard, pos>>
      BY <1>7 DEF SubmitBatch, source, checkpoint, cycle
    <2>3. \A m \in batch', n \in page \ batch' : m < n
      BY <2>1 DEF IsNextBatch
    <2>4. batch' \ unwritten' \subseteq seen'
      BY <2>1
    <2>5. ASSUME NEW m \in batch', NEW n \in batch', m # n, log[m].key = log[n].key
          PROVE  log[m].key \in mixed'
      <3>1. m \in 1..Len(log)
        BY <1>1, <2>1
      <3>2. log[m].key \in Key
        BY <3>1, RecordIs
      <3> QED
        BY <2>1, <2>5, <3>2
    <2>6. /\ \A n \in page : log[n].time >= cp.ts
          /\ \A m \in RecordsOf(shard), n \in page : m <= pos /\ m \notin page => m < n \/ log[m].time < cp.ts
      BY DEF PageInv
    <2> QED
      BY <2>2, <2>3, <2>4, <2>5, <2>6 DEF PageInv, RecordsOf
  <1>8. ASSUME NEW n \in unwritten, WriteOne(n) PROVE PageInv'
    <2>1. UNCHANGED <<cp, log, page, shard, pos, batch, mixed>>
      BY <1>8 DEF WriteOne, source, checkpoint, cycle
    <2>2. unwritten' = unwritten \ {n} /\ seen' = seen \cup {n}
      BY <1>8 DEF WriteOne
    <2> QED
      BY <2>1, <2>2 DEF PageInv, RecordsOf
  <1>9. CASE BatchOk
    <2>1. UNCHANGED <<log, shard, pos>> /\ page' = page \ batch /\ batch' = {}
      BY <1>9 DEF BatchOk, source, cycle
    <2>2. \A n \in 1..Len(log) : n \in Nat /\ log[n].time \in Nat
      BY RecordIs
    <2>3. cp'.ts \in Nat /\ cp.ts <= cp'.ts /\ \A n \in page' : log[n].time >= cp'.ts
      <3>1. CASE cp' = cp
        BY <1>1, <2>1, <3>1 DEF PageInv
      <3>2. ASSUME NEW last \in batch, cp.ts < log[last].time, cp'.ts = log[last].time
            PROVE  cp'.ts \in Nat /\ cp.ts <= cp'.ts /\ \A n \in page' : log[n].time >= cp'.ts
        <4>1. \A n \in page' : last < n
          BY <2>1 DEF PageInv
        <4>2. \A n \in page' : n \in 1..Len(log) /\ last \in 1..Len(log) /\ last <= n
          BY <1>1, <2>1, <4>1
        <4>3. \A n \in page' : log[last].time <= log[n].time
          BY <4>2 DEF TimeInv
        <4> QED
          BY <1>1, <2>1, <2>2, <3>2, <4>3
      <3> QED
        BY <1>9, <3>1, <3>2, BatchOkSets
    <2>4. ASSUME NEW m \in RecordsOf(shard), NEW n \in page', m <= pos, m \notin page'
          PROVE  m < n \/ log[m].time < cp'.ts
      <3>1. CASE m \in batch
        BY <2>1, <3>1 DEF PageInv
      <3>2. CASE m \notin page
        <4>1. m < n \/ log[m].time < cp.ts
          BY <2>1, <2>4, <3>2 DEF PageInv
        <4>2. log[m].time \in Nat
          BY <2>2 DEF RecordsOf
        <4> QED
          BY <1>1, <2>3, <4>1, <4>2
      <3> QED
        BY <2>1, <2>4, <3>1, <3>2
    <2> QED
      BY <2>1, <2>3, <2>4 DEF PageInv, RecordsOf
  <1>10. StartFromCheckpoint \/ StartAnew \/ SaveFirst \/ CopyDone \/ Stop => pc' \notin {"batch", "write"}
    BY DEF StartFromCheckpoint, StartAnew, SaveFirst, CopyDone, Stop
  <1>11. (\E k \in Key : CopyRead(k) \/ CopyWrite(k)) => pc' \notin {"batch", "write"}
    BY DEF CopyRead, CopyWrite
  <1>12. ListShards \/ PickShard \/ CycleEnds \/ GetFails \/ BatchFails \/ PageDone => pc' \notin {"batch", "write"}
    BY DEF ListShards, PickShard, CycleEnds, GetFails, BatchFails, LeaveShard, PageDone
  <1>13. Tick \/ (\E s \in 1..Len(shards) : Roll(s)) \/ UNCHANGED vars =>
            UNCHANGED <<cp, log, page, shard, pos, batch, unwritten, mixed, seen>>
    BY DEF Tick, Roll, vars, source, checkpoint, cycle, writing
  <1> QED
    BY <1>3, <1>4, <1>5, <1>6, <1>7, <1>8, <1>9, <1>10, <1>11, <1>12, <1>13
       DEF Next, Environment, Program
-----------------------------------------------------------------------------
(* The invariant: the copy. *)

LEMMA EarlySeenKept ==
    ASSUME NEW k \in Key, EarlySeen(k), log' = log, start' = start, seen \subseteq seen'
    PROVE  EarlySeen(k)'
  BY DEF EarlySeen, Early

LEMMA PlacedKept ==
    ASSUME NEW k \in Key, Placed(k), log' = log, start' = start, seen \subseteq seen',
           target'[k] = target[k]
    PROVE  Placed(k)'
  <1>1. ASSUME target'[k] # None
        PROVE  /\ EarlySeen(k)'
               /\ log'[target'[k]].key = k /\ log'[target'[k]].put
               /\ \A n \in 1..Len(log') : log'[n].key = k /\ Early(n)' => n <= target'[k]
    <2>1. /\ EarlySeen(k)
          /\ log[target[k]].key = k /\ log[target[k]].put
          /\ \A n \in 1..Len(log) : log[n].key = k /\ Early(n) => n <= target[k]
      BY <1>1 DEF Placed
    <2>2. EarlySeen(k)'
      BY <2>1, EarlySeenKept
    <2>3. \A n \in 1..Len(log) : Early(n)' => Early(n)
      BY DEF Early
    <2> QED
      BY <2>1, <2>2, <2>3, Zenon
  <1> QED
    BY <1>1 DEF Placed

\* The record of a change is not made before replication started.
LEMMA NewIsLate ==
    ASSUME SourceOK, ProgramOK, TimeInv, NEW k \in Key, NEW put \in BOOLEAN, Change(k, put)
    PROVE  \A n \in 1..Len(log') : Early(n)' => n \in 1..Len(log) /\ Early(n)
  <1>1. PICK s \in 1..Len(shards) : Appended(k, put, s)
    BY ChangeAppends
  <1>2. start' = start /\ start <= clock /\ start \in Nat /\ clock \in Nat /\ Len(log) \in Nat
    BY Numbers DEF Change, checkpoint, TimeInv
  <1>3. SecondOf(start) <= SecondOf(clock) /\ SecondOf(start) \in Nat /\ SecondOf(clock) \in Nat
    BY <1>2, SecondsGrow, SecondsType
  <1>4. SecondOf(start)' = SecondOf(start)
    BY <1>2 DEF SecondOf
  <1>5. ASSUME NEW n \in 1..Len(log'), Early(n)' PROVE n \in 1..Len(log) /\ Early(n)
    <2>1. n \in 1..Len(log) \/ n = Len(log) + 1
      BY <1>1, <1>2 DEF Appended
    <2>2. log'[n].time < SecondOf(start)
      BY <1>4, <1>5 DEF Early
    <2>3. n # Len(log) + 1
      BY <1>1, <1>3, <2>2 DEF Appended
    <2> QED
      BY <1>1, <2>1, <2>2, <2>3 DEF Appended, Early
  <1> QED
    BY <1>5

LEMMA CopyInvChange ==
    ASSUME SourceOK, ProgramOK, CopyOK, TargetOK, TimeInv, CopyInv,
           NEW k \in Key, NEW put \in BOOLEAN, Change(k, put)
    PROVE  CopyInv'
  <1>1. PICK s \in 1..Len(shards) : Appended(k, put, s)
    BY ChangeAppends
  <1>2. \A n \in 1..Len(log') : Early(n)' => n \in 1..Len(log) /\ Early(n)
    BY NewIsLate
  <1>3. UNCHANGED <<pc, file, target, seen, unread, uncopied, scanned>>
    BY DEF Change, checkpoint, copy
  <1>4. \A n \in 1..Len(log) : log'[n] = log[n]
    BY <1>1 DEF Appended
  <1>5. ASSUME NEW q \in Key, EarlySeen(q) PROVE EarlySeen(q)'
    BY <1>2, <1>3, <1>4, <1>5 DEF EarlySeen
  <1>6. ASSUME NEW q \in Key PROVE Placed(q)'
    <2>1. target'[q] = target[q]
      BY <1>3
    <2>2. CASE target[q] # None
      <3>1. /\ EarlySeen(q)
            /\ log[target[q]].key = q /\ log[target[q]].put
            /\ \A n \in 1..Len(log) : log[n].key = q /\ Early(n) => n <= target[q]
        BY <2>2 DEF CopyInv, Placed
      <3>2. target[q] \in 1..Len(log)
        <4>1. target[q] \in 0..Len(log) /\ Len(log) \in Nat
          BY DEF TargetOK, SourceOK
        <4> QED
          BY <2>2, <4>1 DEF None
      <3>3. log'[target[q]] = log[target[q]]
        BY <1>4, <3>2
      <3>4. \A n \in 1..Len(log') : log'[n].key = q /\ Early(n)' => n <= target[q]
        BY <1>2, <1>4, <3>1
      <3>5. EarlySeen(q)'
        BY <1>5, <3>1
      <3> QED
        BY <2>1, <3>1, <3>3, <3>4, <3>5, Zenon DEF Placed
    <2>3. CASE target[q] = None
      BY <2>1, <2>3 DEF Placed
    <2> QED
      BY <2>2, <2>3
  <1>7. ASSUME pc' = "copy", NEW q \in Key
        PROVE  /\ q \in uncopied' \ unread' => \A n \in 1..Len(log') : Early(n)' => n <= scanned'[q]
               /\ q \notin uncopied' => EarlySeen(q)'
    BY <1>2, <1>3, <1>5, <1>7 DEF CopyInv
  <1>8. ASSUME pc' \in Streaming \/ file'.complete, NEW q \in Key PROVE EarlySeen(q)'
    BY <1>3, <1>5, <1>8 DEF CopyInv
  <1> QED
    BY <1>6, <1>7, <1>8 DEF CopyInv

LEMMA CopyInvWrite ==
    ASSUME SourceOK, ProgramOK, CopyOK, TargetOK, StartInv, CopyInv, NEW k \in Key, CopyWrite(k)
    PROVE  CopyInv'
  <1> DEFINE value == ValueAfter(k, scanned[k])
             wanted == {n \in 1..scanned[k] : log[n].key = k}
  <1>1. /\ pc = "copy" /\ k \in uncopied \ unread /\ uncopied' = uncopied \ {k}
        /\ target' = IF value = None \/ k \in Bad THEN target ELSE [target EXCEPT ![k] = value]
        /\ seen' = IF target'[k] # value /\ k \notin Bad THEN seen ELSE seen \cup wanted
        /\ scanned' = [scanned EXCEPT ![k] = 0]
        /\ UNCHANGED <<log, pc, file, start, unread>>
    BY DEF CopyWrite, checkpoint, source
  <1>2. /\ scanned[k] \in 0..Len(log) /\ target[k] \in 0..Len(log) /\ target \in [Key -> 0..Len(log)]
        /\ Len(log) \in Nat /\ scanned \in [Key -> 0..Len(log)]
    BY DEF CopyOK, TargetOK, SourceOK
  <1>3. \A n \in 1..Len(log) : Early(n) => n <= scanned[k]
    BY <1>1 DEF CopyInv
  <1>4. ~file.complete /\ file' = file
    BY <1>1 DEF StartInv
  <1>5. seen \subseteq seen'
    BY <1>1
  <1>6. \A n \in 1..Len(log) : log[n].key = k /\ Early(n) => n \in wanted
    BY <1>2, <1>3
  <1> HIDE DEF value, wanted
  <1>7. EarlySeen(k)'
    <2>1. CASE target'[k] # value /\ k \notin Bad
      <3>1. target'[k] = target[k] /\ target[k] # None
        BY <1>1, <1>2, <2>1
      <3>2. EarlySeen(k)
        BY <3>1 DEF CopyInv, Placed
      <3> QED
        BY <1>1, <1>5, <3>2, EarlySeenKept
    <2>2. CASE ~ (target'[k] # value /\ k \notin Bad)
      <3>1. wanted \subseteq seen'
        BY <1>1, <2>2
      <3> QED
        BY <1>1, <1>6, <3>1 DEF EarlySeen, Early
    <2> QED
      BY <2>1, <2>2
  <1>8. Placed(k)'
    <2>1. CASE target' = target
      BY <1>1, <1>5, <2>1, PlacedKept DEF CopyInv
    <2>2. CASE value # None /\ target' = [target EXCEPT ![k] = value]
      <3>1. target'[k] = value
        BY <1>2, <2>2
      <3>2. PICK i \in 1..scanned[k] :
                /\ log[i].key = k /\ value = Value(i)
                /\ \A j \in 1..scanned[k] : log[j].key = k => j <= i
        BY <1>2, <2>2, ValueAfterIs DEF value
      <3>3. value = i /\ log[i].put
        BY <2>2, <3>2 DEF Value
      <3>4. \A n \in 1..Len(log) : log[n].key = k /\ Early(n) => n <= i
        BY <1>6, <3>2 DEF wanted
      <3>5. \A n \in 1..Len(log) : Early(n)' => Early(n)
        BY <1>1 DEF Early
      <3> QED
        BY <1>1, <1>7, <3>1, <3>2, <3>3, <3>4, <3>5, Zenon DEF Placed
    <2> QED
      BY <1>1, <2>1, <2>2
  <1>9. ASSUME NEW q \in Key, q # k PROVE Placed(q)' /\ (EarlySeen(q) => EarlySeen(q)')
    <2>1. target'[q] = target[q]
      BY <1>1, <1>2, <1>9
    <2> QED
      BY <1>1, <1>5, <2>1, PlacedKept, EarlySeenKept DEF CopyInv
  <1>10. ASSUME NEW q \in Key
        PROVE  /\ q \in uncopied' \ unread' => \A n \in 1..Len(log') : Early(n)' => n <= scanned'[q]
               /\ q \notin uncopied' => EarlySeen(q)'
    <2>1. CASE q = k
      BY <1>1, <1>7, <2>1
    <2>2. CASE q # k
      <3>1. scanned'[q] = scanned[q] /\ \A n \in 1..Len(log) : Early(n)' => Early(n)
        BY <1>1, <1>2, <2>2 DEF Early
      <3> QED
        BY <1>1, <1>9, <2>2, <3>1 DEF CopyInv
    <2> QED
      BY <2>1, <2>2
  <1>11. ~ (pc' \in Streaming \/ file'.complete)
    BY <1>1, <1>4 DEF Streaming
  <1> QED
    BY <1>8, <1>9, <1>10, <1>11 DEF CopyInv

LEMMA CopyInvWriteOne ==
    ASSUME SourceOK, ProgramOK, WritingOK, TargetOK, TimeInv, StartInv, PageInv, CopyInv,
           NEW n \in unwritten, WriteOne(n)
    PROVE  CopyInv'
  <1>1. /\ pc = "write" /\ UNCHANGED <<pc, log, file, start, unread, uncopied, scanned>>
        /\ target' = [target EXCEPT ![log[n].key] = Value(n)]
        /\ seen' = seen \cup {n}
    BY DEF WriteOne, Value, source, checkpoint, copy
  <1>2. n \in page /\ n \in 1..Len(log)
    BY DEF WritingOK, SourceOK
  <1>3. /\ log[n].key \in Key /\ log[n].time \in Nat /\ target \in [Key -> 0..Len(log)]
        /\ n \in Nat /\ start \in Nat /\ cp.ts \in Nat
    BY <1>2, RecordIs, Numbers DEF TargetOK
  <1>4. SecondOf(start) <= log[n].time /\ SecondOf(start) \in Nat
    <2>1. start <= cp.ts /\ cp.ts <= log[n].time
      BY <1>1, <1>2 DEF StartInv, Streaming, PageInv
    <2>2. SecondOf(start) <= start /\ SecondOf(start) \in Nat
      BY <1>3, SecondsType
    <2> QED
      BY <1>3, <2>1, <2>2
  <1>5. \A m \in 1..Len(log) : Early(m) => m <= n
    <2>1. SUFFICES ASSUME NEW m \in 1..Len(log), Early(m), n < m PROVE FALSE
      BY <1>3
    <2>2. log[n].time <= log[m].time /\ log[m].time \in Nat
      BY <1>2, <1>3, <2>1, RecordIs DEF TimeInv
    <2> QED
      BY <1>3, <1>4, <2>1, <2>2 DEF Early
  <1>6. \A q \in Key : EarlySeen(q) /\ EarlySeen(q)'
    BY <1>1, EarlySeenKept DEF CopyInv, Streaming
  <1>7. ASSUME NEW q \in Key PROVE Placed(q)'
    <2>1. CASE q # log[n].key
      <3>1. target'[q] = target[q] /\ seen \subseteq seen'
        BY <1>1, <1>3, <2>1
      <3> QED
        BY <1>1, <3>1, PlacedKept DEF CopyInv
    <2>2. CASE q = log[n].key
      <3>1. target'[q] = Value(n)
        BY <1>1, <1>3, <2>2
      <3>2. target'[q] # None => target'[q] = n /\ log[n].put
        BY <3>1 DEF Value
      <3>3. \A m \in 1..Len(log) : Early(m)' => m <= n
        BY <1>1, <1>5 DEF Early
      <3> QED
        BY <1>1, <1>6, <2>2, <3>2, <3>3, Zenon DEF Placed
    <2> QED
      BY <2>1, <2>2
  <1>8. pc' # "copy"
    BY <1>1
  <1> QED
    BY <1>6, <1>7, <1>8 DEF CopyInv

LEMMA CopyInvStep ==
    ASSUME SourceOK, ProgramOK, CopyOK, WritingOK, TargetOK,
           TimeInv, StartInv, PageInv, CopyInv, [Next]_vars
    PROVE  CopyInv'
  <1>1. CASE /\ log' = log /\ start' = start /\ target' = target /\ seen \subseteq seen'
             /\ pc' # "copy"
             /\ (pc' \in Streaming \/ file'.complete) =>
                    (pc \in Streaming \/ file.complete \/ (pc = "copy" /\ uncopied = {}))
    <2>1. \A k \in Key : Placed(k)'
      BY <1>1, PlacedKept DEF CopyInv
    <2>2. pc \in Streaming \/ file.complete \/ (pc = "copy" /\ uncopied = {}) =>
              \A k \in Key : EarlySeen(k)'
      BY <1>1, EarlySeenKept DEF CopyInv
    <2> QED
      BY <1>1, <2>1, <2>2 DEF CopyInv
  <1>2. CASE /\ UNCHANGED <<log, start, target, seen, file>>
             /\ pc' = "copy" => /\ \A k \in Key : k \in uncopied' \ unread' =>
                                      \A n \in 1..Len(log) : Early(n) => n <= scanned'[k]
                                /\ \A k \in Key : k \notin uncopied' => EarlySeen(k)
             /\ pc' \in Streaming => pc \in Streaming \/ file.complete
    <2>1. \A k \in Key : Placed(k)' /\ (EarlySeen(k) => EarlySeen(k)')
      BY <1>2, PlacedKept, EarlySeenKept DEF CopyInv
    <2>2. \A n \in 1..Len(log) : Early(n)' => Early(n)
      BY <1>2 DEF Early
    <2>3. ASSUME pc' = "copy", NEW k \in Key
          PROVE  /\ k \in uncopied' \ unread' => \A n \in 1..Len(log') : Early(n)' => n <= scanned'[k]
                 /\ k \notin uncopied' => EarlySeen(k)'
      BY <1>2, <2>1, <2>2, <2>3
    <2>4. ASSUME pc' \in Streaming \/ file'.complete, NEW k \in Key PROVE EarlySeen(k)'
      BY <1>2, <2>1, <2>4 DEF CopyInv
    <2> QED
      BY <2>1, <2>3, <2>4 DEF CopyInv
  <1>3. ASSUME NEW k \in Key, NEW put \in BOOLEAN, Change(k, put) PROVE CopyInv'
    BY <1>3, CopyInvChange
  <1>4. CASE StartFromCheckpoint
    <2>1. /\ UNCHANGED <<log, start, target, seen, file>>
          /\ \/ file.complete /\ pc' = "list"
             \/ pc' = "copy" /\ unread' = Key /\ uncopied' = Key
      BY <1>4 DEF StartFromCheckpoint, ToCopy, source
    <2>2. pc' = "copy" => \A k \in Key : k \in uncopied' /\ k \in unread'
      BY <2>1
    <2>3. pc' \in Streaming => file.complete
      BY <2>1 DEF Streaming
    <2> QED
      BY <1>2, <2>1, <2>2, <2>3
  <1>5. CASE StartAnew
    <2>1. /\ UNCHANGED <<log, start, target, seen>> /\ pc' = "save" /\ file.mode # "live"
          /\ file' = file \/ file' = [mode |-> "none", ts |-> 0, complete |-> FALSE]
      BY <1>5 DEF StartAnew, source
    <2>2. ~file'.complete
      BY <2>1 DEF StartInv
    <2> QED
      BY <1>1, <2>1, <2>2 DEF Streaming
  <1>6. CASE SaveFirst
    <2>1. /\ UNCHANGED <<log, target, cp>> /\ pc = "save" /\ pc' = "copy" /\ Save
          /\ unread' = Key /\ uncopied' = Key
      BY <1>6 DEF SaveFirst, ToCopy, source
    <2>2. ~cp.complete /\ (\A k \in Key : target[k] = None) /\ cp \in Checkpoints
      BY <2>1 DEF StartInv, ProgramOK
    <2>3. ~file'.complete
      BY <2>1, <2>2, Saved
    <2>4. \A k \in Key : Placed(k)'
      BY <2>1, <2>2 DEF Placed
    <2> QED
      BY <2>1, <2>3, <2>4 DEF CopyInv, Streaming
  <1>7. ASSUME NEW k \in Key, CopyRead(k) PROVE CopyInv'
    <2>1. /\ pc = "copy" /\ unread' = unread \ {k} /\ scanned' = [scanned EXCEPT ![k] = Len(log)]
          /\ UNCHANGED <<log, start, target, seen, file, pc, uncopied>>
      BY <1>7 DEF CopyRead, source, checkpoint
    <2>2. scanned \in [Key -> 0..Len(log)] /\ Len(log) \in Nat
      BY DEF CopyOK, SourceOK
    <2>3. ASSUME NEW q \in Key, q \in uncopied' \ unread', NEW n \in 1..Len(log), Early(n)
          PROVE  n <= scanned'[q]
      <3>1. CASE q = k
        BY <2>1, <2>2, <3>1
      <3>2. CASE q # k
        <4>1. q \in uncopied \ unread /\ scanned'[q] = scanned[q]
          BY <2>1, <2>2, <2>3, <3>2
        <4> QED
          BY <2>1, <2>3, <4>1 DEF CopyInv
      <3> QED
        BY <3>1, <3>2
    <2>4. \A q \in Key : q \notin uncopied' => EarlySeen(q)
      BY <2>1 DEF CopyInv
    <2>5. pc' \notin Streaming
      BY <2>1 DEF Streaming
    <2> QED
      BY <1>2, <2>1, <2>3, <2>4, <2>5
  <1>8. ASSUME NEW k \in Key, CopyWrite(k) PROVE CopyInv'
    BY <1>8, CopyInvWrite
  <1>9. CASE CopyDone
    <2>1. /\ pc = "copy" /\ uncopied = {} /\ pc' = "list"
          /\ UNCHANGED <<log, start, target, seen>>
      BY <1>9 DEF CopyDone, source
    <2> QED
      BY <1>1, <2>1
  <1>10. CASE ListShards \/ PickShard \/ CycleEnds \/ GetFails \/ GetRecords
    <2>1. /\ UNCHANGED <<log, start, target, seen>> /\ pc \in Streaming /\ pc' # "copy"
      BY <1>10 DEF ListShards, PickShard, CycleEnds, GetFails, GetRecords, LeaveShard, Streaming,
                   source, checkpoint
    <2> QED
      BY <1>1, <2>1
  <1>11. CASE BatchFails \/ BatchOk \/ PageDone
    <2>1. /\ UNCHANGED <<log, start, target, seen>> /\ pc \in Streaming /\ pc' # "copy"
      BY <1>11 DEF BatchFails, BatchOk, PageDone, LeaveShard, Streaming, source, checkpoint
    <2> QED
      BY <1>1, <2>1
  <1>12. CASE SubmitBatch
    <2>1. UNCHANGED <<log, start, target>> /\ seen \subseteq seen' /\ pc \in Streaming /\ pc' # "copy"
      BY <1>12 DEF SubmitBatch, Streaming, source, checkpoint
    <2> QED
      BY <1>1, <2>1
  <1>13. ASSUME NEW n \in unwritten, WriteOne(n) PROVE CopyInv'
    BY <1>13, CopyInvWriteOne
  <1>14. CASE Stop
    <2>1. UNCHANGED <<log, start, target, seen, file>> /\ pc' = "idle"
      BY <1>14 DEF Stop, source
    <2> QED
      BY <1>2, <2>1 DEF Streaming
  <1>15. CASE UNCHANGED <<log, start, target, seen, file, pc, unread, uncopied, scanned>>
    BY <1>2, <1>15 DEF CopyInv
  <1>16. Tick \/ (\E s \in 1..Len(shards) : Roll(s)) \/ UNCHANGED vars =>
            UNCHANGED <<log, start, target, seen, file, pc, unread, uncopied, scanned>>
    BY DEF Tick, Roll, vars, source, checkpoint, copy
  <1> QED
    BY <1>3, <1>4, <1>5, <1>6, <1>7, <1>8, <1>9, <1>10, <1>11, <1>12, <1>13, <1>14, <1>15, <1>16
       DEF Next, Environment, Program
-----------------------------------------------------------------------------
(* What a step settles. *)

LEMMA SeenGrows == ASSUME [Next]_vars PROVE seen \subseteq seen'
  <1>1. StartFromCheckpoint \/ StartAnew \/ SaveFirst \/ CopyDone \/ Stop => UNCHANGED seen
    BY DEF StartFromCheckpoint, StartAnew, SaveFirst, CopyDone, Stop
  <1>2. (\E k \in Key : CopyRead(k) \/ CopyWrite(k)) => seen \subseteq seen'
    BY DEF CopyRead, CopyWrite
  <1>3. ListShards \/ PickShard \/ CycleEnds \/ GetFails \/ GetRecords => UNCHANGED seen
    BY DEF ListShards, PickShard, CycleEnds, GetFails, GetRecords, LeaveShard
  <1>4. BatchFails \/ BatchOk \/ PageDone => UNCHANGED seen
    BY DEF BatchFails, LeaveShard, BatchOk, PageDone
  <1>5. SubmitBatch \/ (\E n \in unwritten : WriteOne(n)) => seen \subseteq seen'
    BY DEF SubmitBatch, WriteOne
  <1>6. Environment \/ UNCHANGED vars => UNCHANGED seen
    BY EnvironmentOnly DEF program, vars
  <1> QED
    BY <1>1, <1>2, <1>3, <1>4, <1>5, <1>6 DEF Next, Program

LEMMA MixedGrows == ASSUME [Next]_vars PROVE mixed \subseteq mixed'
  <1>1. StartFromCheckpoint \/ StartAnew \/ SaveFirst \/ CopyDone \/ Stop => UNCHANGED mixed
    BY DEF StartFromCheckpoint, StartAnew, SaveFirst, CopyDone, Stop
  <1>2. (\E k \in Key : CopyRead(k) \/ CopyWrite(k)) => UNCHANGED mixed
    BY DEF CopyRead, CopyWrite
  <1>3. ListShards \/ PickShard \/ CycleEnds \/ GetFails \/ GetRecords => UNCHANGED mixed
    BY DEF ListShards, PickShard, CycleEnds, GetFails, GetRecords, LeaveShard
  <1>4. BatchFails \/ BatchOk \/ PageDone \/ (\E n \in unwritten : WriteOne(n)) => UNCHANGED mixed
    BY DEF BatchFails, LeaveShard, BatchOk, PageDone, WriteOne
  <1>5. SubmitBatch => mixed \subseteq mixed'
    BY DEF SubmitBatch
  <1>6. Environment \/ UNCHANGED vars => UNCHANGED mixed
    BY EnvironmentOnly DEF program, vars
  <1> QED
    BY <1>1, <1>2, <1>3, <1>4, <1>5, <1>6 DEF Next, Program

\* Before or after a cycle, and at its beginning, nothing is passed.
LEMMA NonePassed ==
    ASSUME SourceOK', NEW n \in 1..Len(log'), shard' = NoShard, batch' = {},
           todo' = {} \/ todo' = 1..Len(shards') \/ Len(shards') = 1, todo' \subseteq 1..Len(shards')
    PROVE  ~ Passed(n)'
  <1>1. log'[n].shard \in 1..Len(shards') /\ Len(shards') \in Nat
    BY DEF SourceOK
  <1>2. log'[n].shard # 0 /\ ~ (log'[n].shard < 0)
    BY <1>1
  <1>3. ASSUME log'[n].shard \notin todo', NEW r \in todo', log'[n].shard < r PROVE FALSE
    <2>1. r \in 1..Len(shards')
      OBVIOUS
    <2>2. CASE todo' = {}
      BY <2>2, <1>3
    <2>3. CASE todo' = 1..Len(shards')
      BY <2>3, <1>1, <1>3
    <2>4. CASE Len(shards') = 1
      BY <2>1, <2>4, <1>1, <1>3
    <2> QED
      BY <2>2, <2>3, <2>4
  <1> QED
    BY <1>2, <1>3, Zenon DEF Passed, NoShard

\* A record is settled by a step because it was before, because it is older than
\* the start, because it cannot be converted, or because it is written.
Settles(n) ==
    \/ n \in 1..Len(log) /\ Settled(n)
    \/ /\ log'[n].time < start'
       /\ Early(n)' => n \in 1..Len(log) /\ CopyDone
    \/ SubmitBatch /\ n \in seen' /\ log'[n].key \in Bad
    \/ n \in unwritten /\ WriteOne(n)

LEMMA ChangeSettles ==
    ASSUME SourceOK, ProgramOK, CycleOK, WritingOK, TimeInv, ShardInv, StartInv, ReadInOrder,
           NEW k \in Key, NEW put \in BOOLEAN, Change(k, put),
           NEW n \in 1..Len(log'), Settled(n)'
    PROVE  Settles(n)
  <1>1. PICK s \in 1..Len(shards) : shards[s].open /\ Appended(k, put, s)
    BY ChangeAppends
  <1>2. /\ Len(log) \in Nat /\ Len(shards) \in Nat /\ pos \in Nat /\ pos <= Len(log) /\ shard \in Nat
        /\ shard <= Len(shards) /\ page \subseteq 1..pos /\ batch \subseteq 1..pos
        /\ todo \subseteq 1..Len(shards)
        /\ SecondOf(clock) \in Nat /\ start \in Nat /\ cp.ts \in Nat /\ file.ts \in Nat
    <2>1. Len(log) \in Nat /\ Len(shards) \in Nat /\ clock \in Nat
          /\ start \in Nat /\ cp.ts \in Nat /\ file.ts \in Nat
      BY Numbers
    <2>2. SecondOf(clock) \in Nat
      BY <2>1, SecondsType
    <2>3. pos \in Nat /\ pos <= Len(log) /\ page \subseteq 1..pos /\ batch \subseteq 1..pos
      BY <2>1 DEF WritingOK
    <2>4. shard \in Nat /\ shard <= Len(shards) /\ todo \subseteq 1..Len(shards)
      BY <2>1 DEF CycleOK
    <2> QED
      BY <2>1, <2>2, <2>3, <2>4
  <1>3. s = Len(shards)
    BY <1>1 DEF ShardInv, ReadInOrder
  <1>4. UNCHANGED <<pc, shard, pos, page, batch, unwritten, todo, cp, file, start>>
    BY DEF Change, cycle, writing, checkpoint
  <1>5. CASE n \in 1..Len(log)
    <2>1. log'[n] = log[n]
      BY <1>1, <1>5 DEF Appended
    <2>2. Settled(n)
      BY <1>4, <2>1 DEF Settled, Due, Passed, Dropped
    <2> QED
      BY <1>5, <2>2 DEF Settles
  <1>6. CASE n = Len(log) + 1
    <2>1. log'[n].shard = Len(shards) /\ log'[n].time = SecondOf(clock)
      BY <1>1, <1>3, <1>6 DEF Appended
    <2>2. ~ Passed(n)'
      <3>1. n \notin batch /\ ~ (n <= pos)
        BY <1>2, <1>6
      <3>2. ~ (Len(shards) < shard) /\ ~ \E r \in todo : Len(shards) < r
        BY <1>2
      <3> QED
        BY <1>4, <2>1, <3>1, <3>2 DEF Passed
    <2>3. log'[n].time < start'
      <3>1. CASE pc \in Streaming /\ log'[n].time < cp.ts
        <4>1. cp.ts = start
          BY <1>2, <2>1, <3>1 DEF StartInv
        <4> QED
          BY <1>4, <3>1, <4>1
      <3>2. CASE log'[n].time < file.ts
        <4>1. file.ts = start
          BY <1>2, <2>1, <3>2 DEF StartInv
        <4> QED
          BY <1>4, <3>2, <4>1
      <3> QED
        BY <1>4, <2>2, <3>1, <3>2 DEF Settled, Due, Dropped
    <2>4. ~ Early(n)'
      BY <1>2, <1>6, NewIsLate
    <2> QED
      BY <2>3, <2>4 DEF Settles
  <1> QED
    BY <1>1, <1>2, <1>5, <1>6 DEF Appended

\* Where the program does not read the stream, only the file drops.
LEMMA RestingSettles ==
    ASSUME NEW n \in 1..Len(log'), UNCHANGED <<log, start, file>>, pc' \notin Streaming, Settled(n)'
    PROVE  Settles(n)
  <1>1. Dropped(n)
    BY DEF Settled, Dropped
  <1> QED
    BY <1>1 DEF Settles, Settled

\* Where it does, with the same timestamps, a record must be passed.
LEMMA StreamingSettles ==
    ASSUME NEW n \in 1..Len(log'), UNCHANGED <<log, start, file, cp>>, pc \in Streaming,
           Passed(n)' => Passed(n) \/ log[n].time < cp.ts,
           Settled(n)'
    PROVE  Settles(n)
  <1>1. Due(n)' => Due(n)
    BY DEF Due
  <1>2. Dropped(n)' => Dropped(n)
    BY DEF Dropped
  <1> QED
    BY <1>1, <1>2 DEF Settles, Settled

LEMMA StartSettles ==
    ASSUME SourceOK, ProgramOK, CycleOK, WritingOK, StartInv, PlaceInv, SourceOK', CycleOK',
           StartFromCheckpoint \/ StartAnew \/ SaveFirst \/ CopyDone \/ ListShards,
           NEW n \in 1..Len(log'), Settled(n)'
    PROVE  Settles(n)
  <1>1. /\ pc \in {"idle", "save", "copy", "list"} /\ UNCHANGED <<log, shards, shard, batch>>
        /\ todo' = todo \/ todo' = 1..Len(shards')
    BY DEF StartFromCheckpoint, StartAnew, SaveFirst, CopyDone, ListShards, source, cycle, writing
  <1>2. shard' = NoShard /\ batch' = {} /\ (todo' = {} \/ todo' = 1..Len(shards'))
    BY <1>1 DEF PlaceInv, Reading
  <1>3. ~ Passed(n)'
    BY <1>2, NonePassed DEF CycleOK
  <1>4. CASE StartFromCheckpoint
    <2>1. /\ UNCHANGED <<log, start, file>>
          /\ cp' = [ts |-> file.ts, complete |-> file.complete]
          /\ \/ file.complete /\ pc' = "list"
             \/ pc' = "copy"
      BY <1>4 DEF StartFromCheckpoint, source
    <2>2. CASE pc' = "copy"
      BY <2>1, <2>2, RestingSettles DEF Streaming
    <2>3. CASE file.complete /\ pc' = "list"
      <3>1. Dropped(n)
        BY <1>3, <2>1, <2>3 DEF Settled, Due, Dropped
      <3> QED
        BY <2>1, <3>1 DEF Settles, Settled
    <2> QED
      BY <2>1, <2>2, <2>3
  <1>5. CASE StartAnew
    <2>1. /\ pc' = "save" /\ file.mode # "live"
          /\ file' = file \/ file' = [mode |-> "none", ts |-> 0, complete |-> FALSE]
      BY <1>5 DEF StartAnew
    <2>2. ~file'.complete
      BY <2>1 DEF StartInv
    <2> QED
      BY <2>1, <2>2 DEF Settled, Dropped, Streaming
  <1>6. CASE SaveFirst
    <2>1. UNCHANGED cp /\ pc = "save" /\ pc' = "copy" /\ Save
      BY <1>6 DEF SaveFirst
    <2>2. ~cp.complete /\ cp \in Checkpoints
      BY <2>1 DEF StartInv, ProgramOK
    <2>3. ~file'.complete
      BY <2>1, <2>2, Saved
    <2> QED
      BY <2>1, <2>3 DEF Settled, Dropped, Streaming
  <1>7. CASE CopyDone
    <2>1. pc = "copy" /\ (Save \/ file' = file) /\ start' = start /\ log' = log
      BY <1>7 DEF CopyDone, source
    <2>2. cp' \in Checkpoints /\ cp'.ts = cp.ts
      BY <1>7, CopyDoneSets
    <2>3. cp.ts = start /\ ~file.complete
      BY <2>1 DEF StartInv
    <2>4. file'.ts = start \/ ~file'.complete
      BY <2>1, <2>2, <2>3, Saved
    <2>5. log'[n].time < start'
      BY <1>3, <2>1, <2>2, <2>3, <2>4 DEF Settled, Due, Dropped
    <2> QED
      BY <1>7, <2>1, <2>5 DEF Settles
  <1>8. CASE ListShards
    <2>1. UNCHANGED <<log, start, file, cp>> /\ pc \in Streaming
      BY <1>8 DEF ListShards, source, checkpoint, Streaming
    <2> QED
      BY <1>3, <2>1, StreamingSettles
  <1> QED
    BY <1>4, <1>5, <1>6, <1>7, <1>8

\* Leaving a shard early settles nothing: it is the only one, or the stream is
\* no longer read in order.
LEMMA LeaveSettles ==
    ASSUME SourceOK', CycleOK', GetFails \/ BatchFails, ReadInOrder',
           NEW n \in 1..Len(log'), Settled(n)'
    PROVE  Settles(n)
  <1>1. /\ UNCHANGED <<log, start, file, cp>> /\ pc \in Streaming
        /\ shard' = NoShard /\ batch' = {} /\ brokeOff' = TRUE
    BY DEF GetFails, BatchFails, LeaveShard, NoBatch, source, checkpoint, Streaming
  <1>2. Len(shards') = 1
    BY <1>1 DEF ReadInOrder
  <1>3. ~ Passed(n)'
    BY <1>1, <1>2, NonePassed DEF CycleOK
  <1> QED
    BY <1>1, <1>3, StreamingSettles

LEMMA PickSettles ==
    ASSUME SourceOK, CycleOK, WritingOK, PlaceInv, PickShard, NEW n \in 1..Len(log'), Settled(n)'
    PROVE  Settles(n)
  <1>1. /\ pc = "pick" /\ UNCHANGED <<log, start, file, cp, batch, page, unwritten>>
        /\ shard' \in todo /\ todo' = todo \ {shard'} /\ pos' = 0
    BY DEF PickShard, source, checkpoint, writing
  <1>2. shard = NoShard /\ batch = {} /\ NoShard = 0
    BY <1>1 DEF PlaceInv, Reading, NoShard
  <1>3. n \in 1..Len(log) /\ log[n].shard \in Nat /\ log[n].shard # 0 /\ n \in Nat /\ ~ (n <= 0)
    <2>1. n \in 1..Len(log)
      BY <1>1
    <2>2. log[n].shard \in 1..Len(shards) /\ Len(shards) \in Nat /\ Len(log) \in Nat
      BY <2>1 DEF SourceOK
    <2> QED
      BY <2>1, <2>2
  <1>4. ASSUME Passed(n)' PROVE Passed(n)
    <2> DEFINE s == log[n].shard
    <2>1. s # shard' /\ s \notin todo' /\ (s < shard' \/ \E r \in todo' : s < r)
      BY <1>1, <1>2, <1>3, <1>4 DEF Passed
    <2>2. s \notin todo /\ \E r \in todo : s < r
      BY <1>1, <2>1
    <2>3. s # shard
      BY <1>2, <1>3
    <2> QED
      BY <2>2, <2>3 DEF Passed
  <1> QED
    BY <1>1, <1>4, StreamingSettles DEF Streaming

LEMMA GetSettles ==
    ASSUME SourceOK, ProgramOK, CycleOK, WritingOK, PlaceInv, GetRecords,
           NEW n \in 1..Len(log'), Settled(n)'
    PROVE  Settles(n)
  <1>1. pc = "get" /\ page = {} /\ batch = {}
    BY DEF GetRecords, PlaceInv
  <1>2. /\ page' = {m \in RecordsOf(shard) : pos < m /\ m <= pos' /\ log[m].time >= cp.ts}
        /\ UNCHANGED <<source, checkpoint, todo, shard, batch, unwritten>>
    BY GetRecordsSets DEF GetRecords
  <1>3. UNCHANGED <<log, start, file, cp>>
    BY <1>2 DEF source, checkpoint
  <1>4. n \in 1..Len(log) /\ n \in Nat /\ pos \in Nat /\ log[n].time \in Nat /\ cp.ts \in Nat
    <2>1. n \in 1..Len(log)
      BY <1>3
    <2> QED
      BY <2>1, RecordIs, Numbers DEF WritingOK
  <1>5. ASSUME Passed(n)' PROVE Passed(n) \/ log[n].time < cp.ts
    <2>1. CASE log[n].shard = shard /\ n <= pos' /\ n \notin page'
      <3>1. CASE n <= pos
        BY <1>1, <2>1, <3>1 DEF Passed
      <3>2. CASE pos < n
        <4>1. n \in RecordsOf(shard)
          BY <1>4, <2>1 DEF RecordsOf
        <4> QED
          BY <1>2, <1>4, <2>1, <3>2, <4>1
      <3> QED
        BY <1>4, <3>1, <3>2
    <2>2. CASE /\ log[n].shard # shard /\ log[n].shard \notin todo
               /\ log[n].shard < shard \/ \E r \in todo : log[n].shard < r
      BY <2>2 DEF Passed
    <2> QED
      BY <1>1, <1>2, <1>3, <1>5, <2>1, <2>2, Zenon DEF Passed
  <1> QED
    BY <1>1, <1>3, <1>5, StreamingSettles DEF Streaming

LEMMA PageSettles ==
    ASSUME SourceOK, CycleOK, WritingOK, PlaceInv, PageDone, NEW n \in 1..Len(log'), Settled(n)'
    PROVE  Settles(n)
  <1>1. /\ pc = "batch" /\ page = {} /\ page' = {} /\ batch' = {} /\ unwritten' = {}
        /\ UNCHANGED <<log, start, file, cp, todo>>
        /\ \/ UNCHANGED <<shard, pos>>
           \/ atEnd /\ shard' = NoShard
    BY DEF PageDone, NoBatch, source, checkpoint
  <1>2. batch = {} /\ (atEnd => \A m \in RecordsOf(shard) : m <= pos)
    BY <1>1 DEF PlaceInv
  <1>3. n \in 1..Len(log) /\ log[n].shard \in Nat /\ NoShard = 0
    <2>1. n \in 1..Len(log)
      BY <1>1
    <2> QED
      BY <2>1, RecordIs DEF NoShard
  <1>4. ASSUME Passed(n)' PROVE Passed(n)
    <2>1. CASE UNCHANGED <<shard, pos>>
      BY <1>1, <1>2, <1>4, <2>1 DEF Passed
    <2>2. CASE atEnd /\ shard' = NoShard
      <3>1. log[n].shard # 0
        <4>1. log[n].shard \in 1..Len(shards) /\ Len(shards) \in Nat
          BY <1>3, RecordIs DEF SourceOK
        <4> QED
          BY <4>1
      <3>2. log[n].shard \notin todo /\ \E r \in todo : log[n].shard < r
        BY <1>1, <1>3, <1>4, <2>2, <3>1 DEF Passed
      <3>3. CASE log[n].shard = shard
        <4>1. n <= pos
          BY <1>2, <1>3, <2>2, <3>3 DEF RecordsOf
        <4> QED
          BY <1>1, <3>3, <4>1 DEF Passed
      <3>4. CASE log[n].shard # shard
        BY <3>2, <3>4 DEF Passed
      <3> QED
        BY <3>3, <3>4
    <2> QED
      BY <1>1, <2>1, <2>2
  <1> QED
    BY <1>1, <1>4, StreamingSettles DEF Streaming

LEMMA SubmitSettles ==
    ASSUME SourceOK, WritingOK, PlaceInv, SubmitBatch, NEW n \in 1..Len(log'), Settled(n)'
    PROVE  Settles(n)
  <1>1. PICK records \in SUBSET page :
            /\ batch' = records
            /\ LET skipped == {m \in records : log[m].put /\ log[m].key \in Bad} IN
                /\ unwritten' = records \ skipped
                /\ seen' = seen \cup skipped
    BY DEF SubmitBatch
  <1>2. /\ pc = "batch" /\ pc' = "write"
        /\ UNCHANGED <<log, start, file, cp, todo, shard, pos, page>>
    BY DEF SubmitBatch, source, checkpoint, cycle
  <1>3. CASE n \in batch' \ unwritten'
    <2>1. n \in seen' /\ log[n].key \in Bad
      BY <1>1, <1>3
    <2> QED
      BY <1>2, <2>1 DEF Settles
  <1>4. CASE n \notin batch' \ unwritten'
    <2>1. Passed(n)' => Passed(n)
      BY <1>2, <1>4 DEF Passed
    <2> QED
      BY <1>2, <2>1, StreamingSettles DEF Streaming
  <1> QED
    BY <1>3, <1>4

LEMMA WriteSettles ==
    ASSUME NEW m \in unwritten, WriteOne(m), NEW n \in 1..Len(log'), Settled(n)'
    PROVE  Settles(n)
  <1>1. /\ pc = "write" /\ unwritten' = unwritten \ {m}
        /\ UNCHANGED <<log, start, file, cp, todo, shard, pos, page, batch>>
    BY DEF WriteOne, source, checkpoint, cycle
  <1>2. CASE n = m
    BY <1>2 DEF Settles
  <1>3. CASE n # m
    <2>1. Passed(n)' => Passed(n)
      BY <1>1, <1>3 DEF Passed
    <2> QED
      BY <1>1, <2>1, StreamingSettles DEF Streaming
  <1> QED
    BY <1>2, <1>3

\* The records older than the last one of the batch are passed.
LEMMA BatchSettles ==
    ASSUME SourceOK, ProgramOK, CycleOK, WritingOK, TimeInv, ShardInv, StartInv, PlaceInv, PageInv,
           ReadInOrder, InOrder, BatchOk, NEW n \in 1..Len(log'), Settled(n)'
    PROVE  Settles(n)
  <1>1. /\ pc = "write" /\ unwritten = {} /\ page' = page \ batch /\ batch' = {}
        /\ UNCHANGED <<log, start, todo, shard, pos>>
    BY DEF BatchOk, source, cycle
  <1>2. n \in 1..Len(log)
    BY <1>1
  <1>3. /\ n \in Nat /\ log[n].shard \in Nat /\ log[n].time \in Nat
        /\ shard \in Nat /\ pos \in Nat /\ cp.ts \in Nat /\ cp.complete
        /\ \A s \in todo : s \in Nat
        /\ \A m \in page : m \in Nat /\ m <= pos
    <2>1. cp.complete
      BY <1>1 DEF StartInv, Streaming
    <2>2. shard \in Nat /\ pos \in Nat /\ (\A s \in todo : s \in Nat) /\ \A m \in page : m \in Nat /\ m <= pos
      BY DEF SourceOK, CycleOK, WritingOK
    <2> QED
      BY <1>2, <2>1, <2>2, RecordIs, Numbers
  <1>4. Passed(n)' => Passed(n)
    <2>1. CASE n \in batch
      BY <1>1, <2>1 DEF Passed
    <2>2. CASE n \notin batch
      BY <1>1, <2>2 DEF Passed
    <2> QED
      BY <2>1, <2>2
  <1>5. ASSUME NEW last \in batch, log[n].time < log[last].time PROVE Passed(n)
    <2>1. last \in page /\ last \in 1..Len(log) /\ last \in Nat /\ log[last].shard = shard
      BY DEF WritingOK, PlaceInv, RecordsOf
    <2>2. n < last
      <3>1. log[last].time \in Nat
        BY <2>1, RecordIs
      <3>2. last <= n => log[last].time <= log[n].time
        BY <1>2, <2>1 DEF TimeInv
      <3> QED
        BY <1>3, <1>5, <2>1, <3>1, <3>2
    <2>3. log[n].shard <= shard
      BY <1>2, <1>3, <2>1, <2>2 DEF ShardInv, ReadInOrder
    <2>4. CASE log[n].shard = shard
      <3>1. n <= pos
        BY <1>3, <2>1, <2>2
      <3>2. CASE n \notin page
        BY <2>4, <3>1, <3>2 DEF Passed
      <3>3. CASE n \in batch
        BY <1>1, <3>3 DEF Passed
      <3>4. n \in page \ batch => last < n
        BY DEF PageInv
      <3> QED
        BY <1>3, <2>1, <2>2, <3>2, <3>3, <3>4
    <2>5. CASE log[n].shard < shard
      <3>1. log[n].shard \notin todo
        BY <1>3, <2>5 DEF InOrder
      <3> QED
        BY <1>3, <2>5, <3>1 DEF Passed
    <2> QED
      BY <1>3, <2>3, <2>4, <2>5
  <1>6. log[n].time < cp'.ts => Due(n)
    <2>1. CASE cp' = cp
      BY <2>1 DEF Due
    <2>2. CASE \E last \in batch : cp'.ts = log[last].time
      BY <1>5, <2>2 DEF Due
    <2> QED
      BY <2>1, <2>2, BatchOkSets
  <1>7. Dropped(n)' => Dropped(n) \/ log[n].time < cp'.ts
    BY <1>1, BatchOkSets DEF Dropped
  <1>8. Due(n)' => Due(n)
    BY <1>1, <1>4, <1>6 DEF Due
  <1> QED
    BY <1>1, <1>2, <1>6, <1>7, <1>8 DEF Settles, Settled, Streaming

LEMMA StepSettles ==
    ASSUME SourceOK, ProgramOK, CycleOK, WritingOK, TimeInv, ShardInv, StartInv, PlaceInv, CycleInv,
           PageInv, SourceOK', CycleOK', [Next]_vars, ReadInOrder', NEW n \in 1..Len(log'), Settled(n)'
    PROVE  Settles(n)
  <1>1. ReadInOrder /\ InOrder
    BY OrderKept DEF CycleInv
  <1>2. StartFromCheckpoint \/ StartAnew \/ SaveFirst \/ CopyDone \/ ListShards => Settles(n)
    BY StartSettles
  <1>3. GetFails \/ BatchFails => Settles(n)
    BY LeaveSettles
  <1>4. PickShard => Settles(n)
    BY PickSettles
  <1>5. GetRecords => Settles(n)
    BY GetSettles
  <1>6. PageDone => Settles(n)
    BY PageSettles
  <1>7. SubmitBatch => Settles(n)
    BY SubmitSettles
  <1>8. ASSUME NEW m \in unwritten, WriteOne(m) PROVE Settles(n)
    BY <1>8, WriteSettles
  <1>9. BatchOk => Settles(n)
    BY <1>1, BatchSettles
  <1>10. CASE Stop
    <2>1. UNCHANGED <<log, start, file>> /\ pc' \notin Streaming
      BY <1>10 DEF Stop, source, Streaming
    <2> QED
      BY <2>1, RestingSettles
  <1>11. ASSUME NEW k \in Key, CopyRead(k) \/ CopyWrite(k) PROVE Settles(n)
    <2>1. UNCHANGED <<log, start, file>> /\ pc' \notin Streaming
      BY <1>11 DEF CopyRead, CopyWrite, source, checkpoint, Streaming
    <2> QED
      BY <2>1, RestingSettles
  <1>12. ASSUME NEW k \in Key, NEW put \in BOOLEAN, Change(k, put) PROVE Settles(n)
    BY <1>1, <1>12, ChangeSettles
  <1>13. CASE UNCHANGED <<log, pc, checkpoint, cycle, writing>>
    <2>1. UNCHANGED <<log, pc, cp, file, todo, shard, pos, page, batch, unwritten>>
      BY <1>13 DEF checkpoint, cycle, writing
    <2>2. Settled(n)
      BY <2>1 DEF Settled, Due, Passed, Dropped
    <2> QED
      BY <2>1, <2>2 DEF Settles
  <1>14. CASE CycleEnds
    <2>1. /\ UNCHANGED <<log, start, file, cp, todo, shard, pos, page, batch, unwritten>>
          /\ pc \in Streaming
      BY <1>14 DEF CycleEnds, source, checkpoint, cycle, writing, Streaming
    <2>2. Passed(n)' => Passed(n)
      BY <2>1 DEF Passed
    <2> QED
      BY <2>1, <2>2, StreamingSettles
  <1>15. Tick \/ (\E s \in 1..Len(shards) : Roll(s)) \/ UNCHANGED vars =>
            UNCHANGED <<log, pc, checkpoint, cycle, writing>>
    BY DEF Tick, Roll, vars, source
  <1> QED
    BY <1>2, <1>3, <1>4, <1>5, <1>6, <1>7, <1>8, <1>9, <1>10, <1>11, <1>12, <1>13, <1>14, <1>15
       DEF Next, Environment, Program

\* When replication starts anew, nothing is settled and nothing is copied.
LEMMA StartIsKept ==
    ASSUME ProgramOK, StartInv, CopyOK, SourceOK', [Next]_vars,
           NEW n \in 1..Len(log'), Settled(n)' \/ Copied(n)'
    PROVE  start' = start
  <1>1. CASE SaveFirst
    <2>1. UNCHANGED cp /\ pc = "save" /\ pc' = "copy" /\ Save /\ uncopied' = Key
      BY <1>1 DEF SaveFirst, ToCopy
    <2>2. ~cp.complete /\ cp \in Checkpoints
      BY <2>1 DEF StartInv, ProgramOK
    <2>3. ~file'.complete
      BY <2>1, <2>2, Saved
    <2>4. log'[n].key \in Key
      <3>1. log'[n] \in Records
        BY DEF SourceOK
      <3> QED
        BY <3>1 DEF Records
    <2> QED
      BY <2>1, <2>3, <2>4 DEF Settled, Dropped, Copied, Streaming
  <1>2. StartFromCheckpoint \/ StartAnew \/ CopyDone \/ ListShards \/ PickShard \/ CycleEnds \/ Stop =>
           start' = start
    BY DEF StartFromCheckpoint, StartAnew, CopyDone, ListShards, PickShard, CycleEnds, Stop, checkpoint
  <1>3. GetFails \/ GetRecords \/ SubmitBatch \/ BatchFails \/ BatchOk \/ PageDone => start' = start
    BY DEF GetFails, GetRecords, SubmitBatch, BatchFails, LeaveShard, BatchOk, PageDone, checkpoint
  <1>4. (\E k \in Key : CopyRead(k) \/ CopyWrite(k)) \/ (\E m \in unwritten : WriteOne(m)) => start' = start
    BY DEF CopyRead, CopyWrite, WriteOne, checkpoint
  <1>5. Environment \/ UNCHANGED vars => start' = start
    BY EnvironmentOnly DEF program, vars, checkpoint
  <1> QED
    BY <1>1, <1>2, <1>3, <1>4, <1>5 DEF Next, Program

LEMMA SeenStep ==
    ASSUME SourceOK, ProgramOK, CopyOK, CycleOK, WritingOK, TimeInv, ShardInv, StartInv, PlaceInv,
           CycleInv, PageInv, SeenInv, SourceOK', CycleOK', Grown, [Next]_vars
    PROVE  SeenInv'
  <1> SUFFICES ASSUME ReadInOrder', NEW n \in 1..Len(log'), Settled(n)' PROVE Known(n)'
    BY DEF SeenInv
  <1>1. Settles(n) /\ start' = start /\ ReadInOrder
    BY StepSettles, StartIsKept, OrderKept
  <1>2. CASE n \in 1..Len(log) /\ Settled(n)
    <2>1. Known(n) /\ log'[n] = log[n]
      BY <1>1, <1>2 DEF SeenInv, Grown
    <2> QED
      BY <1>1, <2>1, SeenGrows DEF Known
  <1>3. CASE log'[n].time < start'
    BY <1>3 DEF Known
  <1>4. CASE n \in seen'
    BY <1>4 DEF Known
  <1>5. CASE n \in unwritten /\ WriteOne(n)
    <2>1. n \in seen'
      BY <1>5 DEF WriteOne
    <2> QED
      BY <2>1 DEF Known
  <1> QED
    BY <1>1, <1>2, <1>3, <1>4, <1>5 DEF Settles
-----------------------------------------------------------------------------
(* The invariant: the target. *)

LEMMA RightKept ==
    ASSUME NEW n \in 1..Len(log), Len(log) \in Nat, Len(log') \in Nat, Right(n), Grown, start' = start,
           mixed \subseteq mixed', target'[log[n].key] = target[log[n].key]
    PROVE  Right(n)'
  <1>1. log'[n] = log[n] /\ (\A m \in 1..Len(log) : m \in 1..Len(log') /\ log'[m] = log[m])
    BY DEF Grown
  <1>2. Last(n)' => Last(n)
    BY <1>1 DEF Last
  <1>3. ASSUME Exempt(log[n].key) PROVE Exempt(log[n].key)'
    <2>1. CASE log[n].key \in mixed \cup Bad
      BY <1>1, <2>1 DEF Exempt
    <2>2. ASSUME NEW m \in 1..Len(log), log[m].key = log[n].key, InStartSecond(m)
          PROVE  Exempt(log[n].key)'
      <3>1. m \in 1..Len(log') /\ log'[m].key = log'[n].key
        BY <1>1, <2>2, Zenon
      <3>2. InStartSecond(m)'
        BY <1>1, <2>2 DEF InStartSecond, SecondOf
      <3> QED
        BY <3>1, <3>2 DEF Exempt
    <2> QED
      BY <1>3, <2>1, <2>2 DEF Exempt
  <1>4. Value(n)' = Value(n)
    BY <1>1 DEF Value
  <1>5. ASSUME Last(n)', ~ Exempt(log[n].key)' PROVE target'[log'[n].key] = Value(n)'
    <2>1. target[log[n].key] = Value(n)
      BY <1>2, <1>3, <1>5 DEF Right
    <2> QED
      BY <1>1, <1>4, <2>1
  <1> QED
    BY <1>5 DEF Right

LEMMA TargetKept ==
    ASSUME [Next]_vars
    PROVE  \/ target' = target
           \/ \E k \in Key : CopyWrite(k)
           \/ \E n \in unwritten : WriteOne(n)
  <1>1. StartFromCheckpoint \/ StartAnew \/ SaveFirst \/ CopyDone \/ Stop => UNCHANGED target
    BY DEF StartFromCheckpoint, StartAnew, SaveFirst, CopyDone, Stop
  <1>2. (\E k \in Key : CopyRead(k)) => UNCHANGED target
    BY DEF CopyRead
  <1>3. ListShards \/ PickShard \/ CycleEnds \/ GetFails \/ GetRecords => UNCHANGED target
    BY DEF ListShards, PickShard, CycleEnds, GetFails, GetRecords, LeaveShard
  <1>4. SubmitBatch \/ BatchFails \/ BatchOk \/ PageDone => UNCHANGED target
    BY DEF SubmitBatch, BatchFails, LeaveShard, BatchOk, PageDone
  <1>5. Environment \/ UNCHANGED vars => UNCHANGED target
    BY EnvironmentOnly DEF program, vars
  <1> QED
    BY <1>1, <1>2, <1>3, <1>4, <1>5 DEF Next, Program

\* A whole second before the start, but not before its second, is its second.
LEMMA StartSecondIs ==
    ASSUME NEW t \in Nat, NEW u \in Nat, t = SecondOf(t), t < u, ~ (t < SecondOf(u))
    PROVE  t = SecondOf(u) /\ SecondOf(u) < u
  <1>1. SecondOf(t) <= SecondOf(u) /\ SecondOf(u) \in Nat
    <2>1. t <= u
      OBVIOUS
    <2> QED
      BY <2>1, SecondsGrow, SecondsType
  <1> QED
    BY <1>1

\* A record that is written is not older than a settled one of its key.
LEMMA NoOldWrite ==
    ASSUME SourceOK, ProgramOK, CycleOK, WritingOK, TimeInv, ShardInv, StartInv, PlaceInv, PageInv,
           ReadInOrder, InOrder, pc = "write", NEW m \in unwritten, NEW n \in 1..Len(log),
           log[m].key = log[n].key, log[n].key \notin mixed, m < n, Settled(n)
    PROVE  FALSE
  <1>1. /\ m \in batch /\ m \in page /\ m \in 1..Len(log) /\ log[m].shard = shard
        /\ m \in Nat /\ n \in Nat /\ m <= n
    BY DEF WritingOK, PlaceInv, RecordsOf
  <1>2. /\ log[m].time \in Nat /\ log[n].time \in Nat /\ cp.ts \in Nat /\ file.ts \in Nat
        /\ log[n].shard \in Nat /\ shard \in Nat
    BY <1>1, RecordIs, Numbers DEF CycleOK
  <1>3. log[m].time <= log[n].time /\ log[m].time >= cp.ts /\ file.ts <= cp.ts
    BY <1>1 DEF TimeInv, PageInv, StartInv, Streaming
  <1>4. ~ (log[n].time < cp.ts) /\ ~ (log[n].time < file.ts)
    BY <1>2, <1>3
  <1>5. Passed(n)
    BY <1>4 DEF Settled, Due, Dropped
  <1>6. CASE log[n].shard = shard /\ n <= pos /\ n \notin page
    <2>1. n \in RecordsOf(shard)
      BY <1>6 DEF RecordsOf
    <2>2. n < m \/ log[n].time < cp.ts
      BY <1>1, <1>6, <2>1 DEF PageInv
    <2> QED
      BY <1>1, <1>4, <2>2
  <1>7. CASE n \in batch \ unwritten
    <2>1. log[m].key \in mixed
      BY <1>1, <1>7 DEF PageInv
    <2> QED
      BY <2>1
  <1>8. CASE /\ log[n].shard # shard /\ log[n].shard \notin todo
             /\ log[n].shard < shard \/ \E r \in todo : log[n].shard < r
    <2>1. shard <= log[n].shard
      BY <1>1 DEF ShardInv, ReadInOrder
    <2>2. shard < log[n].shard
      BY <1>2, <1>8, <2>1
    <2>3. PICK r \in todo : log[n].shard < r
      BY <1>2, <1>8, <2>2
    <2>4. shard # NoShard /\ log[n].shard \in 1..Len(shards)
      <3>1. shard \in 1..Len(shards) /\ Len(shards) \in Nat
        BY DEF PlaceInv, Reading, SourceOK
      <3> QED
        BY <3>1, RecordIs DEF NoShard
    <2> QED
      BY <1>8, <2>2, <2>3, <2>4 DEF InOrder
  <1> QED
    BY <1>5, <1>6, <1>7, <1>8 DEF Passed

\* A settled record keeps its value in the target.
LEMMA RightSettledStep ==
    ASSUME SourceOK, ProgramOK, CopyOK, CycleOK, WritingOK, TargetOK, TimeInv, ShardInv, StartInv,
           PlaceInv, PageInv, RightInv, ReadInOrder, InOrder, Grown, [Next]_vars, start' = start,
           NEW n \in 1..Len(log), Settled(n), Last(n)', ~ Exempt(log[n].key)'
    PROVE  Right(n)'
  <1>1. Len(log) \in Nat /\ Len(log') \in Nat /\ log'[n] = log[n] /\ mixed \subseteq mixed'
    BY SourceStep, MixedGrows DEF SourceOK, Grown
  <1>2. Right(n)
    BY DEF RightInv
  <1>3. Last(n) /\ log[n].key \notin mixed
    <2>1. Last(n)
      BY <1>1 DEF Last, Grown
    <2>2. log'[n].key \notin mixed'
      BY DEF Exempt
    <2> QED
      BY <1>1, <2>1, <2>2
  <1>4. CASE target'[log[n].key] = target[log[n].key]
    BY <1>1, <1>2, <1>4, RightKept
  <1>5. ASSUME NEW k \in Key, CopyWrite(k) PROVE FALSE
    <2>1. pc = "copy"
      BY <1>5 DEF CopyWrite
    <2> QED
      BY <2>1 DEF StartInv, Settled, Dropped, Streaming
  <1>6. ASSUME NEW m \in unwritten, WriteOne(m) PROVE target'[log[n].key] = target[log[n].key] \/ m = n
    <2>1. target' = [target EXCEPT ![log[m].key] = Value(m)] /\ pc = "write"
      BY <1>6 DEF WriteOne, Value
    <2>2. m \in 1..Len(log) /\ m \in Nat /\ n \in Nat
      <3>1. m \in 1..pos /\ pos \in 0..Len(log)
        BY DEF WritingOK
      <3> QED
        BY <1>1, <3>1
    <2>3. CASE log[m].key = log[n].key
      <3>1. m <= n
        BY <1>3, <2>2, <2>3 DEF Last
      <3>2. ~ (m < n)
        BY <1>3, <2>1, <2>3, NoOldWrite
      <3> QED
        BY <2>2, <3>1, <3>2
    <2>4. CASE log[m].key # log[n].key
      <3>1. target \in [Key -> 0..Len(log)] /\ log[n].key \in Key
        BY RecordIs DEF TargetOK
      <3> QED
        BY <2>1, <2>4, <3>1
    <2> QED
      BY <2>3, <2>4
  <1>7. ASSUME n \in unwritten, WriteOne(n) PROVE Right(n)'
    <2>1. target' = [target EXCEPT ![log[n].key] = Value(n)] /\ log' = log
      BY <1>7 DEF WriteOne, Value, source
    <2>2. target \in [Key -> 0..Len(log)] /\ log[n].key \in Key
      BY RecordIs DEF TargetOK
    <2>3. target'[log'[n].key] = Value(n)'
      BY <2>1, <2>2 DEF Value
    <2> QED
      BY <2>3 DEF Right
  <1> QED
    BY <1>4, <1>5, <1>6, <1>7, TargetKept

\* What is written by the copy is the last change made before it was read.
LEMMA RightCopyWrite ==
    ASSUME SourceOK, ProgramOK, CopyOK, TargetOK, CopyInv, NEW k \in Key, CopyWrite(k),
           NEW n \in 1..Len(log), log[n].key = k, Early(n), Last(n), k \notin Bad
    PROVE  target'[k] = Value(n)
  <1> DEFINE value == ValueAfter(k, scanned[k])
  <1>1. /\ k \in uncopied \ unread /\ pc = "copy"
        /\ target' = IF value = None \/ k \in Bad THEN target ELSE [target EXCEPT ![k] = value]
    BY DEF CopyWrite
  <1>2. /\ scanned[k] \in 0..Len(log) /\ target[k] \in 0..Len(log) /\ target \in [Key -> 0..Len(log)]
        /\ Len(log) \in Nat /\ n \in Nat
    BY DEF CopyOK, TargetOK, SourceOK
  <1>3. n \in 1..scanned[k]
    <2>1. n <= scanned[k]
      BY <1>1 DEF CopyInv
    <2> QED
      BY <1>2, <2>1
  <1>4. PICK i \in 1..scanned[k] :
            /\ log[i].key = k /\ value = Value(i)
            /\ \A j \in 1..scanned[k] : log[j].key = k => j <= i
    BY <1>2, <1>3, ValueAfterIs
  <1>5. i = n
    <2>1. i \in 1..Len(log) /\ i \in Nat
      BY <1>2
    <2>2. n <= i
      BY <1>3, <1>4
    <2>3. i <= n
      BY <1>4, <2>1 DEF Last
    <2> QED
      BY <1>2, <2>1, <2>2, <2>3
  <1> HIDE DEF value
  <1>6. CASE value = None
    <2>1. ~ log[n].put /\ Value(n) = None
      BY <1>2, <1>4, <1>5, <1>6 DEF Value, None
    <2>2. ASSUME target[k] # None PROVE FALSE
      <3>1. log[target[k]].key = k /\ log[target[k]].put /\ n <= target[k]
        BY <2>2 DEF CopyInv, Placed
      <3>2. target[k] \in 1..Len(log)
        BY <1>2, <2>2 DEF None
      <3>3. target[k] <= n
        BY <3>1, <3>2 DEF Last
      <3>4. target[k] = n
        BY <1>2, <3>1, <3>3
      <3> QED
        BY <2>1, <3>1, <3>4
    <2> QED
      BY <1>1, <1>6, <2>1, <2>2
  <1>7. CASE value # None
    BY <1>1, <1>2, <1>4, <1>5, <1>7
  <1> QED
    BY <1>6, <1>7

LEMMA RightCopiedStep ==
    ASSUME SourceOK, ProgramOK, CopyOK, WritingOK, TargetOK, TimeInv, StartInv, CopyInv, RightInv,
           SourceOK', ReadInOrder, Grown, [Next]_vars, start' = start,
           NEW n \in 1..Len(log'), Copied(n)', Last(n)', ~ Exempt(log[n].key)'
    PROVE  Right(n)'
  <1>1. /\ pc' = "copy" /\ log'[n].key \notin uncopied' /\ Early(n)'
        /\ Len(log) \in Nat /\ Len(log') \in Nat /\ mixed \subseteq mixed'
    BY MixedGrows DEF Copied, SourceOK
  <1>2. log'[n].key \in Key
    <2>1. log'[n] \in Records
      BY DEF SourceOK
    <2> QED
      BY <2>1 DEF Records
  <1>3. n \in 1..Len(log) /\ Early(n) /\ log'[n] = log[n]
    <2>1. CASE log' = log
      BY <1>1, <2>1 DEF Early
    <2>2. ASSUME NEW k \in Key, NEW put \in BOOLEAN, Change(k, put)
          PROVE  n \in 1..Len(log) /\ Early(n) /\ log'[n] = log[n]
      BY <1>1, <2>2, NewIsLate DEF Grown
    <2>3. Program \/ Tick \/ (\E s \in 1..Len(shards) : Roll(s)) \/ UNCHANGED vars => log' = log
      BY ProgramOnly DEF Tick, Roll, vars, source
    <2> QED
      BY <2>1, <2>2, <2>3 DEF Next, Environment
  <1>4. ASSUME pc = "copy", log[n].key \notin uncopied, target'[log[n].key] = target[log[n].key]
        PROVE  Right(n)'
    <2>1. Copied(n)
      BY <1>3, <1>4 DEF Copied
    <2>2. Right(n)
      BY <1>3, <2>1 DEF RightInv
    <2> QED
      BY <1>1, <1>3, <1>4, <2>2, RightKept
  <1>5. ASSUME NEW k \in Key, CopyWrite(k) PROVE Right(n)'
    <2>1. uncopied' = uncopied \ {k} /\ pc = "copy" /\ log' = log
      BY <1>5 DEF CopyWrite, source
    <2>2. CASE k = log[n].key
      <3>1. Last(n) /\ k \notin Bad
        BY <1>3, <2>1, <2>2 DEF Last, Exempt
      <3>2. target'[log[n].key] = Value(n)
        BY <1>3, <1>5, <2>2, <3>1, RightCopyWrite
      <3>3. target'[log'[n].key] = Value(n)'
        BY <1>3, <3>2 DEF Value
      <3> QED
        BY <3>3 DEF Right
    <2>3. CASE k # log[n].key
      <3>1. target \in [Key -> 0..Len(log)]
        BY DEF TargetOK
      <3>2. target'[log[n].key] = target[log[n].key]
        BY <1>2, <1>3, <1>5, <2>3, <3>1 DEF CopyWrite
      <3> QED
        BY <1>1, <1>3, <1>4, <2>1, <2>3, <3>2
    <2> QED
      BY <2>2, <2>3
  <1>6. StartFromCheckpoint \/ SaveFirst => uncopied' = Key \/ pc' = "list"
    BY DEF StartFromCheckpoint, SaveFirst, ToCopy
  <1>7. StartAnew \/ CopyDone \/ ListShards \/ PickShard \/ CycleEnds \/ Stop => pc' # "copy"
    BY DEF StartAnew, CopyDone, ListShards, PickShard, CycleEnds, Stop
  <1>8. GetFails \/ GetRecords \/ SubmitBatch \/ BatchFails \/ BatchOk \/ PageDone => pc' # "copy"
    BY DEF GetFails, GetRecords, SubmitBatch, BatchFails, LeaveShard, BatchOk, PageDone
  <1>9. (\E m \in unwritten : WriteOne(m)) => pc' # "copy"
    BY DEF WriteOne
  <1>10. (\E k \in Key : CopyRead(k)) => UNCHANGED <<pc, uncopied, target>>
    BY DEF CopyRead
  <1>11. Environment \/ UNCHANGED vars => UNCHANGED <<pc, uncopied, target>>
    BY EnvironmentOnly DEF program, vars, copy
  <1>12. CASE UNCHANGED <<pc, uncopied, target>>
    BY <1>1, <1>3, <1>4, <1>12
  <1> QED
    BY <1>1, <1>2, <1>5, <1>6, <1>7, <1>8, <1>9, <1>10, <1>11, <1>12 DEF Next, Program

LEMMA RightStep ==
    ASSUME SourceOK, ProgramOK, CopyOK, CycleOK, WritingOK, TargetOK, TimeInv, ShardInv, StartInv,
           PlaceInv, CycleInv, PageInv, CopyInv, RightInv,
           SourceOK', ProgramOK', CycleOK', TimeInv', Grown, [Next]_vars
    PROVE  RightInv'
  <1> SUFFICES ASSUME ReadInOrder', NEW n \in 1..Len(log'), Settled(n)' \/ Copied(n)',
                      Last(n)', ~ Exempt(log[n].key)'
               PROVE  Right(n)'
    BY DEF RightInv, Right
  <1>1. start' = start /\ ReadInOrder /\ InOrder
    BY StartIsKept, OrderKept DEF CycleInv
  <1>2. CASE Copied(n)'
    BY <1>1, <1>2, RightCopiedStep
  <1>3. CASE Settled(n)'
    <2>1. Settles(n)
      BY <1>3, StepSettles
    <2>2. CASE n \in 1..Len(log) /\ Settled(n)
      BY <1>1, <2>2, RightSettledStep
    <2>3. CASE log'[n].time < start' /\ (Early(n)' => n \in 1..Len(log) /\ CopyDone)
      <3>1. CASE ~ Early(n)'
        <4>1. log'[n].time \in Nat /\ start' \in Nat
          <5>1. log'[n] \in Records
            BY DEF SourceOK
          <5> QED
            BY <5>1, BoundsAreNat DEF Records, ProgramOK, Timestamps
        <4>2. log'[n].time = SecondOf(log'[n].time) /\ ~ (log'[n].time < SecondOf(start'))
          BY <3>1 DEF TimeInv, Early, SecondOf
        <4>3. log'[n].time = SecondOf(start') /\ SecondOf(start') < start'
          BY <2>3, <4>1, <4>2, StartSecondIs
        <4>4. InStartSecond(n)'
          BY <4>3 DEF InStartSecond, SecondOf
        <4> QED
          BY <4>4 DEF Exempt
      <3>2. CASE n \in 1..Len(log) /\ CopyDone /\ Early(n)'
        <4>1. pc = "copy" /\ uncopied = {} /\ target' = target
          BY <3>2 DEF CopyDone
        <4>2. log'[n] = log[n]
          BY <3>2 DEF Grown
        <4>3. Copied(n)
          BY <1>1, <3>2, <4>1, <4>2 DEF Copied, Early
        <4>4. Right(n)
          BY <1>1, <3>2, <4>3 DEF RightInv
        <4>5. Len(log) \in Nat /\ Len(log') \in Nat
          BY DEF SourceOK
        <4> QED
          BY <1>1, <3>2, <4>1, <4>4, <4>5, MixedGrows, RightKept
      <3> QED
        BY <2>3, <3>1, <3>2
    <2>4. CASE log'[n].key \in Bad
      BY <2>4 DEF Exempt
    <2>5. CASE n \in unwritten /\ WriteOne(n)
      <3>1. target' = [target EXCEPT ![log[n].key] = Value(n)] /\ log' = log
        BY <2>5 DEF WriteOne, Value, source
      <3>2. target \in [Key -> 0..Len(log)] /\ log[n].key \in Key
        BY <3>1, RecordIs DEF TargetOK
      <3>3. target'[log'[n].key] = Value(n)'
        BY <3>1, <3>2 DEF Value
      <3> QED
        BY <3>3 DEF Right
    <2> QED
      BY <2>1, <2>2, <2>3, <2>4, <2>5 DEF Settles
  <1> QED
    BY <1>2, <1>3
-----------------------------------------------------------------------------
(* The theorems. *)

LEMMA InitInv == ASSUME Init PROVE IInv
  <1>1. /\ clock = 0 /\ log = <<>> /\ Len(log) = 0 /\ pc = "idle" /\ runs = 0 /\ cp = NoCheckpoint
        /\ scanned = NoCopy /\ unread = {} /\ uncopied = {}
        /\ todo = {} /\ sorted = TRUE /\ shard = NoShard /\ pos = 0 /\ atEnd = FALSE
        /\ page = {} /\ done = 0 /\ batch = {} /\ unwritten = {}
        /\ target = [k \in Key |-> None]
        /\ seen = {} /\ start = 0 /\ mixed = {} /\ brokeOff = FALSE
    BY DEF Init
  <1>2. file \in Files /\ file.mode # "live" /\ file.ts = 0 /\ ~file.complete
    <2>1. PICK mode \in {"none", "migrate"} : file = [mode |-> mode, ts |-> 0, complete |-> FALSE]
      BY DEF Init
    <2>2. 0 \in Timestamps
      BY BoundsAreNat DEF Timestamps
    <2> QED
      BY <2>1, <2>2 DEF Files
  <1>3. /\ shards \in Seq([line : Lineage, open : BOOLEAN]) /\ Len(shards) = Cardinality(Lineage)
        /\ Len(shards) \in Nat
    <2> DEFINE N == Cardinality(Lineage)
               S == [line : Lineage, open : {TRUE}]
               B == [line : Lineage, open : BOOLEAN]
    <2>1. N \in Nat
      BY ReplicatorAssumption, FS_CardinalityType
    <2>2. shards \in [1..N -> S]
      BY DEF Init
    <2>3. S \subseteq B
      OBVIOUS
    <2>4. shards \in Seq(B) /\ Len(shards) = N
      <3> HIDE DEF N, S, B
      <3>1. shards \in [1..N -> B]
        BY <2>2, <2>3
      <3> QED
        BY <2>1, <3>1
    <2> QED
      BY <2>1, <2>4
  <1>4. SourceOK
    BY <1>1, <1>3, BoundsAreNat DEF SourceOK, Timestamps
  <1>5. ProgramOK
    BY <1>1, <1>2, <1>4, BoundsAreNat, NoCheckpointOK DEF ProgramOK
  <1>6. CopyOK /\ CycleOK /\ WritingOK /\ TargetOK
    <2>1. CopyOK
      BY <1>1 DEF CopyOK, NoCopy
    <2>2. CycleOK
      <3>1. todo \subseteq 1..Len(shards) /\ shard \in 0..Len(shards)
        BY <1>1, <1>3 DEF NoShard
      <3>2. sorted \in BOOLEAN /\ atEnd \in BOOLEAN /\ brokeOff \in BOOLEAN
        BY <1>1, Zenon
      <3> QED
        BY <3>1, <3>2 DEF CycleOK
    <2>3. WritingOK
      BY <1>1 DEF WritingOK
    <2>4. TargetOK
      BY <1>1 DEF TargetOK, None
    <2> QED
      BY <2>1, <2>2, <2>3, <2>4
  <1>7. TypeOK
    BY <1>4, <1>5, <1>6, TypeParts
  <1>8. TimeInv
    BY <1>1 DEF TimeInv
  <1>9. ShardInv
    BY <1>1, <1>3 DEF ShardInv
  <1>10. StartInv
    BY <1>1, <1>2 DEF StartInv, Streaming
  <1>11. PlaceInv
    BY <1>1 DEF PlaceInv, Reading
  <1>12. CycleInv
    BY <1>1 DEF CycleInv, InOrder
  <1>13. PageInv
    BY <1>1 DEF PageInv
  <1>14. CopyInv
    BY <1>1, <1>2 DEF CopyInv, Placed, EarlySeen, Streaming
  <1>15. SeenInv /\ RightInv
    BY <1>1 DEF SeenInv, RightInv
  <1> QED
    BY <1>7, <1>8, <1>9, <1>10, <1>11, <1>12, <1>13, <1>14, <1>15 DEF IInv

LEMMA StepInv == ASSUME IInv, [Next]_vars PROVE IInv'
  <1>1. /\ SourceOK /\ ProgramOK /\ CopyOK /\ CycleOK /\ WritingOK /\ TargetOK
        /\ TimeInv /\ ShardInv /\ StartInv /\ PlaceInv /\ CycleInv /\ PageInv /\ CopyInv
        /\ SeenInv /\ RightInv
    BY TypeParts DEF IInv
  <1>2. SourceOK' /\ Grown
    BY <1>1, SourceStep
  <1>3. ProgramOK' /\ CopyOK' /\ CycleOK' /\ WritingOK'
    BY <1>1, <1>2, ProgramStep, CopyStep, CycleStep, WritingStep
  <1>4. TargetOK'
    BY <1>1, <1>2, TargetStep
  <1>5. TimeInv' /\ ShardInv' /\ StartInv' /\ PlaceInv' /\ CycleInv'
    BY <1>1, <1>2, TimeStep, ShardStep, StartStep, PlaceStep, CycleInvStep
  <1>6. PageInv' /\ CopyInv'
    BY <1>1, PageStep, CopyInvStep
  <1>7. SeenInv'
    BY <1>1, <1>2, <1>3, SeenStep
  <1>8. RightInv'
    BY <1>1, <1>2, <1>3, <1>5, RightStep
  <1>9. TypeOK'
    BY <1>2, <1>3, <1>4, TypeParts, Zenon
       DEF TypeOK, SourceOK, ProgramOK, CopyOK, CycleOK, WritingOK, TargetOK
  <1> QED
    BY <1>5, <1>6, <1>7, <1>8, <1>9 DEF IInv

\* The inductive invariant: in every state of a replication, what is settled was
\* seen and stands in the target, and the places, the page, the checkpoint and
\* the copy are as their parts of the invariant say.  (replicator.go:86-504)
THEOREM ReplicatorInvariant == Spec => []IInv
  <1>1. Init => IInv
    BY InitInv
  <1>2. IInv /\ [Next]_vars => IInv'
    BY StepInv
  <1> QED
    BY <1>1, <1>2, PTL DEF Spec

\* Whatever the interleaving of the writes to the table, the failures, the
\* stops and the starts, the variables keep their types: the places and the
\* pages stay within the stream, and nothing is written that is not in a batch.
\* (replicator.go:340-504)
THEOREM ReplicatorTypes == Spec => []TypeOK
  <1>1. IInv => TypeOK
    BY DEF IInv
  <1> QED
    BY <1>1, ReplicatorInvariant, PTL

\* For a stream that is read in order, every record the saved timestamp drops
\* has reached the target or was made in the second replication started in.
\* (replicator.go:394-418, 438-451)
THEOREM DropsAreApplied == Spec => []DroppedIsApplied
  <1>1. ASSUME IInv PROVE DroppedIsApplied
    <2> SUFFICES ASSUME ReadInOrder, NEW n \in 1..Len(log), Lost(n) PROVE InStartSecond(n)
      BY DEF DroppedIsApplied
    <2>1. /\ SourceOK /\ ProgramOK /\ TimeInv /\ CopyInv /\ SeenInv
      BY <1>1, TypeParts DEF IInv
    <2>2. file.complete /\ n \notin seen /\ Settled(n)
      BY DEF Lost, Settled, Dropped
    <2>3. log[n].time < start
      BY <2>1, <2>2 DEF SeenInv, Known
    <2>4. log[n].key \in Key /\ log[n].time \in Nat /\ start \in Nat
      BY <2>1, RecordIs, Numbers
    <2>5. ~ Early(n)
      BY <2>1, <2>2, <2>4 DEF CopyInv, EarlySeen
    <2>6. log[n].time = SecondOf(log[n].time)
      BY <2>1 DEF TimeInv
    <2> QED
      BY <2>3, <2>4, <2>5, <2>6, StartSecondIs DEF Early, InStartSecond
  <1>2. IInv => DroppedIsApplied
    BY <1>1
  <1> QED
    BY <1>2, ReplicatorInvariant, PTL

\* A reader at the end of a stream that was read in order leaves in the target
\* the last value of every key, however often it was stopped and has replayed,
\* but for keys with two records in one batch, with items that are not
\* converted, or with a change in the second replication started in.
\* (replicator.go:197-210, 690-738)
THEOREM CaughtUpReadersAgree == Spec => []CaughtUpIsEqual
  <1>1. ASSUME IInv PROVE CaughtUpIsEqual
    <2> SUFFICES ASSUME CaughtUp, ReadInOrder, NEW k \in Key \ (mixed \cup Bad),
                        ~ \E n \in 1..Len(log) : log[n].key = k /\ InStartSecond(n)
                 PROVE  target[k] = Table(k)
      BY DEF CaughtUpIsEqual
    <2>1. /\ SourceOK /\ CycleOK /\ TargetOK /\ PlaceInv /\ CopyInv /\ RightInv
      BY <1>1, TypeParts DEF IInv
    <2>2. /\ pc = "get" /\ todo = {} /\ shard = Len(shards) /\ page = {}
          /\ \A n \in RecordsOf(shard) : n <= pos
      BY <2>1 DEF CaughtUp, PlaceInv
    <2>3. Len(log) \in Nat /\ Len(log) \in 0..Len(log) /\ Len(shards) \in Nat
      BY <2>1 DEF SourceOK
    <2>4. CASE Table(k) = None /\ \A i \in 1..Len(log) : log[i].key # k
      <3>1. target[k] \in 0..Len(log)
        BY <2>1 DEF TargetOK
      <3>2. target[k] # None => target[k] \in 1..Len(log) /\ log[target[k]].key = k
        BY <2>1, <2>3, <3>1 DEF CopyInv, Placed, None
      <3> QED
        BY <2>4, <3>2
    <2>5. ASSUME NEW i \in 1..Len(log), log[i].key = k, Table(k) = Value(i),
                 \A j \in 1..Len(log) : log[j].key = k => j <= i
          PROVE  target[k] = Table(k)
      <3>1. Last(i) /\ ~ Exempt(log[i].key)
        BY <2>5 DEF Last, Exempt
      <3>2. log[i].shard \in 1..Len(shards)
        BY <2>1, RecordIs
      <3>3. CASE log[i].shard = shard
        <4>1. i <= pos
          BY <2>2, <3>3 DEF RecordsOf
        <4> QED
          BY <2>2, <3>1, <3>3, <4>1, <2>1, <2>5 DEF RightInv, Right, Settled, Due, Passed, Streaming
      <3>4. CASE log[i].shard # shard
        <4>1. log[i].shard < shard
          BY <2>2, <2>3, <3>2, <3>4
        <4> QED
          BY <2>2, <3>1, <3>4, <4>1, <2>1, <2>5 DEF RightInv, Right, Settled, Due, Passed, Streaming
      <3> QED
        BY <3>3, <3>4
    <2> QED
      BY <2>1, <2>3, <2>4, <2>5, ValueAfterIs DEF Table
  <1>2. IInv => CaughtUpIsEqual
    BY <1>1
  <1> QED
    BY <1>2, ReplicatorInvariant, PTL
=============================================================================
