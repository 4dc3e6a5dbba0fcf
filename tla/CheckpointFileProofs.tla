------------------------- MODULE CheckpointFileProofs -------------------------
(***************************************************************************)
(* Proofs about the checkpoint file: the types, that a load never meets    *)
(* half a checkpoint, and that the manager over its files implements the   *)
(* store its callers think of, for any number of goroutines and tables.    *)
(***************************************************************************)
EXTENDS CheckpointFile, TLAPS

\* The invariant holds at the start.
LEMMA FileInit == Init => TypeOK /\ FileInv
BY FileAssumption DEF Init, TypeOK, FileInv, MutexHolds, FileNeverTorn, Content,
   Exclusive, Idle

\* A method knows its table.
LEMMA CallTable ==
    ASSUME TypeOK, FileInv, NEW p \in Process, step[p] # "idle"
    PROVE  call[p] \in Call /\ call[p].table \in Table
BY DEF TypeOK, FileInv, Call

LEMMA FileTypeStep == TypeOK /\ FileInv /\ [Next]_vars => TypeOK'
<1> SUFFICES ASSUME TypeOK, FileInv, [Next]_vars PROVE TypeOK'
  OBVIOUS
<1> USE FileAssumption DEF TypeOK, Content, Exclusive, Answer, GoTo
<1>1. ASSUME NEW p \in Process, NEW c \in Call, Begin(p, c) PROVE TypeOK'
  BY <1>1 DEF Begin
<1>2. ASSUME NEW p \in Process, ProcessStep(p) PROVE TypeOK'
  <2>1. CASE Lock(p) \/ RLock(p)
    BY <2>1 DEF Lock, RLock
  <2>2. ASSUME NEW image \in Image, Marshal(p, image) PROVE TypeOK'
    BY <2>2 DEF Marshal
  <2>3. CASE WriteTemp(p) \/ WriteFails(p)
    BY <2>3 DEF WriteTemp, WriteFails
  <2>4. CASE Rename(p) \/ RenameFails(p)
    BY <2>4, CallTable DEF Rename, RenameFails
  <2>5. CASE Remove(p) \/ RemoveFails(p)
    BY <2>5 DEF Remove, RemoveFails
  <2>6. CASE Read(p)
    <3>1. file[call[p].table] \in Content
      BY <2>6, CallTable DEF Read, FileInv, FileNeverTorn
    <3> QED
      BY <2>6, <3>1 DEF Read
  <2>7. CASE Return(p)
    BY <2>7 DEF Return, Idle
  <2> QED
    BY <1>2, <2>1, <2>2, <2>3, <2>4, <2>5, <2>6, <2>7 DEF ProcessStep
<1>3. CASE Crash
  BY <1>3 DEF Crash
<1>4. CASE UNCHANGED vars
  BY <1>4 DEF vars, memory
<1> QED
  BY <1>1, <1>2, <1>3, <1>4 DEF Next

\* One goroutine moves: the mutex keeps the others out of its way.
LEMMA FileInvStep == TypeOK /\ FileInv /\ [Next]_vars => FileInv'
<1> SUFFICES ASSUME TypeOK, FileInv, [Next]_vars PROVE FileInv'
  OBVIOUS
<1> USE FileAssumption DEF TypeOK, Exclusive, Answer, GoTo, FileInv, MutexHolds,
        FileNeverTorn
<1>1. ASSUME NEW p \in Process, NEW c \in Call, Begin(p, c) PROVE FileInv'
  <2>1. c # Idle
    BY DEF Call, Idle
  <2> QED
    BY <1>1, <2>1 DEF Begin
<1>2. ASSUME NEW p \in Process, ProcessStep(p) PROVE FileInv'
  <2>1. CASE Lock(p) \/ RLock(p)
    BY <2>1 DEF Lock, RLock
  <2>2. ASSUME NEW image \in Image, Marshal(p, image) PROVE FileInv'
    BY <2>2 DEF Marshal
  <2>3. CASE WriteTemp(p) \/ WriteFails(p)
    BY <2>3, CallTable DEF WriteTemp, WriteFails
  <2>4. CASE Rename(p) \/ RenameFails(p)
    BY <2>4, CallTable DEF Rename, RenameFails
  <2>5. CASE Remove(p) \/ RemoveFails(p)
    BY <2>5, CallTable DEF Remove, RemoveFails
  <2>6. CASE Read(p)
    <3>1. file[call[p].table] \in Content
      BY <2>6, CallTable DEF Read
    <3> QED
      BY <2>6, <3>1 DEF Read, Content
  <2>7. CASE Return(p)
    BY <2>7 DEF Return
  <2> QED
    BY <1>2, <2>1, <2>2, <2>3, <2>4, <2>5, <2>6, <2>7 DEF ProcessStep
<1>3. CASE Crash
  BY <1>3 DEF Crash
<1>4. CASE UNCHANGED vars
  BY <1>4 DEF vars, memory
<1> QED
  BY <1>1, <1>2, <1>3, <1>4 DEF Next

LEMMA FileInvariant == Spec => [](TypeOK /\ FileInv)
  BY FileInit, FileTypeStep, FileInvStep, PTL DEF Spec

\* Every file holds nothing, a checkpoint or half of one, and every caller has a
\* place in its call, whatever crashes.  (manager.go:86-135, 260-281)
THEOREM FileTypes == Spec => []TypeOK
  BY FileInvariant, PTL

\* No crash or failure leaves half a checkpoint where Load reads, and nobody
\* writes a checkpoint beside another writer or a reader.  (manager.go:86-135,
\* 260-281)
THEOREM FileIsNeverTorn == Spec => []FileNeverTorn /\ []MutexHolds
<1>1. FileInv => FileNeverTorn /\ MutexHolds
  BY DEF FileInv
<1> QED
  BY <1>1, FileInvariant, PTL
-----------------------------------------------------------------------------
(* The refinement: the store's value is the file.  A save takes effect with  *)
(* its rename, a load with its read.                                         *)

LEMMA StoreInit == Init => Store!Init
BY FileAssumption DEF Init, Store!Init, Store!Idle, Idle

LEMMA StoreStep ==
    TypeOK /\ FileInv /\ [Next]_vars => [Store!Next]_(Store!vars)
<1> SUFFICES ASSUME TypeOK, FileInv, Next \/ UNCHANGED vars
             PROVE  Store!Next \/ UNCHANGED <<file, call, answer>>
  BY DEF Store!vars
<1>1. ASSUME NEW p \in Process, NEW c \in Call, Begin(p, c)
      PROVE  Store!Begin(p, c) /\ c \in Store!Call
  BY <1>1 DEF Begin, Store!Begin, Store!Call, Call, Store!Idle, Idle, TypeOK, FileInv
<1>2. ASSUME NEW p \in Process, ProcessStep(p)
      PROVE  Store!Next \/ UNCHANGED <<file, call, answer>>
  <2> USE DEF Answer, GoTo
  <2>1. CASE Lock(p) \/ RLock(p) \/ WriteTemp(p) \/ \E image \in Image : Marshal(p, image)
    BY <2>1 DEF Lock, RLock, WriteTemp, Marshal
  <2>2. CASE WriteFails(p) \/ RenameFails(p) \/ RemoveFails(p)
    <3>1. Store!Fail(p)
      BY <2>2 DEF WriteFails, RenameFails, RemoveFails, Store!Fail, Store!Idle, Idle,
         FileInv
    <3> QED
      BY <3>1 DEF Store!Next
  <2>3. CASE Rename(p)
    <3>1. data[p] \in Image /\ Store!Save(p, data[p])
      BY <2>3 DEF Rename, Store!Save, Store!Open, FileInv
    <3> QED
      BY <3>1 DEF Store!Next
  <2>4. CASE Remove(p)
    <3>1. Store!Delete(p)
      BY <2>4 DEF Remove, Store!Delete, Store!Open, FileInv
    <3> QED
      BY <3>1 DEF Store!Next
  <2>5. CASE Read(p)
    <3>1. file[call[p].table] # Torn
      BY <2>5, CallTable DEF Read, FileInv, FileNeverTorn
    <3>2. Store!Load(p) \/ Store!Fail(p)
      BY <2>5, <3>1 DEF Read, Store!Load, Store!Fail, Store!Open, Store!Idle, Idle, FileInv
    <3> QED
      BY <3>2 DEF Store!Next
  <2>6. CASE Return(p)
    <3>1. Store!Return(p)
      BY <2>6 DEF Return, Store!Return, Store!Idle, Idle, FileInv
    <3> QED
      BY <3>1 DEF Store!Next
  <2> QED
    BY <1>2, <2>1, <2>2, <2>3, <2>4, <2>5, <2>6 DEF ProcessStep
<1>3. CASE Crash
  BY <1>3 DEF Crash, Store!Crash, Store!Idle, Idle, Store!Next
<1>4. CASE UNCHANGED vars
  BY <1>4 DEF vars, memory
<1> QED
  BY <1>1, <1>2, <1>3, <1>4 DEF Next, Store!Next

\* The checkpoint manager over its files implements the store: to every caller
\* a save, a load or a delete is one step, across crashes and failed calls.
THEOREM FileImplementsStore == Spec => ImplementsStore
  BY FileInvariant, StoreInit, StoreStep, PTL DEF Spec, ImplementsStore, Store!Spec
=============================================================================
