--------------------------- MODULE CheckpointFile ---------------------------
(***************************************************************************)
(* The checkpoint manager over its file storage                            *)
(* (internal/checkpoint/manager.go): Save, Load and Delete under the       *)
(* read-write mutex, a save as a write to <table>.json.tmp followed by a   *)
(* rename, any system call of which may fail, and a process that may die   *)
(* between any two of them.                                                *)
(***************************************************************************)
CONSTANTS Process, Table, Image, Missing,
          Torn,      \* a file that was written in part
          Nobody     \* the mutex has no writer

ASSUME FileAssumption ==
    /\ Missing \notin Image \cup {"none", "ok", "error"}
    /\ Torn \notin Image \cup {Missing}
    /\ Nobody \notin Process
    /\ {"none", "ok", "error"} \cap Image = {}

VARIABLES
    call,      \* call[p]: the method p is in, and its table
    answer,    \* answer[p]: what the method is about to return
    step,      \* step[p]: where p is in it
    data,      \* data[p]: what MarshalIndent returned to p
    writer,    \* who holds Manager.mu for writing
    readers,   \* who holds it for reading
    temp,      \* temp[t]: the file <t>.json.tmp
    file       \* file[t]: the file <t>.json

memory == <<call, answer, step, data, writer, readers>>
vars == <<memory, temp, file>>

Idle == [kind |-> "none"]
Call == [kind : {"save", "load", "delete"}, table : Table]
Content == Image \cup {Missing}
Exclusive == {"marshal", "truncated", "written", "remove"}

TypeOK ==
    /\ call \in [Process -> Call \cup {Idle}]
    /\ answer \in [Process -> Content \cup {"none", "ok", "error"}]
    /\ step \in [Process -> {"idle", "wait", "read", "return"} \cup Exclusive]
    /\ data \in [Process -> Content]
    /\ writer \in Process \cup {Nobody}
    /\ readers \in SUBSET Process
    /\ temp \in [Table -> Content \cup {Torn}]
    /\ file \in [Table -> Content \cup {Torn}]

Init ==
    /\ call = [p \in Process |-> Idle]
    /\ answer = [p \in Process |-> "none"]
    /\ step = [p \in Process |-> "idle"]
    /\ data = [p \in Process |-> Missing]
    /\ writer = Nobody
    /\ readers = {}
    /\ temp = [t \in Table |-> Missing]
    /\ file = [t \in Table |-> Missing]

\* The operation of p is decided; it still holds the lock.
Answer(p, a) ==
    /\ answer' = [answer EXCEPT ![p] = a]
    /\ step' = [step EXCEPT ![p] = "return"]
    /\ data' = [data EXCEPT ![p] = Missing]
    /\ UNCHANGED <<call, writer, readers>>

GoTo(p, s) ==
    /\ step' = [step EXCEPT ![p] = s]
    /\ UNCHANGED <<call, answer, data, writer, readers>>

Begin(p, c) ==
    /\ step[p] = "idle"
    /\ call' = [call EXCEPT ![p] = c]
    /\ step' = [step EXCEPT ![p] = "wait"]
    /\ UNCHANGED <<answer, data, writer, readers, temp, file>>

\* Mutant: Save takes the mutex for reading.
LockShared(p) ==
    /\ step[p] = "wait"
    /\ call[p].kind \in {"save", "delete"}
    /\ writer = Nobody
    /\ readers' = readers \cup {p}
    /\ step' = [step EXCEPT ![p] = IF call[p].kind = "save" THEN "marshal" ELSE "remove"]
    /\ UNCHANGED <<call, answer, data, writer, temp, file>>

\* m.mu.Lock() of Save and Delete
Lock(p) ==
    /\ step[p] = "wait"
    /\ call[p].kind \in {"save", "delete"}
    /\ writer = Nobody
    /\ readers = {}
    /\ writer' = p
    /\ step' = [step EXCEPT ![p] = IF call[p].kind = "save" THEN "marshal" ELSE "remove"]
    /\ UNCHANGED <<call, answer, data, readers, temp, file>>

\* m.mu.RLock() of Load
RLock(p) ==
    /\ step[p] = "wait"
    /\ call[p].kind = "load"
    /\ writer = Nobody
    /\ readers' = readers \cup {p}
    /\ step' = [step EXCEPT ![p] = "read"]
    /\ UNCHANGED <<call, answer, data, writer, temp, file>>

\* The checkpoint as it is now becomes JSON, and WriteFile truncates the
\* temporary file.
Marshal(p, image) ==
    /\ step[p] = "marshal"
    /\ data' = [data EXCEPT ![p] = image]
    /\ step' = [step EXCEPT ![p] = "truncated"]
    /\ temp' = [temp EXCEPT ![call[p].table] = Torn]
    /\ UNCHANGED <<call, answer, writer, readers, file>>

\* Mutant: the outcome is written instead of the data.
WriteWrongTemp(p) ==
    /\ step[p] = "truncated"
    /\ temp' = [temp EXCEPT ![call[p].table] = answer[p]]
    /\ GoTo(p, "written")
    /\ UNCHANGED file

WriteTemp(p) ==
    /\ step[p] = "truncated"
    /\ temp' = [temp EXCEPT ![call[p].table] = data[p]]
    /\ GoTo(p, "written")
    /\ UNCHANGED file

\* MarshalIndent or WriteFile fails: what was written of the temporary file
\* stays behind.
WriteFails(p) ==
    /\ step[p] \in {"marshal", "truncated"}
    /\ Answer(p, "error")
    /\ UNCHANGED <<temp, file>>

Rename(p) ==
    /\ step[p] = "written"
    /\ file' = [file EXCEPT ![call[p].table] = temp[call[p].table]]
    /\ temp' = [temp EXCEPT ![call[p].table] = Missing]
    /\ Answer(p, "ok")

\* Mutant: a save that could not be renamed is reported as done.
RenameFailsSilently(p) ==
    /\ step[p] = "written"
    /\ temp' = [temp EXCEPT ![call[p].table] = Missing]
    /\ Answer(p, "ok")
    /\ UNCHANGED file

\* The rename fails and the temporary file is removed, if that succeeds.
RenameFails(p) ==
    /\ step[p] = "written"
    /\ \/ temp' = [temp EXCEPT ![call[p].table] = Missing]
       \/ temp' = temp
    /\ Answer(p, "error")
    /\ UNCHANGED file

\* A file that does not exist counts as removed.
Remove(p) ==
    /\ step[p] = "remove"
    /\ file' = [file EXCEPT ![call[p].table] = Missing]
    /\ Answer(p, "ok")
    /\ UNCHANGED temp

RemoveFails(p) ==
    /\ step[p] = "remove"
    /\ file[call[p].table] # Missing
    /\ Answer(p, "error")
    /\ UNCHANGED <<temp, file>>

\* ReadFile and Unmarshal: no file is no checkpoint, half a file is an error.
Read(p) ==
    /\ step[p] = "read"
    /\ \/ Answer(p, IF file[call[p].table] = Torn THEN "error" ELSE file[call[p].table])
       \/ file[call[p].table] # Missing /\ Answer(p, "error")
    /\ UNCHANGED <<temp, file>>

\* Mutant: the method returns without its unlock.
ReturnLocked(p) ==
    /\ step[p] = "return"
    /\ call' = [call EXCEPT ![p] = Idle]
    /\ answer' = [answer EXCEPT ![p] = "none"]
    /\ step' = [step EXCEPT ![p] = "idle"]
    /\ UNCHANGED <<data, writer, readers, temp, file>>

\* The deferred unlock, and the return.
Return(p) ==
    /\ step[p] = "return"
    /\ call' = [call EXCEPT ![p] = Idle]
    /\ answer' = [answer EXCEPT ![p] = "none"]
    /\ step' = [step EXCEPT ![p] = "idle"]
    /\ writer' = IF writer = p THEN Nobody ELSE writer
    /\ readers' = readers \ {p}
    /\ UNCHANGED <<data, temp, file>>

\* The process dies; the two files of every table survive it.
Crash ==
    /\ call' = [p \in Process |-> Idle]
    /\ answer' = [p \in Process |-> "none"]
    /\ step' = [p \in Process |-> "idle"]
    /\ data' = [p \in Process |-> Missing]
    /\ writer' = Nobody
    /\ readers' = {}
    /\ UNCHANGED <<temp, file>>

ProcessStep(p) ==
    \/ Lock(p) \/ RLock(p)
    \/ \E image \in Image : Marshal(p, image)
    \/ WriteTemp(p) \/ WriteFails(p) \/ Rename(p) \/ RenameFails(p)
    \/ Remove(p) \/ RemoveFails(p) \/ Read(p) \/ Return(p)

Next ==
    \/ \E p \in Process : ProcessStep(p) \/ \E c \in Call : Begin(p, c)
    \/ Crash

Spec == Init /\ [][Next]_vars

\* The mutex is strongly fair: Go's RWMutex lets no waiter starve.
Fairness ==
    \A p \in Process :
        /\ WF_vars(ProcessStep(p))
        /\ SF_vars(Lock(p))
        /\ SF_vars(RLock(p))

FairSpec == Spec /\ Fairness
-----------------------------------------------------------------------------
(* Properties. *)

\* Whoever changes a checkpoint file or its temporary file is alone: no other
\* goroutine is between its lock and its unlock.  (manager.go:87, 106, 126)
MutexHolds ==
    /\ writer # Nobody => readers = {}
    /\ \A p \in Process : step[p] \in Exclusive => writer = p

\* No crash and no failed call leaves half a checkpoint where Load looks for
\* it: "Write to temporary file first", "Atomic rename".  (manager.go:269-278)
FileNeverTorn == \A t \in Table : file[t] # Torn

\* Save, Load and Delete behave as single steps on one value per table.
Store == INSTANCE CheckpointStore WITH value <- file
ImplementsStore == Store!Spec

\* The inductive form of MutexHolds, FileNeverTorn and ImplementsStore: a step
\* belongs to its method, an answer to a method that is about to return, and
\* what is renamed is what was marshalled.
FileInv ==
    /\ MutexHolds
    /\ FileNeverTorn
    /\ \A p \in Process :
        /\ step[p] = "idle" <=> call[p] = Idle
        /\ step[p] = "return" <=> answer[p] # "none"
        /\ step[p] \in {"marshal", "truncated", "written"} => call[p].kind = "save"
        /\ step[p] = "remove" => call[p].kind = "delete"
        /\ step[p] = "read" => call[p].kind = "load"
        /\ step[p] \in {"truncated", "written"} => data[p] \in Image
        /\ step[p] = "written" => temp[call[p].table] = data[p]

\* Every call returns, unless the process dies.  (manager.go:86-135)
EveryCallReturns ==
    \A p \in Process : step[p] # "idle" ~> step[p] = "idle"
=============================================================================
