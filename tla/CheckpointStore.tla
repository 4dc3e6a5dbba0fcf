--------------------------- MODULE CheckpointStore ---------------------------
(***************************************************************************)
(* What the checkpoint manager promises its callers: one value per table,  *)
(* replaced as a whole by a save that succeeds, left alone by one that     *)
(* fails, and read as a whole by a load, whatever runs at the same time    *)
(* and wherever the process dies.                                          *)
(***************************************************************************)
CONSTANTS Process,   \* goroutines that call the manager
          Table,     \* names of checkpoints
          Image,     \* contents a checkpoint can have
          Missing    \* the content of a checkpoint that does not exist

VARIABLES value,     \* value[t]: the checkpoint of t
          call,      \* call[p]: the operation p is in
          answer     \* answer[p]: its outcome, once it is decided

vars == <<value, call, answer>>

Call == [kind : {"save", "load", "delete"}, table : Table]
Idle == [kind |-> "none"]

Init ==
    /\ value \in [Table -> Image \cup {Missing}]
    /\ call = [p \in Process |-> Idle]
    /\ answer = [p \in Process |-> "none"]

Begin(p, c) ==
    /\ call[p] = Idle
    /\ call' = [call EXCEPT ![p] = c]
    /\ answer' = [answer EXCEPT ![p] = "none"]
    /\ UNCHANGED value

Open(p, kind) == call[p].kind = kind /\ answer[p] = "none"

Save(p, image) ==
    /\ Open(p, "save")
    /\ value' = [value EXCEPT ![call[p].table] = image]
    /\ answer' = [answer EXCEPT ![p] = "ok"]
    /\ UNCHANGED call

Load(p) ==
    /\ Open(p, "load")
    /\ answer' = [answer EXCEPT ![p] = value[call[p].table]]
    /\ UNCHANGED <<value, call>>

Delete(p) ==
    /\ Open(p, "delete")
    /\ value' = [value EXCEPT ![call[p].table] = Missing]
    /\ answer' = [answer EXCEPT ![p] = "ok"]
    /\ UNCHANGED call

Fail(p) ==
    /\ call[p] # Idle /\ answer[p] = "none"
    /\ answer' = [answer EXCEPT ![p] = "error"]
    /\ UNCHANGED <<value, call>>

Return(p) ==
    /\ answer[p] # "none"
    /\ call' = [call EXCEPT ![p] = Idle]
    /\ answer' = [answer EXCEPT ![p] = "none"]
    /\ UNCHANGED value

\* The process dies; the checkpoints stay as they are.
Crash ==
    /\ call' = [p \in Process |-> Idle]
    /\ answer' = [p \in Process |-> "none"]
    /\ UNCHANGED value

Next ==
    \/ \E p \in Process :
        \/ \E c \in Call : Begin(p, c)
        \/ \E image \in Image : Save(p, image)
        \/ Load(p) \/ Delete(p) \/ Fail(p) \/ Return(p)
    \/ Crash

Spec == Init /\ [][Next]_vars
=============================================================================
