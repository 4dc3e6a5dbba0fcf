------------------------------ MODULE WriteJobs ------------------------------
(***************************************************************************)
(* What the Firestore writer pool promises the goroutines that hand it     *)
(* batches, whatever its workers do: a job is reported to its caller once, *)
(* "ok" only after every write of the batch reached Firestore, "refused"   *)
(* only if none did and none will, and "failed" only when no more of its   *)
(* writes can arrive.  A caller that is cancelled stops listening; its job *)
(* may still be written behind its back.                                   *)
(***************************************************************************)
CONSTANT Job

VARIABLES told,     \* told[j]: what the caller of j knows
          applied   \* applied[j]: how much of the batch of j Firestore holds

vars == <<told, applied>>

TypeOK ==
    /\ told \in [Job -> {"new", "pending", "ok", "failed", "refused", "cancelled"}]
    /\ applied \in [Job -> {"none", "some", "all"}]

Init ==
    /\ told = [j \in Job |-> "new"]
    /\ applied = [j \in Job |-> "none"]

Submit(j) ==
    /\ told[j] = "new"
    /\ told' = [told EXCEPT ![j] = "pending"]
    /\ UNCHANGED applied

\* The bulk write is unordered and may stop half way; it can outlive the
\* interest of a cancelled caller.
Write(j) ==
    /\ told[j] \in {"pending", "cancelled"}
    /\ applied[j] = "none"
    /\ \E a \in {"some", "all"} : applied' = [applied EXCEPT ![j] = a]
    /\ UNCHANGED told

Ok(j) ==
    /\ told[j] = "pending"
    /\ applied[j] = "all"
    /\ told' = [told EXCEPT ![j] = "ok"]
    /\ UNCHANGED applied

Fail(j) ==
    /\ told[j] = "pending"
    /\ told' = [told EXCEPT ![j] = "failed"]
    /\ UNCHANGED applied

Refuse(j) ==
    /\ told[j] = "pending"
    /\ applied[j] = "none"
    /\ told' = [told EXCEPT ![j] = "refused"]
    /\ UNCHANGED applied

Cancel(j) ==
    /\ told[j] = "pending"
    /\ told' = [told EXCEPT ![j] = "cancelled"]
    /\ UNCHANGED applied

Next ==
    \E j \in Job :
        Submit(j) \/ Write(j) \/ Ok(j) \/ Fail(j) \/ Refuse(j) \/ Cancel(j)

Spec == Init /\ [][Next]_vars
=============================================================================
