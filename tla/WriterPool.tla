------------------------------ MODULE WriterPool ------------------------------
(***************************************************************************)
(* The Firestore writer pool (internal/firestore/writer_pool.go), the      *)
(* goroutines that submit batches to it (the tails of processBatchWithRetry *)
(* and processRecordBatch), and the shutdown of main and Processor.Close   *)
(* that runs against both.                                                 *)
(*                                                                         *)
(* jobQueue is unbuffered: a job passes in one step from a caller in       *)
(* Submit to a worker in its select.  Every job has its own ResultChan, a  *)
(* channel with room for one error.                                        *)
(***************************************************************************)
EXTENDS Naturals, FiniteSets

CONSTANTS Caller,    \* goroutines that submit batches (segments, pairs)
          Worker,    \* worker goroutines, firestoreWriters of them
          MaxJobs,   \* bound: batches one caller submits
          Live       \* TRUE: the live command; FALSE: the migrate command

ASSUME PoolAssumption ==
    /\ MaxJobs \in Nat
    /\ Live \in BOOLEAN
    /\ IsFiniteSet(Worker)

Job == Caller \X (1..MaxJobs)
NoJob == <<>>
Error == {"failed", "disconnected", "closed"}

VARIABLES
    caller,    \* caller[c]: where c is in its submit-and-wait
    sent,      \* sent[c]: batches c has started to submit
    told,      \* told[j]: what the caller of j has been told (history)
    worker,    \* worker[w]: where w is in its loop
    holds,     \* holds[w]: the job w received and has not finished
    err,       \* err[w]: what ExecuteBatch returned to w
    slots,     \* the semaphore channel wp.workers: who is in it
    result,    \* result[j]: the content of j's ResultChan
    applied,   \* applied[j]: how much of j's batch reached Firestore
    tries,     \* tries[j]: calls of ExecuteBatch made for j
    client,    \* the Mongo client under Firestore: "up", "closing", "down"
    closer,    \* how far Processor.Close has come
    ctxDone    \* the root context is cancelled (SIGINT, SIGTERM)

callerVars == <<caller, sent, told>>
workerVars == <<worker, holds, err, slots, applied, tries>>
closeVars  == <<client, closer, ctxDone>>
vars == <<callerVars, workerVars, closeVars, result>>

CallerState == {"idle", "submit", "parked", "refused", "wait", "exited", "panic"}
WorkerState == {"select", "received", "execute", "reply", "exited"}
CloseState  == {"running", "disconnect", "closeSignal", "closeQueue", "drain", "closed"}

TypeOK ==
    /\ caller \in [Caller -> CallerState]
    /\ sent \in [Caller -> 0..MaxJobs]
    /\ told \in [Job -> {"new", "pending", "ok", "failed", "refused", "cancelled"}]
    /\ worker \in [Worker -> WorkerState]
    /\ holds \in [Worker -> Job \cup {NoJob}]
    /\ err \in [Worker -> Error \cup {"none", "ok"}]
    /\ slots \in SUBSET Worker
    /\ result \in [Job -> Error \cup {"empty", "ok"}]
    /\ applied \in [Job -> {"none", "some", "all"}]
    /\ tries \in [Job -> Nat]
    /\ client \in {"up", "closing", "down"}
    /\ closer \in CloseState
    /\ ctxDone \in BOOLEAN

Init ==
    /\ caller = [c \in Caller |-> "idle"]
    /\ sent = [c \in Caller |-> 0]
    /\ told = [j \in Job |-> "new"]
    /\ worker = [w \in Worker |-> "select"]
    /\ holds = [w \in Worker |-> NoJob]
    /\ err = [w \in Worker |-> "none"]
    /\ slots = {}
    /\ result = [j \in Job |-> "empty"]
    /\ applied = [j \in Job |-> "none"]
    /\ tries = [j \in Job |-> 0]
    /\ client = "up"
    /\ closer = "running"
    /\ ctxDone = FALSE

\* The channels wp.closed and wp.jobQueue have been closed.
closed      == closer \in {"closeQueue", "drain", "closed"}
queueClosed == closer \in {"drain", "closed"}

\* The job c is submitting or waiting for.
Current(c) == <<c, sent[c]>>
-----------------------------------------------------------------------------
(* The callers. *)

\* c builds its next batch and enters Submit.  A batch in the middle of a
\* page or of a record list is submitted without looking at the context.
StartSubmit(c) ==
    /\ caller[c] = "idle"
    /\ sent[c] < MaxJobs
    /\ caller' = [caller EXCEPT ![c] = "submit"]
    /\ sent' = [sent EXCEPT ![c] = @ + 1]
    /\ told' = [told EXCEPT ![<<c, sent[c] + 1>>] = "pending"]
    /\ UNCHANGED <<workerVars, closeVars, result>>

\* The select of Submit finds no case ready and parks the goroutine.
Park(c) ==
    /\ caller[c] = "submit"
    /\ ~closed
    /\ \A w \in Worker : worker[w] # "select"
    /\ caller' = [caller EXCEPT ![c] = "parked"]
    /\ UNCHANGED <<sent, told, workerVars, closeVars, result>>

\* wp.jobQueue <- job meets a worker's receive.  One side has to be parked
\* for that, and nobody parks in a select whose wp.closed is closed.
Handoff(c, w) ==
    /\ caller[c] \in {"submit", "parked"}
    /\ worker[w] = "select"
    /\ ~closed
    /\ caller' = [caller EXCEPT ![c] = "wait"]
    /\ worker' = [worker EXCEPT ![w] = "received"]
    /\ holds' = [holds EXCEPT ![w] = Current(c)]
    /\ UNCHANGED <<sent, told, err, slots, applied, tries, closeVars, result>>

\* Submit takes the wp.closed case and answers for the pool.
Refuse(c) ==
    /\ \/ caller[c] = "refused"
       \/ caller[c] = "submit" /\ closed
    /\ result[Current(c)] = "empty"
    /\ result' = [result EXCEPT ![Current(c)] = "closed"]
    /\ caller' = [caller EXCEPT ![c] = "wait"]
    /\ UNCHANGED <<sent, told, workerVars, closeVars>>

\* Both channels are closed, both cases of Submit are ready, and the select
\* takes the send: sending on a closed channel panics.
SubmitPanic(c) ==
    /\ caller[c] = "submit"
    /\ queueClosed
    /\ caller' = [caller EXCEPT ![c] = "panic"]
    /\ UNCHANGED <<sent, told, workerVars, closeVars, result>>

\* The caller's select receives the job's result ...
TakeResult(c) ==
    /\ caller[c] = "wait"
    /\ result[Current(c)] # "empty"
    /\ told' = [told EXCEPT ![Current(c)] =
                  CASE result[Current(c)] = "ok"     -> "ok"
                    [] result[Current(c)] = "closed" -> "refused"
                    [] OTHER                         -> "failed"]
    /\ result' = [result EXCEPT ![Current(c)] = "empty"]
    /\ caller' = [caller EXCEPT ![c] = "idle"]
    /\ UNCHANGED <<sent, workerVars, closeVars>>

\* ... or takes ctx.Done and leaves the job to the pool.
GiveUp(c) ==
    /\ caller[c] = "wait"
    /\ ctxDone
    /\ told' = [told EXCEPT ![Current(c)] = "cancelled"]
    /\ caller' = [caller EXCEPT ![c] = "exited"]
    /\ UNCHANGED <<sent, workerVars, closeVars, result>>

\* Between batches a goroutine ends: no more work, an error, or ctx.Done.
Leave(c) ==
    /\ caller[c] = "idle"
    /\ caller' = [caller EXCEPT ![c] = "exited"]
    /\ UNCHANGED <<sent, told, workerVars, closeVars, result>>
-----------------------------------------------------------------------------
(* The workers. *)

\* Mutant: the semaphore has one place less than there are workers.
SlotFreeTight == Cardinality(slots) + 1 < Cardinality(Worker)

\* The semaphore has a place.
SlotFree == Cardinality(slots) < Cardinality(Worker)

\* Mutant: the slot is filed under the job, not under the worker.
ExecuteWrongSlot(w) ==
    /\ worker[w] = "received"
    /\ slots' = slots \cup {holds[w]}
    /\ tries' = [tries EXCEPT ![holds[w]] = @ + 1]
    /\ worker' = [worker EXCEPT ![w] = "execute"]
    /\ UNCHANGED <<callerVars, closeVars, holds, err, applied, result>>

\* Take a slot and call ExecuteBatch under context.Background(); a client
\* that is being disconnected fails the call before anything is written.
Execute(w) ==
    /\ worker[w] = "received"
    /\ SlotFree
    /\ slots' = slots \cup {w}
    /\ tries' = [tries EXCEPT ![holds[w]] = @ + 1]
    /\ \/ /\ client = "up"
          /\ worker' = [worker EXCEPT ![w] = "execute"]
          /\ UNCHANGED err
       \/ /\ client # "up"
          /\ worker' = [worker EXCEPT ![w] = "reply"]
          /\ err' = [err EXCEPT ![w] = "disconnected"]
    /\ UNCHANGED <<callerVars, closeVars, holds, applied, result>>

\* Mutant: a partial success of the bulk write is reported as success.
PartialOk(w) ==
    /\ worker[w] = "execute"
    /\ client # "down"
    /\ \E a \in {"some", "all"} : applied' = [applied EXCEPT ![holds[w]] = a]
    /\ err' = [err EXCEPT ![w] = "ok"]
    /\ worker' = [worker EXCEPT ![w] = "reply"]
    /\ UNCHANGED <<callerVars, closeVars, holds, slots, tries, result>>

\* BulkWrite succeeds: every operation of the batch is in Firestore.
BatchOk(w) ==
    /\ worker[w] = "execute"
    /\ client # "down"
    /\ applied' = [applied EXCEPT ![holds[w]] = "all"]
    /\ err' = [err EXCEPT ![w] = "ok"]
    /\ worker' = [worker EXCEPT ![w] = "reply"]
    /\ UNCHANGED <<callerVars, closeVars, holds, slots, tries, result>>

\* BulkWrite returns an error: the batch is unordered, any part of it may
\* have been written, all of it included.
BatchFail(w) ==
    /\ worker[w] = "execute"
    /\ \E a \in {"none", "some", "all"} : applied' = [applied EXCEPT ![holds[w]] = a]
    /\ err' = [err EXCEPT ![w] = IF client = "down" THEN "disconnected" ELSE "failed"]
    /\ worker' = [worker EXCEPT ![w] = "reply"]
    /\ UNCHANGED <<callerVars, closeVars, holds, slots, tries, result>>

\* Mutant: a failed batch is logged and not answered.
ReplyOnlyOk(w) ==
    /\ worker[w] = "reply"
    /\ result[holds[w]] = "empty"
    /\ result' = IF err[w] = "ok" THEN [result EXCEPT ![holds[w]] = "ok"] ELSE result
    /\ slots' = slots \ {w}
    /\ worker' = [worker EXCEPT ![w] = "select"]
    /\ holds' = [holds EXCEPT ![w] = NoJob]
    /\ err' = [err EXCEPT ![w] = "none"]
    /\ UNCHANGED <<callerVars, closeVars, applied, tries>>

\* Send the result to the job's channel, give the slot back, loop.
Reply(w) ==
    /\ worker[w] = "reply"
    /\ result[holds[w]] = "empty"
    /\ result' = [result EXCEPT ![holds[w]] = err[w]]
    /\ slots' = slots \ {w}
    /\ worker' = [worker EXCEPT ![w] = "select"]
    /\ holds' = [holds EXCEPT ![w] = NoJob]
    /\ err' = [err EXCEPT ![w] = "none"]
    /\ UNCHANGED <<callerVars, closeVars, applied, tries>>

\* Mutant: the worker does not look at wp.closed or at the closed queue.
WorkerNeverExits(w) ==
    /\ FALSE
    /\ UNCHANGED vars

\* The select of the worker finds wp.closed or the queue closed.
WorkerExit(w) ==
    /\ worker[w] = "select"
    /\ closed
    /\ worker' = [worker EXCEPT ![w] = "exited"]
    /\ UNCHANGED <<callerVars, closeVars, holds, err, slots, applied, tries, result>>
-----------------------------------------------------------------------------
(* Shutdown. *)

\* The signal handler of main cancels the root context.
Signal ==
    /\ ~ctxDone
    /\ closer = "running"
    /\ ctxDone' = TRUE
    /\ UNCHANGED <<callerVars, workerVars, client, closer, result>>

\* Mutant: Close does not wait for the goroutines that submit.
BeginCloseEarly ==
    /\ closer = "running"
    /\ closer' = "disconnect"
    /\ client' = "closing"
    /\ UNCHANGED <<callerVars, workerVars, ctxDone, result>>

\* RunMigration returns, and the deferred Close starts, after every goroutine
\* ended; RunLiveReplication also returns as soon as the context is done.
BeginClose ==
    /\ closer = "running"
    /\ \/ \A c \in Caller : caller[c] = "exited"
       \/ Live /\ ctxDone
    /\ closer' = "disconnect"
    /\ client' = "closing"
    /\ UNCHANGED <<callerVars, workerVars, ctxDone, result>>

\* Disconnect returns once no operation is in flight, or after ten seconds.
Disconnected ==
    /\ closer = "disconnect"
    /\ client' = "down"
    /\ closer' = "closeSignal"
    /\ UNCHANGED <<callerVars, workerVars, ctxDone, result>>

\* Mutant: the refusal also goes to callers whose job a worker has.
CloseSignalAll ==
    /\ closer = "closeSignal"
    /\ closer' = "closeQueue"
    /\ caller' = [c \in Caller |->
                     IF caller[c] \in {"parked", "wait"} THEN "refused" ELSE caller[c]]
    /\ UNCHANGED <<sent, told, workerVars, client, ctxDone, result>>

\* close(wp.closed) wakes every goroutine parked in Submit with that case.
CloseSignal ==
    /\ closer = "closeSignal"
    /\ closer' = "closeQueue"
    /\ caller' = [c \in Caller |-> IF caller[c] = "parked" THEN "refused" ELSE caller[c]]
    /\ UNCHANGED <<sent, told, workerVars, client, ctxDone, result>>

\* close(wp.jobQueue)
CloseQueue ==
    /\ closer = "closeQueue"
    /\ closer' = "drain"
    /\ UNCHANGED <<callerVars, workerVars, client, ctxDone, result>>

\* Mutant: Close does not wait for the workers.
DrainedUnwaited ==
    /\ closer = "drain"
    /\ closer' = "closed"
    /\ UNCHANGED <<callerVars, workerVars, client, ctxDone, result>>

\* wp.wg.Wait returns; main returns and the process ends.
Drained ==
    /\ closer = "drain"
    /\ \A w \in Worker : worker[w] = "exited"
    /\ closer' = "closed"
    /\ UNCHANGED <<callerVars, workerVars, client, ctxDone, result>>
-----------------------------------------------------------------------------
\* Nothing runs after the process ended, by return or by panic.
Alive == closer # "closed" /\ \A c \in Caller : caller[c] # "panic"

CallerStep(c) ==
    \/ StartSubmit(c) \/ Park(c) \/ (\E w \in Worker : Handoff(c, w))
    \/ Refuse(c) \/ SubmitPanic(c) \/ TakeResult(c) \/ GiveUp(c) \/ Leave(c)

WorkerStep(w) ==
    \/ Execute(w) \/ BatchOk(w) \/ BatchFail(w) \/ Reply(w) \/ WorkerExit(w)

CloserStep == BeginClose \/ Disconnected \/ CloseSignal \/ CloseQueue \/ Drained

Next ==
    /\ Alive
    /\ \/ \E c \in Caller : CallerStep(c)
       \/ \E w \in Worker : WorkerStep(w)
       \/ Signal
       \/ CloserStep

Spec == Init /\ [][Next]_vars

(***************************************************************************)
(* Every goroutine that can run is run by the Go scheduler, the server     *)
(* answers a bulk write, and a caller does not stay for ever between two   *)
(* batches; whether and when the operator sends a signal is not assumed.   *)
(* A handoff is strongly fair: the runtime queues parked senders in order. *)
(***************************************************************************)
Fairness ==
    /\ \A c \in Caller :
        /\ WF_vars(Alive /\ CallerStep(c))
        /\ SF_vars(Alive /\ \E w \in Worker : Handoff(c, w))
    /\ \A w \in Worker : WF_vars(Alive /\ WorkerStep(w))
    /\ WF_vars(Alive /\ CloserStep)

FairSpec == Spec /\ Fairness
-----------------------------------------------------------------------------
(* Properties. *)

\* A worker that is about to reply finds the one-place ResultChan empty: its
\* send never blocks, even for a caller that gave up or a pool that closed.
\* (writer_pool.go:77; the channels are made in processBatchWithRetry and
\* processRecordBatch.)
ReplyNeverBlocks ==
    \A w \in Worker : worker[w] = "reply" => result[holds[w]] = "empty"

\* When Close has drained the pool, every job that a worker accepted has been
\* answered: no write is left unreported.  (writer_pool.go:88-97)
NothingLeftBehind ==
    closer = "closed" =>
        /\ \A w \in Worker : holds[w] = NoJob
        /\ \A j \in Job : tries[j] > 0 /\ told[j] = "pending" => result[j] # "empty"

\* The number of slots never keeps a worker waiting.  (writer_pool.go:73)
SlotAlwaysFree ==
    \A w \in Worker : worker[w] = "received" => SlotFree

\* The inductive invariant behind the properties above.  A batch is not
\* begun, in its caller's Submit, in the hands of one worker, or answered,
\* and what the caller was told, the tries, the result and the extent of the
\* write agree with where it is.  (writer_pool.go:50-85)
Held(j) == \E w \in Worker : holds[w] = j
InSubmit(c) == caller[c] \in {"submit", "parked", "refused", "panic"}
Asking(c) == InSubmit(c) \/ caller[c] = "wait"

Untouched(j) ==
    tries[j] = 0 /\ applied[j] = "none" /\ result[j] = "empty" /\ ~Held(j)

ToldAgrees(c, n) ==
    /\ told[<<c, n>>] = "new" <=> n > sent[c]
    /\ told[<<c, n>>] = "pending" <=> n = sent[c] /\ Asking(c)

NotHandedOver(c, n) == n > sent[c] \/ (n = sent[c] /\ InSubmit(c))

CallersInv ==
    /\ \A c \in Caller : Asking(c) => sent[c] > 0
    /\ \A c \in Caller, n \in 1..MaxJobs :
          ToldAgrees(c, n) /\ (NotHandedOver(c, n) => Untouched(<<c, n>>))

WorkersInv ==
    /\ slots = {w \in Worker : worker[w] \in {"execute", "reply"}}
    /\ \A w \in Worker : holds[w] = NoJob <=> worker[w] \in {"select", "exited"}
    /\ \A v, w \in Worker : v # w /\ holds[v] # NoJob => holds[v] # holds[w]
    /\ \A w \in Worker : holds[w] # NoJob =>
          /\ told[holds[w]] \in {"pending", "cancelled"}
          /\ result[holds[w]] = "empty"
          /\ tries[holds[w]] = IF worker[w] = "received" THEN 0 ELSE 1
          /\ worker[w] = "execute" => applied[holds[w]] = "none"
          /\ worker[w] = "reply" => err[w] \in {"ok", "failed", "disconnected"}
          /\ worker[w] = "reply" /\ err[w] = "ok" => applied[holds[w]] = "all"

AnswersInv ==
    \A j \in Job :
        /\ tries[j] \in {0, 1}
        /\ tries[j] = 0 => applied[j] = "none"
        /\ result[j] = "ok" => applied[j] = "all"
        /\ result[j] = "closed" => tries[j] = 0
        /\ told[j] = "pending" /\ tries[j] > 0 /\ result[j] = "empty" => Held(j)

CloseInv ==
    /\ closer # "running" => (\A c \in Caller : caller[c] = "exited") \/ (Live /\ ctxDone)
    /\ (\E c \in Caller : caller[c] = "panic") => closer # "running"
    /\ closer = "closed" => \A w \in Worker : worker[w] = "exited"

PoolInv == CallersInv /\ WorkersInv /\ AnswersInv /\ CloseInv

\* What the pool promises its callers: see WriteJobs.
Jobs == INSTANCE WriteJobs
ImplementsWriteJobs == Jobs!Spec

\* A caller in Submit or waiting for its result gets on, unless the process
\* ends first.  (writer_pool.go:50, migrator.go:285, replicator.go:515)
EveryCallerAnswered ==
    \A c \in Caller :
        caller[c] \in {"submit", "parked", "refused", "wait"}
            ~> caller[c] \in {"idle", "exited"} \/ ~Alive

\* Once Close has begun it finishes.  (writer_pool.go:88, processor.go:70)
CloseFinishes == closer # "running" ~> ~Alive

\* A Submit panics only after a signal: without one Close begins after the
\* last goroutine that submits has ended.  (processor.go:144-153, 211-213)
PanicNeedsSignal == (\E c \in Caller : caller[c] = "panic") => Live /\ ctxDone

\* writer_pool.go:55: "Pool is closing, return error immediately": a Submit
\* that races with Close ends in an error, never in a panic.
NoPanic == \A c \in Caller : caller[c] # "panic"
=============================================================================
