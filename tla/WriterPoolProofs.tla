--------------------------- MODULE WriterPoolProofs ---------------------------
(***************************************************************************)
(* Proofs about WriterPool: its inductive invariant PoolInv, the safety    *)
(* properties that follow from it, and that the pool implements WriteJobs. *)
(***************************************************************************)
EXTENDS WriterPool, FiniteSetTheorems, TLAPS

-----------------------------------------------------------------------------
(* Jobs. *)

\* A batch that a goroutine has begun is a job of the pool; NoJob is none.
LEMMA JobFacts ==
    /\ NoJob \notin Job
    /\ \A j \in Job : \E c \in Caller, n \in 1..MaxJobs : j = <<c, n>>
    /\ \A c \in Caller, n \in 1..MaxJobs : <<c, n>> \in Job
  BY DEF Job, NoJob

\* The job a caller is at, once it has begun one.
LEMMA CurrentIsJob ==
    ASSUME TypeOK, NEW c \in Caller, sent[c] > 0
    PROVE  Current(c) \in Job
  <1>1. sent[c] \in 1..MaxJobs
    BY PoolAssumption DEF TypeOK
  <1> QED
    BY <1>1, JobFacts DEF Current

\* A worker that is busy holds a job.
LEMMA HeldIsJob ==
    ASSUME TypeOK, WorkersInv, NEW w \in Worker,
           worker[w] \in {"received", "execute", "reply"}
    PROVE  holds[w] \in Job /\ holds[w] # NoJob
  BY DEF TypeOK, WorkersInv, WorkerState
-----------------------------------------------------------------------------
(* Types. *)

LEMMA TypesInit == Init => TypeOK
  <1> SUFFICES ASSUME Init PROVE TypeOK
    OBVIOUS
  <1> USE DEF Init, CallerState, WorkerState, CloseState
  <1>1. sent \in [Caller -> 0..MaxJobs] /\ tries \in [Job -> Nat]
    BY PoolAssumption
  <1>2. /\ caller \in [Caller -> CallerState]
        /\ worker \in [Worker -> WorkerState]
        /\ closer \in CloseState
    OBVIOUS
  <1>3. /\ told \in [Job -> {"new", "pending", "ok", "failed", "refused", "cancelled"}]
        /\ result \in [Job -> Error \cup {"empty", "ok"}]
        /\ applied \in [Job -> {"none", "some", "all"}]
    OBVIOUS
  <1>4. /\ holds \in [Worker -> Job \cup {NoJob}]
        /\ err \in [Worker -> Error \cup {"none", "ok"}]
        /\ slots \in SUBSET Worker
    OBVIOUS
  <1> QED
    BY <1>1, <1>2, <1>3, <1>4 DEF TypeOK

LEMMA TypesCaller ==
    ASSUME TypeOK, CallersInv, NEW c \in Caller, CallerStep(c)
    PROVE  TypeOK'
  <1> USE DEF TypeOK, CallerState, WorkerState, callerVars, workerVars, closeVars
  <1>1. CASE StartSubmit(c)
    <2>1. sent[c] + 1 \in 1..MaxJobs
      BY <1>1, PoolAssumption DEF StartSubmit
    <2>2. <<c, sent[c] + 1>> \in Job
      BY <2>1, JobFacts
    <2> QED
      BY <1>1, <2>1, <2>2, PoolAssumption DEF StartSubmit
  <1>2. CASE Park(c)
    BY <1>2 DEF Park
  <1>3. ASSUME NEW w \in Worker, Handoff(c, w)
        PROVE  TypeOK'
    <2>1. Current(c) \in Job
      BY <1>3, CurrentIsJob DEF Handoff, CallersInv, Asking, InSubmit
    <2> QED
      BY <1>3, <2>1 DEF Handoff
  <1>4. CASE Refuse(c)
    BY <1>4 DEF Refuse, Error
  <1>5. CASE SubmitPanic(c)
    BY <1>5 DEF SubmitPanic
  <1>6. CASE TakeResult(c)
    BY <1>6 DEF TakeResult
  <1>7. CASE GiveUp(c)
    BY <1>7 DEF GiveUp
  <1>8. CASE Leave(c)
    BY <1>8 DEF Leave
  <1> QED
    BY <1>1, <1>2, <1>3, <1>4, <1>5, <1>6, <1>7, <1>8 DEF CallerStep

LEMMA TypesWorker ==
    ASSUME TypeOK, WorkersInv, NEW w \in Worker, WorkerStep(w)
    PROVE  TypeOK'
  <1> USE DEF TypeOK, WorkerState, callerVars, closeVars
  <1>1. CASE Execute(w)
    <2>1. holds[w] \in Job
      BY <1>1, HeldIsJob DEF Execute
    <2>2. (slots \in SUBSET Worker /\ tries \in [Job -> Nat])'
      BY <1>1, <2>1 DEF Execute
    <2>3. (worker \in [Worker -> WorkerState]
            /\ err \in [Worker -> Error \cup {"none", "ok"}])'
      BY <1>1 DEF Execute, Error
    <2> QED
      BY <1>1, <2>2, <2>3 DEF Execute
  <1>2. CASE BatchOk(w)
    BY <1>2 DEF BatchOk
  <1>3. CASE BatchFail(w)
    BY <1>3 DEF BatchFail, Error
  <1>4. CASE Reply(w)
    <2>1. holds[w] \in Job /\ err[w] \in Error \cup {"ok"}
      BY <1>4, HeldIsJob DEF Reply, WorkersInv, Error
    <2> QED
      BY <1>4, <2>1 DEF Reply
  <1>5. CASE WorkerExit(w)
    BY <1>5 DEF WorkerExit
  <1> QED
    BY <1>1, <1>2, <1>3, <1>4, <1>5 DEF WorkerStep

LEMMA TypesClose ==
    ASSUME TypeOK, Signal \/ CloserStep
    PROVE  TypeOK'
  <1> USE DEF TypeOK, CallerState, CloseState, callerVars, workerVars
  <1>1. CASE Signal
    BY <1>1 DEF Signal
  <1>2. CASE BeginClose
    BY <1>2 DEF BeginClose
  <1>3. CASE Disconnected
    BY <1>3 DEF Disconnected
  <1>4. CASE CloseSignal
    BY <1>4 DEF CloseSignal
  <1>5. CASE CloseQueue
    BY <1>5 DEF CloseQueue
  <1>6. CASE Drained
    BY <1>6 DEF Drained
  <1> QED
    BY <1>1, <1>2, <1>3, <1>4, <1>5, <1>6 DEF CloserStep
-----------------------------------------------------------------------------
(* The batches that are their caller's alone, and what callers were told. *)

\* A step of a caller leaves the jobs of the others, and its own other jobs.
LEMMA UntouchedByCaller ==
    ASSUME TypeOK, CallersInv, NEW c \in Caller, CallerStep(c),
           NEW j \in Job, Untouched(j), j # Current(c)
    PROVE  Untouched(j)'
  <1> USE DEF TypeOK, Untouched, Held, workerVars
  <1>1. CASE StartSubmit(c) \/ Park(c) \/ SubmitPanic(c) \/ GiveUp(c) \/ Leave(c)
    BY <1>1 DEF StartSubmit, Park, SubmitPanic, GiveUp, Leave
  <1>2. ASSUME NEW w \in Worker, Handoff(c, w)
        PROVE  Untouched(j)'
    BY <1>2 DEF Handoff
  <1>3. CASE Refuse(c)
    BY <1>3 DEF Refuse
  <1>4. CASE TakeResult(c)
    BY <1>4 DEF TakeResult
  <1> QED
    BY <1>1, <1>2, <1>3, <1>4 DEF CallerStep

\* A step of a worker touches no job but the one the worker holds.
LEMMA UntouchedByWorker ==
    ASSUME TypeOK, NEW w \in Worker, WorkerStep(w), NEW j \in Job, Untouched(j)
    PROVE  Untouched(j)'
  <1> USE DEF TypeOK, Untouched, Held
  <1>1. holds[w] # j /\ (\A v \in Worker : holds'[v] = holds[v] \/ holds'[v] = NoJob)
    BY DEF WorkerStep, Execute, BatchOk, BatchFail, Reply, WorkerExit
  <1>2. ~Held(j)'
    BY <1>1, JobFacts
  <1>3. (tries[j] = 0 /\ applied[j] = "none" /\ result[j] = "empty")'
    BY <1>1 DEF WorkerStep, Execute, BatchOk, BatchFail, Reply, WorkerExit
  <1> QED
    BY <1>2, <1>3

\* A caller that asks has begun the job it asks about.
LEMMA AskingCaller ==
    ASSUME TypeOK, CallersInv, NEW c \in Caller, CallerStep(c),
           NEW d \in Caller, Asking(d)'
    PROVE  sent'[d] > 0
  <1> USE DEF TypeOK, CallersInv, Asking, InSubmit
  <1>1. CASE StartSubmit(c)
    BY <1>1, PoolAssumption DEF StartSubmit
  <1>2. CASE ~StartSubmit(c)
    BY <1>2 DEF CallerStep, Park, Handoff, Refuse, SubmitPanic, TakeResult, GiveUp, Leave
  <1> QED
    BY <1>1, <1>2

\* What c was told follows its steps; nobody else is told anything.
LEMMA ToldCaller ==
    ASSUME TypeOK, CallersInv, NEW c \in Caller, CallerStep(c),
           NEW d \in Caller, NEW n \in 1..MaxJobs
    PROVE  ToldAgrees(d, n)'
  <1>0. /\ ToldAgrees(d, n) /\ (Asking(c) => sent[c] > 0)
        /\ <<d, n>> \in Job /\ n \in Nat /\ sent[d] \in Nat /\ sent[c] \in Nat
    BY JobFacts, PoolAssumption DEF CallersInv, TypeOK
  <1> USE <1>0 DEF TypeOK, ToldAgrees, Asking, InSubmit
  <1>1. CASE StartSubmit(c)
    BY <1>1 DEF StartSubmit
  <1>2. CASE Park(c) \/ SubmitPanic(c) \/ Refuse(c) \/ (\E w \in Worker : Handoff(c, w))
    BY <1>2 DEF Park, SubmitPanic, Refuse, Handoff
  <1>3. CASE TakeResult(c)
    BY <1>3 DEF TakeResult, Current
  <1>4. CASE GiveUp(c)
    BY <1>4 DEF GiveUp, Current
  <1>5. CASE Leave(c)
    BY <1>5 DEF Leave
  <1> QED
    BY <1>1, <1>2, <1>3, <1>4, <1>5 DEF CallerStep

LEMMA CallersCaller ==
    ASSUME TypeOK, CallersInv, NEW c \in Caller, CallerStep(c)
    PROVE  CallersInv'
  <1>1. ASSUME NEW d \in Caller, NEW n \in 1..MaxJobs, NotHandedOver(d, n)'
        PROVE  Untouched(<<d, n>>)'
    <2>1. /\ <<d, n>> \in Job /\ n \in Nat /\ sent[d] \in Nat
          /\ NotHandedOver(d, n) => Untouched(<<d, n>>)
      BY JobFacts, PoolAssumption DEF CallersInv, TypeOK
    <2>2. CASE <<d, n>> # Current(c)
      <3>1. NotHandedOver(d, n)
        BY <1>1, <2>1, <2>2 DEF TypeOK, NotHandedOver, InSubmit, Current, CallerStep,
           StartSubmit, Park, Handoff, Refuse, SubmitPanic, TakeResult, GiveUp, Leave
      <3> QED
        BY <2>1, <2>2, <3>1, UntouchedByCaller
    <2>3. CASE d = c /\ n = sent[c]
      <3>1. StartSubmit(c) \/ Park(c) \/ SubmitPanic(c)
        BY <1>1, <2>1, <2>3 DEF TypeOK, NotHandedOver, InSubmit, CallerStep,
           Handoff, Refuse, TakeResult, GiveUp, Leave
      <3>2. caller[c] = "submit"
        BY <1>1, <2>1, <2>3, <3>1 DEF TypeOK, NotHandedOver, InSubmit, StartSubmit, Park, SubmitPanic
      <3>3. Untouched(<<d, n>>)
        BY <2>1, <2>3, <3>2 DEF NotHandedOver, InSubmit
      <3> QED
        BY <3>1, <3>3 DEF Untouched, Held, StartSubmit, Park, SubmitPanic, workerVars
    <2> QED
      BY <2>2, <2>3 DEF Current
  <1> QED
    BY <1>1, AskingCaller, ToldCaller, Zenon DEF CallersInv

LEMMA CallersWorker ==
    ASSUME TypeOK, CallersInv, NEW w \in Worker, WorkerStep(w)
    PROVE  CallersInv'
  <1>1. UNCHANGED callerVars
    BY DEF WorkerStep, Execute, BatchOk, BatchFail, Reply, WorkerExit
  <1>2. ASSUME NEW d \in Caller, NEW n \in 1..MaxJobs, Untouched(<<d, n>>)
        PROVE  Untouched(<<d, n>>)'
    BY <1>2, JobFacts, UntouchedByWorker
  <1> QED
    BY <1>1, <1>2 DEF CallersInv, callerVars, Asking, InSubmit, ToldAgrees, NotHandedOver

LEMMA CallersClose ==
    ASSUME TypeOK, CallersInv, Signal \/ CloserStep
    PROVE  CallersInv'
  <1>1. UNCHANGED <<sent, told, workerVars, result>>
    BY DEF Signal, CloserStep, BeginClose, Disconnected, CloseSignal, CloseQueue, Drained,
           callerVars
  <1>2. \A d \in Caller : InSubmit(d)' = InSubmit(d) /\ Asking(d)' = Asking(d)
    BY DEF Signal, CloserStep, BeginClose, Disconnected, CloseSignal, CloseQueue, Drained,
           callerVars, TypeOK, InSubmit, Asking
  <1> QED
    BY <1>1, <1>2 DEF CallersInv, workerVars, ToldAgrees, NotHandedOver, Untouched, Held
-----------------------------------------------------------------------------
(* What a worker holds. *)

LEMMA WorkersCaller ==
    ASSUME TypeOK, CallersInv, WorkersInv, NEW c \in Caller, CallerStep(c)
    PROVE  WorkersInv'
  <1>0. Asking(c) => Current(c) \in Job /\ told[Current(c)] = "pending"
                     /\ (InSubmit(c) => Untouched(Current(c)))
    <2> SUFFICES ASSUME Asking(c)
                 PROVE  Current(c) \in Job /\ told[Current(c)] = "pending"
                        /\ (InSubmit(c) => Untouched(Current(c)))
      OBVIOUS
    <2>1. sent[c] \in 1..MaxJobs
      BY PoolAssumption DEF TypeOK, CallersInv
    <2> QED
      BY <2>1, JobFacts DEF CallersInv, ToldAgrees, NotHandedOver, Current
  <1> USE DEF TypeOK, WorkersInv, Asking, InSubmit
  <1>1. CASE StartSubmit(c)
    <2>1. <<c, sent[c] + 1>> \in Job /\ Untouched(<<c, sent[c] + 1>>)
      BY <1>1, JobFacts, PoolAssumption DEF StartSubmit, CallersInv, NotHandedOver
    <2> QED
      BY <1>1, <2>1 DEF StartSubmit, Untouched, Held, workerVars
  <1>2. CASE Park(c) \/ SubmitPanic(c) \/ Leave(c)
    BY <1>2 DEF Park, SubmitPanic, Leave, workerVars
  <1>3. ASSUME NEW w \in Worker, Handoff(c, w)
        PROVE  WorkersInv'
    BY <1>0, <1>3, JobFacts DEF Handoff, Untouched, Held, WorkerState
  <1>4. CASE Refuse(c)
    <2>1. InSubmit(c)
      BY <1>4 DEF Refuse
    <2> QED
      BY <1>0, <1>4, <2>1 DEF Refuse, Untouched, Held, workerVars
  <1>5. CASE TakeResult(c)
    <2>1. \A w \in Worker : holds[w] # NoJob => holds[w] # Current(c)
      BY <1>5 DEF TakeResult
    <2> QED
      BY <1>0, <1>5, <2>1 DEF TakeResult, workerVars
  <1>6. CASE GiveUp(c)
    BY <1>0, <1>6 DEF GiveUp, workerVars
  <1> QED
    BY <1>1, <1>2, <1>3, <1>4, <1>5, <1>6 DEF CallerStep

LEMMA WorkersWorker ==
    ASSUME TypeOK, WorkersInv, AnswersInv, NEW w \in Worker, WorkerStep(w)
    PROVE  WorkersInv'
  <1>0. worker[w] \in {"received", "execute", "reply"} => holds[w] \in Job /\ holds[w] # NoJob
    BY HeldIsJob
  <1> USE DEF TypeOK, WorkersInv, WorkerState, callerVars
  <1>1. CASE Execute(w)
    <2>1. /\ UNCHANGED <<holds, told, result, applied>>
          /\ worker'[w] \in {"execute", "reply"}
          /\ worker'[w] = "reply" => err'[w] = "disconnected"
          /\ \A v \in Worker \ {w} : worker'[v] = worker[v] /\ err'[v] = err[v]
      BY <1>1 DEF Execute
    <2>2. /\ slots' = slots \cup {w}
          /\ tries'[holds[w]] = tries[holds[w]] + 1
          /\ \A v \in Worker \ {w} : holds[v] # NoJob => tries'[holds[v]] = tries[holds[v]]
      BY <1>0, <1>1 DEF Execute
    <2>3. applied[holds[w]] = "none" /\ tries[holds[w]] = 0
      BY <1>0, <1>1 DEF Execute, AnswersInv
    <2> QED
      BY <1>0, <1>1, <2>1, <2>2, <2>3 DEF Execute
  <1>2. CASE BatchOk(w)
    BY <1>0, <1>2 DEF BatchOk
  <1>3. CASE BatchFail(w)
    BY <1>0, <1>3 DEF BatchFail
  <1>4. CASE Reply(w)
    BY <1>0, <1>4 DEF Reply
  <1>5. CASE WorkerExit(w)
    BY <1>0, <1>5 DEF WorkerExit
  <1> QED
    BY <1>1, <1>2, <1>3, <1>4, <1>5 DEF WorkerStep

LEMMA WorkersClose ==
    ASSUME TypeOK, WorkersInv, Signal \/ CloserStep
    PROVE  WorkersInv'
  <1>1. UNCHANGED <<told, workerVars, result>>
    BY DEF Signal, CloserStep, BeginClose, Disconnected, CloseSignal, CloseQueue, Drained,
           callerVars
  <1> QED
    BY <1>1 DEF WorkersInv, workerVars
-----------------------------------------------------------------------------
(* What becomes of a job, and of the shutdown. *)

LEMMA AnswersCaller ==
    ASSUME TypeOK, CallersInv, WorkersInv, AnswersInv, NEW c \in Caller, CallerStep(c)
    PROVE  AnswersInv'
  <1>0. Asking(c) => Current(c) \in Job /\ (InSubmit(c) => Untouched(Current(c)))
    <2>1. Asking(c) => sent[c] \in 1..MaxJobs
      BY PoolAssumption DEF TypeOK, CallersInv
    <2> QED
      BY <2>1, JobFacts DEF CallersInv, NotHandedOver, Current, Asking
  <1> USE DEF TypeOK, AnswersInv, Held, Asking, InSubmit
  <1>1. CASE StartSubmit(c)
    <2>1. <<c, sent[c] + 1>> \in Job /\ Untouched(<<c, sent[c] + 1>>)
      BY <1>1, JobFacts, PoolAssumption DEF StartSubmit, CallersInv, NotHandedOver
    <2> QED
      BY <1>1, <2>1 DEF StartSubmit, Untouched, workerVars
  <1>2. CASE Park(c) \/ SubmitPanic(c) \/ Leave(c)
    BY <1>2 DEF Park, SubmitPanic, Leave, workerVars
  <1>3. ASSUME NEW w \in Worker, Handoff(c, w)
        PROVE  AnswersInv'
    <2>1. \A v \in Worker : holds[v] # NoJob => holds'[v] = holds[v]
      BY <1>3 DEF Handoff, WorkersInv
    <2> QED
      BY <1>3, <2>1, JobFacts DEF Handoff
  <1>4. CASE Refuse(c)
    <2>1. InSubmit(c)
      BY <1>4 DEF Refuse
    <2> QED
      BY <1>0, <1>4, <2>1 DEF Refuse, Untouched, workerVars
  <1>5. CASE TakeResult(c)
    BY <1>0, <1>5 DEF TakeResult, workerVars
  <1>6. CASE GiveUp(c)
    BY <1>0, <1>6 DEF GiveUp, workerVars
  <1> QED
    BY <1>1, <1>2, <1>3, <1>4, <1>5, <1>6 DEF CallerStep

LEMMA AnswersWorker ==
    ASSUME TypeOK, WorkersInv, AnswersInv, NEW w \in Worker, WorkerStep(w)
    PROVE  AnswersInv'
  <1>0. worker[w] \in {"received", "execute", "reply"} => holds[w] \in Job /\ holds[w] # NoJob
    BY HeldIsJob
  <1> USE DEF TypeOK, WorkersInv, AnswersInv, WorkerState, callerVars, Held
  <1>1. CASE Execute(w)
    BY <1>0, <1>1 DEF Execute
  <1>2. CASE BatchOk(w)
    BY <1>0, <1>2 DEF BatchOk
  <1>3. CASE BatchFail(w)
    BY <1>0, <1>3 DEF BatchFail
  <1>4. CASE Reply(w)
    BY <1>0, <1>4, JobFacts DEF Reply
  <1>5. CASE WorkerExit(w)
    BY <1>0, <1>5 DEF WorkerExit
  <1> QED
    BY <1>1, <1>2, <1>3, <1>4, <1>5 DEF WorkerStep

LEMMA AnswersClose ==
    ASSUME AnswersInv, Signal \/ CloserStep
    PROVE  AnswersInv'
  <1>1. UNCHANGED <<told, workerVars, result>>
    BY DEF Signal, CloserStep, BeginClose, Disconnected, CloseSignal, CloseQueue, Drained,
           callerVars
  <1> QED
    BY <1>1 DEF AnswersInv, workerVars, Held

LEMMA CloseStep ==
    ASSUME TypeOK, CloseInv, Next
    PROVE  CloseInv'
  <1> USE DEF TypeOK, CloseInv, callerVars, workerVars, closeVars
  <1>0. closer # "closed"
    BY DEF Next, Alive
  <1>1. ASSUME NEW c \in Caller, CallerStep(c)
        PROVE  CloseInv'
    <2>1. /\ UNCHANGED <<closer, ctxDone>>
          /\ caller[c] # "exited" /\ \A d \in Caller \ {c} : caller'[d] = caller[d]
          /\ caller'[c] = "panic" => queueClosed
      BY <1>1 DEF CallerStep, StartSubmit, Park, Handoff, Refuse, SubmitPanic, TakeResult,
         GiveUp, Leave
    <2> QED
      BY <1>0, <2>1 DEF queueClosed
  <1>2. ASSUME NEW w \in Worker, WorkerStep(w)
        PROVE  CloseInv'
    <2>1. UNCHANGED <<closer, ctxDone, caller>>
      BY <1>2 DEF WorkerStep, Execute, BatchOk, BatchFail, Reply, WorkerExit
    <2> QED
      BY <1>0, <2>1
  <1>3. CASE Signal
    BY <1>0, <1>3 DEF Signal
  <1>4. CASE BeginClose
    BY <1>0, <1>4 DEF BeginClose
  <1>5. CASE Disconnected \/ CloseQueue \/ Drained
    BY <1>0, <1>5 DEF Disconnected, CloseQueue, Drained
  <1>6. CASE CloseSignal
    BY <1>0, <1>6 DEF CloseSignal
  <1> QED
    BY <1>1, <1>2, <1>3, <1>4, <1>5, <1>6 DEF Next, CloserStep
-----------------------------------------------------------------------------
(* The invariant, and what follows from it. *)

LEMMA PoolInit == Init => TypeOK /\ PoolInv
  <1> SUFFICES ASSUME Init PROVE TypeOK /\ PoolInv
    OBVIOUS
  <1>1. CallersInv
    BY JobFacts, PoolAssumption DEF Init, CallersInv, ToldAgrees, NotHandedOver, Asking,
       InSubmit, Untouched, Held
  <1>2. WorkersInv
    BY DEF Init, WorkersInv
  <1>3. AnswersInv
    BY DEF Init, AnswersInv
  <1>4. CloseInv
    BY DEF Init, CloseInv
  <1> QED
    BY <1>1, <1>2, <1>3, <1>4, TypesInit DEF PoolInv

LEMMA PoolStep == TypeOK /\ PoolInv /\ [Next]_vars => (TypeOK /\ PoolInv)'
  <1> SUFFICES ASSUME TypeOK, PoolInv, [Next]_vars PROVE (TypeOK /\ PoolInv)'
    OBVIOUS
  <1> USE DEF PoolInv
  <1>1. ASSUME Next, NEW c \in Caller, CallerStep(c)
        PROVE  (TypeOK /\ PoolInv)'
    BY <1>1, TypesCaller, CallersCaller, WorkersCaller, AnswersCaller, CloseStep
  <1>2. ASSUME Next, NEW w \in Worker, WorkerStep(w)
        PROVE  (TypeOK /\ PoolInv)'
    BY <1>2, TypesWorker, CallersWorker, WorkersWorker, AnswersWorker, CloseStep
  <1>3. ASSUME Next, Signal \/ CloserStep
        PROVE  (TypeOK /\ PoolInv)'
    BY <1>3, TypesClose, CallersClose, WorkersClose, AnswersClose, CloseStep
  <1>4. CASE UNCHANGED vars
    BY <1>4 DEF vars, callerVars, workerVars, closeVars, TypeOK, CallersInv, WorkersInv,
       AnswersInv, CloseInv, ToldAgrees, NotHandedOver, Asking, InSubmit, Untouched, Held
  <1> QED
    BY <1>1, <1>2, <1>3, <1>4 DEF Next

\* The pool keeps its invariant, for any number of callers, workers and
\* batches and for both commands.  (writer_pool.go)
THEOREM PoolIsInvariant == Spec => [](TypeOK /\ PoolInv)
  BY PoolInit, PoolStep, PTL DEF Spec

\* The types of the pool: a worker holds a batch or none, a caller is told of
\* its own batches only.  (writer_pool.go:40-97)
THEOREM PoolTypes == Spec => []TypeOK
  BY PoolIsInvariant, PTL

\* The send of a result never blocks a worker.  (writer_pool.go:77)
THEOREM RepliesNeverBlock == Spec => []ReplyNeverBlocks
  <1>1. TypeOK /\ PoolInv => ReplyNeverBlocks
    BY HeldIsJob DEF PoolInv, WorkersInv, ReplyNeverBlocks
  <1> QED
    BY <1>1, PoolIsInvariant, PTL

\* ExecuteBatch is called at most once for a batch, failed or not, and never for
\* one that Submit refused.  No code retries: the retries that migrator.go:273
\* leaves to the pool, and replicator.go:457 names, are not made anywhere.
\* (writer_pool.go:50-85)
THEOREM NoBatchIsRetried ==
    Spec => [](\A j \in Job : tries[j] <= 1 /\ (result[j] = "closed" => tries[j] = 0))
  <1>1. PoolInv => \A j \in Job : tries[j] <= 1 /\ (result[j] = "closed" => tries[j] = 0)
    BY DEF PoolInv, AnswersInv
  <1> QED
    BY <1>1, PoolIsInvariant, PTL

\* A drained pool has answered every job it accepted.  (writer_pool.go:88-97)
THEOREM DrainLeavesNothing == Spec => []NothingLeftBehind
  <1>1. TypeOK /\ PoolInv => NothingLeftBehind
    <2> SUFFICES ASSUME TypeOK, PoolInv, closer = "closed"
                 PROVE  /\ \A w \in Worker : holds[w] = NoJob
                        /\ \A j \in Job : tries[j] > 0 /\ told[j] = "pending"
                                              => result[j] # "empty"
      BY DEF NothingLeftBehind
    <2>1. \A w \in Worker : holds[w] = NoJob
      BY DEF PoolInv, CloseInv, WorkersInv
    <2> QED
      BY <2>1, JobFacts DEF PoolInv, AnswersInv, Held
  <1> QED
    BY <1>1, PoolIsInvariant, PTL

\* Only a signal during the live command can make a Submit panic.
\* (processor.go:144-153, 211-213)
THEOREM PanicsNeedASignal == Spec => []PanicNeedsSignal
  <1>1. PoolInv => PanicNeedsSignal
    BY DEF PoolInv, CloseInv, PanicNeedsSignal
  <1> QED
    BY <1>1, PoolIsInvariant, PTL

\* The semaphore, sized like the pool, never holds a worker up.
\* (writer_pool.go:35, 73)
THEOREM SlotsAreEnough == Spec => []SlotAlwaysFree
  <1>1. TypeOK /\ PoolInv => SlotAlwaysFree
    <2> SUFFICES ASSUME TypeOK, PoolInv, NEW w \in Worker, worker[w] = "received"
                 PROVE  Cardinality(slots) < Cardinality(Worker)
      BY DEF SlotAlwaysFree, SlotFree
    <2>1. slots \subseteq Worker /\ slots # Worker
      BY DEF PoolInv, WorkersInv
    <2> QED
      BY <2>1, PoolAssumption, FS_Subset, FS_CardinalityType
  <1> QED
    BY <1>1, PoolIsInvariant, PTL
-----------------------------------------------------------------------------
(* The pool implements WriteJobs. *)

LEMMA CallerImplements ==
    ASSUME TypeOK, PoolInv, NEW c \in Caller, CallerStep(c)
    PROVE  Jobs!Next \/ UNCHANGED Jobs!vars
  <1>0. Asking(c) => Current(c) \in Job /\ told[Current(c)] = "pending"
    <2>1. Asking(c) => sent[c] \in 1..MaxJobs
      BY PoolAssumption DEF TypeOK, PoolInv, CallersInv
    <2> QED
      BY <2>1, JobFacts DEF PoolInv, CallersInv, ToldAgrees, Current
  <1>1. CASE StartSubmit(c)
    <2>1. <<c, sent[c] + 1>> \in Job /\ told[<<c, sent[c] + 1>>] = "new"
      BY <1>1, JobFacts, PoolAssumption DEF StartSubmit, TypeOK, PoolInv, CallersInv, ToldAgrees
    <2>2. Jobs!Submit(<<c, sent[c] + 1>>)
      BY <1>1, <2>1 DEF StartSubmit, Jobs!Submit, workerVars
    <2> QED
      BY <2>1, <2>2 DEF Jobs!Next
  <1>2. CASE TakeResult(c)
    <2>1. Current(c) \in Job /\ told[Current(c)] = "pending" /\ UNCHANGED applied
      BY <1>0, <1>2 DEF TakeResult, Asking, workerVars
    <2>2. CASE result[Current(c)] = "ok"
      BY <1>2, <2>1, <2>2 DEF TakeResult, PoolInv, AnswersInv, Jobs!Next, Jobs!Ok
    <2>3. CASE result[Current(c)] = "closed"
      BY <1>2, <2>1, <2>3 DEF TakeResult, PoolInv, AnswersInv, Jobs!Next, Jobs!Refuse
    <2>4. CASE result[Current(c)] \notin {"ok", "closed"}
      BY <1>2, <2>1, <2>4 DEF TakeResult, Jobs!Next, Jobs!Fail
    <2> QED
      BY <2>2, <2>3, <2>4
  <1>3. CASE GiveUp(c)
    BY <1>0, <1>3 DEF GiveUp, Asking, workerVars, Jobs!Next, Jobs!Cancel
  <1>4. CASE \/ Park(c) \/ (\E w \in Worker : Handoff(c, w))
             \/ Refuse(c) \/ SubmitPanic(c) \/ Leave(c)
    BY <1>4 DEF Park, Handoff, Refuse, SubmitPanic, Leave, workerVars, Jobs!vars
  <1> QED
    BY <1>1, <1>2, <1>3, <1>4 DEF CallerStep

LEMMA WorkerImplements ==
    ASSUME TypeOK, PoolInv, NEW w \in Worker, WorkerStep(w)
    PROVE  Jobs!Next \/ UNCHANGED Jobs!vars
  <1>1. CASE BatchOk(w) \/ BatchFail(w)
    <2>1. /\ holds[w] \in Job /\ told[holds[w]] \in {"pending", "cancelled"}
          /\ applied[holds[w]] = "none" /\ UNCHANGED told
      BY <1>1, HeldIsJob DEF BatchOk, BatchFail, PoolInv, WorkersInv, callerVars
    <2>2. PICK a \in {"none", "some", "all"} : applied' = [applied EXCEPT ![holds[w]] = a]
      BY <1>1 DEF BatchOk, BatchFail
    <2>3. CASE a = "none"
      BY <2>1, <2>2, <2>3 DEF TypeOK, Jobs!vars
    <2>4. CASE a # "none"
      BY <2>1, <2>2, <2>4 DEF Jobs!Next, Jobs!Write
    <2> QED
      BY <2>3, <2>4
  <1>2. CASE Execute(w) \/ Reply(w) \/ WorkerExit(w)
    BY <1>2 DEF Execute, Reply, WorkerExit, callerVars, Jobs!vars
  <1> QED
    BY <1>1, <1>2 DEF WorkerStep

\* Whatever the interleaving of callers, workers and Close, a caller is told
\* "ok" only of batches that are wholly in Firestore, "refused" only of those
\* that are not and never will be, and nothing arrives after "failed".
\* (writer_pool.go, migrator.go:270-295, replicator.go:509-524)
THEOREM PoolImplementsWriteJobs == Spec => ImplementsWriteJobs
  <1>1. Init => Jobs!Init
    BY DEF Init, Jobs!Init
  <1>2. TypeOK /\ PoolInv /\ [Next]_vars => [Jobs!Next]_(Jobs!vars)
    <2> SUFFICES ASSUME TypeOK, PoolInv, [Next]_vars
                 PROVE  Jobs!Next \/ UNCHANGED Jobs!vars
      OBVIOUS
    <2>1. CASE Signal \/ CloserStep
      BY <2>1 DEF Signal, CloserStep, BeginClose, Disconnected, CloseSignal, CloseQueue,
         Drained, callerVars, workerVars, Jobs!vars
    <2>2. CASE UNCHANGED vars
      BY <2>2 DEF vars, callerVars, workerVars, Jobs!vars
    <2> QED
      BY <2>1, <2>2, CallerImplements, WorkerImplements DEF Next
  <1> QED
    BY <1>1, <1>2, PoolIsInvariant, PTL DEF Spec, ImplementsWriteJobs, Jobs!Spec
=============================================================================
