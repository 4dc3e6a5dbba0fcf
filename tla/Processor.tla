------------------------------ MODULE Processor ------------------------------
(***************************************************************************)
(* One run of the program with several database pairs (cmd/migrate/main.go *)
(* runWithMode, internal/processor/processor.go): the clients New makes,   *)
(* the goroutine of every selected pair, the semaphore that lets           *)
(* MaxConcurrentPairs of them work, the collection of their errors, and    *)
(* Close.                                                                  *)
(*                                                                         *)
(* What a pair does is reduced to the table it copies from: Migration and  *)
(* Replicator describe it in full.  A pair is a number, its place in       *)
(* databasePairs, and reads a table of its own.                            *)
(***************************************************************************)
EXTENDS Naturals, FiniteSets

CONSTANTS Pairs,               \* how many pairs the configuration has
          Source,              \* Source[p]: region and endpoint of the pair p
          MaxConcurrentPairs   \* capacity of the semaphore

ASSUME ProcessorAssumption ==
    /\ Pairs \in Nat \ {0}
    /\ MaxConcurrentPairs \in Nat

Pair == 1..Pairs
NoTable == 0

VARIABLES
    mode,      \* the command: "migrate" or "live"
    selected,  \* the pairs it was given, all of them without --pairs
    main,      \* where the main goroutine is
    ctxDone,   \* the context is cancelled
    clients,   \* clients[s]: the table of the client made for the source s
    pc,        \* pc[p]: where the goroutine of the pair p is
    errChan,   \* pairs whose error nobody has received
    errors,    \* pairs whose error RunMigration has received
    copied     \* copied[p]: tables whose items are in the collection of p

vars == <<mode, selected, main, ctxDone, clients, pc, errChan, errors, copied>>

Sources == {Source[p] : p \in Pair}

\* Mutant: a failed pair keeps its place in the semaphore.
WorkingLeak == {"copy", "stream", "failed"}

Working == {"copy", "stream"}
Ended == {"ok", "failed"}

TypeOK ==
    /\ mode \in {"migrate", "live"}
    /\ selected \in SUBSET Pair
    /\ main \in {"new", "running", "success", "error", "closed"}
    /\ ctxDone \in BOOLEAN
    /\ clients \in [Sources -> 0..Pairs]
    /\ pc \in [Pair -> Working \cup Ended \cup {"off", "wait"}]
    /\ errChan \subseteq selected /\ errors \subseteq selected
    /\ copied \in [Pair -> SUBSET Pair]

Init ==
    /\ mode \in {"migrate", "live"}
    /\ selected \in (SUBSET Pair) \ {{}}
    /\ main = "new" /\ ctxDone = FALSE
    /\ clients = [s \in Sources |-> NoTable]
    /\ pc = [p \in Pair |-> "off"]
    /\ errChan = {} /\ errors = {}
    /\ copied = [p \in Pair |-> {}]
-----------------------------------------------------------------------------
(* The main goroutine. *)

\* Mutant: the index is counted from one, not from zero.
FirstWithPlusOne(s) ==
    1 + CHOOSE p \in Pair : Source[p] = s /\ \A q \in Pair : Source[q] = s => p <= q

\* Mutant: a later pair of the same source replaces its client.
LastWith(s) == CHOOSE p \in Pair : Source[p] = s /\ \A q \in Pair : Source[q] = s => q <= p

\* New makes one client per source, configured with the first pair that has
\* it; then --pairs drops the pairs that were not asked for.
FirstWith(s) == CHOOSE p \in Pair : Source[p] = s /\ \A q \in Pair : Source[q] = s => p <= q

New ==
    /\ main = "new"
    /\ clients' = [s \in Sources |-> FirstWith(s)]
    /\ main' = "running"
    /\ pc' = [p \in Pair |-> IF p \in selected THEN "wait" ELSE "off"]
    /\ UNCHANGED <<mode, selected, ctxDone, errChan, errors, copied>>

\* A client, or the checkpoint directory, cannot be made.
NewFails ==
    /\ main = "new"
    /\ main' = "error"
    /\ UNCHANGED <<mode, selected, ctxDone, clients, pc, errChan, errors, copied>>

\* SIGINT or SIGTERM
Cancel ==
    /\ main = "running" /\ ~ctxDone
    /\ ctxDone' = TRUE
    /\ UNCHANGED <<mode, selected, main, clients, pc, errChan, errors, copied>>

\* wg.Wait has returned and errChan is closed.
AllEnded == \A p \in selected : pc[p] \in Ended

\* Mutant: the error is taken from the channel and not kept.
ReceiveLost(p) ==
    /\ main = "running" /\ p \in errChan
    /\ errChan' = errChan \ {p}
    /\ UNCHANGED <<mode, selected, main, ctxDone, clients, pc, errors, copied>>

\* An error is received from errChan: kept, or logged by the live command.
Receive(p) ==
    /\ main = "running" /\ p \in errChan
    /\ errChan' = errChan \ {p}
    /\ errors' = IF mode = "migrate" THEN errors \cup {p} ELSE errors
    /\ UNCHANGED <<mode, selected, main, ctxDone, clients, pc, copied>>

\* Mutant: nobody waits for the goroutines.
ReturnsUnwaited ==
    /\ main = "running" /\ errChan = {}
    /\ main' = IF errors = {} THEN "success" ELSE "error"
    /\ UNCHANGED <<mode, selected, ctxDone, clients, pc, errChan, errors, copied>>

\* errChan is closed and empty: RunMigration, or RunLiveReplication, returns.
Returns ==
    /\ main = "running" /\ AllEnded /\ errChan = {}
    /\ main' = IF errors = {} THEN "success" ELSE "error"
    /\ UNCHANGED <<mode, selected, ctxDone, clients, pc, errChan, errors, copied>>

\* RunLiveReplication does not wait for its pairs when the context is done.
Interrupted ==
    /\ main = "running"
    /\ mode = "live" /\ ctxDone
    /\ main' = "error"
    /\ UNCHANGED <<mode, selected, ctxDone, clients, pc, errChan, errors, copied>>

\* The deferred Close, and the end of the process.
Close ==
    /\ main \in {"success", "error"}
    /\ main' = "closed"
    /\ UNCHANGED <<mode, selected, ctxDone, clients, pc, errChan, errors, copied>>
-----------------------------------------------------------------------------
(* The goroutine of a pair; it goes on until the process ends. *)

GoTo(p, where) == pc' = [pc EXCEPT ![p] = where]

\* semaphore <- struct{}{}: it does not look at the context.
Acquire(p) ==
    /\ main # "closed"
    /\ pc[p] = "wait"
    /\ Cardinality({q \in Pair : pc[q] \in Working}) < MaxConcurrentPairs
    /\ GoTo(p, "copy")
    /\ UNCHANGED <<mode, selected, main, ctxDone, clients, errChan, errors, copied>>

\* Some of the table is copied: Scan reads the table of the client.
Copy(p) ==
    /\ main # "closed"
    /\ pc[p] = "copy" /\ ~ctxDone
    /\ copied' = [copied EXCEPT ![p] = @ \cup {clients[Source[p]]}]
    /\ UNCHANGED <<mode, selected, main, ctxDone, clients, pc, errChan, errors>>

\* The copy is complete.  Live replication goes on with the stream; its loop
\* ends when the context is done.
CopyOk(p) ==
    /\ main # "closed"
    /\ pc[p] = "copy"
    /\ GoTo(p, IF mode = "migrate" THEN "ok" ELSE "stream")
    /\ UNCHANGED <<mode, selected, main, ctxDone, clients, errChan, errors, copied>>

\* The pair fails, or ends with the error of its context.
PairFails(p) ==
    /\ main # "closed"
    /\ pc[p] = "copy" \/ (pc[p] = "stream" /\ ctxDone)
    /\ GoTo(p, "failed")
    /\ errChan' = errChan \cup {p}
    /\ UNCHANGED <<mode, selected, main, ctxDone, clients, errors, copied>>
-----------------------------------------------------------------------------
PairStep(p) == Acquire(p) \/ CopyOk(p) \/ PairFails(p)

Next ==
    \/ New \/ NewFails \/ Cancel \/ Returns \/ Interrupted \/ Close
    \/ \E p \in Pair : Receive(p) \/ Copy(p) \/ PairStep(p)

Spec == Init /\ [][Next]_vars

(***************************************************************************)
(* A copy comes to an end, as Migration shows; the scheduler runs the main *)
(* goroutine and the pairs that can go on.  No signal is assumed to come.  *)
(***************************************************************************)
Fairness ==
    /\ WF_vars(Returns) /\ WF_vars(Interrupted) /\ WF_vars(Close)
    /\ \A p \in Pair : WF_vars(Receive(p)) /\ WF_vars(PairStep(p))

FairSpec == Spec /\ Fairness
-----------------------------------------------------------------------------
(* Properties. *)

\* A migrate command that reports success has copied every pair it was given:
\* no error is lost between a goroutine and the collector.  (processor.go:127-161)
SuccessMeansAll ==
    main = "success" /\ mode = "migrate" => \A p \in selected : pc[p] = "ok"

\* Close never runs against a pair of a migrate command: what the writer pool
\* needs of its callers.  (processor.go:144-153, main.go:135)
QuietAtClose ==
    main \in {"success", "error", "closed"} /\ mode = "migrate" =>
        \A p \in selected : pc[p] \in Ended \cup {"off"}

\* The inductive invariant behind the two: a migrate command accounts for
\* every goroutine it started, and loses the error of none.
\* (processor.go:117-162)
PairsInv ==
    /\ \A p \in Pair : p \notin selected \/ main = "new" => pc[p] = "off"
    /\ mode = "migrate" =>
        /\ \A p \in Pair : pc[p] # "stream"
        /\ main \in {"running", "success"} => \A p \in selected : pc[p] # "off"
        /\ main \in {"running", "success"} =>
              \A p \in selected : pc[p] = "failed" => p \in errChan \cup errors
        /\ main = "success" => AllEnded /\ errChan = {} /\ errors = {}
        /\ main \in {"error", "closed"} =>
              \A p \in selected : pc[p] \in Ended \cup {"off"}

\* Every pair gets its turn however few may work at once; only a live pair may
\* wait, as long as others that never end hold every place.
\* (processor.go:135-136, 184-186)
EveryPairGetsItsTurn ==
    \A p \in Pair :
        pc[p] = "wait" ~>
            \/ pc[p] # "wait" \/ main = "closed"
            \/ mode = "live" /\ Cardinality({q \in Pair : pc[q] = "stream"}) = MaxConcurrentPairs

\* A pair that comes after one of its region and endpoint reads through the client
\* of that pair, whose Scan names the other table (processor.go:45-53,
\* dynamodb/client.go:164).
SharesClient(p) == \E q \in Pair : q < p /\ Source[q] = Source[p]

\* The collection of every other pair holds the items of its own table only,
\* whichever pairs were selected and however they fail.  (processor.go:45-53,
\* 274-302)
CopiesItsTable == \A p \in Pair : ~SharesClient(p) => copied[p] \subseteq {p}
=============================================================================
