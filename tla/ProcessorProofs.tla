--------------------------- MODULE ProcessorProofs ---------------------------
(***************************************************************************)
(* Proofs about Processor: what the success of a migrate command means,    *)
(* and that nothing runs when its writer pools are closed.                 *)
(***************************************************************************)
EXTENDS Processor, WellFoundedInduction, TLAPS

\* The part of TypeOK the argument needs.
PairTypes ==
    /\ selected \in SUBSET Pair
    /\ main \in {"new", "running", "success", "error", "closed"}
    /\ pc \in [Pair -> Working \cup Ended \cup {"off", "wait"}]

LEMMA PairsInit == Init => PairTypes /\ PairsInv
  BY DEF Init, PairTypes, PairsInv, Working, Ended

LEMMA PairsMain ==
    ASSUME PairTypes, PairsInv,
           New \/ NewFails \/ Cancel \/ Returns \/ Interrupted \/ Close
    PROVE  (PairTypes /\ PairsInv)'
  <1> USE DEF PairTypes, PairsInv, Working, Ended, AllEnded
  <1>1. CASE New
    BY <1>1 DEF New
  <1>2. CASE NewFails \/ Cancel
    BY <1>2 DEF NewFails, Cancel
  <1>3. CASE Returns
    BY <1>3 DEF Returns
  <1>4. CASE Interrupted
    BY <1>4 DEF Interrupted
  <1>5. CASE Close
    BY <1>5 DEF Close
  <1> QED
    BY <1>1, <1>2, <1>3, <1>4, <1>5

LEMMA PairsPair ==
    ASSUME PairTypes, PairsInv, NEW p \in Pair, Receive(p) \/ Copy(p) \/ PairStep(p)
    PROVE  (PairTypes /\ PairsInv)'
  <1> USE DEF PairTypes, PairsInv, Working, Ended, AllEnded, GoTo
  <1>1. CASE Receive(p)
    BY <1>1 DEF Receive
  <1>2. CASE Copy(p)
    BY <1>2 DEF Copy
  <1>3. CASE Acquire(p)
    BY <1>3 DEF Acquire
  <1>4. CASE CopyOk(p)
    BY <1>4 DEF CopyOk
  <1>5. CASE PairFails(p)
    BY <1>5 DEF PairFails
  <1> QED
    BY <1>1, <1>2, <1>3, <1>4, <1>5 DEF PairStep

LEMMA PairsInvariant == Spec => [](PairTypes /\ PairsInv)
  <1>1. PairTypes /\ PairsInv /\ [Next]_vars => (PairTypes /\ PairsInv)'
    <2> SUFFICES ASSUME PairTypes, PairsInv, [Next]_vars
                 PROVE  (PairTypes /\ PairsInv)'
      OBVIOUS
    <2>1. CASE UNCHANGED vars
      BY <2>1 DEF vars, PairTypes, PairsInv, AllEnded
    <2> QED
      BY <2>1, PairsMain, PairsPair DEF Next
  <1> QED
    BY <1>1, PairsInit, PTL DEF Spec

\* A client is made for a pair: some pair of its source is the first.
LEMMA FirstIsPair ==
    ASSUME NEW s \in Sources PROVE FirstWith(s) \in Pair
  <1> DEFINE T == {p \in Pair : Source[p] = s}
  <1>1. T \subseteq Nat /\ T # {}
    BY ProcessorAssumption DEF Sources, Pair
  <1> DEFINE Smaller == {xy \in Nat \X Nat : xy[1] < xy[2]}
  <1>2. IsWellFoundedOn(Smaller, Nat)
    BY NatLessThanWellFounded DEF OpToRel
  <1>3. \E x \in T : \A y \in T : ~ (<<y, x>> \in Smaller)
    <2> HIDE DEF T, Smaller
    <2> QED
      BY <1>1, <1>2, WFMin
  <1>4. PICK x \in T : \A y \in T : ~ (<<y, x>> \in Smaller)
    BY <1>3
  <1>5. ASSUME NEW y \in T PROVE x <= y
    <2>1. x \in Nat /\ y \in Nat /\ ~ (<<y, x>> \in Smaller)
      BY <1>1, <1>4
    <2> QED
      BY <2>1
  <1>6. x \in Pair /\ Source[x] = s /\ \A q \in Pair : Source[q] = s => x <= q
    BY <1>5
  <1> QED
    BY <1>6 DEF FirstWith

\* The clients are there before a pair is started, so what it copies is a table.
ClientsMade == main = "new" \/ \A s \in Sources : clients[s] \in Pair \/ \A p \in Pair : pc[p] = "off"

LEMMA ProcessorTypeStep ==
    ASSUME TypeOK, PairsInv, ClientsMade, [Next]_vars
    PROVE  TypeOK' /\ ClientsMade'
  <1> USE DEF TypeOK, PairsInv, ClientsMade, GoTo
  <1>1. CASE New
    <2>1. clients' \in [Sources -> Pair] /\ Pair \subseteq 0..Pairs
      BY <1>1, FirstIsPair, ProcessorAssumption DEF New, Pair
    <2> QED
      BY <1>1, <2>1 DEF New
  <1>2. CASE NewFails \/ Cancel
    BY <1>2 DEF NewFails, Cancel
  <1>3. CASE Returns \/ Interrupted \/ Close
    BY <1>3 DEF Returns, Interrupted, Close
  <1>4. ASSUME NEW p \in Pair, Receive(p) PROVE TypeOK' /\ ClientsMade'
    BY <1>4 DEF Receive
  <1>5. ASSUME NEW p \in Pair, Copy(p) PROVE TypeOK' /\ ClientsMade'
    <2>1. Source[p] \in Sources /\ clients[Source[p]] \in Pair
      BY <1>5 DEF Copy, Sources
    <2> QED
      BY <1>5, <2>1 DEF Copy
  <1>6. ASSUME NEW p \in Pair, PairStep(p) PROVE TypeOK' /\ ClientsMade'
    <2>1. CASE Acquire(p)
      BY <2>1 DEF Acquire, Working, Ended
    <2>2. CASE CopyOk(p)
      BY <2>2 DEF CopyOk, Working, Ended
    <2>3. CASE PairFails(p)
      BY <2>3 DEF PairFails, Working, Ended
    <2> QED
      BY <1>6, <2>1, <2>2, <2>3 DEF PairStep
  <1>7. CASE UNCHANGED vars
    BY <1>7 DEF vars
  <1> QED
    BY <1>1, <1>2, <1>3, <1>4, <1>5, <1>6, <1>7 DEF Next

\* The types of a run: every client made has the table of one of the pairs, and
\* only errors of selected pairs are sent or kept.  (processor.go:41-162)
THEOREM ProcessorTypes == Spec => []TypeOK
  <1>1. Init => TypeOK /\ ClientsMade
    <2> SUFFICES ASSUME Init PROVE TypeOK
      BY DEF Init, ClientsMade
    <2>1. clients \in [Sources -> 0..Pairs]
      BY ProcessorAssumption DEF Init, NoTable
    <2>2. pc \in [Pair -> Working \cup Ended \cup {"off", "wait"}] /\ copied \in [Pair -> SUBSET Pair]
      BY DEF Init
    <2> QED
      BY <2>1, <2>2 DEF Init, TypeOK
  <1>2. TypeOK /\ ClientsMade /\ PairsInv /\ [Next]_vars => (TypeOK /\ ClientsMade)'
    BY ProcessorTypeStep
  <1> QED
    BY <1>1, <1>2, PairsInvariant, PTL DEF Spec

\* A migrate command succeeds only when each of its pairs did, however many
\* there are and however few work at once.  (processor.go:117-162)
THEOREM SuccessIsOfAll == Spec => []SuccessMeansAll
  <1>1. PairTypes /\ PairsInv => SuccessMeansAll
    BY DEF PairTypes, PairsInv, SuccessMeansAll, AllEnded, Ended
  <1> QED
    BY <1>1, PairsInvariant, PTL

\* When Close begins under a migrate command no goroutine of a pair is left
\* that could submit a batch.  (processor.go:144-153, main.go:135)
THEOREM CloseIsQuiet == Spec => []QuietAtClose
  <1>1. PairTypes /\ PairsInv => QuietAtClose
    BY DEF PairTypes, PairsInv, QuietAtClose, AllEnded
  <1> QED
    BY <1>1, PairsInvariant, PTL
-----------------------------------------------------------------------------
(* The client of a pair. *)

\* While a pair is at work, the clients are those of the first pairs.
ClientsOfFirst ==
    \/ \A s \in Sources : clients[s] = FirstWith(s)
    \/ \A p \in Pair : pc[p] = "off"

CopiedFromFirst == \A p \in Pair : copied[p] \subseteq {FirstWith(Source[p])}

LEMMA ClientsStay ==
    ASSUME TypeOK, ClientsOfFirst, CopiedFromFirst, [Next]_vars
    PROVE  ClientsOfFirst' /\ CopiedFromFirst'
  <1> USE DEF TypeOK, ClientsOfFirst, CopiedFromFirst
  <1>0. \A s : FirstWith(s)' = FirstWith(s)
    BY DEF FirstWith
  <1>1. CASE New
    BY <1>0, <1>1 DEF New
  <1>2. CASE NewFails \/ Cancel \/ Returns \/ Interrupted \/ Close \/ UNCHANGED vars
    BY <1>0, <1>2 DEF NewFails, Cancel, Returns, Interrupted, Close, vars
  <1>3. ASSUME NEW p \in Pair, Receive(p) PROVE ClientsOfFirst' /\ CopiedFromFirst'
    BY <1>0, <1>3 DEF Receive
  <1>4. ASSUME NEW p \in Pair, Copy(p) PROVE ClientsOfFirst' /\ CopiedFromFirst'
    <2>1. clients[Source[p]] = FirstWith(Source[p])
      BY <1>4 DEF Copy, Sources
    <2>2. copied' = [copied EXCEPT ![p] = @ \cup {FirstWith(Source[p])}] /\ UNCHANGED <<clients, pc>>
      BY <1>4, <2>1 DEF Copy
    <2> QED
      BY <1>0, <2>2
  <1>5. ASSUME NEW p \in Pair, PairStep(p) PROVE ClientsOfFirst' /\ CopiedFromFirst'
    <2>1. UNCHANGED <<clients, copied>> /\ pc[p] # "off"
      BY <1>5 DEF PairStep, Acquire, CopyOk, PairFails
    <2> QED
      BY <1>0, <2>1
  <1> QED
    BY <1>1, <1>2, <1>3, <1>4, <1>5 DEF Next

\* A pair that is the first of its source copies its own table only, whatever the
\* configuration and the selection are (CopiesItsTable); New does not give that to
\* the pairs after it.  (processor.go:45-53)
THEOREM FirstPairsCopyTheirTable == Spec => []CopiesItsTable
  <1>1. Init => ClientsOfFirst /\ CopiedFromFirst
    BY DEF Init, ClientsOfFirst, CopiedFromFirst
  <1>2. TypeOK /\ ClientsOfFirst /\ CopiedFromFirst /\ [Next]_vars
            => (ClientsOfFirst /\ CopiedFromFirst)'
    BY ClientsStay
  <1>3. CopiedFromFirst => CopiesItsTable
    <2> SUFFICES ASSUME CopiedFromFirst, NEW p \in Pair, ~SharesClient(p)
                 PROVE  copied[p] \subseteq {p}
      BY DEF CopiesItsTable
    <2>1. \A q \in Pair : Source[q] = Source[p] => p <= q
      BY ProcessorAssumption DEF SharesClient, Pair
    <2>2. \A r \in Pair : (Source[r] = Source[p] /\ \A q \in Pair : Source[q] = Source[p] => r <= q)
                              => r = p
      BY <2>1, ProcessorAssumption DEF Pair
    <2>3. FirstWith(Source[p]) = p
      BY <2>1, <2>2 DEF FirstWith
    <2> QED
      BY <2>3 DEF CopiedFromFirst
  <1> QED
    BY <1>1, <1>2, <1>3, ProcessorTypes, PTL DEF Spec
=============================================================================
