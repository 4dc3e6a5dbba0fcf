--------------------------- MODULE MigrationProofs ---------------------------
(***************************************************************************)
(* Proofs about the copy of a table: the types, that a resume skips no row *)
(* that was not copied, and that completion means completion as long as no *)
(* filter empties a page.                                                  *)
(***************************************************************************)
EXTENDS Migration, FiniteSetTheorems, TLAPS

\* The rows a scan returns are finitely many.
LEMMA ItemsFinite ==
    ASSUME NEW s \in Segment, NEW lo \in Nat, NEW hi \in Nat
    PROVE  /\ IsFiniteSet(Items(s, lo, hi))
           /\ Cardinality(Items(s, lo, hi)) \in Nat
<1>1. IsFiniteSet((lo + 1)..hi)
  BY FS_Interval
<1>2. Items(s, lo, hi) \subseteq (lo + 1)..hi
  BY DEF Items
<1> QED
  BY <1>1, <1>2, FS_Subset, FS_CardinalityType

\* What the steps make of a checkpoint is a checkpoint.
LEMMA EmptyImage == Empty \in Image
BY DEF Empty, Image

LEMMA ImageSets ==
    ASSUME NEW c \in Image, NEW s \in Segment
    PROVE  /\ \A k \in Nat : [c EXCEPT !.key[s] = k] \in Image
           /\ \A n \in Nat : [c EXCEPT !.count[s] = n] \in Image
           /\ \A d \in BOOLEAN : [c EXCEPT !.done[s] = d] \in Image
           /\ \A n \in Nat : [c EXCEPT !.total = n] \in Image
           /\ \A k, n \in Nat, d \in BOOLEAN :
                [c EXCEPT !.key[s] = k, !.count[s] = n, !.done[s] = d] \in Image
BY DEF Image

LEMMA ImageFields ==
    ASSUME NEW c \in Image
    PROVE  /\ c.key \in [Segment -> Nat]
           /\ c.count \in [Segment -> Nat]
           /\ c.done \in [Segment -> BOOLEAN]
           /\ c.total \in Nat
BY DEF Image

\* The three variables that Record and Continue set.
ProgressTypes ==
    /\ pc \in [Segment -> Active \cup {"off", "wait", "done", "failed"}]
    /\ final \in [Segment -> BOOLEAN]
    /\ stores \in [Segment -> SUBSET Field]

LEMMA RecordTypes ==
    ASSUME NEW s \in Segment, NEW b \in BOOLEAN, ProgressTypes, Record(s, b)
    PROVE  ProgressTypes'
<1>1. pc' \in [Segment -> Active \cup {"off", "wait", "done", "failed"}]
  BY DEF ProgressTypes, Record, GoTo, Active
<1>2. final' \in [Segment -> BOOLEAN]
  BY DEF ProgressTypes, Record
<1>3. stores' \in [Segment -> SUBSET Field]
  BY DEF ProgressTypes, Record
<1> QED
  BY <1>1, <1>2, <1>3 DEF ProgressTypes

LEMMA GoToTypes ==
    ASSUME NEW s \in Segment, NEW where \in Active \cup {"done"}, ProgressTypes,
           GoTo(s, where), UNCHANGED <<final, stores>>
    PROVE  ProgressTypes'
BY DEF ProgressTypes, GoTo, Active

LEMMA TypeInit == Init => TypeOK
<1> SUFFICES ASSUME Init PROVE TypeOK
  OBVIOUS
<1> USE DEF Init, Zero
<1>1. /\ main \in {"idle", "running", "success", "error"}
      /\ runs \in Nat
      /\ ctxDone \in BOOLEAN
      /\ pc \in [Segment -> Active \cup {"off", "wait", "done", "failed"}]
  OBVIOUS
<1>2. /\ lastKey \in [Segment -> Nat] /\ high \in [Segment -> Nat]
      /\ pageKey \in [Segment -> Nat] /\ cut \in [Segment -> Nat]
      /\ unsent \in [Segment -> SUBSET Nat]
      /\ count \in [Segment -> Nat] /\ total \in [Segment -> Nat]
      /\ final \in [Segment -> BOOLEAN]
      /\ stores \in [Segment -> SUBSET Field]
      /\ toSum \in [Segment -> SUBSET Segment]
  OBVIOUS
<1>3. /\ mem \in Image /\ img \in Image /\ file \in Image
      /\ left \in SUBSET Segment /\ mu \in Segment \cup {NoOne}
      /\ hasFile \in BOOLEAN
      /\ late \in SUBSET Row /\ stored \in SUBSET Row /\ twice \in SUBSET Row
  BY EmptyImage
<1> QED
  BY <1>1, <1>2, <1>3 DEF TypeOK

\* Init establishes the types and every step keeps them.
LEMMA TypeStep == TypeOK /\ [Next]_vars => TypeOK'
<1> SUFFICES ASSUME TypeOK, [Next]_vars PROVE TypeOK'
  OBVIOUS
<1> USE MigrationAssumption DEF NoOne, Field, Active
<1>1. CASE Resume
  BY <1>1, ImageFields DEF TypeOK, Resume, Spawn, Zero, saving, disk, target
<1>2. CASE StartFresh
  BY <1>2, EmptyImage, ImageFields DEF TypeOK, StartFresh, Spawn, Zero, saving, disk, target
<1>3. CASE StartFails
  BY <1>3 DEF TypeOK, StartFails, local, saving, disk, target
<1>4. CASE Finish
  BY <1>4 DEF TypeOK, Finish, local, saving, disk, target
<1>5. CASE Cancel
  BY <1>5 DEF TypeOK, Cancel, local, saving, disk, target
<1>6. CASE Crash \/ Exit
  <2>1. Reset
    BY <1>6 DEF Crash, Exit
  <2> USE DEF Reset, Zero
  <2>2. /\ main' \in {"idle", "running", "success", "error"}
        /\ ctxDone' \in BOOLEAN
        /\ pc' \in [Segment -> Active \cup {"off", "wait", "done", "failed"}]
    BY <2>1
  <2>3. /\ lastKey' \in [Segment -> Nat] /\ high' \in [Segment -> Nat]
        /\ pageKey' \in [Segment -> Nat] /\ cut' \in [Segment -> Nat]
        /\ unsent' \in [Segment -> SUBSET Nat]
        /\ count' \in [Segment -> Nat] /\ total' \in [Segment -> Nat]
        /\ final' \in [Segment -> BOOLEAN]
        /\ stores' \in [Segment -> SUBSET Field]
        /\ toSum' \in [Segment -> SUBSET Segment]
    BY <2>1
  <2>4. /\ mem' \in Image /\ img' \in Image
        /\ left' \in SUBSET Segment /\ mu' \in Segment \cup {NoOne}
        /\ late' \in SUBSET Row
    BY <2>1, EmptyImage
  <2>5. UNCHANGED <<runs, file, hasFile, stored, twice>>
    BY <2>1 DEF disk
  <2> QED
    BY <2>2, <2>3, <2>4, <2>5 DEF TypeOK
<1>7. ASSUME NEW r \in late, LateWrite(r) PROVE TypeOK'
  BY <1>7 DEF TypeOK, LateWrite, WriteDoc, command, local, saving, disk
<1>8. ASSUME NEW s \in Segment, SegmentStep(s) PROVE TypeOK'
  <2> USE DEF TypeOK, GoTo, command, saving, disk, target
  <2>1. CASE Acquire(s)
    BY <2>1 DEF Acquire
  <2>2. CASE ScanPage(s)
    <3>1. PICK e \in lastKey[s]..Rows[s], next \in 0..Rows[s] :
            /\ high' = [high EXCEPT ![s] = e]
            /\ pageKey' = [pageKey EXCEPT ![s] = next]
            /\ cut' = [cut EXCEPT ![s] = lastKey[s]]
            /\ \/ Record(s, TRUE)
               \/ GoTo(s, "submit") /\ UNCHANGED <<final, stores>>
      BY <2>2 DEF ScanPage
    <3>2. /\ high' \in [Segment -> Nat]
          /\ pageKey' \in [Segment -> Nat]
          /\ cut' \in [Segment -> Nat]
      BY <3>1
    <3>3. ProgressTypes'
      BY <3>1, RecordTypes, GoToTypes DEF ProgressTypes
    <3> QED
      BY <2>2, <3>2, <3>3 DEF ScanPage, ProgressTypes
  <2>3. CASE ScanFails(s)
    BY <2>3 DEF ScanFails
  <2>4. CASE SubmitBatch(s)
    BY <2>4 DEF SubmitBatch, Remaining, BatchUpTo, Items
  <2>5. CASE Write(s)
    BY <2>5 DEF Write, WriteDoc, Row
  <2>6. CASE BatchOk(s)
    BY <2>6 DEF BatchOk
  <2>7. CASE BatchFails(s)
    BY <2>7 DEF BatchFails
  <2>8. CASE Abandon(s)
    BY <2>8 DEF Abandon, Row
  <2>9. CASE PageDone(s)
    <3> DEFINE n == count[s] + Cardinality(Items(s, lastKey[s], high[s]))
    <3>1. n \in Nat
      <4>1. lastKey[s] \in Nat /\ high[s] \in Nat /\ count[s] \in Nat
        BY <1>8
      <4>2. Cardinality(Items(s, lastKey[s], high[s])) \in Nat
        BY <4>1, <1>8, ItemsFinite
      <4> QED
        BY <4>1, <4>2
    <3>2. count' \in [Segment -> Nat] /\ lastKey' \in [Segment -> Nat]
      BY <2>9, <3>1 DEF PageDone
    <3>3. \/ Record(s, TRUE) \/ Record(s, FALSE)
          \/ GoTo(s, "scan") /\ UNCHANGED <<final, stores>>
      BY <2>9 DEF PageDone
    <3>4. ProgressTypes'
      BY <3>3, RecordTypes, GoToTypes DEF ProgressTypes
    <3> QED
      BY <2>9, <3>2, <3>4 DEF PageDone, ProgressTypes
  <2>10. CASE PutKey(s) \/ PutCount(s) \/ PutDone(s)
    <3>1. mem' \in Image
      <4>1. lastKey[s] \in Nat /\ count[s] \in Nat /\ final[s] \in BOOLEAN
        BY <1>8
      <4>2. /\ [mem EXCEPT !.key[s] = lastKey[s]] \in Image
            /\ [mem EXCEPT !.count[s] = count[s]] \in Image
            /\ [mem EXCEPT !.done[s] = final[s]] \in Image
        BY <4>1, <1>8, ImageSets
      <4> QED
        BY <2>10, <4>2 DEF PutKey, PutCount, PutDone
    <3> QED
      BY <2>10, <3>1 DEF PutKey, PutCount, PutDone
  <2>11. CASE BeginSum(s) \/ StoreTotal(s)
    <3>1. mem' \in Image
      <4>1. total[s] \in Nat
        BY <1>8
      <4>2. [mem EXCEPT !.total = total[s]] \in Image
        BY <4>1, <1>8, ImageSets
      <4> QED
        BY <2>11, <4>2 DEF BeginSum, StoreTotal
    <3> QED
      BY <2>11, <3>1 DEF BeginSum, StoreTotal
  <2>12. ASSUME NEW r \in Segment, AddCount(s, r) PROVE TypeOK'
    BY <2>12, ImageFields DEF AddCount
  <2>13. CASE Lock(s)
    <3>1. img' \in Image
      BY <2>13, EmptyImage, ImageSets, ImageFields DEF Lock
    <3> QED
      BY <2>13, <3>1 DEF Lock
  <2>14. ASSUME NEW r \in Segment, Marshal(s, r) PROVE TypeOK'
    <3>1. img' \in Image
      <4>1. /\ mem.key[r] \in Nat
            /\ mem.count[r] \in Nat
            /\ mem.done[r] \in BOOLEAN
        BY <2>14, ImageFields
      <4> QED
        BY <2>14, <4>1, ImageSets DEF Marshal
    <3> QED
      BY <2>14, <3>1 DEF Marshal, local
  <2>15. CASE SaveReturns(s)
    <3>1. ProgressTypes'
      BY <2>15, RecordTypes, GoToTypes DEF SaveReturns, Continue, ProgressTypes
    <3>2. img' \in Image /\ file' \in Image
      BY <2>15, EmptyImage DEF SaveReturns
    <3> QED
      BY <2>15, <3>1, <3>2 DEF SaveReturns, ProgressTypes
  <2> QED
    BY <1>8, <2>1, <2>2, <2>3, <2>4, <2>5, <2>6, <2>7, <2>8, <2>9, <2>10, <2>11,
       <2>12, <2>13, <2>14, <2>15 DEF SegmentStep
<1>9. CASE UNCHANGED vars
  BY <1>9 DEF TypeOK, vars, command, local, saving, disk, target
<1> QED
  BY <1>1, <1>2, <1>3, <1>4, <1>5, <1>6, <1>7, <1>8, <1>9 DEF Next

\* Every variable of the copy keeps its type, for every table and every number
\* of segments, runs and readers.  (migrator.go, manager.go)
THEOREM MigrationTypes == Spec => []TypeOK
BY TypeInit, TypeStep, PTL DEF Spec
-----------------------------------------------------------------------------
(* What is in the target stays there. *)

LEMMA StoredGrows == TypeOK /\ [Next]_vars => stored \subseteq stored'
<1> SUFFICES ASSUME [Next]_vars PROVE stored \subseteq stored'
  OBVIOUS
<1> USE DEF target
<1>1. CASE Resume \/ StartFresh \/ StartFails \/ Finish \/ Cancel
  BY <1>1 DEF Resume, StartFresh, StartFails, Finish, Cancel
<1>2. CASE Crash \/ Exit
  BY <1>2 DEF Crash, Exit, Reset
<1>3. ASSUME NEW r \in late, LateWrite(r) PROVE stored \subseteq stored'
  BY <1>3 DEF LateWrite, WriteDoc
<1>4. ASSUME NEW s \in Segment, SegmentStep(s) PROVE stored \subseteq stored'
  <2>1. CASE Write(s)
    BY <2>1 DEF Write, WriteDoc
  <2>2. CASE ~Write(s)
    BY <2>2, <1>4 DEF SegmentStep, Acquire, ScanPage, ScanFails, SubmitBatch,
       BatchOk, BatchFails, Abandon, PageDone, PutKey, PutCount, PutDone, BeginSum,
       AddCount, StoreTotal, Lock, Marshal, SaveReturns
  <2> QED
    BY <2>1, <2>2
<1>5. CASE UNCHANGED vars
  BY <1>5 DEF vars
<1> QED
  BY <1>1, <1>2, <1>3, <1>4, <1>5 DEF Next

LEMMA CopiedStays ==
    ASSUME stored \subseteq stored', NEW s, NEW k, CopiedUpTo(s, k)
    PROVE  CopiedUpTo(s, k)'
BY DEF CopiedUpTo

\* Keys that are handed on, or set to nil, keep naming copied rows only.
LEMMA KeysHandedOn ==
    ASSUME stored \subseteq stored', KeysCopied,
           NEW s \in Segment,
           lastKey'[s] \in {0, lastKey[s], file.key[s]},
           mem'.key[s] \in {0, mem.key[s], lastKey[s], file.key[s]},
           img'.key[s] \in {0, img.key[s], mem.key[s]},
           file'.key[s] \in {0, file.key[s], img.key[s]}
    PROVE  /\ CopiedUpTo(s, lastKey[s])'
           /\ CopiedUpTo(s, mem.key[s])'
           /\ CopiedUpTo(s, img.key[s])'
           /\ CopiedUpTo(s, file.key[s])'
<1>1. \A k : CopiedUpTo(s, k) => CopiedUpTo(s, k)'
  BY CopiedStays
<1>2. CopiedUpTo(s, 0)
  BY DEF CopiedUpTo
<1>3. /\ CopiedUpTo(s, lastKey[s]) /\ CopiedUpTo(s, mem.key[s])
      /\ CopiedUpTo(s, img.key[s]) /\ CopiedUpTo(s, file.key[s])
  BY DEF KeysCopied
<1> DEFINE Up(k) == \A i \in 1..k : <<s, i>> \in stored' \cup Filtered \cup Bad
<1>4. \A k : CopiedUpTo(s, k) => Up(k)
  BY <1>1 DEF CopiedUpTo
<1>5. Up(lastKey'[s]) /\ Up(mem'.key[s]) /\ Up(img'.key[s]) /\ Up(file'.key[s])
  <2> HIDE DEF Up
  <2> QED BY <1>2, <1>3, <1>4
<1> QED
  BY <1>5 DEF CopiedUpTo

\* A page that is not touched stays copied as far as it was.
LEMMA PageKept ==
    ASSUME stored \subseteq stored', NEW s \in Segment, PageCopied(s),
           pc'[s] = pc[s], pageKey'[s] = pageKey[s], high'[s] = high[s],
           cut'[s] = cut[s], unsent'[s] = unsent[s]
    PROVE  PageCopied(s)'
BY DEF PageCopied

\* The key a finished page leaves behind names copied rows only: what is
\* between the last batch and the end of the page was filtered out.
LEMMA PageEnd ==
    ASSUME TypeOK, NEW s \in Segment, PageCopied(s), pc[s] = "submit",
           Remaining(s) = {}
    PROVE  /\ CopiedUpTo(s, high[s])
           /\ CopiedUpTo(s, pageKey[s])
           /\ pageKey[s] = 0 => CopiedUpTo(s, Rows[s])
<1>1. high[s] \in Nat /\ cut[s] \in Nat
  BY DEF TypeOK
<1>2. CopiedUpTo(s, high[s])
  <2> SUFFICES ASSUME NEW i \in 1..high[s]
               PROVE  <<s, i>> \in stored \cup Filtered \cup Bad
    BY DEF CopiedUpTo
  <2>1. CASE i \in 1..cut[s]
    BY <2>1 DEF PageCopied
  <2>2. CASE i \notin 1..cut[s]
    BY <1>1, <2>2 DEF Remaining, Items
  <2> QED
    BY <2>1, <2>2
<1>3. CopiedUpTo(s, 0)
  BY DEF CopiedUpTo
<1> QED
  BY <1>2, <1>3 DEF PageCopied

\* A batch takes the rows up to its end, except those that cannot be
\* converted.
LEMMA BatchTaken ==
    ASSUME TypeOK, NEW s \in Segment, PageCopied(s), pc[s] = "submit",
           NEW end \in Remaining(s), NEW i \in 1..end
    PROVE  \/ <<s, i>> \in stored \cup Filtered \cup Bad
           \/ i \in {k \in BatchUpTo(s, end) : <<s, k>> \notin Bad}
<1>1. cut[s] \in Nat /\ high[s] \in Nat /\ end \in Nat /\ end <= high[s]
  BY DEF TypeOK, Remaining, Items
<1>2. CASE i \in 1..cut[s]
  BY <1>2 DEF PageCopied
<1>3. CASE i \notin 1..cut[s]
  BY <1>1, <1>3 DEF BatchUpTo, Remaining, Items
<1> QED
  BY <1>2, <1>3

LEMMA KeysStep == TypeOK /\ KeysCopied /\ [Next]_vars => KeysCopied'
<1> SUFFICES ASSUME TypeOK, KeysCopied, [Next]_vars, NEW s \in Segment
             PROVE  /\ CopiedUpTo(s, lastKey[s])'
                    /\ CopiedUpTo(s, mem.key[s])'
                    /\ CopiedUpTo(s, img.key[s])'
                    /\ CopiedUpTo(s, file.key[s])'
                    /\ PageCopied(s)'
  BY DEF KeysCopied
<1>1. TypeOK' /\ stored \subseteq stored'
  BY TypeStep, StoredGrows
<1>2. PageCopied(s)
  BY DEF KeysCopied
<1> USE DEF local, saving, disk, target
<1>3. CASE Resume \/ StartFresh
  <2>1. /\ lastKey'[s] \in {0, file.key[s]} /\ mem'.key[s] \in {0, file.key[s]}
        /\ file'.key[s] \in {0, file.key[s]} /\ img' = img
        /\ pc'[s] \notin {"submit", "write"}
    BY <1>3 DEF Resume, StartFresh, Spawn, Empty
  <2> QED
    BY <1>1, <2>1, KeysHandedOn DEF PageCopied
<1>4. CASE StartFails \/ Finish \/ Cancel \/ UNCHANGED vars
  <2>1. UNCHANGED <<local, mem, img, file>>
    BY <1>4 DEF StartFails, Finish, Cancel, vars
  <2> QED
    BY <1>1, <1>2, <2>1, KeysHandedOn, PageKept
<1>5. CASE Crash \/ Exit
  <2>1. /\ lastKey'[s] = 0 /\ mem'.key[s] = 0 /\ img'.key[s] = 0 /\ file' = file
        /\ pc'[s] \notin {"submit", "write"}
    BY <1>5 DEF Crash, Exit, Reset, Zero, Empty
  <2> QED
    BY <1>1, <2>1, KeysHandedOn DEF PageCopied
<1>6. CASE \E r \in late : LateWrite(r)
  <2>1. UNCHANGED <<local, mem, img, file>>
    BY <1>6 DEF LateWrite
  <2> QED
    BY <1>1, <1>2, <2>1, KeysHandedOn, PageKept
<1>7. ASSUME NEW q \in Segment, SegmentStep(q)
      PROVE  /\ CopiedUpTo(s, lastKey[s])' /\ CopiedUpTo(s, mem.key[s])'
             /\ CopiedUpTo(s, img.key[s])' /\ CopiedUpTo(s, file.key[s])'
             /\ PageCopied(s)'
  <2> USE DEF GoTo, Record
  <2>0. /\ pc \in [Segment -> Active \cup {"off", "wait", "done", "failed"}]
        /\ lastKey \in [Segment -> Nat] /\ high \in [Segment -> Nat]
        /\ pageKey \in [Segment -> Nat] /\ cut \in [Segment -> Nat]
        /\ unsent \in [Segment -> SUBSET Nat]
        /\ mem \in Image /\ img \in Image /\ file \in Image
    BY DEF TypeOK
  <2>1. CASE Acquire(q) \/ ScanFails(q) \/ BatchFails(q) \/ Abandon(q)
             \/ BeginSum(q) \/ StoreTotal(q)
    <3>1. /\ UNCHANGED <<lastKey, img, file, pageKey, high, cut>>
          /\ pc' = [pc EXCEPT ![q] = pc'[q]]
          /\ pc'[q] \notin {"submit", "write"}
          /\ unsent' = [unsent EXCEPT ![q] = unsent'[q]]
      BY <2>0, <2>1 DEF Acquire, ScanFails, BatchFails, Abandon, BeginSum, StoreTotal
    <3>2. mem'.key = mem.key
      BY <2>0, <2>1 DEF Acquire, ScanFails, BatchFails, Abandon, BeginSum, StoreTotal, Image
    <3>3. CASE s = q
      BY <1>1, <3>1, <3>2, <3>3, KeysHandedOn DEF PageCopied
    <3>4. CASE s # q
      BY <1>1, <1>2, <2>0, <3>1, <3>2, <3>4, KeysHandedOn, PageKept
    <3> QED
      BY <3>3, <3>4
  <2>2. CASE \E r \in Segment : AddCount(q, r)
    BY <1>1, <1>2, <2>2, KeysHandedOn, PageKept DEF AddCount
  <2>3. CASE ScanPage(q)
    <3>1. /\ UNCHANGED <<lastKey, mem, img, file, unsent>>
          /\ pc' = [pc EXCEPT ![q] = pc'[q]]
          /\ high' = [high EXCEPT ![q] = high'[q]]
          /\ pageKey' = [pageKey EXCEPT ![q] = pageKey'[q]]
          /\ cut' = [cut EXCEPT ![q] = lastKey[q]]
          /\ IF pageKey'[q] = 0 THEN high'[q] = Rows[q] ELSE pageKey'[q] = high'[q]
      BY <2>0, <2>3 DEF ScanPage
    <3>2. CASE s = q
      BY <1>1, <2>0, <3>1, <3>2, KeysHandedOn DEF PageCopied, CopiedUpTo, KeysCopied
    <3>3. CASE s # q
      BY <1>1, <1>2, <2>0, <3>1, <3>3, KeysHandedOn, PageKept
    <3> QED
      BY <3>2, <3>3
  <2>4. CASE SubmitBatch(q)
    <3>1. PICK end \in Remaining(q) :
            /\ cut' = [cut EXCEPT ![q] = end]
            /\ unsent' = [unsent EXCEPT ![q] =
                             {k \in BatchUpTo(q, end) : <<q, k>> \notin Bad}]
            /\ pc' = [pc EXCEPT ![q] =
                        IF {k \in BatchUpTo(q, end) : <<q, k>> \notin Bad} = {}
                        THEN "submit" ELSE "write"]
      BY <2>4 DEF SubmitBatch
    <3>2. /\ pc[q] = "submit"
          /\ UNCHANGED <<lastKey, mem, img, file, high, pageKey, stored>>
      BY <2>4 DEF SubmitBatch
    <3>3. CASE s = q
      <4>1. \A i \in 1..end :
              \/ <<s, i>> \in stored \cup Filtered \cup Bad
              \/ i \in {k \in BatchUpTo(q, end) : <<q, k>> \notin Bad}
        BY <1>2, <3>2, <3>3, BatchTaken
      <4>2. PageCopied(s)'
        BY <1>2, <2>0, <3>1, <3>2, <3>3, <4>1 DEF PageCopied
      <4> QED
        BY <1>1, <3>2, <4>2, KeysHandedOn
    <3>4. CASE s # q
      BY <1>1, <1>2, <2>0, <3>1, <3>2, <3>4, KeysHandedOn, PageKept
    <3> QED
      BY <3>3, <3>4
  <2>5. CASE Write(q)
    <3>1. /\ UNCHANGED <<lastKey, mem, img, file, pc, pageKey, high, cut>>
          /\ unsent' = [unsent EXCEPT ![q] = unsent'[q]]
          /\ \A k \in unsent[q] : k \in unsent'[q] \/ <<q, k>> \in stored'
      BY <2>0, <2>5 DEF Write, WriteDoc
    <3>2. CASE s = q
      BY <1>1, <1>2, <2>0, <3>1, <3>2, KeysHandedOn DEF PageCopied
    <3>3. CASE s # q
      BY <1>1, <1>2, <2>0, <3>1, <3>3, KeysHandedOn, PageKept
    <3> QED
      BY <3>2, <3>3
  <2>6. CASE BatchOk(q)
    <3>1. /\ UNCHANGED <<lastKey, mem, img, file, pageKey, high, cut, unsent, stored>>
          /\ pc' = [pc EXCEPT ![q] = "submit"]
          /\ pc[q] = "write" /\ unsent[q] = {}
      BY <2>6 DEF BatchOk
    <3>2. PageCopied(s)'
      BY <1>2, <2>0, <3>1 DEF PageCopied
    <3> QED
      BY <1>1, <3>1, <3>2, KeysHandedOn
  <2>7. CASE PageDone(q)
    <3>1. /\ UNCHANGED <<mem, img, file, pageKey, high, cut, unsent, stored>>
          /\ lastKey' = [lastKey EXCEPT ![q] = pageKey[q]]
          /\ pc' = [pc EXCEPT ![q] = pc'[q]]
          /\ pc'[q] \notin {"submit", "write"}
          /\ pc[q] = "submit" /\ Remaining(q) = {}
      BY <2>0, <2>7 DEF PageDone
    <3>2. CASE s = q
      <4>1. CopiedUpTo(s, pageKey[s])
        BY <1>2, <3>1, <3>2, PageEnd
      <4>2. /\ CopiedUpTo(s, lastKey[s])'
            /\ CopiedUpTo(s, mem.key[s])' /\ CopiedUpTo(s, img.key[s])'
            /\ CopiedUpTo(s, file.key[s])'
        BY <2>0, <3>1, <3>2, <4>1 DEF CopiedUpTo, KeysCopied
      <4> QED
        BY <3>1, <3>2, <4>2 DEF PageCopied
    <3>3. CASE s # q
      BY <1>1, <1>2, <2>0, <3>1, <3>3, KeysHandedOn, PageKept
    <3> QED
      BY <3>2, <3>3
  <2>8. CASE PutKey(q) \/ PutCount(q) \/ PutDone(q) \/ Lock(q)
             \/ (\E r \in Segment : Marshal(q, r)) \/ SaveReturns(q)
    <3>1. /\ lastKey' = lastKey
          /\ mem'.key[s] \in {mem.key[s], lastKey[s]}
          /\ img'.key[s] \in {0, img.key[s], mem.key[s]}
          /\ file'.key[s] \in {file.key[s], img.key[s]}
      <4> USE <2>0, <2>8 DEF Image
      <4>1. CASE PutKey(q) \/ PutCount(q) \/ PutDone(q)
        BY <4>1 DEF PutKey, PutCount, PutDone
      <4>2. CASE Lock(q)
        BY <4>2 DEF Lock, Empty
      <4>3. ASSUME NEW r \in Segment, Marshal(q, r)
            PROVE  /\ UNCHANGED <<lastKey, mem, file>>
                   /\ img'.key[s] \in {0, img.key[s], mem.key[s]}
        <5>1. img'.key = [img.key EXCEPT ![r] = mem.key[r]]
          BY <4>3 DEF Marshal
        <5> QED
          BY <4>3, <5>1 DEF Marshal
      <4>4. CASE SaveReturns(q)
        BY <4>4 DEF SaveReturns, Empty
      <4> QED
        BY <4>1, <4>2, <4>3, <4>4
    <3>2. /\ UNCHANGED <<pageKey, high, cut, unsent>>
          /\ pc' = [pc EXCEPT ![q] = pc'[q]]
          /\ pc'[q] \notin {"submit", "write"}
      BY <2>0, <2>8 DEF PutKey, PutCount, PutDone, Lock, Marshal, SaveReturns, Continue
    <3>3. PageCopied(s)'
      <4>1. CASE s = q
        BY <2>0, <3>2, <4>1 DEF PageCopied
      <4>2. CASE s # q
        BY <1>1, <1>2, <2>0, <3>2, <4>2, PageKept
      <4> QED
        BY <4>1, <4>2
    <3> QED
      BY <1>1, <3>1, <3>3, KeysHandedOn
  <2> QED
    BY <1>7, <2>1, <2>2, <2>3, <2>4, <2>5, <2>6, <2>7, <2>8 DEF SegmentStep
<1> QED
  BY <1>3, <1>4, <1>5, <1>6, <1>7 DEF Next

LEMMA KeysInit == Init => KeysCopied
BY DEF Init, Zero, Empty, KeysCopied, PageCopied, CopiedUpTo

\* Wherever a run dies or fails, and however the racing updates of the map are
\* torn, what a resume skips was copied: for every table, filter, page and batch
\* size, number of readers, runs and segments.
THEOREM ResumeIsSafe == Spec => []ResumeSkipsNothing
<1>1. Spec => [](TypeOK /\ KeysCopied)
  BY TypeInit, TypeStep, KeysInit, KeysStep, PTL DEF Spec
<1>2. KeysCopied => ResumeSkipsNothing
  BY DEF KeysCopied, ResumeSkipsNothing
<1> QED
  BY <1>1, <1>2, PTL
-----------------------------------------------------------------------------
(* Completion, for a table scanned without a filter. *)

LEMMA EndsInit == Init => EndsCopied
BY DEF Init, Empty, EndsCopied, ClaimsEnd

\* A step that makes something new claim the end of s is one at which s has
\* reached it: an empty page, or one without LastEvaluatedKey.
LEMMA ClaimIsFounded ==
    ASSUME Filtered = {}, TypeOK, KeysCopied, EndsCopied, [Next]_vars,
           NEW s \in Segment, ClaimsEnd(s)'
    PROVE  CopiedUpTo(s, Rows[s])
<1> USE DEF local, saving, disk, target, command
<1>1. ClaimsEnd(s) => CopiedUpTo(s, Rows[s])
  BY DEF EndsCopied
<1>2. PageCopied(s) /\ CopiedUpTo(s, lastKey[s])
  BY DEF KeysCopied
<1>3. /\ pc \in [Segment -> Active \cup {"off", "wait", "done", "failed"}]
      /\ lastKey \in [Segment -> Nat] /\ final \in [Segment -> BOOLEAN]
      /\ pageKey \in [Segment -> Nat]
      /\ mem \in Image /\ img \in Image /\ file \in Image
      /\ Rows \in [Segment -> Nat]
  BY MigrationAssumption DEF TypeOK
<1>4. CASE Resume \/ StartFresh
  BY <1>1, <1>3, <1>4 DEF Resume, StartFresh, Spawn, Empty, ClaimsEnd
<1>5. CASE StartFails \/ Cancel \/ UNCHANGED vars
  BY <1>1, <1>5 DEF StartFails, Cancel, vars, ClaimsEnd
<1>6. CASE Finish
  BY <1>1, <1>6 DEF Finish, ClaimsEnd
<1>7. CASE Crash \/ Exit
  BY <1>1, <1>7 DEF Crash, Exit, Reset, Empty, ClaimsEnd
<1>8. CASE \E r \in late : LateWrite(r)
  BY <1>1, <1>8 DEF LateWrite, ClaimsEnd
<1>9. ASSUME NEW q \in Segment, SegmentStep(q) PROVE CopiedUpTo(s, Rows[s])
  <2> USE DEF GoTo
  <2>1. CASE Acquire(q) \/ ScanFails(q) \/ SubmitBatch(q) \/ BatchOk(q)
             \/ BatchFails(q) \/ Abandon(q)
    <3>1. /\ UNCHANGED <<main, mem, img, file, final, pageKey>>
          /\ pc' = [pc EXCEPT ![q] = pc'[q]]
          /\ pc'[q] \in {"scan", "failed", "submit", "write"}
      BY <1>3, <2>1 DEF Acquire, ScanFails, SubmitBatch, BatchOk, BatchFails, Abandon
    <3> QED
      BY <1>1, <1>3, <3>1 DEF ClaimsEnd
  <2>2. CASE Write(q) \/ \E r \in Segment : AddCount(q, r)
    BY <1>1, <2>2 DEF Write, AddCount, ClaimsEnd
  <2>3. CASE BeginSum(q) \/ StoreTotal(q)
    <3>1. /\ UNCHANGED <<main, img, file, final, pageKey>>
          /\ mem'.done = mem.done
          /\ pc[q] \in {"put", "sum"}
          /\ pc' = [pc EXCEPT ![q] = pc'[q]]
          /\ pc'[q] \in {"sum", "lock"}
      BY <1>3, <2>3 DEF BeginSum, StoreTotal, Image
    <3> QED
      BY <1>1, <1>3, <3>1 DEF ClaimsEnd
  <2>4. CASE ScanPage(q)
    <3>1. UNCHANGED <<main, mem, img, file>>
      BY <2>4 DEF ScanPage
    <3>2. CASE s # q
      <4>1. pc'[s] = pc[s] /\ final'[s] = final[s] /\ pageKey'[s] = pageKey[s]
        BY <1>3, <2>4, <3>2 DEF ScanPage, Record
      <4> QED
        BY <1>1, <3>1, <4>1 DEF ClaimsEnd
    <3>3. CASE s = q
      <4>1. PICK e \in lastKey[s]..Rows[s] :
              /\ e > lastKey[s] \/ e = Rows[s]
              /\ Items(s, lastKey[s], e) # {} => pc'[s] = "submit"
        BY <1>3, <2>4, <3>3 DEF ScanPage
      <4>2. CASE Items(s, lastKey[s], e) # {}
        BY <1>1, <3>1, <4>1, <4>2 DEF ClaimsEnd
      <4>3. CASE Items(s, lastKey[s], e) = {}
        <5>1. lastKey[s] \in Nat /\ e \in Int /\ e >= lastKey[s]
          BY <1>3, <4>1
        <5>2. e > lastKey[s] => e \in Items(s, lastKey[s], e)
          BY <5>1 DEF Items
        <5> QED
          BY <1>2, <4>1, <4>3, <5>1, <5>2
      <4> QED
        BY <4>2, <4>3
    <3> QED
      BY <3>2, <3>3
  <2>5. CASE PageDone(q)
    <3>1. /\ UNCHANGED <<main, mem, img, file, pageKey>>
          /\ pc[q] = "submit" /\ Remaining(q) = {}
      BY <2>5 DEF PageDone
    <3>2. CASE s # q
      <4>1. pc'[s] = pc[s] /\ final'[s] = final[s]
        BY <1>3, <2>5, <3>2 DEF PageDone, Record
      <4> QED
        BY <1>1, <3>1, <4>1 DEF ClaimsEnd
    <3>3. CASE s = q /\ pageKey[s] = 0
      BY <1>2, <3>1, <3>3, PageEnd
    <3>4. CASE s = q /\ pageKey[s] # 0
      <4>1. \/ pc'[s] = "scan"
            \/ pc'[s] = "put" /\ ~final'[s]
        BY <1>3, <2>5, <3>4 DEF PageDone, Record
      <4> QED
        BY <1>1, <3>1, <3>4, <4>1 DEF ClaimsEnd
    <3> QED
      BY <3>2, <3>3, <3>4
  <2>6. CASE PutKey(q) \/ PutCount(q) \/ PutDone(q)
    <3>1. /\ UNCHANGED <<main, pc, img, file, final, pageKey>>
          /\ pc[q] = "put"
          /\ mem'.done = mem.done \/ mem'.done = [mem.done EXCEPT ![q] = final[q]]
      BY <1>3, <2>6 DEF PutKey, PutCount, PutDone, Image
    <3> QED
      BY <1>1, <1>3, <3>1 DEF ClaimsEnd, Image
  <2>7. CASE Lock(q)
    <3>1. /\ UNCHANGED <<main, mem, file, final, pageKey>>
          /\ pc[q] = "lock" /\ pc' = [pc EXCEPT ![q] = "marshal"]
          /\ ~img'.done[s]
      BY <1>3, <2>7 DEF Lock, Empty
    <3> QED
      BY <1>1, <1>3, <3>1 DEF ClaimsEnd
  <2>8. ASSUME NEW r \in Segment, Marshal(q, r) PROVE CopiedUpTo(s, Rows[s])
    <3>1. /\ UNCHANGED <<main, mem, file, local>>
          /\ img'.done = [img.done EXCEPT ![r] = mem.done[r]]
      BY <1>3, <2>8 DEF Marshal, Image
    <3> QED
      BY <1>1, <1>3, <3>1 DEF ClaimsEnd, Image
  <2>9. CASE SaveReturns(q)
    <3>1. /\ UNCHANGED <<main, mem, pageKey>>
          /\ ~img'.done[s] /\ file' \in {file, img}
          /\ pc[q] = "marshal"
      BY <1>3, <2>9 DEF SaveReturns, Empty
    <3>2. CASE s # q
      <4>1. pc'[s] = pc[s] /\ final'[s] = final[s]
        BY <1>3, <2>9, <3>2 DEF SaveReturns, Continue, Record
      <4> QED
        BY <1>1, <3>1, <4>1 DEF ClaimsEnd
    <3>3. CASE s = q
      <4>1. final[s] \/ pageKey[s] = 0 \/ pc'[s] = "scan"
        BY <1>3, <2>9, <3>3 DEF SaveReturns, Continue
      <4> QED
        BY <1>1, <3>1, <3>3, <4>1 DEF ClaimsEnd
    <3> QED
      BY <3>2, <3>3
  <2> QED
    BY <1>9, <2>1, <2>2, <2>3, <2>4, <2>5, <2>6, <2>7, <2>8, <2>9 DEF SegmentStep
<1> QED
  BY <1>4, <1>5, <1>6, <1>7, <1>8, <1>9 DEF Next

\* Success is reported when no segment failed, and nothing moves after it.
LEMMA SuccessStep ==
    ASSUME TypeOK, EndsCopied, [Next]_vars, main' = "success", NEW s \in Segment
    PROVE  pc'[s] \in {"off", "done"}
<1> USE DEF local, saving, disk, target, command
<1>1. main = "success" => pc[s] \in {"off", "done"}
  BY DEF EndsCopied
<1>2. CASE Resume \/ StartFresh \/ StartFails \/ Crash \/ Exit
  BY <1>2 DEF Resume, StartFresh, StartFails, Crash, Exit, Reset
<1>3. CASE Finish
  BY <1>3 DEF Finish
<1>4. CASE Cancel \/ UNCHANGED vars \/ \E r \in late : LateWrite(r)
  BY <1>1, <1>4 DEF Cancel, vars, LateWrite
<1>5. ASSUME NEW q \in Segment, SegmentStep(q) PROVE pc'[s] \in {"off", "done"}
  <2>1. main' = main /\ pc[q] \notin {"off", "done"}
    BY <1>5 DEF SegmentStep, Acquire, ScanPage, ScanFails, SubmitBatch, Write,
       BatchOk, BatchFails, Abandon, PageDone, PutKey, PutCount, PutDone, BeginSum,
       AddCount, StoreTotal, Lock, Marshal, SaveReturns
  <2>2. pc[q] \in {"off", "done"}
    BY <2>1 DEF EndsCopied
  <2> QED
    BY <2>1, <2>2
<1> QED
  BY <1>2, <1>3, <1>4, <1>5 DEF Next

LEMMA EndsStep ==
    ASSUME Filtered = {}
    PROVE  TypeOK /\ KeysCopied /\ EndsCopied /\ [Next]_vars => EndsCopied'
<1> SUFFICES ASSUME TypeOK, KeysCopied, EndsCopied, [Next]_vars, NEW s \in Segment
             PROVE  /\ ClaimsEnd(s)' => CopiedUpTo(s, Rows[s])'
                    /\ main' = "success" => pc'[s] \in {"off", "done"}
  BY DEF EndsCopied
<1>1. ClaimsEnd(s)' => CopiedUpTo(s, Rows[s])'
  BY ClaimIsFounded, StoredGrows, CopiedStays
<1> QED
  BY <1>1, SuccessStep

\* Without a filter expression, a segment marked as completed is copied to its
\* last row, and so is the table when the command reports success.
THEOREM CompletionIsHonest ==
    ASSUME Filtered = {}
    PROVE  Spec => []CompletedIsCopied /\ []SuccessIsComplete
<1>1. TypeOK /\ KeysCopied /\ EndsCopied /\ [Next]_vars
        => (TypeOK /\ KeysCopied /\ EndsCopied)'
  BY TypeStep, KeysStep, EndsStep
<1>2. Spec => [](TypeOK /\ KeysCopied /\ EndsCopied)
  BY <1>1, TypeInit, KeysInit, EndsInit, PTL DEF Spec
<1>3. EndsCopied => CompletedIsCopied
  BY DEF EndsCopied, ClaimsEnd, CompletedIsCopied
<1>4. TypeOK /\ EndsCopied => SuccessIsComplete
  BY DEF EndsCopied, ClaimsEnd, SuccessIsComplete
<1> QED
  BY <1>2, <1>3, <1>4, PTL

\* A migrate that reports success, or the copy that live replication starts with,
\* has copied the whole table.  (migrator.go:123-131, 363-376)
THEOREM SuccessIsOfTheTable ==
    ASSUME Filtered = {}
    PROVE  Spec => []SuccessIsComplete
BY CompletionIsHonest, PTL
-----------------------------------------------------------------------------
(* A completed segment stays completed. *)

\* Where Record and Continue take the segment that saved a page.
LEMMA RecordMoves ==
    ASSUME TypeOK, NEW q \in Segment, NEW b \in BOOLEAN, Record(q, b)
    PROVE  /\ \A s \in Segment \ {q} : pc'[s] = pc[s] /\ final'[s] = final[s]
           /\ final'[q] = b
           /\ pc'[q] \in {"put", "done", "scan"} /\ (Simple => pc'[q] # "put")
BY DEF TypeOK, Record, GoTo

LEMMA FlagsCommand ==
    ASSUME TypeOK, FlagsKept,
           \/ Resume \/ StartFresh \/ StartFails \/ Finish \/ Cancel \/ Crash \/ Exit
           \/ \E r \in late : LateWrite(r)
    PROVE  FlagsKept'
<1> USE DEF TypeOK, FlagsKept, Saving, local, saving, disk, target, command
<1>0. main = "idle" => mu = NoOne
  OBVIOUS
<1>1. CASE Resume
  BY <1>0, <1>1 DEF Resume, Spawn
<1>2. CASE StartFresh
  BY <1>0, <1>2 DEF StartFresh, Spawn, Empty
<1>3. CASE StartFails \/ Finish \/ Cancel
  BY <1>3 DEF StartFails, Finish, Cancel
<1>4. CASE Crash \/ Exit
  BY <1>4, MigrationAssumption DEF Crash, Exit, Reset, Empty
<1>5. CASE \E r \in late : LateWrite(r)
  BY <1>5 DEF LateWrite
<1> QED
  BY <1>1, <1>2, <1>3, <1>4, <1>5

LEMMA FlagsSegment ==
    ASSUME TypeOK, FlagsKept, NEW q \in Segment, SegmentStep(q)
    PROVE  FlagsKept'
<1> USE DEF TypeOK, FlagsKept, Saving, local, saving, disk, target, command
<1>1. CASE Acquire(q) \/ ScanFails(q) \/ SubmitBatch(q) \/ Write(q)
           \/ BatchOk(q) \/ BatchFails(q) \/ Abandon(q)
  BY <1>1 DEF Acquire, ScanFails, SubmitBatch, Write, BatchOk, BatchFails, Abandon, GoTo
<1>2. CASE ScanPage(q) \/ PageDone(q)
  <2>1. /\ UNCHANGED <<main, mem, img, left, mu, file>>
        /\ pc[q] \in {"scan", "submit"}
    BY <1>2 DEF ScanPage, PageDone
  <2>2. \/ Record(q, TRUE) \/ Record(q, FALSE)
        \/ (GoTo(q, "submit") \/ GoTo(q, "scan")) /\ UNCHANGED final
    BY <1>2 DEF ScanPage, PageDone
  <2>3. /\ \A s \in Segment \ {q} : pc'[s] = pc[s] /\ final'[s] = final[s]
        /\ pc'[q] \in {"put", "done", "scan", "submit"} /\ (Simple => pc'[q] # "put")
    BY <2>2, RecordMoves DEF GoTo
  <2> QED
    BY <2>1, <2>3
<1>3. CASE PutKey(q) \/ PutCount(q) \/ PutDone(q)
  <2>1. /\ UNCHANGED <<main, pc, final, img, left, mu, file>>
        /\ pc[q] = "put"
        /\ mem'.done = mem.done \/ mem'.done = [mem.done EXCEPT ![q] = final[q]]
    BY <1>3 DEF PutKey, PutCount, PutDone, Image
  <2> QED
    BY <2>1 DEF Image
<1>4. CASE BeginSum(q) \/ (\E r \in Segment : AddCount(q, r)) \/ StoreTotal(q)
  <2>1. /\ UNCHANGED <<main, final, img, left, mu, file>>
        /\ pc[q] \in {"put", "sum"} /\ mem'.done = mem.done
        /\ \A s \in Segment \ {q} : pc'[s] = pc[s]
        /\ pc'[q] \in {"sum", "lock"}
    BY <1>4 DEF BeginSum, AddCount, StoreTotal, GoTo, Image
  <2> QED
    BY <2>1
<1>5. CASE Lock(q)
  <2>1. /\ UNCHANGED <<main, final, mem, file>>
        /\ pc[q] = "lock" /\ pc' = [pc EXCEPT ![q] = "marshal"]
        /\ mu = NoOne /\ mu' = q /\ left' = Segment
        /\ \A s \in Segment : ~img'.done[s]
    BY <1>5 DEF Lock, GoTo, Empty
  <2> QED
    BY <2>1, MigrationAssumption
<1>6. ASSUME NEW r \in Segment, Marshal(q, r) PROVE FlagsKept'
  <2>1. /\ UNCHANGED <<main, pc, final, mem, mu, file>>
        /\ left' = left \ {r}
        /\ img'.done = [img.done EXCEPT ![r] = mem.done[r]]
    BY <1>6 DEF Marshal, Image
  <2> QED
    BY <2>1 DEF Image
<1>7. CASE SaveReturns(q)
  <2>1. /\ UNCHANGED <<main, mem>> /\ mu' = NoOne /\ mu = q
        /\ pc[q] = "marshal" /\ (file' = file \/ (left = {} /\ file' = img))
    BY <1>7 DEF SaveReturns
  <2>2. /\ \A s \in Segment \ {q} : pc'[s] = pc[s] /\ final'[s] = final[s]
        /\ final[q] => pc'[q] = "done"
        /\ pc'[q] \in {"put", "done", "scan"} /\ (Simple => pc'[q] # "put")
    <3>1. Continue(q)
      BY <1>7 DEF SaveReturns
    <3>2. CASE final[q]
      BY <3>1, <3>2 DEF Continue, GoTo
    <3>3. CASE ~final[q] /\ pageKey[q] = 0
      BY <3>1, <3>3, RecordMoves DEF Continue
    <3>4. CASE ~final[q] /\ pageKey[q] # 0
      BY <3>1, <3>4 DEF Continue, GoTo
    <3> QED
      BY <3>2, <3>3, <3>4
  <2>3. main = "running" => \A s \in Segment : file'.done[s] => mem.done[s]
    BY <2>1, MigrationAssumption
  <2> QED
    BY <2>1, <2>2, <2>3, MigrationAssumption
<1> QED
  BY <1>1, <1>2, <1>3, <1>4, <1>5, <1>6, <1>7 DEF SegmentStep

LEMMA FlagsStep == TypeOK /\ FlagsKept /\ [Next]_vars => FlagsKept'
<1> SUFFICES ASSUME TypeOK, FlagsKept, [Next]_vars PROVE FlagsKept'
  OBVIOUS
<1>1. CASE UNCHANGED vars
  BY <1>1 DEF vars, command, local, saving, disk, target, FlagsKept
<1> QED
  BY <1>1, FlagsCommand, FlagsSegment DEF Next

LEMMA FlagsInit == Init => FlagsKept
BY MigrationAssumption DEF Init, Empty, FlagsKept, Saving

\* Whoever saves holds the mutex, and neither the file nor what is marshalled
\* says of a segment that it is completed before the memory does.
\* (manager.go:86-94, 191-204)
THEOREM FlagsAreKept == Spec => []FlagsKept
<1>1. Spec => [](TypeOK /\ FlagsKept)
  BY TypeInit, TypeStep, FlagsInit, FlagsStep, PTL DEF Spec
<1> QED
  BY <1>1, PTL

\* However the segments' updates and saves interleave, no save of a run takes
\* back that a segment is completed.  (manager.go:86-94, 179-204)
THEOREM CompletionIsKept == Spec => CompletedStays
<1>1. TypeOK /\ FlagsKept /\ [Next]_vars =>
        [main = "running" /\ main' = "running" =>
           \A s \in Segment : file.done[s] => file'.done[s]]_vars
  <2> SUFFICES ASSUME TypeOK, FlagsKept, Next, main = "running",
                      NEW s \in Segment, file.done[s]
               PROVE  file'.done[s]
    BY DEF vars, disk
  <2>1. CASE file' = file
    BY <2>1
  <2>2. ASSUME NEW q \in Segment, SaveReturns(q) PROVE file'.done[s]
    <3>1. mu # NoOne /\ (file' = file \/ (left = {} /\ file' = img))
      BY <2>2, MigrationAssumption DEF SaveReturns, FlagsKept, disk
    <3> QED
      BY <3>1 DEF FlagsKept
  <2>3. file' = file \/ \E q \in Segment : SaveReturns(q)
    BY DEF Next, Resume, StartFresh, StartFails, Finish, Cancel, Crash, Exit, Reset,
       LateWrite, SegmentStep, Acquire, ScanPage, ScanFails, SubmitBatch, Write, BatchOk,
       BatchFails, Abandon, PageDone, PutKey, PutCount, PutDone, BeginSum, AddCount,
       StoreTotal, Lock, Marshal, disk
  <2> QED
    BY <2>1, <2>2, <2>3
<1>2. Spec => [](TypeOK /\ FlagsKept)
  BY TypeInit, TypeStep, FlagsInit, FlagsStep, PTL DEF Spec
<1> QED
  BY <1>1, <1>2, PTL DEF Spec, CompletedStays
-----------------------------------------------------------------------------
(* The first run writes no row twice. *)

\* What a segment that is not at work in a step keeps of the invariant.
Once(s) ==
    /\ pc[s] \in {"wait", "scan"} => StoredUpTo(s, lastKey[s])
    /\ pc[s] \in Saving /\ ~final[s] /\ pageKey[s] # 0 => StoredUpTo(s, lastKey[s])
    /\ pc[s] \in {"submit", "write"} => cut[s] <= high[s] /\ StoredUpTo(s, cut[s])
    /\ pc[s] = "write" => \A k \in unsent[s] : k <= cut[s] /\ <<s, k>> \notin stored

LEMMA OnceStays ==
    ASSUME NEW s \in Segment, Once(s),
           pc'[s] = pc[s], lastKey'[s] = lastKey[s], pageKey'[s] = pageKey[s], high'[s] = high[s],
           cut'[s] = cut[s], unsent'[s] = unsent[s], final'[s] = final[s],
           \A r \in stored' : r \in stored \/ r[1] # s
    PROVE  Once(s)'
<1>1. \A k : StoredUpTo(s, k) => StoredUpTo(s, k)'
  BY DEF StoredUpTo
<1>2. \A k : <<s, k>> \notin stored => <<s, k>> \notin stored'
  BY DEF Once
<1>3. /\ StoredUpTo(s, lastKey[s]) => StoredUpTo(s, lastKey[s])'
      /\ StoredUpTo(s, cut[s]) => StoredUpTo(s, cut[s])'
  BY DEF StoredUpTo
<1> QED
  BY <1>2, <1>3 DEF Once

\* The parts of the invariant, in the first run.
LEMMA WrittenParts ==
    ASSUME WrittenOnce, runs <= 1
    PROVE  /\ twice = {} /\ \A s \in Segment : Once(s)
           /\ runs = 0 => stored = {} /\ late = {} /\ \A s \in Segment : pc[s] = "off"
           /\ \A r \in late : r \notin stored /\ pc[r[1]] = "failed"
BY DEF WrittenOnce, Once

\* A step of a segment in the first run.
LEMMA WrittenSegment ==
    ASSUME TypeOK, KeysCopied, WrittenOnce, runs = 1, NEW q \in Segment, SegmentStep(q)
    PROVE  WrittenOnce'
<1> USE DEF GoTo, command, saving, disk, target, local
<1>0. /\ pc \in [Segment -> Active \cup {"off", "wait", "done", "failed"}]
      /\ lastKey \in [Segment -> Nat] /\ high \in [Segment -> Nat]
      /\ pageKey \in [Segment -> Nat] /\ cut \in [Segment -> Nat]
      /\ unsent \in [Segment -> SUBSET Nat] /\ final \in [Segment -> BOOLEAN]
      /\ late \in SUBSET Row /\ stored \in SUBSET Row
  BY DEF TypeOK
<1>1. /\ twice = {} /\ \A s \in Segment : Once(s)
      /\ \A r \in late : r \notin stored /\ pc[r[1]] = "failed"
  BY WrittenParts
<1>2. runs' = 1
  BY DEF SegmentStep, Acquire, ScanPage, ScanFails, SubmitBatch, Write, BatchOk, BatchFails,
     Abandon, PageDone, PutKey, PutCount, PutDone, BeginSum, AddCount, StoreTotal, Lock,
     Marshal, SaveReturns
\* It suffices that the segment at work keeps its part, and the rest.
<1>3. ASSUME twice' = {}, Once(q)', \A s \in Segment \ {q} : Once(s)',
             \A r \in late' : r \notin stored' /\ pc'[r[1]] = "failed"
      PROVE  WrittenOnce'
  <2>1. \A s \in Segment : Once(s)'
    BY <1>3
  <2> QED
    BY <1>2, <1>3, <2>1 DEF WrittenOnce, Once
\* What a step leaves alone that writes nothing and abandons nothing.
<1>4. ASSUME UNCHANGED <<late, stored, twice>>, pc[q] # "failed",
             \A s \in Segment \ {q} :
                 /\ pc'[s] = pc[s] /\ lastKey'[s] = lastKey[s] /\ pageKey'[s] = pageKey[s]
                 /\ high'[s] = high[s] /\ cut'[s] = cut[s] /\ unsent'[s] = unsent[s]
                 /\ final'[s] = final[s],
             Once(q)'
      PROVE  WrittenOnce'
  <2>1. \A s \in Segment \ {q} : Once(s)'
    BY <1>1, <1>4, OnceStays
  <2>2. \A r \in late' : r \notin stored' /\ pc'[r[1]] = "failed"
    <3> SUFFICES ASSUME NEW r \in late PROVE r \notin stored /\ pc'[r[1]] = "failed"
      BY <1>4
    <3>1. r[1] \in Segment /\ pc[r[1]] = "failed" /\ r \notin stored
      BY <1>0, <1>1 DEF Row
    <3> QED
      BY <1>4, <3>1
  <2> QED
    BY <1>1, <1>3, <1>4, <2>1, <2>2
<1>5. CASE Acquire(q)
  <2>1. Once(q)'
    BY <1>0, <1>1, <1>5 DEF Acquire, Once, StoredUpTo, Saving
  <2> QED
    BY <1>0, <1>4, <1>5, <2>1 DEF Acquire
<1>6. CASE ScanPage(q)
  <2>1. PICK e \in lastKey[q]..Rows[q], next \in 0..Rows[q] :
          /\ high' = [high EXCEPT ![q] = e] /\ cut' = [cut EXCEPT ![q] = lastKey[q]]
          /\ pageKey' = [pageKey EXCEPT ![q] = next]
          /\ IF Items(q, lastKey[q], e) = {} THEN Record(q, TRUE)
             ELSE pc' = [pc EXCEPT ![q] = "submit"] /\ UNCHANGED <<final, stores>>
    BY <1>6 DEF ScanPage
  <2>2. pc[q] = "scan" /\ UNCHANGED <<lastKey, unsent, late, stored, twice>>
    BY <1>6 DEF ScanPage
  <2>3. \A s \in Segment \ {q} : pc'[s] = pc[s] /\ final'[s] = final[s]
    BY <1>0, <2>1 DEF Record
  <2>4. Once(q)'
    <3>1. CASE Items(q, lastKey[q], e) = {}
      <4>1. final'[q] /\ pc'[q] \in {"scan", "put", "done"} /\ pc'[q] # "scan"
        BY <1>0, <2>1, <3>1 DEF Record
      <4> QED
        BY <4>1 DEF Once
    <3>2. CASE Items(q, lastKey[q], e) # {}
      <4>0. lastKey[q] <= e
        BY <1>0, MigrationAssumption
      <4>1. pc'[q] = "submit" /\ cut'[q] = lastKey[q] /\ high'[q] = e
        BY <1>0, <2>1, <3>2
      <4>2. StoredUpTo(q, lastKey[q])
        BY <1>1, <2>2 DEF Once
      <4> QED
        BY <2>2, <4>0, <4>1, <4>2 DEF Once, StoredUpTo, Saving
    <3> QED
      BY <3>1, <3>2
  <2> QED
    BY <1>0, <1>4, <2>1, <2>2, <2>3, <2>4
<1>7. CASE ScanFails(q) \/ BatchFails(q)
  <2>1. /\ pc' = [pc EXCEPT ![q] = "failed"] /\ pc[q] \in {"scan", "write"}
        /\ unsent' = [unsent EXCEPT ![q] = unsent'[q]]
        /\ UNCHANGED <<lastKey, high, pageKey, cut, final, late, stored, twice>>
    BY <1>0, <1>7 DEF ScanFails, BatchFails
  <2>2. Once(q)'
    BY <1>0, <2>1 DEF Once, Saving
  <2> QED
    BY <1>0, <1>4, <2>1, <2>2
<1>8. CASE SubmitBatch(q)
  <2>1. PICK end \in Remaining(q) :
          /\ cut' = [cut EXCEPT ![q] = end]
          /\ unsent' = [unsent EXCEPT ![q] = {k \in BatchUpTo(q, end) : <<q, k>> \notin Bad}]
          /\ pc' = [pc EXCEPT ![q] = pc'[q]] /\ pc'[q] \in {"submit", "write"}
    BY <1>0, <1>8 DEF SubmitBatch
  <2>2. pc[q] = "submit" /\ UNCHANGED <<lastKey, high, pageKey, final, late, stored, twice>>
    BY <1>8 DEF SubmitBatch
  <2>3. end \in Nat /\ cut[q] < end /\ end <= high[q] /\ cut[q] \in Nat
    BY <1>0, <2>1 DEF Remaining, Items
  <2>4. StoredUpTo(q, cut[q])
    BY <1>1, <2>2 DEF Once
  <2>5. StoredUpTo(q, end)
    BY <1>0, <2>3, <2>4 DEF StoredUpTo, Row
  <2>6. \A k \in unsent'[q] : k <= end /\ <<q, k>> \notin stored
    <3> SUFFICES ASSUME NEW k \in BatchUpTo(q, end) PROVE k <= end /\ <<q, k>> \notin stored
      BY <1>0, <2>1
    <3>1. k \in Nat /\ k <= end /\ cut[q] < k
      BY <1>0 DEF BatchUpTo, Remaining, Items
    <3> QED
      BY <2>3, <2>4, <3>1 DEF StoredUpTo
  <2>7. Once(q)'
    BY <1>0, <2>1, <2>2, <2>3, <2>5, <2>6 DEF Once, StoredUpTo, Saving
  <2> QED
    BY <1>0, <1>4, <2>1, <2>2, <2>7
<1>9. CASE Write(q)
  <2>1. PICK k \in unsent[q] : WriteDoc(<<q, k>>) /\ unsent' = [unsent EXCEPT ![q] = @ \ {k}]
    BY <1>9 DEF Write
  <2>2. pc[q] = "write" /\ UNCHANGED <<pc, lastKey, high, pageKey, cut, final, late>>
    BY <1>9 DEF Write
  <2>3. /\ cut[q] <= high[q] /\ StoredUpTo(q, cut[q])
        /\ \A x \in unsent[q] : x <= cut[q] /\ <<q, x>> \notin stored
    BY <1>1, <2>2 DEF Once
  <2>4. stored' = stored \cup {<<q, k>>} /\ twice' = {}
    BY <1>1, <2>1, <2>3 DEF WriteDoc
  <2>5. unsent'[q] = unsent[q] \ {k}
    BY <1>0, <2>1
  <2>6. Once(q)'
    <3>1. StoredUpTo(q, cut[q])'
      BY <2>2, <2>3, <2>4 DEF StoredUpTo
    <3>2. \A x \in unsent'[q] : x <= cut[q] /\ <<q, x>> \notin stored'
      BY <2>3, <2>4, <2>5
    <3> QED
      BY <2>2, <2>3, <3>1, <3>2 DEF Once, Saving
  <2>7. \A s \in Segment \ {q} : Once(s)'
    <3> SUFFICES ASSUME NEW s \in Segment \ {q} PROVE Once(s)'
      OBVIOUS
    <3>1. unsent'[s] = unsent[s] /\ \A r \in stored' : r \in stored \/ r[1] # s
      BY <1>0, <2>1, <2>4
    <3> QED
      BY <1>1, <2>2, <3>1, OnceStays
  <2>8. \A r \in late : r \notin stored' /\ pc[r[1]] = "failed"
    BY <1>1, <2>2, <2>4
  <2> QED
    BY <1>3, <2>2, <2>4, <2>6, <2>7, <2>8
<1>10. CASE BatchOk(q)
  <2>1. /\ pc' = [pc EXCEPT ![q] = "submit"] /\ pc[q] = "write"
        /\ UNCHANGED <<lastKey, high, pageKey, cut, unsent, final, late, stored, twice>>
    BY <1>10 DEF BatchOk
  <2>2. Once(q)'
    BY <1>0, <1>1, <2>1 DEF Once, StoredUpTo, Saving
  <2> QED
    BY <1>0, <1>4, <2>1, <2>2
<1>11. CASE Abandon(q)
  <2>1. /\ pc' = [pc EXCEPT ![q] = "failed"] /\ pc[q] = "write"
        /\ late' = late \cup {<<q, k>> : k \in unsent[q]}
        /\ unsent' = [unsent EXCEPT ![q] = {}]
        /\ UNCHANGED <<lastKey, high, pageKey, cut, final, stored, twice>>
    BY <1>11 DEF Abandon
  <2>2. \A k \in unsent[q] : <<q, k>> \notin stored
    BY <1>1, <2>1 DEF Once
  <2>3. Once(q)'
    BY <1>0, <2>1 DEF Once, Saving
  <2>4. \A s \in Segment \ {q} : Once(s)'
    BY <1>0, <1>1, <2>1, OnceStays
  <2>5. \A r \in late' : r \notin stored' /\ pc'[r[1]] = "failed"
    <3> SUFFICES ASSUME NEW r \in late' PROVE r \notin stored /\ pc'[r[1]] = "failed"
      BY <2>1
    <3>1. CASE r \in late
      <4>1. r[1] \in Segment /\ pc[r[1]] = "failed" /\ r \notin stored
        BY <1>0, <1>1, <3>1 DEF Row
      <4> QED
        BY <1>0, <2>1, <4>1
    <3>2. CASE r \notin late
      <4>1. PICK k \in unsent[q] : r = <<q, k>>
        BY <2>1, <3>2
      <4> QED
        BY <1>0, <2>1, <2>2, <4>1
    <3> QED
      BY <3>1, <3>2
  <2> QED
    BY <1>1, <1>3, <2>1, <2>3, <2>4, <2>5
<1>12. CASE PageDone(q)
  <2>1. /\ pc[q] = "submit" /\ lastKey' = [lastKey EXCEPT ![q] = pageKey[q]]
        /\ UNCHANGED <<high, pageKey, cut, unsent, late, stored, twice>>
    BY <1>12 DEF PageDone
  <2>2. \/ ~Simple /\ Record(q, FALSE)
        \/ Record(q, TRUE)
        \/ pageKey[q] # 0 /\ pc' = [pc EXCEPT ![q] = "scan"] /\ UNCHANGED final
    BY <1>12 DEF PageDone
  <2>3. \A s \in Segment \ {q} : pc'[s] = pc[s] /\ final'[s] = final[s]
    BY <1>0, <2>2 DEF Record
  <2>4. /\ \/ pc'[q] = "put" /\ ~final'[q]
           \/ final'[q] /\ pc'[q] \in {"put", "done"}
           \/ pageKey[q] # 0 /\ pc'[q] = "scan"
    BY <1>0, <2>2 DEF Record
  <2>5. pageKey[q] # 0 => StoredUpTo(q, pageKey[q])
    <3>1. pageKey[q] # 0 => pageKey[q] = high[q]
      BY <2>1 DEF KeysCopied, PageCopied
    <3>2. cut[q] <= high[q] /\ StoredUpTo(q, cut[q])
      BY <1>1, <2>1 DEF Once
    <3> QED
      BY <1>0, <3>1, <3>2 DEF StoredUpTo, Row
  <2>6. lastKey'[q] = pageKey[q] /\ pageKey'[q] = pageKey[q]
    BY <1>0, <2>1
  <2>7. Once(q)'
    BY <2>1, <2>4, <2>5, <2>6 DEF Once, StoredUpTo
  <2> QED
    BY <1>0, <1>4, <2>1, <2>3, <2>7
<1>13. CASE PutKey(q) \/ PutCount(q) \/ PutDone(q) \/ \E r \in Segment : AddCount(q, r) \/ Marshal(q, r)
  <2>1. /\ pc[q] \in {"put", "sum", "marshal"}
        /\ UNCHANGED <<pc, lastKey, high, pageKey, cut, unsent, final, late, stored, twice>>
    BY <1>13 DEF PutKey, PutCount, PutDone, AddCount, Marshal
  <2>2. Once(q)'
    BY <1>1, <2>1, OnceStays
  <2> QED
    BY <1>4, <2>1, <2>2
<1>14. CASE BeginSum(q) \/ StoreTotal(q) \/ Lock(q)
  <2>1. /\ pc[q] \in Saving /\ pc'[q] \in Saving /\ pc' = [pc EXCEPT ![q] = pc'[q]]
        /\ UNCHANGED <<lastKey, high, pageKey, cut, unsent, final, late, stored, twice>>
    BY <1>0, <1>14 DEF BeginSum, StoreTotal, Lock, Saving
  <2>2. Once(q)'
    BY <1>1, <2>1 DEF Once, StoredUpTo, Saving
  <2> QED
    BY <1>0, <1>4, <2>1, <2>2 DEF Saving
<1>15. CASE SaveReturns(q)
  <2>1. /\ pc[q] = "marshal" /\ Continue(q)
        /\ UNCHANGED <<lastKey, high, pageKey, cut, unsent, late, stored, twice>>
    BY <1>15 DEF SaveReturns
  <2>2. \/ pc' = [pc EXCEPT ![q] = "done"] /\ UNCHANGED final
        \/ Record(q, TRUE)
        \/ ~final[q] /\ pageKey[q] # 0 /\ pc' = [pc EXCEPT ![q] = "scan"] /\ UNCHANGED final
    BY <2>1 DEF Continue
  <2>3. \A s \in Segment \ {q} : pc'[s] = pc[s] /\ final'[s] = final[s]
    BY <1>0, <2>2 DEF Record
  <2>4. \/ pc'[q] = "done" \/ (final'[q] /\ pc'[q] = "put")
        \/ ~final[q] /\ pageKey[q] # 0 /\ pc'[q] = "scan"
    BY <1>0, <2>2 DEF Record
  <2>5. Once(q)'
    BY <1>1, <2>1, <2>4 DEF Once, StoredUpTo, Saving
  <2> QED
    BY <1>0, <1>4, <2>1, <2>3, <2>5
<1> QED
  BY <1>5, <1>6, <1>7, <1>8, <1>9, <1>10, <1>11, <1>12, <1>13, <1>14, <1>15 DEF SegmentStep

LEMMA WrittenStep == TypeOK /\ KeysCopied /\ WrittenOnce /\ [Next]_vars => WrittenOnce'
<1> SUFFICES ASSUME TypeOK, KeysCopied, WrittenOnce, [Next]_vars, runs' <= 1
             PROVE  WrittenOnce'
  BY DEF WrittenOnce
<1> USE DEF command, saving, disk, target, local
<1>0. runs \in Nat /\ late \in SUBSET Row /\ stored \in SUBSET Row
  BY DEF TypeOK
<1>1. CASE Resume \/ StartFresh
  <2>1. runs = 0 /\ UNCHANGED <<late, stored, twice>> /\ runs' = 1
    BY <1>0, <1>1 DEF Resume, StartFresh
  <2>2. stored = {} /\ late = {} /\ twice = {}
    BY <2>1, WrittenParts
  <2>3. \A s \in Segment : pc'[s] \in {"off", "wait"}
    BY <1>1 DEF Resume, StartFresh, Spawn
  <2> QED
    BY <2>1, <2>2, <2>3 DEF WrittenOnce, StoredUpTo, Saving
<1>2. CASE StartFails \/ Finish \/ Cancel \/ UNCHANGED vars
  <2>1. UNCHANGED <<local, late, stored, twice>> /\ runs <= 1 /\ (runs' = 0 => runs = 0)
    BY <1>0, <1>2 DEF StartFails, Finish, Cancel, vars
  <2>2. \A s \in Segment : Once(s)'
    BY <2>1, WrittenParts, OnceStays
  <2> QED
    BY <2>1, <2>2, WrittenParts DEF WrittenOnce, Once
<1>3. CASE Crash \/ Exit
  <2>1. /\ runs <= 1 /\ late' = {} /\ UNCHANGED <<runs, stored, twice>>
        /\ \A s \in Segment : pc'[s] = "off"
    BY <1>0, <1>3 DEF Crash, Exit, Reset
  <2> QED
    BY <2>1, WrittenParts DEF WrittenOnce, Saving
<1>4. ASSUME NEW r \in late, LateWrite(r) PROVE WrittenOnce'
  <2>1. /\ runs' = runs /\ UNCHANGED local /\ late' = late \ {r}
        /\ WriteDoc(r) \/ UNCHANGED <<stored, twice>>
    BY <1>4 DEF LateWrite
  <2>2. /\ twice = {} /\ runs # 0 /\ runs <= 1 /\ \A s \in Segment : Once(s)
        /\ \A x \in late : x \notin stored /\ pc[x[1]] = "failed"
    BY <1>4, <2>1, WrittenParts
  <2>3. twice' = {} /\ (stored' = stored \/ stored' = stored \cup {r})
    BY <1>4, <2>1, <2>2 DEF WriteDoc
  <2>4. \A x \in late' : x \notin stored' /\ pc'[x[1]] = "failed"
    BY <2>1, <2>2, <2>3
  <2>5. ASSUME NEW s \in Segment PROVE Once(s)'
    <3>1. CASE r[1] = s
      BY <1>4, <2>1, <2>2, <3>1 DEF Once, Saving
    <3>2. CASE r[1] # s
      BY <2>1, <2>2, <2>3, <3>2, OnceStays
    <3> QED
      BY <3>1, <3>2
  <2> QED
    BY <2>1, <2>2, <2>3, <2>4, <2>5 DEF WrittenOnce, Once
<1>5. ASSUME NEW q \in Segment, SegmentStep(q) PROVE WrittenOnce'
  <2>1. runs' = runs /\ pc[q] # "off"
    BY <1>5 DEF SegmentStep, Acquire, ScanPage, ScanFails, SubmitBatch, Write, BatchOk, BatchFails,
       Abandon, PageDone, PutKey, PutCount, PutDone, BeginSum, AddCount, StoreTotal, Lock,
       Marshal, SaveReturns
  <2>2. runs = 1
    BY <1>0, <2>1, WrittenParts
  <2> QED
    BY <1>5, <2>2, WrittenSegment
<1> QED
  BY <1>1, <1>2, <1>3, <1>4, <1>5 DEF Next

LEMMA WrittenInit == Init => WrittenOnce
BY DEF Init, WrittenOnce, Saving

\* However the segments, the pool and an abandoned batch interleave, the first
\* run of the command, Migrate or MigrateSimple, leaves no row of any table in
\* the target twice, even if documents carry no _id (CopiedOnce).
THEOREM FirstRunCopiesOnce == Spec => []CopiedOnce
<1>1. Spec => [](TypeOK /\ KeysCopied /\ WrittenOnce)
  BY TypeInit, TypeStep, KeysInit, KeysStep, WrittenInit, WrittenStep, PTL DEF Spec
<1>2. WrittenOnce => CopiedOnce
  BY DEF WrittenOnce, CopiedOnce
<1> QED
  BY <1>1, <1>2, PTL
=============================================================================
