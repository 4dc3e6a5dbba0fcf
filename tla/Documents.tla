------------------------------ MODULE Documents ------------------------------
(***************************************************************************)
(* Live replication on items that have attributes: a cycle lists the       *)
(* shards of the stream, sorts them (ShardSort), reads their records,      *)
(* turns each into an operation (Conversion) and executes it on the        *)
(* collection (processStreams and processRecordBatch in                    *)
(* internal/processor/replicator.go, ExecuteBatch in                       *)
(* internal/firestore/client.go).                                          *)
(*                                                                         *)
(* Timestamps, batches and restarts are in Replicator; here every cycle    *)
(* reads its shards from their start, each to its end or to an error, and  *)
(* executes the records one by one.  The collection is a bag, as documents *)
(* without an _id are inserted, the same one perhaps many times.           *)
(***************************************************************************)
EXTENDS ShardSort, Conversion, Bags, FiniteSets

CONSTANTS Setups,       \* tables with the mappings configured for them
          MaxChanges,   \* bound: changes of the table
          MaxDocuments  \* bound: no further cycle once the collection has that many

\* A setup: keys, the primary keys of the table; others, what the other
\* attributes of an item may be; view, whether records carry the new image;
\* first, the sequence number before that of the first shard; limit, how many
\* shards DescribeStream returns at most; mapping.
ASSUME DocumentsAssumption ==
    /\ IsFiniteSet(Shards) /\ Shards # {} /\ Shards = 1..Cardinality(Shards)
    /\ MaxChanges \in Nat
    /\ \A s \in Setups : s.first \in Nat /\ s.limit \in Nat \ {0} /\ ValidMapping(s.mapping)

\* What the service allows as a key: strings, binary values and numbers.
KeyValue == ({"S", "B"} \X STRING) \cup ({"N"} \X Nat)

\* The keys of a table have its key attributes, each of one type.
ASSUME KeyAssumption ==
    \A s \in Setups : \A k, l \in s.keys :
        /\ DOMAIN k # {} /\ k \in [DOMAIN l -> KeyValue]
        /\ \A a \in DOMAIN k : k[a][1] = l[a][1]

VARIABLES
    setup,
    table,     \* the other attributes of the items in the table, by key
    log,       \* the records of the stream
    open,      \* the shard that new records go to
    target,    \* the collection
    at, pos,   \* the place in order, the record last read of the shard there
    got        \* records read in this cycle

source == <<setup, table, log, open>>
vars == <<sortVars, source, target, at, pos, got>>

mapping == setup.mapping
KeyAttributes == UNION {DOMAIN k : k \in setup.keys}
Id == <<[under |-> 1, cap |-> FALSE, word |-> "id"]>>
-----------------------------------------------------------------------------
(* The table and its stream *)

Init ==
    /\ SortInit
    /\ setup \in Setups
    /\ table = <<>> /\ log = <<>> /\ open = 1
    /\ target = EmptyBag
    /\ at = 1 /\ pos = 0 /\ got = 0

\* The sort is a computation: what changes meanwhile could as well change later.
Settled == sort \notin {"filter", "exchange"}

Record(record) ==
    /\ Settled /\ Len(log) < MaxChanges
    /\ log' = Append(log, record)
    /\ UNCHANGED <<sortVars, setup, open, target, at, pos, got>>

Put(k, rest) ==
    /\ k \in DOMAIN table => table[k] # rest
    /\ table' = Over(Field(k, rest), table)
    /\ Record([shard |-> open, event |-> "MODIFY", keys |-> k,
               image |-> IF setup.view THEN Over(k, rest) ELSE <<>>])

Remove(k) ==
    /\ k \in DOMAIN table
    /\ table' = [x \in DOMAIN table \ {k} |-> table[x]]
    /\ Record([shard |-> open, event |-> "REMOVE", keys |-> k, image |-> <<>>])

\* The open shard, which has records, is closed and its child opened.
Roll ==
    /\ Settled /\ open + 1 \in Shards
    /\ \E n \in DOMAIN log : log[n].shard = open
    /\ open' = open + 1
    /\ UNCHANGED <<sortVars, setup, table, log, target, at, pos, got>>
-----------------------------------------------------------------------------
(* A cycle *)

Listed(S) == S \subseteq 1..open /\ Cardinality(S) = IF open < setup.limit THEN open ELSE setup.limit

\* The first page of the shards, in the order the service has them.
ListShards ==
    \E ids \in UNION {[1..n -> 1..open] : n \in 1..setup.limit} :
        /\ ids \in ShardList /\ Listed(Members(ids))
        /\ GetStreamShards(ids)
        /\ UNCHANGED <<source, target, at, pos, got>>

\* The shards are numbered as they are opened; the newest may have no number yet.
ListDetails ==
    \E S \in SUBSET (1..open), late \in BOOLEAN :
        /\ Listed(S)
        /\ getShardDetails([s \in S |-> IF late /\ s = open THEN NoNumber ELSE setup.first + s])
        /\ UNCHANGED <<source, target, at, pos, got>>

Sort ==
    /\ NoDetails \/ SortStep
    /\ UNCHANGED <<source, target, at, pos, got>>

\* Mutant: the filter keeps the names the keys have in the table.
DeleteFilterOfSource(keys) == {<<"map", convertFromAttributeValueMap(keys)>>}

\* The primary key alone where it is mapped, else all keys as a document.
createDeleteFilter(keys) ==
    LET fields == convertFromAttributeValueMap(keys)
        pk == mapping.primaryKey
    IN IF pk # <<>> /\ pk[1] \in DOMAIN fields
       THEN {<<"map", Field(pk[2], v)>> : v \in convertValue(fields[pk[1]], mapping.naming)}
       ELSE ConvertDocument(fields, mapping)

None == [op |-> "none"]

\* What processRecordBatch makes of a record: a conversion that fails, a record
\* without its new image, are passed over.
Operations(r) ==
    LET operation(c) ==
            IF c = Error THEN None
            ELSE IF r.event = "REMOVE" THEN [op |-> "delete", filter |-> c[2]]
            ELSE [op |-> "upsert", doc |-> c[2]]
        converted ==
            IF r.event = "REMOVE" THEN createDeleteFilter(r.keys)
            ELSE IF r.image = <<>> THEN {Error}
            ELSE ConvertDocument(convertFromAttributeValueMap(r.image), mapping)
    IN {operation(c) : c \in converted}

\* The collection compares numbers by their value.
Same(v, w) ==
    LET numeric == {"int64", "float64"}
    IN v = w \/ (v[1] \in numeric /\ w[1] \in numeric /\ v[2] = w[2])

Matching(filter) ==
    {d \in BagToSet(target) : \A f \in DOMAIN filter : f \in DOMAIN d /\ Same(d[f], filter[f])}

\* Mutant: a document that replaces another is added to it.
ExecuteInserts(o) ==
    CASE o.op = "none" -> {target}
      [] o.op = "upsert" -> {target (+) SetToBag({o.doc})}
      [] o.op = "delete" ->
            IF Matching(o.filter) = {} THEN {target}
            ELSE {target (-) SetToBag({d}) : d \in Matching(o.filter)}

\* A document with an _id replaces the one that has it, or is added; one without
\* is added; a delete removes one of the documents that match.
Execute(o) ==
    LET replaced == IF o.op = "delete" THEN Matching(o.filter)
                    ELSE IF o.op = "upsert" /\ Id \in DOMAIN o.doc THEN Matching(Field(Id, o.doc[Id]))
                    ELSE {}
        added == IF o.op = "upsert" THEN SetToBag({o.doc}) ELSE EmptyBag
    IN IF replaced = {} THEN {target (+) added}
       ELSE {(target (-) SetToBag({d})) (+) added : d \in replaced}

Reading == sort \in {"sorted", "unsorted"} /\ at <= Len(order)

\* Record n is the next one of the shard: they come in the order of the log.
Follows(n) ==
    /\ n > pos /\ log[n].shard = order[at]
    /\ \A m \in DOMAIN log : pos < m /\ m < n => log[m].shard # order[at]

ReadRecord ==
    /\ Reading
    /\ \E n \in DOMAIN log :
          /\ Follows(n) /\ pos' = n
          /\ \E o \in Operations(log[n]) : target' \in Execute(o)
    /\ got' = got + 1
    /\ UNCHANGED <<sortVars, source, at>>

GoOn ==
    /\ at' = at + 1 /\ pos' = 0
    /\ UNCHANGED <<sortVars, source, target, got>>

\* A closed shard that was read to its end has no next iterator; an open one
\* always has, and is polled.
NextShard ==
    /\ Reading /\ order[at] < open
    /\ \A n \in DOMAIN log : ~Follows(n)
    /\ GoOn

\* An error of GetShardIterator or GetStreamRecords, the iterator that expired
\* among them, or a batch that failed ends the reading of a shard at any place.
LeaveShard == Reading /\ GoOn

\* Mutant: the next cycle goes on at the place where this one ended.
NextCycleGoesOn ==
    /\ at > Len(order) /\ BagCardinality(target) < MaxDocuments /\ NextSort
    /\ UNCHANGED <<source, target, at, pos, got>>

NextCycle ==
    /\ at > Len(order) /\ BagCardinality(target) < MaxDocuments /\ NextSort
    /\ at' = 1 /\ pos' = 0 /\ got' = 0
    /\ UNCHANGED <<source, target>>

Next ==
    \/ \E k \in setup.keys : Remove(k) \/ \E rest \in setup.others : Put(k, rest)
    \/ Roll \/ ListShards \/ ListDetails \/ Sort
    \/ ReadRecord \/ NextShard \/ LeaveShard \/ NextCycle

Spec == Init /\ [][Next]_vars
-----------------------------------------------------------------------------
(* Properties *)

TypeOK ==
    /\ SortTypeOK
    /\ setup \in Setups
    /\ DOMAIN table \subseteq setup.keys
    /\ \A k \in DOMAIN table : table[k] \in setup.others
    /\ \A r \in Members(log) : r.shard \in 1..open /\ r.keys \in setup.keys
    /\ open \in Shards
    /\ IsABag(target)
    /\ at \in 1..(Len(order) + 1) /\ pos \in 0..Len(log) /\ got \in 0..Len(log)

\* The table has one key attribute, it alone becomes the _id, and no transform
\* changes the _id: the configurations under which a document can be found again
\* by the key of its item.
KeyBecomesId ==
    LET pk == mapping.primaryKey
        FieldOf(a) == IF pk # <<>> /\ a = pk[1] THEN pk[2] ELSE ApplyNamingConvention(a, mapping.naming)
        attributes == KeyAttributes \cup UNION {DOMAIN rest : rest \in setup.others}
    IN /\ \E a \in KeyAttributes : KeyAttributes = {a}
       /\ \A a \in attributes : FieldOf(a) = Id <=> a \in KeyAttributes
       /\ \A t \in 1..Len(mapping.transforms) : Head(mapping.transforms[t].field) # Id

\* A key that is a number fits an int64.
KeysAreExact == \A k \in setup.keys : \A a \in DOMAIN k : k[a][1] = "N" => k[a][2] < IntLimit

\* The shards of the cycle are in the order they were opened in.
Ordered == \A a, b \in DOMAIN order : a < b => order[a] < order[b]

\* The cycle has read all records there are, in their order.
CaughtUp == sort \in {"sorted", "unsorted"} /\ at > Len(order) /\ got = Len(log) /\ Ordered

Found == setup.view /\ KeyBecomesId /\ KeysAreExact

DocumentsOf(k) ==
    {d \in BagToSet(target) : \E a \in DOMAIN k : Id \in DOMAIN d /\ Same(d[Id], convertFromAttributeValue(k[a]))}

\* After a cycle that read every record, of shards that came in the order they
\* were opened in, sorted or only listed so, each item of the table whose
\* conversion cannot fail has exactly one document, which is one that its present
\* attributes convert to, whatever the cycles before it left in the collection
\* (replicator.go, lines 458-524; converter.go, lines 30-84).
ItemsAreCopied ==
    CaughtUp /\ Found =>
        \A k \in DOMAIN table :
            LET documents == ConvertDocument(convertFromAttributeValueMap(Over(k, table[k])), mapping)
            IN Error \notin documents =>
                   \E d \in documents : DocumentsOf(k) = {d[2]} /\ target[d[2]] = 1

\* After such a cycle no document is left of an item that is not in the table:
\* the filter of the delete finds the document the upsert wrote
\* (createDeleteFilter, lines 636-666; ExecuteBatch, lines 165-186).
RemovedAreDeleted ==
    CaughtUp /\ Found =>
        \A d \in BagToSet(target) : \E k \in DOMAIN table : d \in DocumentsOf(k)

\* A key that went into the checkpoint file and back is the key of the same item,
\* provided it is a string or a number a float64 holds: the resumed scan goes on
\* where the scan stopped (dynamodb/client.go, lines 455-488 and 506-568).
KeySurvivesResume ==
    \A k \in DOMAIN table : \A a \in DOMAIN k :
        k[a][1] = "S" \/ (k[a][1] = "N" /\ k[a][2] <= FloatExact) => ResumeKey(k[a]) = k[a]
=============================================================================
