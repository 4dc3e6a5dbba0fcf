------------------------------ MODULE ShardSort ------------------------------
(***************************************************************************)
(* The order in which a cycle of live replication reads the shards of the  *)
(* stream: sortShardsBySequenceNumber in internal/processor/replicator.go. *)
(* The shards come from one DescribeStream, their starting sequence        *)
(* numbers from a second one, by then perhaps with more shards or fewer;   *)
(* the requested shards that are still known are sorted by exchange, a     *)
(* shard without a number last.  Sequence numbers are decimal strings of   *)
(* 21 digits and more, parsed into an int64 that wraps.                    *)
(***************************************************************************)
EXTENDS Integers, Sequences

CONSTANTS Shards,    \* shard identifiers
          Half       \* int64 holds the numbers from -Half to Half - 1

ASSUME HalfAssumption == Half \in Nat \ {0}

NoNumber == -1       \* nil
SequenceNumber == Nat \cup {NoNumber}
NoDetail == [s \in {} |-> NoNumber]

VARIABLES
    asked,    \* shardIDs, from GetStreamShards
    details,  \* the StartingSequenceNumber of every shard GetStreamShardsWithDetails found
    order,    \* validShards, and orderedShardIDs when done
    i, j,     \* the loop variables
    sort      \* the statement reached

sortVars == <<asked, details, order, i, j, sort>>

\* Only shards that carry an identifier are listed, each of them once.
ShardList == {s \in Seq(Shards) : \A a, b \in DOMAIN s : a # b => s[a] # s[b]}

SortTypeOK ==
    /\ asked \in ShardList
    /\ DOMAIN details \subseteq Shards
    /\ \A s \in DOMAIN details : details[s] \in SequenceNumber
    /\ order \in Seq(Shards)
    /\ i \in Nat \ {0} /\ j \in Nat \ {0}
    /\ sort \in {"idle", "asked", "filter", "exchange", "sorted", "unsorted"}

SortInit ==
    /\ asked = <<>> /\ order = <<>> /\ details = NoDetail
    /\ i = 1 /\ j = 1 /\ sort = "idle"

\* A stream without shards is asked again after half a minute.
GetStreamShards(ids) ==
    /\ sort = "idle" /\ ids # <<>>
    /\ asked' = ids /\ sort' = "asked"
    /\ UNCHANGED <<details, order, i, j>>

\* Without the details the shards keep the order they were listed in.
NoDetails ==
    /\ sort = "asked"
    /\ order' = asked /\ sort' = "unsorted"
    /\ UNCHANGED <<asked, details, i, j>>

getShardDetails(d) ==
    /\ sort = "asked"
    /\ details' = d /\ order' = <<>> /\ i' = 1 /\ sort' = "filter"
    /\ UNCHANGED <<asked, j>>

FilterShard ==
    /\ sort = "filter" /\ i <= Len(asked)
    /\ order' = IF asked[i] \in DOMAIN details THEN Append(order, asked[i]) ELSE order
    /\ i' = i + 1
    /\ UNCHANGED <<asked, details, j, sort>>

\* The digits add up in an int64, which wraps.
parseSequenceNumber(n) == ((n + Half) % (2 * Half)) - Half

\* Mutant: a shard without a number stays where it is.
AfterByNumber(s, t) ==
    /\ details[t] # NoNumber /\ details[s] # NoNumber
    /\ parseSequenceNumber(details[s]) > parseSequenceNumber(details[t])

\* Of two shards, in this order, the first belongs after the second.
After(s, t) ==
    /\ details[t] # NoNumber
    /\ \/ details[s] = NoNumber
       \/ parseSequenceNumber(details[s]) > parseSequenceNumber(details[t])

FilterDone ==
    /\ sort = "filter" /\ i > Len(asked)
    /\ i' = 1 /\ j' = 2 /\ sort' = "exchange"
    /\ UNCHANGED <<asked, details, order>>

Exchanged == [order EXCEPT ![i] = order[j], ![j] = order[i]]

\* Mutant: a comparison that overwrites instead of exchanging.
CompareOverwrites ==
    /\ sort = "exchange" /\ i < Len(order) /\ j <= Len(order)
    /\ order' = IF After(order[i], order[j]) THEN [order EXCEPT ![i] = order[j]] ELSE order
    /\ j' = j + 1
    /\ UNCHANGED <<asked, details, i, sort>>

Compare ==
    /\ sort = "exchange" /\ i < Len(order) /\ j <= Len(order)
    /\ order' = IF After(order[i], order[j]) THEN Exchanged ELSE order
    /\ j' = j + 1
    /\ UNCHANGED <<asked, details, i, sort>>

NextPlace ==
    /\ sort = "exchange" /\ i < Len(order) /\ j > Len(order)
    /\ i' = i + 1 /\ j' = i + 2
    /\ UNCHANGED <<asked, details, order, sort>>

SortDone ==
    /\ sort = "exchange" /\ i >= Len(order)
    /\ sort' = "sorted"
    /\ UNCHANGED <<asked, details, order, i, j>>

SortStep == FilterShard \/ FilterDone \/ Compare \/ NextPlace \/ SortDone

\* The next cycle starts over.
NextSort ==
    /\ sort \in {"sorted", "unsorted"}
    /\ asked' = <<>> /\ order' = <<>> /\ details' = NoDetail
    /\ i' = 1 /\ j' = 1 /\ sort' = "idle"

SortNext ==
    \/ \E ids \in ShardList : GetStreamShards(ids)
    \/ NoDetails
    \/ \E S \in SUBSET Shards : \E d \in [S -> SequenceNumber] : getShardDetails(d)
    \/ SortStep
    \/ NextSort

SortSpec == SortInit /\ [][SortNext]_sortVars
-----------------------------------------------------------------------------
Members(s) == {s[a] : a \in DOMAIN s}

\* The sort loses no requested shard that is still known and repeats none: a
\* shard left out of a cycle leaves the records of half a minute unread, one
\* read twice brings back old values (replicator.go, lines 566-602).
EachShardOnce ==
    sort = "sorted" =>
        /\ \A a, b \in DOMAIN order : a # b => order[a] # order[b]
        /\ Members(order) = Members(asked) \cap DOMAIN details

\* Sorted shards are in the order of what the code makes of their numbers, and a
\* shard without a number is after all that have one: whatever the numbers are,
\* the exchanges end in an order (replicator.go, lines 574-593).
SortedByNumber ==
    sort = "sorted" =>
        \A a, b \in DOMAIN order : a < b /\ details[order[b]] # NoNumber =>
            /\ details[order[a]] # NoNumber
            /\ parseSequenceNumber(details[order[a]]) <= parseSequenceNumber(details[order[b]])

\* replicator.go:551: "sorts shards by their starting sequence number for
\* chronological order": a shard is read after every shard that was opened
\* earlier, no child before its parent.
Chronological ==
    sort = "sorted" =>
        \A a, b \in DOMAIN order : a < b /\ details[order[b]] # NoNumber =>
            details[order[a]] # NoNumber /\ details[order[a]] <= details[order[b]]
=============================================================================
