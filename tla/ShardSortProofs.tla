--------------------------- MODULE ShardSortProofs ---------------------------
(***************************************************************************)
(* For any list of shards and any sequence numbers the sort ends with each *)
(* requested shard that is known once, in the order of the numbers as      *)
(* int64 holds them.  The invariant of the exchange sort: what is left of  *)
(* place i is never after what is right of it, and the shard at i is not   *)
(* after those already compared.                                           *)
(***************************************************************************)
EXTENDS ShardSort, TLAPS

NoRepeat(s) == \A a, b \in DOMAIN s : a # b => s[a] # s[b]

\* The order holds the shards kept so far, each once.
FilterInv ==
    /\ NoRepeat(order)
    /\ sort = "filter" =>
          /\ i \in 1..(Len(asked) + 1)
          /\ Members(order) = {asked[a] : a \in 1..(i - 1)} \cap DOMAIN details
    /\ sort \in {"exchange", "sorted"} => Members(order) = Members(asked) \cap DOMAIN details

\* The places of the exchange and what is in order already.
ExchangeInv ==
    /\ sort = "exchange" =>
          /\ i >= 1 /\ i < j
          /\ i < Len(order) => j <= Len(order) + 1
          /\ \A a, b \in DOMAIN order : a < b /\ a < i => ~After(order[a], order[b])
          /\ \A b \in DOMAIN order : i < b /\ b < j => ~After(order[i], order[b])
    /\ sort = "sorted" => \A a, b \in DOMAIN order : a < b => ~After(order[a], order[b])

SortInv == SortTypeOK /\ FilterInv /\ ExchangeInv
-----------------------------------------------------------------------------
(* The order of the shards *)

\* A parsed number is an integer.
LEMMA ParsedInt ==
    ASSUME NEW n \in Nat PROVE parseSequenceNumber(n) \in Int
BY HalfAssumption DEF parseSequenceNumber

\* After is transitive and no two shards are after each other.
LEMMA AfterTransitive ==
    ASSUME SortTypeOK, NEW r \in DOMAIN details, NEW s \in DOMAIN details, NEW t \in DOMAIN details,
           After(r, s), After(s, t)
    PROVE  After(r, t)
<1>1. details[r] \in SequenceNumber /\ details[s] \in SequenceNumber /\ details[t] \in SequenceNumber
    BY DEF SortTypeOK
<1>2. \A n \in Nat : parseSequenceNumber(n) \in Int
    BY ParsedInt
<1> QED BY <1>1, <1>2 DEF After, SequenceNumber, NoNumber

LEMMA AfterAsymmetric ==
    ASSUME SortTypeOK, NEW s \in DOMAIN details, NEW t \in DOMAIN details, After(s, t)
    PROVE  ~After(t, s)
<1>1. details[s] \in SequenceNumber /\ details[t] \in SequenceNumber
    BY DEF SortTypeOK
<1>2. \A n \in Nat : parseSequenceNumber(n) \in Int
    BY ParsedInt
<1> QED BY <1>1, <1>2 DEF After, SequenceNumber, NoNumber

\* An exchange keeps the length, the members and that none is repeated.
LEMMA ExchangeKeeps ==
    ASSUME order \in Seq(Shards), NoRepeat(order), i \in DOMAIN order, j \in DOMAIN order, i # j
    PROVE  /\ Exchanged \in Seq(Shards)
           /\ Len(Exchanged) = Len(order)
           /\ DOMAIN Exchanged = DOMAIN order
           /\ \A a \in DOMAIN order :
                 Exchanged[a] = IF a = j THEN order[i] ELSE IF a = i THEN order[j] ELSE order[a]
           /\ NoRepeat(Exchanged)
           /\ Members(Exchanged) = Members(order)
<1>1. Exchanged \in Seq(Shards) /\ Len(Exchanged) = Len(order) /\ DOMAIN Exchanged = DOMAIN order
    BY DEF Exchanged
<1>2. \A a \in DOMAIN order :
          Exchanged[a] = IF a = j THEN order[i] ELSE IF a = i THEN order[j] ELSE order[a]
    BY DEF Exchanged
<1>3. NoRepeat(Exchanged)
    BY <1>1, <1>2 DEF NoRepeat
<1>4. Members(Exchanged) \subseteq Members(order)
    BY <1>1, <1>2 DEF Members
<1>5. Members(order) \subseteq Members(Exchanged)
    <2> SUFFICES ASSUME NEW a \in DOMAIN order PROVE \E b \in DOMAIN Exchanged : Exchanged[b] = order[a]
        BY DEF Members
    <2>1. CASE a = i BY <2>1, <1>1, <1>2
    <2>2. CASE a = j BY <2>2, <1>1, <1>2
    <2>3. CASE a # i /\ a # j BY <2>3, <1>1, <1>2
    <2> QED BY <2>1, <2>2, <2>3
<1> QED BY <1>1, <1>2, <1>3, <1>4, <1>5
\* Appending a shard that is not there adds it and repeats none.
LEMMA AppendKeeps ==
    ASSUME NEW s \in Seq(Shards), NEW e \in Shards, NoRepeat(s), e \notin Members(s)
    PROVE  Members(Append(s, e)) = Members(s) \cup {e} /\ NoRepeat(Append(s, e))
<1> DEFINE t == Append(s, e)
<1>1. DOMAIN t = DOMAIN s \cup {Len(s) + 1}
    OBVIOUS
<1>2. \A a \in DOMAIN s : t[a] = s[a]
    OBVIOUS
<1>3. t[Len(s) + 1] = e
    OBVIOUS
<1> HIDE DEF t
<1>4. Members(t) = Members(s) \cup {e}
    BY <1>1, <1>2, <1>3 DEF Members
<1>5. NoRepeat(t)
    BY <1>1, <1>2, <1>3 DEF NoRepeat, Members
<1> QED BY <1>4, <1>5 DEF t
-----------------------------------------------------------------------------
(* The steps *)

LEMMA InitInv == SortInit => SortInv
<1> SUFFICES ASSUME SortInit PROVE SortInv
    OBVIOUS
<1>1. SortTypeOK
    BY DEF SortInit, SortTypeOK, ShardList, NoDetail
<1>2. FilterInv /\ ExchangeInv
    BY DEF SortInit, FilterInv, ExchangeInv, NoRepeat
<1> QED BY <1>1, <1>2 DEF SortInv

LEMMA TypeStep == SortTypeOK /\ [SortNext]_sortVars => SortTypeOK'
<1> SUFFICES ASSUME SortTypeOK, [SortNext]_sortVars PROVE SortTypeOK'
    OBVIOUS
<1>1. CASE \E ids \in ShardList : GetStreamShards(ids)
    BY <1>1 DEF GetStreamShards, SortTypeOK
<1>2. CASE NoDetails
    BY <1>2 DEF NoDetails, SortTypeOK, ShardList
<1>3. CASE \E S \in SUBSET Shards : \E d \in [S -> SequenceNumber] : getShardDetails(d)
    <2>1. PICK S \in SUBSET Shards : \E d \in [S -> SequenceNumber] : getShardDetails(d)
        BY <1>3
    <2>2. PICK d \in [S -> SequenceNumber] : getShardDetails(d)
        BY <2>1
    <2> QED BY <2>2 DEF getShardDetails, SortTypeOK
<1>4. CASE FilterShard
    <2>1. i \in DOMAIN asked /\ asked[i] \in Shards
        BY <1>4 DEF FilterShard, SortTypeOK, ShardList
    <2> QED BY <1>4, <2>1 DEF FilterShard, SortTypeOK
<1>5. CASE FilterDone BY <1>5 DEF FilterDone, SortTypeOK
<1>6. CASE Compare
    <2>1. i \in DOMAIN order /\ j \in DOMAIN order /\ order[i] \in Shards /\ order[j] \in Shards
        BY <1>6 DEF Compare, SortTypeOK
    <2>2. Exchanged \in Seq(Shards)
        BY <2>1 DEF Exchanged, SortTypeOK
    <2> QED BY <1>6, <2>2 DEF Compare, SortTypeOK
<1>7. CASE NextPlace BY <1>7 DEF NextPlace, SortTypeOK
<1>8. CASE SortDone BY <1>8 DEF SortDone, SortTypeOK
<1>9. CASE NextSort BY <1>9 DEF NextSort, SortTypeOK, ShardList, NoDetail
<1>10. CASE UNCHANGED sortVars BY <1>10 DEF sortVars, SortTypeOK
<1> QED BY <1>1, <1>2, <1>3, <1>4, <1>5, <1>6, <1>7, <1>8, <1>9, <1>10 DEF SortNext, SortStep

LEMMA FilterStep == SortInv /\ [SortNext]_sortVars => FilterInv'
<1> SUFFICES ASSUME SortInv, [SortNext]_sortVars PROVE FilterInv'
    OBVIOUS
<1> USE DEF SortInv
<1>0. SortTypeOK'
    BY TypeStep
<1>1. CASE \E ids \in ShardList : GetStreamShards(ids)
    BY <1>1 DEF GetStreamShards, FilterInv, NoRepeat
<1>2. CASE NoDetails
    BY <1>2 DEF NoDetails, FilterInv, NoRepeat, SortTypeOK, ShardList
<1>3. CASE \E S \in SUBSET Shards : \E d \in [S -> SequenceNumber] : getShardDetails(d)
    <2>1. PICK S \in SUBSET Shards : \E d \in [S -> SequenceNumber] : getShardDetails(d)
        BY <1>3
    <2>2. PICK d \in [S -> SequenceNumber] : getShardDetails(d)
        BY <2>1
    <2>3. order' = <<>> /\ i' = 1 /\ sort' = "filter" /\ asked' = asked
        BY <2>2 DEF getShardDetails
    <2>4. Members(order)' = {}
        BY <2>3 DEF Members
    <2>5. {asked[a] : a \in 1..(1 - 1)} = {}
        OBVIOUS
    <2> QED BY <2>3, <2>4, <2>5 DEF FilterInv, NoRepeat, SortTypeOK, ShardList
<1>4. CASE FilterShard
    <2>1. /\ i \in 1..Len(asked) /\ asked \in Seq(Shards) /\ order \in Seq(Shards)
          /\ asked' = asked /\ details' = details /\ sort' = "filter" /\ i' = i + 1
          /\ order' = IF asked[i] \in DOMAIN details THEN Append(order, asked[i]) ELSE order
        BY <1>4 DEF FilterShard, SortTypeOK, ShardList
    <2>2. Members(order) = {asked[a] : a \in 1..(i - 1)} \cap DOMAIN details /\ NoRepeat(order)
        BY <1>4 DEF FilterShard, FilterInv
    <2>3. {asked[a] : a \in 1..((i + 1) - 1)} = {asked[a] : a \in 1..(i - 1)} \cup {asked[i]}
        <3>1. i \in Nat /\ (i + 1) - 1 = i /\ 1..i = 1..(i - 1) \cup {i}
            BY <2>1
        <3> QED BY <3>1
    <2>4. CASE asked[i] \notin DOMAIN details
        BY <2>1, <2>2, <2>3, <2>4 DEF FilterInv, Members, NoRepeat
    <2>5. CASE asked[i] \in DOMAIN details
        <3>1. order' = Append(order, asked[i])
            BY <2>1, <2>5
        <3>2. \A a \in DOMAIN asked : a # i => asked[a] # asked[i]
            BY <2>1 DEF SortTypeOK, ShardList
        <3>3. asked[i] \in Shards /\ asked[i] \notin Members(order)
            BY <2>1, <2>2, <3>2
        <3>4. Members(order') = Members(order) \cup {asked[i]} /\ NoRepeat(order')
            BY <3>1, <3>3, <2>1, <2>2, AppendKeeps
        <3>5. Members(order') = {asked[a] : a \in 1..((i + 1) - 1)} \cap DOMAIN details
            BY <2>2, <2>3, <2>5, <3>4
        <3>6. i + 1 \in 1..(Len(asked) + 1)
            BY <2>1
        <3>7. /\ (i \in 1..(Len(asked) + 1))'
              /\ (Members(order) = {asked[a] : a \in 1..(i - 1)} \cap DOMAIN details)'
            BY <2>1, <3>5, <3>6
        <3>8. NoRepeat(order)'
            BY <3>4
        <3>9. sort' \notin {"exchange", "sorted"}
            BY <2>1
        <3> QED BY <3>7, <3>8, <3>9 DEF FilterInv
    <2> QED BY <2>4, <2>5
<1>5. CASE FilterDone
    <2>1. i = Len(asked) + 1 /\ asked \in Seq(Shards)
        BY <1>5 DEF FilterDone, FilterInv, SortTypeOK, ShardList
    <2>2. 1..(i - 1) = DOMAIN asked
        BY <2>1
    <2> QED BY <1>5, <2>2 DEF FilterDone, FilterInv, Members, NoRepeat
<1>6. CASE Compare
    <2>1. i \in DOMAIN order /\ j \in DOMAIN order /\ i # j /\ order \in Seq(Shards)
        BY <1>6 DEF Compare, SortTypeOK, ExchangeInv
    <2>2. NoRepeat(order) /\ Members(order) = Members(asked) \cap DOMAIN details
        BY <1>6 DEF Compare, FilterInv
    <2>3. NoRepeat(Exchanged) /\ Members(Exchanged) = Members(order)
        BY <2>1, <2>2, ExchangeKeeps
    <2>4. order' \in {order, Exchanged} /\ asked' = asked /\ details' = details /\ sort' = "exchange"
        BY <1>6 DEF Compare
    <2>5. NoRepeat(order') /\ Members(order') = Members(order)
        BY <2>2, <2>3, <2>4
    <2> QED BY <2>2, <2>4, <2>5 DEF FilterInv, Members, NoRepeat
<1>7. CASE NextPlace BY <1>7 DEF NextPlace, FilterInv, Members, NoRepeat
<1>8. CASE SortDone BY <1>8 DEF SortDone, FilterInv, Members, NoRepeat
<1>9. CASE NextSort BY <1>9 DEF NextSort, FilterInv, NoRepeat
<1>10. CASE UNCHANGED sortVars BY <1>10 DEF sortVars, FilterInv, Members, NoRepeat
<1> QED BY <1>1, <1>2, <1>3, <1>4, <1>5, <1>6, <1>7, <1>8, <1>9, <1>10 DEF SortNext, SortStep

LEMMA ExchangeStep == SortInv /\ [SortNext]_sortVars => ExchangeInv'
<1> SUFFICES ASSUME SortInv, [SortNext]_sortVars PROVE ExchangeInv'
    OBVIOUS
<1> USE DEF SortInv
<1>1. CASE \E ids \in ShardList : GetStreamShards(ids)
    BY <1>1 DEF GetStreamShards, ExchangeInv
<1>2. CASE NoDetails
    BY <1>2 DEF NoDetails, ExchangeInv
<1>3. CASE \E S \in SUBSET Shards : \E d \in [S -> SequenceNumber] : getShardDetails(d)
    BY <1>3 DEF getShardDetails, ExchangeInv
<1>4. CASE FilterShard
    BY <1>4 DEF FilterShard, ExchangeInv
<1>5. CASE FilterDone
    <2>1. order \in Seq(Shards) /\ order' = order /\ i' = 1 /\ j' = 2 /\ sort' = "exchange"
        BY <1>5 DEF FilterDone, SortTypeOK
    <2> QED BY <2>1 DEF ExchangeInv
<1>6. CASE Compare
    <2>1. /\ i \in Nat /\ j \in Nat /\ i < j /\ i \in DOMAIN order /\ j \in DOMAIN order
          /\ order \in Seq(Shards) /\ Len(order) \in Nat /\ DOMAIN order = 1..Len(order)
        BY <1>6 DEF Compare, SortTypeOK, ExchangeInv
    <2>2. i' = i /\ j' = j + 1 /\ details' = details /\ sort' = "exchange"
        BY <1>6 DEF Compare
    <2>3. /\ \A a, b \in DOMAIN order : a < b /\ a < i => ~After(order[a], order[b])
          /\ \A b \in DOMAIN order : i < b /\ b < j => ~After(order[i], order[b])
        BY <1>6 DEF Compare, ExchangeInv
    <2>4. \A s, t : After(s, t)' <=> After(s, t)
        BY <2>2 DEF After
    <2>5. CASE ~After(order[i], order[j])
        <3>1. order' = order
            BY <1>6, <2>5 DEF Compare
        <3>2. \A b \in DOMAIN order : i < b /\ b < j + 1 => ~After(order[i], order[b])
            BY <2>1, <2>3, <2>5
        <3> QED BY <2>1, <2>2, <2>3, <2>4, <3>1, <3>2 DEF ExchangeInv
    <2>6. CASE After(order[i], order[j])
        <3> DEFINE new == Exchanged
        <3>1. order' = new
            BY <1>6, <2>6 DEF Compare
        <3>2. /\ Len(new) = Len(order) /\ DOMAIN new = DOMAIN order
              /\ \A a \in DOMAIN order :
                    new[a] = IF a = j THEN order[i] ELSE IF a = i THEN order[j] ELSE order[a]
            BY <2>1, ExchangeKeeps DEF FilterInv
        <3> HIDE DEF new
        <3>3. \A a \in DOMAIN order : order[a] \in DOMAIN details
            BY <1>6 DEF Compare, FilterInv, Members
        <3>4. ASSUME NEW a \in DOMAIN order, NEW b \in DOMAIN order, a < b, a < i
              PROVE  ~After(new[a], new[b])
            <4>1. a # i /\ a # j /\ new[a] = order[a]
                BY <2>1, <3>2, <3>4
            <4>2. CASE b = i BY <4>1, <4>2, <2>1, <2>3, <3>2, <3>4
            <4>3. CASE b = j BY <4>1, <4>3, <2>1, <2>3, <3>2, <3>4
            <4>4. CASE b # i /\ b # j BY <4>1, <4>4, <2>3, <3>2, <3>4
            <4> QED BY <4>2, <4>3, <4>4
        <3>5. ASSUME NEW b \in DOMAIN order, i < b, b < j + 1
              PROVE  ~After(new[i], new[b])
            <4>1. new[i] = order[j] /\ b # i
                BY <2>1, <3>2, <3>5
            <4>2. CASE b = j
                <5>1. new[b] = order[i]
                    BY <4>2, <2>1, <3>2
                <5> QED BY <4>1, <5>1, <2>1, <2>6, <3>3, AfterAsymmetric
            <4>3. CASE b # j
                <5>1. new[b] = order[b] /\ ~After(order[i], order[b])
                    BY <4>1, <4>3, <2>1, <2>3, <3>2, <3>5
                <5> QED BY <4>1, <5>1, <2>1, <2>6, <3>3, AfterTransitive
            <4> QED BY <4>2, <4>3
        <3> QED BY <2>1, <2>2, <2>4, <3>1, <3>2, <3>4, <3>5 DEF ExchangeInv
    <2> QED BY <2>5, <2>6
<1>7. CASE NextPlace
    <2>1. /\ i \in Nat /\ j \in Nat /\ i < Len(order) /\ j > Len(order) /\ i >= 1
          /\ order \in Seq(Shards) /\ Len(order) \in Nat /\ DOMAIN order = 1..Len(order)
          /\ i' = i + 1 /\ j' = i + 2 /\ order' = order /\ details' = details /\ sort' = "exchange"
        BY <1>7 DEF NextPlace, SortTypeOK, ExchangeInv
    <2>2. /\ \A a, b \in DOMAIN order : a < b /\ a < i => ~After(order[a], order[b])
          /\ \A b \in DOMAIN order : i < b /\ b < j => ~After(order[i], order[b])
        BY <1>7 DEF NextPlace, ExchangeInv
    <2>3. \A a, b \in DOMAIN order : a < b /\ a < i + 1 => ~After(order[a], order[b])
        BY <2>1, <2>2
    <2>4. \A s, t : After(s, t)' <=> After(s, t)
        BY <2>1 DEF After
    <2> QED BY <2>1, <2>3, <2>4 DEF ExchangeInv
<1>8. CASE SortDone
    <2>1. /\ i \in Nat /\ i >= Len(order) /\ order \in Seq(Shards)
          /\ order' = order /\ details' = details /\ sort' = "sorted"
        BY <1>8 DEF SortDone, SortTypeOK
    <2>2. \A a, b \in DOMAIN order : a < b => ~After(order[a], order[b])
        BY <1>8, <2>1 DEF SortDone, ExchangeInv
    <2> QED BY <2>1, <2>2 DEF ExchangeInv, After
<1>9. CASE NextSort BY <1>9 DEF NextSort, ExchangeInv
<1>10. CASE UNCHANGED sortVars BY <1>10 DEF sortVars, ExchangeInv, After
<1> QED BY <1>1, <1>2, <1>3, <1>4, <1>5, <1>6, <1>7, <1>8, <1>9, <1>10 DEF SortNext, SortStep
-----------------------------------------------------------------------------
(* The theorems *)

LEMMA SortInvariant == SortSpec => []SortInv
<1>1. SortInv /\ [SortNext]_sortVars => SortInv'
    BY TypeStep, FilterStep, ExchangeStep DEF SortInv
<1> QED BY InitInv, <1>1, PTL DEF SortSpec

LEMMA InvKeepsShards == SortInv => EachShardOnce
BY DEF SortInv, FilterInv, EachShardOnce, NoRepeat

LEMMA InvIsSorted == SortInv => SortedByNumber
<1> SUFFICES ASSUME SortInv, sort = "sorted",
                    NEW a \in DOMAIN order, NEW b \in DOMAIN order, a < b,
                    details[order[b]] # NoNumber
             PROVE  /\ details[order[a]] # NoNumber
                    /\ parseSequenceNumber(details[order[a]]) <= parseSequenceNumber(details[order[b]])
    BY DEF SortedByNumber
<1>1. order[a] \in DOMAIN details /\ order[b] \in DOMAIN details
    BY DEF SortInv, FilterInv, Members
<1>2. ~After(order[a], order[b])
    BY DEF SortInv, ExchangeInv
<1>3. details[order[a]] # NoNumber
    BY <1>2 DEF After
<1>4. details[order[a]] \in Nat /\ details[order[b]] \in Nat
    BY <1>1, <1>3 DEF SortInv, SortTypeOK, SequenceNumber
<1> QED BY <1>2, <1>3, <1>4, ParsedInt DEF After

\* The sort loses no shard it was given and repeats none (EachShardOnce), however
\* the two lists of the service differ.
THEOREM SortKeepsTheShards == SortSpec => []EachShardOnce
BY SortInvariant, InvKeepsShards, PTL

\* Sorted shards are in the order of what int64 makes of their numbers, and one
\* without a number is last (SortedByNumber): what the exchanges achieve for any
\* numbers.  That this is the order of opening is not so once int64 wraps.
THEOREM SortFollowsNumbers == SortSpec => []SortedByNumber
BY SortInvariant, InvIsSorted, PTL
=============================================================================
