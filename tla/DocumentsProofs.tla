-------------------------- MODULE DocumentsProofs --------------------------
(***************************************************************************)
(* For every table, mapping and choice of what the conversions make of     *)
(* nested values: a cycle that has read all records in their order leaves  *)
(* the collection with one document for each item and none for an item     *)
(* that was removed, and a key survives the checkpoint file.  The          *)
(* invariant: a cycle that has missed no record among the first m agrees   *)
(* with the table as it was after those m changes.                         *)
(***************************************************************************)
EXTENDS Documents, ShardSortProofs, FiniteSetTheorems, WellFoundedInduction

-----------------------------------------------------------------------------
(* Induction *)

Less == {p \in Nat \X Nat : p[1] < p[2]}

\* Every set of naturals that is not empty has a least element.
LEMMA LeastNatural ==
    ASSUME NEW T \in SUBSET Nat, T # {}
    PROVE  \E x \in T : \A y \in T : x <= y
<1>1. Less = OpToRel(<, Nat)
    BY Zenon DEF Less, OpToRel
<1>2. IsWellFoundedOn(Less, Nat)
    BY <1>1, NatLessThanWellFounded, Zenon
<1>3. PICK x \in T : \A y \in T : <<y, x>> \notin Less
    BY <1>2, WFMin
<1>4. \A y \in T : ~(y < x)
    BY <1>3 DEF Less
<1> QED BY <1>4

\* What a set of naturals starts with and keeps from each to the next it has
\* up to n.
LEMMA Induction ==
    ASSUME NEW n \in Nat, NEW S, 0 \in S, \A x \in 0..(n - 1) : x \in S => x + 1 \in S
    PROVE  0..n \subseteq S
<1> DEFINE T == {x \in 0..n : x \notin S}
<1> SUFFICES ASSUME T # {} PROVE FALSE
    OBVIOUS
<1>1. T \in SUBSET Nat
    OBVIOUS
<1>2. PICK x \in T : \A y \in T : x <= y
    BY <1>1, LeastNatural
<1>3. x \in 1..n /\ x - 1 \notin T
    BY <1>2
<1> QED BY <1>2, <1>3
-----------------------------------------------------------------------------
(* Keys *)

\* A number that a float64 holds is its own nearest float.
LEMMA FloatIsExact ==
    ASSUME NEW n \in Nat, n <= FloatExact
    PROVE  Float(n) = n
<1> DEFINE sizes == {1, 2, 4, 8, 16, 32, 64, 128, 256}
           fits(u) == n < FloatExact * u /\ (u = 1 \/ n >= FloatExact * (u \div 2))
<1>1. CASE n < FloatExact
    <2>1. fits(1) /\ \A u \in sizes : fits(u) => u = 1
        BY <1>1, LimitAssumption
    <2>2. Unit(n) = 1
        BY <2>1 DEF Unit
    <2> QED BY <2>2 DEF Float
<1>2. CASE n = FloatExact
    <2>1. fits(2) /\ \A u \in sizes : fits(u) => u = 2
        BY <1>2, LimitAssumption
    <2>2. Unit(n) = 2
        BY <2>1 DEF Unit
    <2>3. n % 2 = 0 /\ 2 * (n \div 2) = n
        BY <1>2, LimitAssumption
    <2> QED BY <2>2, <2>3 DEF Float
<1> QED BY <1>1, <1>2, LimitAssumption

\* A string or a number that a float64 holds comes back as it was.
LEMMA KeyComesBack ==
    ASSUME NEW v \in KeyValue, v[1] = "S" \/ (v[1] = "N" /\ v[2] <= FloatExact)
    PROVE  ResumeKey(v) = v
<1>1. CASE v[1] = "S"
    <2>1. v = <<"S", v[2]>>
        BY <1>1 DEF KeyValue
    <2>2. convertFromAttributeValue(v) = <<"string", v[2]>>
        BY <1>1 DEF convertFromAttributeValue
    <2>3. ThroughJSON(<<"string", v[2]>>) = <<"string", v[2]>>
        BY DEF ThroughJSON
    <2>4. convertToAttributeValue(<<"string", v[2]>>) = <<"S", v[2]>>
        BY DEF convertToAttributeValue
    <2> QED BY <2>1, <2>2, <2>3, <2>4 DEF ResumeKey
<1>2. CASE v[1] = "N" /\ v[2] <= FloatExact
    <2>1. v = <<"N", v[2]>> /\ v[2] \in Nat
        BY <1>2 DEF KeyValue
    <2>2. Float(v[2]) = v[2]
        BY <1>2, <2>1, FloatIsExact
    <2>3. convertFromAttributeValue(v) = Number(v[2])
        BY <1>2 DEF convertFromAttributeValue
    <2>4. ThroughJSON(Number(v[2])) = <<"float64", v[2]>>
        BY <2>2 DEF ThroughJSON, Number
    <2>5. convertToAttributeValue(<<"float64", v[2]>>) = <<"N", v[2]>>
        BY DEF convertToAttributeValue
    <2> QED BY <2>1, <2>3, <2>4, <2>5 DEF ResumeKey
<1> QED BY <1>1, <1>2
-----------------------------------------------------------------------------
(* Transforms *)

\* The documents after each of the transforms.
Transformed(doc, transforms, after) ==
    /\ DOMAIN after = 0..Len(transforms)
    /\ after[0] = doc
    /\ \A n \in 1..Len(transforms) : after[n] = applyTransform(after[n - 1], transforms[n])

\* The transforms have a result: the recursion of applyCustomTransforms defines
\* a document for every number of transforms.
LEMMA TransformsApply ==
    ASSUME NEW doc, NEW transforms, Len(transforms) \in Nat
    PROVE  \E after : /\ Transformed(doc, transforms, after)
                      /\ applyCustomTransforms(doc, transforms) = after[Len(transforms)]
<1> DEFINE L == Len(transforms)
           Steps(f, m) == f = [n \in 0..m |-> IF n = 0 THEN doc ELSE applyTransform(f[n - 1], transforms[n])]
           S == {m \in 0..L : \E f : Steps(f, m)}
<1> HIDE DEF L
<1>0. L \in Nat
    BY DEF L
<1>1. 0 \in S
    <2> DEFINE f == [n \in 0..0 |-> doc]
    <2>1. Steps(f, 0)
        OBVIOUS
    <2> HIDE DEF f, Steps
    <2> QED BY <2>1, <1>0
<1>2. ASSUME NEW m \in 0..(L - 1), m \in S PROVE m + 1 \in S
    <2>1. PICK f : Steps(f, m)
        BY <1>2
    <2> DEFINE g == [n \in 0..(m + 1) |-> IF n = m + 1 THEN applyTransform(f[m], transforms[m + 1]) ELSE f[n]]
    <2>2. \A n \in 0..(m + 1) : g[n] = IF n = 0 THEN doc ELSE applyTransform(g[n - 1], transforms[n])
        <3> TAKE n \in 0..(m + 1)
        <3>1. CASE n = m + 1
            <4>1. n # 0 /\ n - 1 = m /\ g[n - 1] = f[m]
                BY <3>1, <1>0
            <4> QED BY <3>1, <4>1
        <3>2. CASE n \in 0..m
            <4>1. g[n] = f[n] /\ f[n] = IF n = 0 THEN doc ELSE applyTransform(f[n - 1], transforms[n])
                BY <2>1, <3>2, <1>0
            <4>2. n # 0 => g[n - 1] = f[n - 1]
                BY <3>2, <1>0
            <4> QED BY <4>1, <4>2
        <3> QED BY <3>1, <3>2, <1>0
    <2>3. g = [n \in 0..(m + 1) |-> g[n]]
        OBVIOUS
    <2> HIDE DEF g
    <2>4. Steps(g, m + 1)
        BY <2>2, <2>3
    <2> QED BY <2>4, <1>0
<1>3. L \in S
    <2> HIDE DEF S
    <2>1. \A m \in 0..(L - 1) : m \in S => m + 1 \in S
        BY <1>2
    <2>2. 0..L \subseteq S
        BY <1>0, <1>1, <2>1, Induction
    <2> QED BY <1>0, <2>2
<1> DEFINE after == CHOOSE f : Steps(f, L)
<1>4. Steps(after, L)
    BY <1>3
<1>5. applyCustomTransforms(doc, transforms) = after[L]
    BY DEF applyCustomTransforms, L
<1> HIDE DEF after
<1>6. Transformed(doc, transforms, after)
    BY <1>0, <1>4 DEF Transformed, L
<1> QED BY <1>5, <1>6 DEF L

\* The document has this value for its _id.
HasId(doc, v) == \E r : doc = <<"map", r>> /\ Id \in DOMAIN r /\ r[Id] = v

LEMMA NoErrorIsAMap == \A r : <<"map", r>> # Error
BY DEF Error

\* A transform of a field that is not there does nothing.
LEMMA AbsentSkips ==
    ASSUME NEW doc, NEW t, getNestedValue(doc, t.field) = Absent
    PROVE  applyTransform(doc, t) = doc
BY DEF applyTransform

\* A transform changes the field its path begins with, if it is there, and no other.
LEMMA TransformKeepsId ==
    ASSUME NEW r, NEW v, Id \in DOMAIN r, r[Id] = v,
           NEW t, t.field # <<>>, Head(t.field) # Id,
           applyTransform(<<"map", r>>, t) # Error
    PROVE  HasId(applyTransform(<<"map", r>>, t), v)
<1> DEFINE doc == <<"map", r>>
           old == getNestedValue(doc, t.field)
           new == transformValue(old, t.type)
<1>1. CASE doc = Error \/ old = Absent
    BY <1>1 DEF applyTransform, HasId
<1>2. CASE ~(doc = Error \/ old = Absent)
    <2>1. applyTransform(doc, t) = IF new = Error THEN Error ELSE setNestedValue(doc, t.field, new)
        BY <1>2, Zenon DEF applyTransform
    <2>2. applyTransform(doc, t) = setNestedValue(doc, t.field, new)
        BY <2>1
    <2> DEFINE s == [r EXCEPT ![Head(t.field)] = SetNested(@, Tail(t.field), new)]
    <2>3. setNestedValue(doc, t.field, new) = <<"map", s>>
        BY DEF setNestedValue
    <2>4. Id \in DOMAIN s /\ s[Id] = v
        OBVIOUS
    <2> QED BY <2>2, <2>3, <2>4 DEF HasId
<1> QED BY <1>1, <1>2

\* No transform whose path begins elsewhere changes the _id.
LEMMA TransformsKeepId ==
    ASSUME NEW doc, NEW v, HasId(doc, v),
           NEW transforms, Len(transforms) \in Nat,
           \A t \in 1..Len(transforms) : transforms[t].field # <<>> /\ Head(transforms[t].field) # Id,
           applyCustomTransforms(doc, transforms) # Error
    PROVE  HasId(applyCustomTransforms(doc, transforms), v)
<1>1. PICK after : /\ Transformed(doc, transforms, after)
                   /\ applyCustomTransforms(doc, transforms) = after[Len(transforms)]
    BY TransformsApply
<1> DEFINE L == Len(transforms)
           S == {n \in 0..L : after[n] = Error \/ HasId(after[n], v)}
<1>2. 0 \in S
    BY <1>1 DEF Transformed
<1>3. ASSUME NEW n \in 0..(L - 1), n \in S PROVE n + 1 \in S
    <2>1. n + 1 \in 1..L /\ (n + 1) - 1 = n
        OBVIOUS
    <2>2. after[n + 1] = applyTransform(after[n], transforms[n + 1])
        BY <1>1, <2>1 DEF Transformed
    <2>3. CASE after[n] = Error
        <3>1. after[n + 1] = Error
            BY <2>2, <2>3 DEF applyTransform
        <3> QED BY <3>1, <2>1
    <2>4. CASE HasId(after[n], v)
        <3>1. PICK r : after[n] = <<"map", r>> /\ Id \in DOMAIN r /\ r[Id] = v
            BY <2>4 DEF HasId
        <3>2. after[n + 1] = Error \/ HasId(after[n + 1], v)
            BY <2>1, <2>2, <3>1, TransformKeepsId
        <3> QED BY <3>2, <2>1
    <2> QED BY <1>3, <2>3, <2>4
<1>4. L \in S
    <2> HIDE DEF S
    <2>1. \A n \in 0..(L - 1) : n \in S => n + 1 \in S
        BY <1>3
    <2>2. 0..L \subseteq S
        BY <1>2, <2>1, Induction
    <2> QED BY <2>2
<1> QED BY <1>1, <1>4

\* Transforms whose paths begin with no field of the document leave it as it is.
LEMMA TransformsSkip ==
    ASSUME NEW r, NEW transforms, Len(transforms) \in Nat,
           \A t \in 1..Len(transforms) : transforms[t].field # <<>> /\ Head(transforms[t].field) \notin DOMAIN r
    PROVE  applyCustomTransforms(<<"map", r>>, transforms) = <<"map", r>>
<1> DEFINE doc == <<"map", r>>
           L == Len(transforms)
<1>1. PICK after : Transformed(doc, transforms, after) /\ applyCustomTransforms(doc, transforms) = after[L]
    BY TransformsApply
<1> DEFINE S == {n \in 0..L : after[n] = doc}
<1>2. 0 \in S
    BY <1>1 DEF Transformed
<1>3. ASSUME NEW n \in 0..(L - 1), n \in S PROVE n + 1 \in S
    <2>1. n + 1 \in 1..L /\ (n + 1) - 1 = n
        OBVIOUS
    <2>2. after[n + 1] = applyTransform(doc, transforms[n + 1])
        BY <1>1, <1>3, <2>1 DEF Transformed
    <2>3. getNestedValue(doc, transforms[n + 1].field) = Absent
        BY <2>1 DEF getNestedValue
    <2>4. after[n + 1] = doc
        BY <2>2, <2>3, AbsentSkips
    <2> QED BY <2>1, <2>4
<1>4. L \in S
    <2> HIDE DEF S
    <2>1. \A n \in 0..(L - 1) : n \in S => n + 1 \in S
        BY <1>3
    <2>2. 0..L \subseteq S
        BY <1>2, <2>1, Induction
    <2> QED BY <2>2
<1> QED BY <1>1, <1>4
-----------------------------------------------------------------------------
(* Documents and filters *)

IsScalar(v) == v[1] \notin {"list", "map"}

\* The name that field a has in a document.
FieldName(a, m) ==
    IF m.primaryKey # <<>> /\ a = m.primaryKey[1] THEN m.primaryKey[2] ELSE ApplyNamingConvention(a, m.naming)

\* Field a, and no other field of the item, becomes the _id, which no transform changes.
BecomesId(a, item, m) ==
    /\ a \in DOMAIN item /\ IsScalar(item[a])
    /\ \A b \in DOMAIN item : FieldName(b, m) = Id <=> b = a
    /\ ValidMapping(m)
    /\ \A t \in 1..Len(m.transforms) : Head(m.transforms[t].field) # Id

LEMMA ScalarIsKept ==
    ASSUME NEW v, IsScalar(v), NEW naming
    PROVE  convertValue(v, naming) = {v}
BY DEF IsScalar, convertValue

\* A renamed field has one of the values of a field with that name.
LEMMA RenamedField ==
    ASSUME NEW values, NEW naming, NEW r \in Renamed(values, naming)
    PROVE  /\ \A b \in DOMAIN values : ApplyNamingConvention(b, naming) \in DOMAIN r
           /\ \A n \in DOMAIN r :
                 \E b \in DOMAIN values : ApplyNamingConvention(b, naming) = n /\ r[n] \in values[b]
BY DEF Renamed

\* Before the transforms a document has the key as its _id, and no other field
\* when the item has none.
LEMMA FieldsHaveId ==
    ASSUME NEW item, NEW m, NEW a, BecomesId(a, item, m)
    PROVE  \A f \in OtherFields(item, m), k \in MappedKey(item, m) :
               /\ Id \in DOMAIN Over(f, k) /\ Over(f, k)[Id] = item[a]
               /\ (\A b \in DOMAIN item : b = a) => \A n \in DOMAIN Over(f, k) : n = Id
<1> TAKE f \in OtherFields(item, m), k \in MappedKey(item, m)
<1> DEFINE values == [b \in {n \in DOMAIN item : ~isKey(n, m)} |-> convertValue(item[b], m.naming)]
           r == Over(f, k)
<1>1. convertValue(item[a], m.naming) = {item[a]}
    BY ScalarIsKept DEF BecomesId
<1>2. DOMAIN values = {n \in DOMAIN item : ~isKey(n, m)}
    OBVIOUS
<1>3. \A b \in DOMAIN values : values[b] = convertValue(item[b], m.naming)
    OBVIOUS
<1>4. f \in Renamed(values, m.naming)
    BY DEF OtherFields
<1> HIDE DEF values
<1>5. \A b \in DOMAIN values : FieldName(b, m) = ApplyNamingConvention(b, m.naming)
    BY <1>2 DEF FieldName, isKey
<1>6. \A b \in DOMAIN values : ApplyNamingConvention(b, m.naming) = Id <=> b = a
    BY <1>2, <1>5 DEF BecomesId
<1>7. \A b \in DOMAIN values : ApplyNamingConvention(b, m.naming) \in DOMAIN f
    BY <1>4, RenamedField
<1>8. \A n \in DOMAIN f : \E b \in DOMAIN values : ApplyNamingConvention(b, m.naming) = n /\ f[n] \in values[b]
    BY <1>4, RenamedField
<1>9. Id \in DOMAIN f => f[Id] = item[a]
    BY <1>1, <1>3, <1>6, <1>8
<1>10. DOMAIN r = DOMAIN f \cup DOMAIN k /\ \A x \in DOMAIN r : r[x] = IF x \in DOMAIN f THEN f[x] ELSE k[x]
    BY DEF Over
<1> HIDE DEF r
<1>11. CASE isKey(a, m)
    <2>1. a \notin DOMAIN values /\ Id \notin DOMAIN f
        BY <1>2, <1>6, <1>8, <1>11
    <2>2. m.primaryKey[1] = a /\ m.primaryKey[2] = Id
        BY <1>11 DEF BecomesId, FieldName, isKey
    <2>3. k = Field(Id, item[a])
        BY <1>1, <1>11, <2>2 DEF BecomesId, MappedKey
    <2>4. DOMAIN k = {Id} /\ k[Id] = item[a]
        BY <2>3 DEF Field
    <2>5. ASSUME \A b \in DOMAIN item : b = a PROVE DOMAIN f = {}
        <3>1. \A b \in DOMAIN values : FALSE
            BY <1>2, <1>11, <2>5
        <3> QED BY <1>8, <3>1
    <2> QED BY <1>10, <2>1, <2>4, <2>5 DEF r
<1>12. CASE ~isKey(a, m)
    <2>1. a \in DOMAIN values /\ ApplyNamingConvention(a, m.naming) = Id
        BY <1>2, <1>6, <1>12 DEF BecomesId
    <2>2. Id \in DOMAIN f /\ f[Id] = item[a]
        BY <1>7, <1>9, <2>1
    <2>3. ASSUME \A b \in DOMAIN item : b = a PROVE (\A n \in DOMAIN f : n = Id) /\ DOMAIN k = {}
        <3>1. \A n \in DOMAIN f : n = Id
            BY <1>2, <1>6, <1>8, <2>2, <2>3
        <3>2. k = <<>>
            BY <1>12, <2>3 DEF MappedKey
        <3> QED BY <3>1, <3>2
    <2> QED BY <1>10, <2>2, <2>3 DEF r
<1> QED BY <1>11, <1>12

LEMMA MappingIsValid ==
    ASSUME NEW m, ValidMapping(m)
    PROVE  Len(m.transforms) \in Nat /\ \A t \in 1..Len(m.transforms) : m.transforms[t].field # <<>>
BY DEF ValidMapping

\* Every document of an item has its key as _id.
LEMMA DocumentId ==
    ASSUME NEW item, NEW m, NEW a, BecomesId(a, item, m),
           NEW d \in ConvertDocument(item, m), d # Error
    PROVE  HasId(d, item[a])
<1>0. \A f \in OtherFields(item, m), k \in MappedKey(item, m) :
          /\ Id \in DOMAIN Over(f, k) /\ Over(f, k)[Id] = item[a]
          /\ (\A b \in DOMAIN item : b = a) => \A n \in DOMAIN Over(f, k) : n = Id
    BY FieldsHaveId
<1>1. PICK f \in OtherFields(item, m), k \in MappedKey(item, m) :
          d = applyCustomTransforms(<<"map", Over(f, k)>>, m.transforms)
    BY DEF ConvertDocument
<1>2. Id \in DOMAIN Over(f, k) /\ Over(f, k)[Id] = item[a]
    BY <1>0, <1>1
<1>3. HasId(<<"map", Over(f, k)>>, item[a])
    BY <1>2 DEF HasId
<1>4. /\ Len(m.transforms) \in Nat
      /\ \A t \in 1..Len(m.transforms) : m.transforms[t].field # <<>> /\ Head(m.transforms[t].field) # Id
    BY MappingIsValid DEF BecomesId
<1> QED BY <1>1, <1>3, <1>4, TransformsKeepId

\* The key alone is converted to its _id and nothing else.
LEMMA KeyDocument ==
    ASSUME NEW item, NEW m, NEW a, BecomesId(a, item, m), \A b \in DOMAIN item : b = a,
           NEW d \in ConvertDocument(item, m)
    PROVE  \E r : d = <<"map", r>> /\ DOMAIN r = {Id} /\ r[Id] = item[a]
<1>0. \A f \in OtherFields(item, m), k \in MappedKey(item, m) :
          /\ Id \in DOMAIN Over(f, k) /\ Over(f, k)[Id] = item[a]
          /\ (\A b \in DOMAIN item : b = a) => \A n \in DOMAIN Over(f, k) : n = Id
    BY FieldsHaveId
<1>1. PICK f \in OtherFields(item, m), k \in MappedKey(item, m) :
          d = applyCustomTransforms(<<"map", Over(f, k)>>, m.transforms)
    BY DEF ConvertDocument
<1> DEFINE r == Over(f, k)
<1>2. /\ Id \in DOMAIN r /\ r[Id] = item[a]
      /\ \A n \in DOMAIN r : n = Id
    BY <1>0, <1>1
<1> HIDE DEF r
<1>3. /\ Len(m.transforms) \in Nat
      /\ \A t \in 1..Len(m.transforms) : m.transforms[t].field # <<>> /\ Head(m.transforms[t].field) \notin DOMAIN r
    BY <1>2, MappingIsValid DEF BecomesId
<1>4. d = <<"map", r>>
    BY <1>1, <1>3, TransformsSkip DEF r
<1> QED BY <1>2, <1>4
-----------------------------------------------------------------------------
(* Keys and their documents *)

\* The one key attribute where the key becomes the _id, and the _id of a key.
TheKey == CHOOSE a \in KeyAttributes : KeyAttributes = {a}
IdOf(k) == convertFromAttributeValue(k[TheKey])

LEMMA OneKeyAttribute ==
    ASSUME setup \in Setups, Found, NEW k \in setup.keys
    PROVE  /\ TheKey \in KeyAttributes /\ TheKey \in DOMAIN k
           /\ \A b \in KeyAttributes : b = TheKey
           /\ \A b \in DOMAIN k : b = TheKey
           /\ k[TheKey] \in KeyValue
<1>1. PICK a \in KeyAttributes : KeyAttributes = {a}
    BY DEF Found, KeyBecomesId
<1>2. TheKey \in KeyAttributes /\ KeyAttributes = {TheKey}
    BY <1>1 DEF TheKey
<1>3. DOMAIN k # {} /\ k \in [DOMAIN k -> KeyValue]
    BY KeyAssumption
<1>4. DOMAIN k \subseteq KeyAttributes
    BY DEF KeyAttributes
<1> QED BY <1>2, <1>3, <1>4

\* The _id of a key is a string or an integer.
LEMMA IdIsScalar ==
    ASSUME setup \in Setups, Found, NEW k \in setup.keys
    PROVE  /\ IsScalar(IdOf(k))
           /\ k[TheKey][1] \in {"S", "B"} => IdOf(k) = <<"string", k[TheKey][2]>>
           /\ k[TheKey][1] = "N" => IdOf(k) = <<"int64", k[TheKey][2]>>
           /\ k[TheKey][1] \in {"S", "B", "N"}
           /\ k[TheKey] = <<k[TheKey][1], k[TheKey][2]>>
<1> DEFINE v == k[TheKey]
<1>1. v \in KeyValue /\ TheKey \in DOMAIN k
    BY OneKeyAttribute
<1>2. v = <<v[1], v[2]>> /\ v[1] \in {"S", "B", "N"}
    BY <1>1 DEF KeyValue
<1>3. v[1] = "N" => v[2] < IntLimit
    BY <1>1 DEF Found, KeysAreExact
<1>4. v[1] \in {"S", "B"} => convertFromAttributeValue(v) = <<"string", v[2]>>
    BY DEF convertFromAttributeValue
<1>5. v[1] = "N" => convertFromAttributeValue(v) = <<"int64", v[2]>>
    BY <1>3 DEF convertFromAttributeValue, Number
<1>6. IsScalar(<<"string", v[2]>>) /\ IsScalar(<<"int64", v[2]>>)
    BY DEF IsScalar
<1> QED BY <1>2, <1>4, <1>5, <1>6 DEF IdOf

\* No two keys have one _id.
LEMMA IdsDiffer ==
    ASSUME setup \in Setups, Found, NEW k \in setup.keys, NEW l \in setup.keys, Same(IdOf(k), IdOf(l))
    PROVE  k = l
<1>1. k[TheKey][1] = l[TheKey][1]
    BY OneKeyAttribute, KeyAssumption
<1>2. k[TheKey][2] = l[TheKey][2]
    BY <1>1, IdIsScalar DEF Same
<1>3. k[TheKey] = l[TheKey]
    BY <1>1, <1>2, IdIsScalar
<1>4. k \in [DOMAIN l -> KeyValue] /\ l \in [DOMAIN l -> KeyValue]
    BY KeyAssumption
<1>5. \A b \in DOMAIN l : k[b] = l[b]
    BY <1>3, OneKeyAttribute
<1> QED BY <1>4, <1>5

\* The fields of an item: its key becomes the _id.
LEMMA ItemHasId ==
    ASSUME setup \in Setups, Found, NEW k \in setup.keys, NEW rest \in setup.others
    PROVE  LET item == convertFromAttributeValueMap(Over(k, rest))
           IN  BecomesId(TheKey, item, mapping) /\ item[TheKey] = IdOf(k) /\ Over(k, rest) # <<>>
<1> DEFINE image == Over(k, rest)
           item == convertFromAttributeValueMap(image)
<1>1. /\ TheKey \in KeyAttributes /\ TheKey \in DOMAIN k
      /\ \A b \in KeyAttributes : b = TheKey
    BY OneKeyAttribute
<1>2. DOMAIN image = DOMAIN k \cup DOMAIN rest /\ image[TheKey] = k[TheKey]
    BY <1>1 DEF Over
<1> HIDE DEF image
<1>3. DOMAIN item = DOMAIN image /\ item[TheKey] = IdOf(k)
    BY <1>1, <1>2 DEF convertFromAttributeValueMap, IdOf
<1> HIDE DEF item
<1>4. IsScalar(item[TheKey])
    BY <1>3, IdIsScalar
<1>5. \A b \in DOMAIN item : b \in KeyAttributes \cup UNION {DOMAIN x : x \in setup.others}
    BY <1>2, <1>3 DEF KeyAttributes
<1>6. \A b \in KeyAttributes \cup UNION {DOMAIN x : x \in setup.others} :
          FieldName(b, mapping) = Id <=> b \in KeyAttributes
    BY DEF Found, KeyBecomesId, FieldName
<1>7. \A b \in DOMAIN item : FieldName(b, mapping) = Id <=> b = TheKey
    BY <1>1, <1>5, <1>6
<1>8. ValidMapping(mapping) /\ \A t \in 1..Len(mapping.transforms) : Head(mapping.transforms[t].field) # Id
    BY DocumentsAssumption DEF Found, KeyBecomesId, mapping
<1>9. BecomesId(TheKey, item, mapping)
    BY <1>1, <1>2, <1>3, <1>4, <1>7, <1>8 DEF BecomesId
<1>10. image # <<>>
    BY <1>1, <1>2
<1> QED BY <1>3, <1>9, <1>10 DEF item, image

\* The fields of a key alone.
LEMMA KeyHasId ==
    ASSUME setup \in Setups, Found, NEW k \in setup.keys
    PROVE  LET item == convertFromAttributeValueMap(k)
           IN  /\ BecomesId(TheKey, item, mapping) /\ item[TheKey] = IdOf(k)
               /\ \A b \in DOMAIN item : b = TheKey
<1> DEFINE item == convertFromAttributeValueMap(k)
<1>1. /\ TheKey \in KeyAttributes /\ TheKey \in DOMAIN k
      /\ \A b \in KeyAttributes : b = TheKey
      /\ \A b \in DOMAIN k : b = TheKey
    BY OneKeyAttribute
<1>3. DOMAIN item = DOMAIN k /\ item[TheKey] = IdOf(k)
    BY <1>1 DEF convertFromAttributeValueMap, IdOf
<1> HIDE DEF item
<1>4. IsScalar(item[TheKey])
    BY <1>3, IdIsScalar
<1>6. \A b \in KeyAttributes : FieldName(b, mapping) = Id
    BY DEF Found, KeyBecomesId, FieldName
<1>7. \A b \in DOMAIN item : FieldName(b, mapping) = Id <=> b = TheKey
    BY <1>1, <1>3, <1>6
<1>8. ValidMapping(mapping) /\ \A t \in 1..Len(mapping.transforms) : Head(mapping.transforms[t].field) # Id
    BY DocumentsAssumption DEF Found, KeyBecomesId, mapping
<1>9. BecomesId(TheKey, item, mapping)
    BY <1>1, <1>3, <1>4, <1>7, <1>8 DEF BecomesId
<1> QED BY <1>1, <1>3, <1>9 DEF item
-----------------------------------------------------------------------------
(* The operation of a record *)

\* The documents that may come of an item.
DocumentsOfItem(k, rest) == ConvertDocument(convertFromAttributeValueMap(Over(k, rest)), mapping)

\* A document with the _id of a key.
IsOf(d, k) == Id \in DOMAIN d /\ d[Id] = IdOf(k)

\* A change of an item is an upsert of one of its documents, or nothing if one of
\* its conversions fails.
LEMMA UpsertOfItem ==
    ASSUME setup \in Setups, Found, NEW k \in setup.keys, NEW rest \in setup.others,
           NEW r, r.event = "MODIFY", r.image = Over(k, rest), NEW o \in Operations(r)
    PROVE  \/ o = None /\ Error \in DocumentsOfItem(k, rest)
           \/ \E d \in DocumentsOfItem(k, rest) :
                 o = [op |-> "upsert", doc |-> d[2]] /\ d # Error /\ IsOf(d[2], k)
<1>1. r.image # <<>>
    BY ItemHasId
<1>2. PICK d \in DocumentsOfItem(k, rest) :
          o = IF d = Error THEN None ELSE [op |-> "upsert", doc |-> d[2]]
    BY <1>1 DEF Operations, DocumentsOfItem
<1>3. CASE d = Error
    BY <1>2, <1>3
<1>4. CASE d # Error
    <2> DEFINE item == convertFromAttributeValueMap(Over(k, rest))
    <2>1. BecomesId(TheKey, item, mapping) /\ item[TheKey] = IdOf(k)
        BY ItemHasId
    <2>2. d \in ConvertDocument(item, mapping)
        BY <1>2 DEF DocumentsOfItem
    <2> HIDE DEF item
    <2>3. HasId(d, IdOf(k))
        BY <1>4, <2>1, <2>2, DocumentId
    <2>4. IsOf(d[2], k)
        BY <2>3 DEF HasId, IsOf
    <2> QED BY <1>2, <1>4, <2>4
<1> QED BY <1>3, <1>4

\* The filter of a delete is the _id alone: createDeleteFilter agrees with
\* ConvertDocument on the name and the value of the key.
LEMMA DeleteOfItem ==
    ASSUME setup \in Setups, Found, NEW k \in setup.keys,
           NEW r, r.event = "REMOVE", r.keys = k, NEW o \in Operations(r)
    PROVE  /\ o.op = "delete" /\ Id \in DOMAIN o.filter /\ o.filter[Id] = IdOf(k)
           /\ \A n \in DOMAIN o.filter : n = Id
<1> DEFINE item == convertFromAttributeValueMap(k)
           pk == mapping.primaryKey
<1>1. /\ BecomesId(TheKey, item, mapping) /\ item[TheKey] = IdOf(k)
      /\ \A b \in DOMAIN item : b = TheKey
    BY KeyHasId
<1>2. PICK f \in createDeleteFilter(k) : o = IF f = Error THEN None ELSE [op |-> "delete", filter |-> f[2]]
    BY DEF Operations
<1> HIDE DEF item
<1>3. \E s : f = <<"map", s>> /\ Id \in DOMAIN s /\ s[Id] = IdOf(k) /\ \A n \in DOMAIN s : n = Id
    <2>1. CASE pk # <<>> /\ pk[1] \in DOMAIN item
        <3>1. pk[1] = TheKey /\ pk[2] = Id
            BY <1>1, <2>1 DEF BecomesId, FieldName
        <3>2. convertValue(item[TheKey], mapping.naming) = {IdOf(k)}
            BY <1>1, ScalarIsKept DEF BecomesId
        <3>3. f = <<"map", Field(Id, IdOf(k))>>
            BY <1>2, <2>1, <3>1, <3>2 DEF createDeleteFilter, item
        <3> QED BY <3>3 DEF Field
    <2>2. CASE ~(pk # <<>> /\ pk[1] \in DOMAIN item)
        <3>1. f \in ConvertDocument(item, mapping)
            BY <1>2, <2>2 DEF createDeleteFilter, item
        <3>2. PICK s : f = <<"map", s>> /\ DOMAIN s = {Id} /\ s[Id] = item[TheKey]
            BY <1>1, <3>1, KeyDocument
        <3> QED BY <1>1, <3>2
    <2> QED BY <2>1, <2>2
<1>4. PICK s : f = <<"map", s>> /\ Id \in DOMAIN s /\ s[Id] = IdOf(k) /\ \A n \in DOMAIN s : n = Id
    BY <1>3
<1>5. f # Error /\ f[2] = s
    BY <1>4, NoErrorIsAMap
<1>6. o = [op |-> "delete", filter |-> s]
    BY <1>2, <1>5
<1> QED BY <1>4, <1>6
-----------------------------------------------------------------------------
(* Bags *)

LEMMA BagAdd ==
    ASSUME NEW B, IsABag(B), NEW d
    PROVE  /\ IsABag(B (+) SetToBag({d}))
           /\ DOMAIN (B (+) SetToBag({d})) = DOMAIN B \cup {d}
           /\ \A e \in DOMAIN B \cup {d} :
                 (B (+) SetToBag({d}))[e] = (IF e \in DOMAIN B THEN B[e] ELSE 0) + (IF e = d THEN 1 ELSE 0)
<1> DEFINE C == B (+) SetToBag({d})
<1>1. \A e \in DOMAIN B : B[e] \in Nat /\ B[e] > 0
    BY DEF IsABag
<1>2. C = [e \in DOMAIN B \cup {d} |-> (IF e \in DOMAIN B THEN B[e] ELSE 0) + (IF e \in {d} THEN 1 ELSE 0)]
    BY DEF (+), SetToBag
<1>3. DOMAIN C = DOMAIN B \cup {d}
    BY <1>2
<1>4. \A e \in DOMAIN B \cup {d} : C[e] = (IF e \in DOMAIN B THEN B[e] ELSE 0) + (IF e = d THEN 1 ELSE 0)
    BY <1>2
<1>5. C = [e \in DOMAIN C |-> C[e]]
    BY <1>2
<1> HIDE DEF C
<1>6. \A e \in DOMAIN C : C[e] \in Nat /\ C[e] > 0
    BY <1>1, <1>3, <1>4
<1>7. IsABag(C)
    BY <1>5, <1>6 DEF IsABag
<1> QED BY <1>3, <1>4, <1>7 DEF C

LEMMA BagAddNone ==
    ASSUME NEW B, IsABag(B)
    PROVE  B (+) EmptyBag = B
<1>1. B \in [DOMAIN B -> {n \in Nat : n > 0}]
    BY DEF IsABag
<1>2. B (+) EmptyBag = [e \in DOMAIN B |-> B[e] + 0]
    BY <1>1 DEF (+), EmptyBag, SetToBag
<1> QED BY <1>1, <1>2

Taken(B, d) == B (-) SetToBag({d})

LEMMA BagTake ==
    ASSUME NEW B, IsABag(B), NEW d \in DOMAIN B
    PROVE  /\ IsABag(Taken(B, d))
           /\ B[d] = 1 => d \notin DOMAIN Taken(B, d)
           /\ DOMAIN Taken(B, d) \subseteq DOMAIN B
           /\ \A e \in DOMAIN B : e # d => e \in DOMAIN Taken(B, d) /\ Taken(B, d)[e] = B[e]
<1> DEFINE A == [e \in DOMAIN B |-> IF e \in {d} THEN B[e] - 1 ELSE B[e]]
           C == [e \in {x \in DOMAIN A : A[x] > 0} |-> A[e]]
<1>1. \A e \in DOMAIN B : B[e] \in Nat /\ B[e] > 0
    BY DEF IsABag
<1>2. Taken(B, d) = C
    BY DEF Taken, (-), SetToBag
<1>3. DOMAIN A = DOMAIN B /\ \A e \in DOMAIN B : A[e] = IF e = d THEN B[e] - 1 ELSE B[e]
    OBVIOUS
<1>4. \A e \in DOMAIN B : A[e] \in Nat
    BY <1>1, <1>3
<1> HIDE DEF A
<1>5. DOMAIN C = {x \in DOMAIN B : A[x] > 0} /\ \A e \in DOMAIN C : C[e] = A[e]
    BY <1>3
<1>6. C \in [DOMAIN C -> {n \in Nat : n > 0}]
    BY <1>4, <1>5
<1> HIDE DEF C
<1>7. IsABag(C)
    BY <1>6 DEF IsABag
<1> QED BY <1>1, <1>2, <1>3, <1>5, <1>7
-----------------------------------------------------------------------------
(* The collection *)

\* Every document is that of a key with a record, and the only one with its _id.
Clean ==
    /\ \A d \in DOMAIN target :
          /\ target[d] = 1
          /\ \E k \in setup.keys : IsOf(d, k) /\ \E n \in DOMAIN log : log[n].keys = k
    /\ \A d, e \in DOMAIN target : \A k \in setup.keys : IsOf(d, k) /\ IsOf(e, k) => d = e

\* Documents of different keys are different.
LEMMA OneKeyEach ==
    ASSUME setup \in Setups, Found, NEW k \in setup.keys, NEW l \in setup.keys,
           NEW d, IsOf(d, k), IsOf(d, l)
    PROVE  k = l
BY IdsDiffer DEF IsOf, Same

\* The documents of a key are those that have its _id.
LEMMA DocumentsOfKey ==
    ASSUME setup \in Setups, Found, Clean, NEW k \in setup.keys, NEW d
    PROVE  d \in DocumentsOf(k) <=> d \in DOMAIN target /\ IsOf(d, k)
<1>1. TheKey \in DOMAIN k /\ \A b \in DOMAIN k : b = TheKey
    BY OneKeyAttribute
<1>2. d \in DocumentsOf(k) <=> d \in DOMAIN target /\ Id \in DOMAIN d /\ Same(d[Id], IdOf(k))
    BY <1>1 DEF DocumentsOf, BagToSet, IdOf
<1>3. ASSUME d \in DOMAIN target, Same(d[Id], IdOf(k)) PROVE IsOf(d, k)
    <2>1. PICK l \in setup.keys : IsOf(d, l)
        BY <1>3 DEF Clean
    <2>2. l = k
        BY <1>3, <2>1, IdsDiffer DEF IsOf
    <2> QED BY <2>1, <2>2
<1> QED BY <1>2, <1>3 DEF IsOf, Same

\* So do the documents that a filter by the _id matches.
LEMMA MatchingKey ==
    ASSUME setup \in Setups, Found, Clean, NEW k \in setup.keys, NEW f, NEW d,
           Id \in DOMAIN f, \A n \in DOMAIN f : n = Id, f[Id] = IdOf(k)
    PROVE  d \in Matching(f) <=> d \in DOMAIN target /\ IsOf(d, k)
<1>1. d \in Matching(f) <=> d \in DOMAIN target /\ Id \in DOMAIN d /\ Same(d[Id], IdOf(k))
    BY DEF Matching, BagToSet
<1>2. ASSUME d \in DOMAIN target, Same(d[Id], IdOf(k)) PROVE IsOf(d, k)
    <2>1. PICK l \in setup.keys : IsOf(d, l)
        BY <1>2 DEF Clean
    <2>2. l = k
        BY <1>2, <2>1, IdsDiffer DEF IsOf
    <2> QED BY <2>1, <2>2
<1> QED BY <1>1, <1>2 DEF IsOf, Same

\* An operation keeps the collection a bag, whatever the mapping.
LEMMA ExecuteKeepsBag ==
    ASSUME IsABag(target), NEW o, NEW t \in Execute(o)
    PROVE  IsABag(t)
<1> DEFINE replaced == IF o.op = "delete" THEN Matching(o.filter)
                       ELSE IF o.op = "upsert" /\ Id \in DOMAIN o.doc THEN Matching(Field(Id, o.doc[Id]))
                       ELSE {}
           added == IF o.op = "upsert" THEN SetToBag({o.doc}) ELSE EmptyBag
<1>1. t \in IF replaced = {} THEN {target (+) added}
            ELSE {(target (-) SetToBag({d})) (+) added : d \in replaced}
    BY DEF Execute
<1>2. replaced \subseteq DOMAIN target
    BY DEF Matching, BagToSet
<1> HIDE DEF replaced
<1>3. ASSUME NEW B, IsABag(B) PROVE IsABag(B (+) added)
    <2>1. CASE o.op = "upsert" BY <1>3, <2>1, BagAdd
    <2>2. CASE o.op # "upsert" BY <1>3, <2>2, BagAddNone
    <2> QED BY <2>1, <2>2
<1> HIDE DEF added
<1>4. CASE replaced = {}
    BY <1>1, <1>3, <1>4
<1>5. CASE replaced # {}
    <2>1. PICK d \in replaced : t = Taken(target, d) (+) added
        BY <1>1, <1>5 DEF Taken
    <2>2. IsABag(Taken(target, d))
        BY <1>2, <2>1, BagTake
    <2> QED BY <1>3, <2>1, <2>2
<1> QED BY <1>4, <1>5

\* Taking one document of a key takes all there are.
LEMMA TakeKey ==
    ASSUME setup \in Setups, Found, Clean, IsABag(target), NEW k \in setup.keys,
           NEW d \in DOMAIN target, IsOf(d, k)
    PROVE  LET t == Taken(target, d)
           IN  /\ IsABag(t) /\ \A e \in DOMAIN t : t[e] = 1
               /\ \A e : e \in DOMAIN t <=> e \in DOMAIN target /\ ~IsOf(e, k)
<1> DEFINE t == Taken(target, d)
<1>1. target[d] = 1
    BY DEF Clean
<1>2. /\ IsABag(t) /\ d \notin DOMAIN t /\ DOMAIN t \subseteq DOMAIN target
      /\ \A e \in DOMAIN target : e # d => e \in DOMAIN t /\ t[e] = target[e]
    BY <1>1, BagTake
<1>3. \A e \in DOMAIN target : IsOf(e, k) <=> e = d
    BY DEF Clean
<1> HIDE DEF t
<1>4. \A e \in DOMAIN t : t[e] = 1
    BY <1>2 DEF Clean
<1> QED BY <1>2, <1>3, <1>4 DEF t

\* An upsert leaves the key one document, and the others as they were.
LEMMA UpsertsKey ==
    ASSUME setup \in Setups, Found, Clean, IsABag(target), NEW k \in setup.keys,
           NEW doc, IsOf(doc, k), NEW t \in Execute([op |-> "upsert", doc |-> doc])
    PROVE  /\ \A e : e \in DOMAIN t <=> (e \in DOMAIN target /\ ~IsOf(e, k)) \/ e = doc
           /\ \A e \in DOMAIN t : t[e] = 1
<1> DEFINE replaced == Matching(Field(Id, doc[Id]))
<1>1. t \in IF replaced = {} THEN {target (+) SetToBag({doc})}
            ELSE {(target (-) SetToBag({d})) (+) SetToBag({doc}) : d \in replaced}
    BY DEF Execute, IsOf
<1>2. \A d : d \in replaced <=> d \in DOMAIN target /\ IsOf(d, k)
    <2>1. Id \in DOMAIN Field(Id, doc[Id]) /\ \A n \in DOMAIN Field(Id, doc[Id]) : n = Id
        BY DEF Field
    <2>2. Field(Id, doc[Id])[Id] = IdOf(k)
        BY DEF Field, IsOf
    <2> QED BY <2>1, <2>2, MatchingKey
<1> HIDE DEF replaced
<1>3. PICK B : /\ t = B (+) SetToBag({doc}) /\ IsABag(B) /\ \A e \in DOMAIN B : B[e] = 1
               /\ \A e : e \in DOMAIN B <=> e \in DOMAIN target /\ ~IsOf(e, k)
    <2>1. CASE replaced = {}
        <3>1. t = target (+) SetToBag({doc})
            BY <1>1, <2>1
        <3>2. \A e \in DOMAIN target : target[e] = 1 /\ ~IsOf(e, k)
            BY <1>2, <2>1 DEF Clean
        <3> QED BY <3>1, <3>2
    <2>2. CASE replaced # {}
        <3>1. PICK d \in replaced : t = Taken(target, d) (+) SetToBag({doc})
            BY <1>1, <2>2 DEF Taken
        <3>2. d \in DOMAIN target /\ IsOf(d, k)
            BY <1>2, <3>1
        <3> DEFINE B == Taken(target, d)
        <3>3. /\ IsABag(B) /\ \A e \in DOMAIN B : B[e] = 1
              /\ \A e : e \in DOMAIN B <=> e \in DOMAIN target /\ ~IsOf(e, k)
            BY <3>2, TakeKey
        <3> HIDE DEF B
        <3> QED BY <3>1, <3>3 DEF B
    <2> QED BY <2>1, <2>2
<1>4. doc \notin DOMAIN B
    BY <1>3
<1>5. /\ DOMAIN t = DOMAIN B \cup {doc}
      /\ \A e \in DOMAIN B \cup {doc} : t[e] = (IF e \in DOMAIN B THEN B[e] ELSE 0) + (IF e = doc THEN 1 ELSE 0)
    BY <1>3, BagAdd
<1>6. \A e \in DOMAIN t : t[e] = 1
    BY <1>3, <1>4, <1>5
<1> QED BY <1>3, <1>5, <1>6

\* A delete by the _id leaves the key no document, and the others as they were.
LEMMA DeletesKey ==
    ASSUME setup \in Setups, Found, Clean, IsABag(target), NEW k \in setup.keys,
           NEW o, o.op = "delete", Id \in DOMAIN o.filter, o.filter[Id] = IdOf(k),
           \A n \in DOMAIN o.filter : n = Id,
           NEW t \in Execute(o)
    PROVE  /\ \A e : e \in DOMAIN t <=> e \in DOMAIN target /\ ~IsOf(e, k)
           /\ \A e \in DOMAIN t : t[e] = 1
<1> DEFINE replaced == Matching(o.filter)
<1>1. t \in IF replaced = {} THEN {target (+) EmptyBag}
            ELSE {(target (-) SetToBag({d})) (+) EmptyBag : d \in replaced}
    BY DEF Execute
<1>2. \A d : d \in replaced <=> d \in DOMAIN target /\ IsOf(d, k)
    BY MatchingKey
<1> HIDE DEF replaced
<1>3. CASE replaced = {}
    <2>1. t = target
        BY <1>1, <1>3, BagAddNone
    <2>2. \A e \in DOMAIN target : target[e] = 1 /\ ~IsOf(e, k)
        BY <1>2, <1>3 DEF Clean
    <2> QED BY <2>1, <2>2
<1>4. CASE replaced # {}
    <2>1. PICK d \in replaced : t = Taken(target, d) (+) EmptyBag
        BY <1>1, <1>4 DEF Taken
    <2>2. d \in DOMAIN target /\ IsOf(d, k)
        BY <1>2, <2>1
    <2> DEFINE B == Taken(target, d)
    <2>3. /\ IsABag(B) /\ \A e \in DOMAIN B : B[e] = 1
          /\ \A e : e \in DOMAIN B <=> e \in DOMAIN target /\ ~IsOf(e, k)
        BY <2>2, TakeKey
    <2> HIDE DEF B
    <2>4. t = B
        BY <2>1, <2>3, BagAddNone DEF B
    <2> QED BY <2>3, <2>4
<1> QED BY <1>3, <1>4

LEMMA NoneChangesNothing ==
    ASSUME IsABag(target), NEW t \in Execute(None)
    PROVE  t = target
<1>1. t = target (+) EmptyBag
    BY DEF Execute, None
<1> QED BY <1>1, BagAddNone
-----------------------------------------------------------------------------
(* The inductive invariant *)

LogRecord ==
    [shard : Shards, event : {"MODIFY", "REMOVE"}, keys : setup.keys,
     image : {<<>>} \cup {Over(k, rest) : k \in setup.keys, rest \in setup.others}]

\* TypeOK but for the bound of got.
Types ==
    /\ setup \in Setups
    /\ DOMAIN table \subseteq setup.keys
    /\ \A k \in DOMAIN table : table[k] \in setup.others
    /\ log \in Seq(LogRecord)
    /\ open \in Shards
    /\ IsABag(target)
    /\ at \in 1..(Len(order) + 1) /\ pos \in 0..Len(log) /\ got \in Nat

\* The log fills one shard after the other; a change carries the item if records do.
LogInv ==
    /\ \A n \in DOMAIN log : log[n].shard <= open
    /\ \A m, n \in DOMAIN log : m < n => log[m].shard <= log[n].shard
    /\ \A n \in DOMAIN log : log[n].event = "MODIFY" =>
          \E rest \in setup.others :
              log[n].image = IF setup.view THEN Over(log[n].keys, rest) ELSE <<>>

\* Record n is the last of key k among the first m.
IsLast(n, k, m) ==
    /\ n <= m /\ log[n].keys = k
    /\ \A x \in DOMAIN log : n < x /\ x <= m => log[x].keys # k

\* The last record of a key says what the table holds of it.
TableInv ==
    \A k \in setup.keys :
        \/ k \notin DOMAIN table /\ \A n \in DOMAIN log : log[n].keys # k
        \/ \E n \in DOMAIN log :
              /\ IsLast(n, k, Len(log))
              /\ \/ log[n].event = "REMOVE" /\ k \notin DOMAIN table
                 \/ /\ log[n].event = "MODIFY" /\ k \in DOMAIN table
                    /\ setup.view => log[n].image = Over(k, table[k])

\* Nothing is read before the shards are in order; shards have the numbers they
\* were opened with, the newest perhaps none.
CycleInv ==
    /\ sort \notin {"sorted", "unsorted"} => at = 1 /\ pos = 0 /\ got = 0
    /\ \A s \in DOMAIN details :
          \/ details[s] = setup.first + s
          \/ details[s] = NoNumber /\ \A t \in DOMAIN details : t <= s

\* The records passed in this cycle; some came after their shard was read.
Passed ==
    {n \in DOMAIN log : \E a \in DOMAIN order :
        log[n].shard = order[a] /\ (a < at \/ (a = at /\ n <= pos))}

CountInv == got <= Cardinality(Passed)

\* What is still to be read comes after record m.
Ahead(m) ==
    /\ at <= Len(order) => \A n \in DOMAIN log : log[n].shard = order[at] /\ pos < n => m < n
    /\ \A b \in DOMAIN order : at < b => \A n \in DOMAIN log : log[n].shard = order[b] => m < n

\* The collection has of key k what record n left.
Reflects(k, n) ==
    \/ log[n].event = "REMOVE" /\ \A d \in DOMAIN target : ~IsOf(d, k)
    \/ /\ log[n].event = "MODIFY"
       /\ LET documents == ConvertDocument(convertFromAttributeValueMap(log[n].image), mapping)
          IN Error \in documents \/ \E d \in documents : d[2] \in DOMAIN target /\ IsOf(d[2], k)

\* The collection is what the first m records make of it.
Agrees(m) ==
    \A k \in setup.keys : \A n \in DOMAIN log : IsLast(n, k, m) => Reflects(k, n)

\* The last record read is m; if as many were read, none was missed.
ReadInv ==
    sort \in {"sorted", "unsorted"} /\ Ordered =>
        \E m \in 0..Len(log) : got <= m /\ Ahead(m) /\ (Found /\ got = m => Agrees(m))

DocumentsInv ==
    /\ SortInv /\ Types /\ LogInv /\ TableInv /\ CycleInv /\ CountInv
    /\ Found => Clean
    /\ ReadInv
-----------------------------------------------------------------------------
(* The steps *)

\* What a change of the table does: it appends a record that says what the table
\* holds of its key now, and leaves the other keys alone.
LEMMA ChangeAppends ==
    ASSUME Types, \E k \in setup.keys : Remove(k) \/ \E rest \in setup.others : Put(k, rest)
    PROVE  \E r \in LogRecord :
              /\ Record(r) /\ r.shard = open
              /\ DOMAIN table' \subseteq setup.keys /\ \A k \in DOMAIN table' : table'[k] \in setup.others
              /\ r.event = "MODIFY" => \E rest \in setup.others :
                    r.image = IF setup.view THEN Over(r.keys, rest) ELSE <<>>
              /\ \A k \in setup.keys : k # r.keys =>
                    /\ k \in DOMAIN table' <=> k \in DOMAIN table
                    /\ k \in DOMAIN table => table'[k] = table[k]
              /\ r.event = "REMOVE" => r.keys \notin DOMAIN table'
              /\ r.event = "MODIFY" =>
                    r.keys \in DOMAIN table' /\ (setup.view => r.image = Over(r.keys, table'[r.keys]))
<1>0. open \in Shards /\ DOMAIN table \subseteq setup.keys /\ \A k \in DOMAIN table : table[k] \in setup.others
    BY DEF Types
<1>1. PICK k \in setup.keys : Remove(k) \/ \E rest \in setup.others : Put(k, rest)
    OBVIOUS
<1>2. CASE Remove(k)
    <2> DEFINE r == [shard |-> open, event |-> "REMOVE", keys |-> k, image |-> <<>>]
    <2>1. r \in LogRecord
        BY <1>0 DEF LogRecord
    <2>2. Record(r) /\ table' = [x \in DOMAIN table \ {k} |-> table[x]]
        BY <1>2 DEF Remove
    <2>3. r.shard = open /\ r.event = "REMOVE" /\ r.keys = k
        OBVIOUS
    <2> HIDE DEF r
    <2>4. /\ DOMAIN table' \subseteq setup.keys /\ \A x \in DOMAIN table' : table'[x] \in setup.others
          /\ \A x \in setup.keys : x # k =>
                (x \in DOMAIN table' <=> x \in DOMAIN table) /\ (x \in DOMAIN table => table'[x] = table[x])
          /\ k \notin DOMAIN table'
        BY <1>0, <2>2
    <2> QED BY <2>1, <2>2, <2>3, <2>4
<1>3. CASE \E rest \in setup.others : Put(k, rest)
    <2>0. PICK rest \in setup.others : Put(k, rest)
        BY <1>3
    <2> DEFINE image == IF setup.view THEN Over(k, rest) ELSE <<>>
               r == [shard |-> open, event |-> "MODIFY", keys |-> k, image |-> image]
    <2>1. image \in {<<>>} \cup {Over(x, y) : x \in setup.keys, y \in setup.others}
        OBVIOUS
    <2>2. Record(r) /\ table' = Over(Field(k, rest), table)
        BY <2>0 DEF Put
    <2>3. image = IF setup.view THEN Over(k, rest) ELSE <<>>
        OBVIOUS
    <2> HIDE DEF image
    <2>4. r \in LogRecord
        BY <1>0, <2>1 DEF LogRecord
    <2>5. r.shard = open /\ r.event = "MODIFY" /\ r.keys = k /\ r.image = image
        OBVIOUS
    <2> HIDE DEF r
    <2>6. DOMAIN table' = DOMAIN table \cup {k} /\ table'[k] = rest
        BY <2>2 DEF Over, Field
    <2>7. \A x \in DOMAIN table : x # k => table'[x] = table[x]
        BY <2>2 DEF Over, Field
    <2>8. DOMAIN table' \subseteq setup.keys /\ \A x \in DOMAIN table' : table'[x] \in setup.others
        BY <1>0, <2>6, <2>7
    <2>9. \A x \in setup.keys : x # k =>
              (x \in DOMAIN table' <=> x \in DOMAIN table) /\ (x \in DOMAIN table => table'[x] = table[x])
        BY <2>6, <2>7
    <2> QED BY <2>2, <2>3, <2>4, <2>5, <2>6, <2>8, <2>9
<1> QED BY <1>1, <1>2, <1>3

\* A sequence and what is appended to it.
LEMMA Appended ==
    ASSUME NEW S, NEW s \in Seq(S), NEW r \in S
    PROVE  /\ Append(s, r) \in Seq(S) /\ Len(Append(s, r)) = Len(s) + 1 /\ Len(s) \in Nat
           /\ DOMAIN s = 1..Len(s) /\ DOMAIN Append(s, r) = 1..(Len(s) + 1)
           /\ \A n \in DOMAIN s : n \in DOMAIN Append(s, r) /\ Append(s, r)[n] = s[n]
           /\ Append(s, r)[Len(s) + 1] = r
OBVIOUS

\* Before the shards are in order only the sort takes steps.
LEMMA SortSteps ==
    ASSUME Types, ListShards \/ ListDetails \/ Sort
    PROVE  /\ [SortNext]_sortVars /\ sort \notin {"sorted", "unsorted"}
           /\ UNCHANGED <<source, target, at, pos, got>>
           /\ \/ details' = details
              \/ \E S \in SUBSET (1..open), late \in BOOLEAN :
                    details' = [s \in S |-> IF late /\ s = open THEN NoNumber ELSE setup.first + s]
<1>0. open \in Shards /\ 1..open \subseteq Shards /\ Shards \subseteq Nat /\ setup.first \in Nat
    BY DocumentsAssumption, FS_CardinalityType DEF Types
<1>1. CASE ListShards
    BY <1>1 DEF ListShards, GetStreamShards, SortNext
<1>2. CASE ListDetails
    <2>1. PICK S \in SUBSET (1..open), late \in BOOLEAN :
              /\ getShardDetails([s \in S |-> IF late /\ s = open THEN NoNumber ELSE setup.first + s])
              /\ UNCHANGED <<source, target, at, pos, got>>
        BY <1>2 DEF ListDetails
    <2> DEFINE d == [s \in S |-> IF late /\ s = open THEN NoNumber ELSE setup.first + s]
    <2>2. S \in SUBSET Shards
        BY <1>0
    <2>3. d \in [S -> SequenceNumber]
        BY <1>0, <2>2 DEF SequenceNumber
    <2>4. getShardDetails(d) /\ details' = d /\ sort = "asked"
        BY <2>1 DEF getShardDetails
    <2>5. details' = [s \in S |-> IF late /\ s = open THEN NoNumber ELSE setup.first + s]
        BY <2>4
    <2> HIDE DEF d
    <2>6. SortNext
        BY <2>2, <2>3, <2>4 DEF SortNext
    <2> QED BY <2>1, <2>4, <2>5, <2>6
<1>3. CASE Sort
    BY <1>3 DEF Sort, NoDetails, SortStep, FilterShard, FilterDone, Compare, NextPlace, SortDone, SortNext
<1> QED BY <1>1, <1>2, <1>3

\* The sort goes its own way.
LEMMA SortsOn == Types /\ [Next]_vars => [SortNext]_sortVars
<1> SUFFICES ASSUME Types, [Next]_vars PROVE [SortNext]_sortVars
    OBVIOUS
<1>1. CASE \E k \in setup.keys : Remove(k) \/ \E rest \in setup.others : Put(k, rest)
    BY <1>1 DEF Remove, Put, Record
<1>2. CASE Roll BY <1>2 DEF Roll
<1>3. CASE ListShards \/ ListDetails \/ Sort BY <1>3, SortSteps
<1>4. CASE ReadRecord BY <1>4 DEF ReadRecord
<1>5. CASE NextShard \/ LeaveShard BY <1>5 DEF NextShard, LeaveShard, GoOn
<1>6. CASE NextCycle BY <1>6 DEF NextCycle, SortNext
<1>7. CASE UNCHANGED vars BY <1>7 DEF vars
<1> QED BY <1>1, <1>2, <1>3, <1>4, <1>5, <1>6, <1>7 DEF Next

LEMMA SortInvStep == SortInv /\ Types /\ [Next]_vars => SortInv'
BY SortsOn, TypeStep, FilterStep, ExchangeStep DEF SortInv

\* Nothing becomes of a step that touches none of what an operator is about.
LEMMA SameSetup ==
    ASSUME setup' = setup
    PROVE  /\ (Found' <=> Found) /\ LogRecord' = LogRecord /\ mapping' = mapping
           /\ \A d, k : IsOf(d, k)' <=> IsOf(d, k)
<1>1. mapping' = mapping
    BY DEF mapping
<1>2. Found' <=> Found
    BY DEF Found, KeyBecomesId, KeysAreExact, mapping, KeyAttributes
<1>3. LogRecord' = LogRecord
    BY DEF LogRecord
<1>4. \A d, k : IsOf(d, k)' <=> IsOf(d, k)
    BY DEF IsOf, IdOf, TheKey, KeyAttributes
<1> QED BY <1>1, <1>2, <1>3, <1>4
-----------------------------------------------------------------------------
(* Types, the log and the table *)

LEMMA TypesStep == SortInv /\ Types /\ CycleInv /\ [Next]_vars => Types'
<1> SUFFICES ASSUME SortInv, Types, CycleInv, [Next]_vars PROVE Types'
    OBVIOUS
<1>0. /\ setup \in Setups /\ DOMAIN table \subseteq setup.keys /\ \A k \in DOMAIN table : table[k] \in setup.others
      /\ log \in Seq(LogRecord) /\ open \in Shards /\ IsABag(target)
      /\ at \in 1..(Len(order) + 1) /\ pos \in 0..Len(log) /\ got \in Nat
      /\ Len(log) \in Nat /\ Len(order) \in Nat
    BY DEF Types, SortInv, SortTypeOK
<1>1. CASE \E k \in setup.keys : Remove(k) \/ \E rest \in setup.others : Put(k, rest)
    <2>1. PICK r \in LogRecord :
              /\ Record(r)
              /\ DOMAIN table' \subseteq setup.keys /\ \A k \in DOMAIN table' : table'[k] \in setup.others
        BY <1>1, ChangeAppends
    <2>2. log' \in Seq(LogRecord) /\ Len(log') = Len(log) + 1
        BY <1>0, <2>1, Appended DEF Record
    <2>3. UNCHANGED <<setup, open, target, at, pos, got, order>>
        BY <2>1 DEF Record, sortVars
    <2>4. LogRecord' = LogRecord
        BY <2>3, SameSetup
    <2>5. log' \in Seq(LogRecord')
        BY <2>2, <2>4
    <2>6. pos \in 0..(Len(log) + 1)
        BY <1>0
    <2>7. IsABag(target')
        BY <1>0, <2>3
    <2> QED BY <1>0, <2>1, <2>2, <2>3, <2>5, <2>6, <2>7 DEF Types
<1>2. CASE Roll
    <2>1. open' \in Shards /\ UNCHANGED <<setup, table, log, target, at, pos, got, order>>
        BY <1>2 DEF Roll, sortVars
    <2>2. log' \in Seq(LogRecord') /\ IsABag(target')
        BY <1>0, <2>1, SameSetup
    <2> QED BY <1>0, <2>1, <2>2 DEF Types
<1>3. CASE ListShards \/ ListDetails \/ Sort
    <2>1. UNCHANGED <<source, target, at, pos, got>> /\ sort \notin {"sorted", "unsorted"}
        BY <1>3, SortSteps
    <2>2. at = 1 /\ order' \in Seq(Shards)
        BY <2>1, SortInvStep DEF CycleInv, SortInv, SortTypeOK
    <2>3. at \in 1..(Len(order') + 1)
        BY <2>2
    <2>4. log' \in Seq(LogRecord') /\ IsABag(target')
        BY <1>0, <2>1, SameSetup DEF source
    <2> QED BY <1>0, <2>1, <2>3, <2>4 DEF Types, source
<1>4. CASE ReadRecord
    <2>1. PICK n \in DOMAIN log : pos' = n /\ \E o \in Operations(log[n]) : target' \in Execute(o)
        BY <1>4 DEF ReadRecord
    <2>2. IsABag(target')
        BY <1>0, <2>1, ExecuteKeepsBag
    <2>3. UNCHANGED <<source, at, order>> /\ got' = got + 1
        BY <1>4 DEF ReadRecord, sortVars
    <2>4. log' \in Seq(LogRecord') /\ pos' \in 0..Len(log)
        BY <1>0, <2>1, <2>3, SameSetup DEF source
    <2> QED BY <1>0, <2>2, <2>3, <2>4 DEF Types, source
<1>5. CASE NextShard \/ LeaveShard
    <2>1. UNCHANGED <<source, target, got, order>> /\ at <= Len(order) /\ at' = at + 1 /\ pos' = 0
        BY <1>5 DEF NextShard, LeaveShard, GoOn, Reading, sortVars
    <2>2. log' \in Seq(LogRecord') /\ IsABag(target')
        BY <1>0, <2>1, SameSetup DEF source
    <2> QED BY <1>0, <2>1, <2>2 DEF Types, source
<1>6. CASE NextCycle
    <2>1. UNCHANGED <<source, target>> /\ order' = <<>> /\ at' = 1 /\ pos' = 0 /\ got' = 0
        BY <1>6 DEF NextCycle, NextSort
    <2>2. log' \in Seq(LogRecord') /\ IsABag(target') /\ Len(order') = 0
        BY <1>0, <2>1, SameSetup DEF source
    <2> QED BY <1>0, <2>1, <2>2 DEF Types, source
<1>7. CASE UNCHANGED vars
    <2>1. UNCHANGED <<source, target, at, pos, got, order>>
        BY <1>7 DEF vars, sortVars
    <2>2. log' \in Seq(LogRecord') /\ IsABag(target')
        BY <1>0, <2>1, SameSetup DEF source
    <2> QED BY <1>0, <2>1, <2>2 DEF Types, source
<1> QED BY <1>1, <1>2, <1>3, <1>4, <1>5, <1>6, <1>7 DEF Next

\* No step but a change of the table touches it or the log.
LEMMA LogGrows ==
    ASSUME Types, [Next]_vars, ~\E k \in setup.keys : Remove(k) \/ \E rest \in setup.others : Put(k, rest)
    PROVE  UNCHANGED <<setup, table, log>> /\ (open' = open \/ (open' = open + 1 /\ Roll))
<1>1. CASE ListShards \/ ListDetails \/ Sort
    BY <1>1, SortSteps DEF source
<1> QED BY <1>1 DEF Next, Roll, ReadRecord, NextShard, LeaveShard, GoOn, NextCycle, vars, source

LEMMA SetupStays == Types /\ [Next]_vars => setup' = setup
BY LogGrows DEF Remove, Put, Record

LEMMA LogInvStep == Types /\ LogInv /\ [Next]_vars => LogInv'
<1> SUFFICES ASSUME Types, LogInv, [Next]_vars PROVE LogInv'
    OBVIOUS
<1>0. open \in Nat /\ log \in Seq(LogRecord) /\ DOMAIN log = 1..Len(log) /\ Len(log) \in Nat
    BY DocumentsAssumption, FS_CardinalityType DEF Types
<1>1. \A n \in DOMAIN log : log[n].shard \in Nat
    <2>1. \A n \in DOMAIN log : log[n] \in LogRecord
        BY <1>0
    <2>2. \A r \in LogRecord : r.shard \in Shards
        BY DEF LogRecord
    <2>3. \A s \in Shards : s \in Nat
        BY DocumentsAssumption, FS_CardinalityType
    <2> QED BY <2>1, <2>2, <2>3
<1>2. CASE \E k \in setup.keys : Remove(k) \/ \E rest \in setup.others : Put(k, rest)
    <2>1. PICK r \in LogRecord :
              /\ Record(r) /\ r.shard = open
              /\ r.event = "MODIFY" => \E rest \in setup.others :
                    r.image = IF setup.view THEN Over(r.keys, rest) ELSE <<>>
        BY <1>2, ChangeAppends
    <2>2. log' = Append(log, r) /\ open' = open /\ setup' = setup
        BY <2>1 DEF Record
    <2>3. /\ DOMAIN log' = 1..(Len(log) + 1)
          /\ \A n \in DOMAIN log : log'[n] = log[n]
          /\ log'[Len(log) + 1] = r
        BY <1>0, <2>2, Appended
    <2>4. \A n \in DOMAIN log' : n \in DOMAIN log \/ n = Len(log) + 1
        BY <1>0, <2>3
    <2>5. \A n \in DOMAIN log' : log'[n].shard <= open
        BY <1>0, <2>1, <2>3, <2>4 DEF LogInv
    <2>6. \A m, n \in DOMAIN log' : m < n => m \in DOMAIN log
        BY <1>0, <2>3
    <2>7. \A m, n \in DOMAIN log' : m < n => log'[m].shard <= log'[n].shard
        <3> SUFFICES ASSUME NEW m \in DOMAIN log', NEW n \in DOMAIN log', m < n
                     PROVE  log'[m].shard <= log'[n].shard
            OBVIOUS
        <3>1. m \in DOMAIN log /\ log'[m] = log[m]
            BY <2>3, <2>6
        <3>2. CASE n \in DOMAIN log BY <2>3, <3>1, <3>2 DEF LogInv
        <3>3. CASE n = Len(log) + 1 BY <2>1, <2>3, <2>5, <3>1, <3>3
        <3> QED BY <2>4, <3>2, <3>3
    <2>8. \A n \in DOMAIN log' : log'[n].event = "MODIFY" =>
              \E rest \in setup.others :
                  log'[n].image = IF setup.view THEN Over(log'[n].keys, rest) ELSE <<>>
        BY <2>1, <2>3, <2>4 DEF LogInv
    <2> QED BY <2>2, <2>5, <2>7, <2>8 DEF LogInv
<1>3. CASE ~\E k \in setup.keys : Remove(k) \/ \E rest \in setup.others : Put(k, rest)
    <2>1. UNCHANGED <<setup, log>> /\ (open' = open \/ open' = open + 1)
        BY <1>3, LogGrows
    <2>2. \A n \in DOMAIN log : log[n].shard <= open'
        BY <1>0, <1>1, <2>1 DEF LogInv
    <2> QED BY <2>1, <2>2 DEF LogInv
<1> QED BY <1>2, <1>3

LEMMA TableInvStep == Types /\ TableInv /\ [Next]_vars => TableInv'
<1> SUFFICES ASSUME Types, TableInv, [Next]_vars PROVE TableInv'
    OBVIOUS
<1>0. /\ log \in Seq(LogRecord) /\ DOMAIN log = 1..Len(log) /\ Len(log) \in Nat
      /\ DOMAIN table \subseteq setup.keys
    BY DEF Types
<1>1. CASE \E k \in setup.keys : Remove(k) \/ \E rest \in setup.others : Put(k, rest)
    <2>1. PICK r \in LogRecord :
              /\ Record(r)
              /\ \A k \in setup.keys : k # r.keys =>
                    /\ k \in DOMAIN table' <=> k \in DOMAIN table
                    /\ k \in DOMAIN table => table'[k] = table[k]
              /\ r.event = "REMOVE" => r.keys \notin DOMAIN table'
              /\ r.event = "MODIFY" =>
                    r.keys \in DOMAIN table' /\ (setup.view => r.image = Over(r.keys, table'[r.keys]))
        BY <1>1, ChangeAppends
    <2>2. log' = Append(log, r) /\ setup' = setup
        BY <2>1 DEF Record
    <2>3. /\ DOMAIN log' = 1..(Len(log) + 1) /\ Len(log') = Len(log) + 1
          /\ \A n \in DOMAIN log : log'[n] = log[n]
          /\ log'[Len(log) + 1] = r
        BY <1>0, <2>2, Appended
    <2>4. \A n \in DOMAIN log' : n \in DOMAIN log \/ n = Len(log) + 1
        BY <1>0, <2>3
    <2> SUFFICES ASSUME NEW k \in setup.keys
                 PROVE  \/ k \notin DOMAIN table' /\ \A n \in DOMAIN log' : log'[n].keys # k
                        \/ \E n \in DOMAIN log' :
                              /\ IsLast(n, k, Len(log))'
                              /\ \/ log'[n].event = "REMOVE" /\ k \notin DOMAIN table'
                                 \/ /\ log'[n].event = "MODIFY" /\ k \in DOMAIN table'
                                    /\ setup.view => log'[n].image = Over(k, table'[k])
        BY <2>2 DEF TableInv
    <2>5. CASE k = r.keys
        <3>1. PICK n \in DOMAIN log' : n = Len(log) + 1 /\ log'[n] = r
            BY <1>0, <2>3
        <3>2. IsLast(n, k, Len(log))'
            BY <1>0, <2>3, <2>5, <3>1 DEF IsLast
        <3>3. r.event \in {"MODIFY", "REMOVE"}
            BY DEF LogRecord
        <3> QED BY <2>1, <2>5, <3>1, <3>2, <3>3
    <2>6. CASE k # r.keys
        <3>1. (k \in DOMAIN table' <=> k \in DOMAIN table) /\ (k \in DOMAIN table => table'[k] = table[k])
            BY <2>1, <2>6
        <3>2. CASE k \notin DOMAIN table /\ \A n \in DOMAIN log : log[n].keys # k
            BY <2>3, <2>4, <2>6, <3>1, <3>2
        <3>3. CASE \E n \in DOMAIN log :
                  /\ IsLast(n, k, Len(log))
                  /\ \/ log[n].event = "REMOVE" /\ k \notin DOMAIN table
                     \/ /\ log[n].event = "MODIFY" /\ k \in DOMAIN table
                        /\ setup.view => log[n].image = Over(k, table[k])
            <4>1. PICK n \in DOMAIN log :
                  /\ IsLast(n, k, Len(log))
                  /\ \/ log[n].event = "REMOVE" /\ k \notin DOMAIN table
                     \/ /\ log[n].event = "MODIFY" /\ k \in DOMAIN table
                        /\ setup.view => log[n].image = Over(k, table[k])
                BY <3>3
            <4>2. n \in DOMAIN log' /\ log'[n] = log[n]
                BY <1>0, <2>3
            <4>3. \A x \in DOMAIN log' : n < x => log'[x].keys # k
                BY <1>0, <2>3, <2>4, <2>6, <4>1 DEF IsLast
            <4>4. IsLast(n, k, Len(log))'
                BY <1>0, <2>3, <4>1, <4>2, <4>3 DEF IsLast
            <4> QED BY <3>1, <4>1, <4>2, <4>4
        <3> QED BY <3>2, <3>3 DEF TableInv
    <2> QED BY <2>5, <2>6
<1>2. CASE ~\E k \in setup.keys : Remove(k) \/ \E rest \in setup.others : Put(k, rest)
    <2>1. UNCHANGED <<setup, table, log>>
        BY <1>2, LogGrows
    <2> QED BY <2>1 DEF TableInv, IsLast
<1> QED BY <1>1, <1>2

LEMMA CycleInvStep == Types /\ CycleInv /\ [Next]_vars => CycleInv'
<1> SUFFICES ASSUME Types, CycleInv, [Next]_vars PROVE CycleInv'
    OBVIOUS
<1>0. setup' = setup /\ setup.first \in Nat /\ open \in Nat
    BY SetupStays, DocumentsAssumption, FS_CardinalityType DEF Types
<1>1. CASE ListShards \/ ListDetails \/ Sort
    <2>1. /\ sort \notin {"sorted", "unsorted"} /\ UNCHANGED <<at, pos, got>>
          /\ \/ details' = details
             \/ \E S \in SUBSET (1..open), late \in BOOLEAN :
                   details' = [s \in S |-> IF late /\ s = open THEN NoNumber ELSE setup.first + s]
        BY <1>1, SortSteps
    <2>2. CASE details' = details
        BY <1>0, <2>1, <2>2 DEF CycleInv
    <2>3. CASE \E S \in SUBSET (1..open), late \in BOOLEAN :
                   details' = [s \in S |-> IF late /\ s = open THEN NoNumber ELSE setup.first + s]
        <3>1. PICK S \in SUBSET (1..open), late \in BOOLEAN :
                   details' = [s \in S |-> IF late /\ s = open THEN NoNumber ELSE setup.first + s]
            BY <2>3
        <3>2. DOMAIN details' = S /\ \A s \in S : details'[s] = IF late /\ s = open THEN NoNumber ELSE setup.first + s
            BY <3>1
        <3>3. \A t \in S : t <= open
            BY <1>0
        <3> QED BY <1>0, <2>1, <3>2, <3>3 DEF CycleInv
    <2> QED BY <2>1, <2>2, <2>3
<1>2. CASE \E k \in setup.keys : Remove(k) \/ \E rest \in setup.others : Put(k, rest)
    <2>1. UNCHANGED <<sortVars, at, pos, got>>
        BY <1>2 DEF Remove, Put, Record
    <2> QED BY <1>0, <2>1 DEF CycleInv, sortVars
<1>3. CASE Roll BY <1>0, <1>3 DEF Roll, CycleInv, sortVars
<1>4. CASE ReadRecord BY <1>0, <1>4 DEF ReadRecord, Reading, CycleInv, sortVars
<1>5. CASE NextShard \/ LeaveShard
    BY <1>0, <1>5 DEF NextShard, LeaveShard, GoOn, Reading, CycleInv, sortVars
<1>6. CASE NextCycle BY <1>6 DEF NextCycle, NextSort, CycleInv, NoDetail
<1>7. CASE UNCHANGED vars BY <1>7 DEF vars, source, CycleInv, sortVars
<1> QED BY <1>1, <1>2, <1>3, <1>4, <1>5, <1>6, <1>7 DEF Next
-----------------------------------------------------------------------------
(* What was read *)

LEMMA PassedIsFinite ==
    ASSUME Types
    PROVE  Passed \subseteq 1..Len(log) /\ IsFiniteSet(Passed) /\ Cardinality(Passed) \in Nat
<1>1. Passed \subseteq 1..Len(log) /\ Len(log) \in Nat
    BY DEF Types, Passed
<1>2. IsFiniteSet(1..Len(log))
    BY <1>1, FS_Interval
<1> QED BY <1>1, <1>2, FS_Subset, FS_CardinalityType

LEMMA CountInvStep == SortInv /\ Types /\ CycleInv /\ CountInv /\ [Next]_vars => CountInv'
<1> SUFFICES ASSUME SortInv, Types, CycleInv, CountInv, [Next]_vars PROVE CountInv'
    OBVIOUS
<1>0. /\ log \in Seq(LogRecord) /\ Len(log) \in Nat /\ DOMAIN log = 1..Len(log)
      /\ at \in Nat /\ pos \in Nat /\ got \in Nat /\ order \in Seq(Shards)
      /\ DOMAIN order = 1..Len(order) /\ Len(order) \in Nat
    BY DEF Types, SortInv, SortTypeOK
<1>t. Types'
    BY TypesStep
<1>p. /\ IsFiniteSet(Passed) /\ Cardinality(Passed) \in Nat /\ Passed \subseteq 1..Len(log)
      /\ IsFiniteSet(Passed') /\ Cardinality(Passed') \in Nat
    <2>1. IsFiniteSet(Passed) /\ Cardinality(Passed) \in Nat /\ Passed \subseteq 1..Len(log)
        BY PassedIsFinite
    <2>2. Len(log') \in Nat /\ DOMAIN log' = 1..Len(log')
        BY <1>t DEF Types
    <2>3. IsFiniteSet(1..Len(log')) /\ Passed' \subseteq 1..Len(log')
        BY <2>2, FS_Interval DEF Passed
    <2> QED BY <2>1, <2>3, FS_Subset, FS_CardinalityType
<1>m. Passed \subseteq Passed' => Cardinality(Passed) <= Cardinality(Passed')
    BY <1>p, FS_Subset
<1>1. CASE \E k \in setup.keys : Remove(k) \/ \E rest \in setup.others : Put(k, rest)
    <2>1. PICK r \in LogRecord : Record(r)
        BY <1>1, ChangeAppends
    <2>2. log' = Append(log, r) /\ at' = at /\ pos' = pos /\ got' = got /\ order' = order
        BY <2>1 DEF Record, sortVars
    <2>3. \A n \in DOMAIN log : n \in DOMAIN log' /\ log'[n] = log[n]
        BY <1>0, <2>2, Appended
    <2>4. Passed \subseteq Passed'
        BY <2>2, <2>3 DEF Passed
    <2> QED BY <1>0, <1>p, <1>m, <2>2, <2>4 DEF CountInv
<1>2. CASE Roll
    <2>1. UNCHANGED <<log, at, pos, got, order>>
        BY <1>2 DEF Roll, sortVars
    <2> QED BY <2>1 DEF CountInv, Passed
<1>3. CASE ListShards \/ ListDetails \/ Sort
    <2>1. got' = 0
        BY <1>3, SortSteps DEF CycleInv
    <2> QED BY <1>p, <2>1 DEF CountInv
<1>4. CASE ReadRecord
    <2>1. PICK n \in DOMAIN log : Follows(n) /\ pos' = n
        BY <1>4 DEF ReadRecord
    <2>2. at \in DOMAIN order /\ log' = log /\ at' = at /\ order' = order /\ got' = got + 1
        BY <1>0, <1>4 DEF ReadRecord, Reading, sortVars, source, Types
    <2>3. log[n].shard = order[at] /\ n > pos
        BY <2>1 DEF Follows
    <2>4. n \notin Passed
        BY <1>0, <2>2, <2>3 DEF Passed, SortInv, FilterInv, NoRepeat
    <2>5. Passed \cup {n} \subseteq Passed'
        <3>1. n \in Passed'
            BY <1>0, <2>1, <2>2, <2>3 DEF Passed
        <3>2. \A x \in Passed : x \in Passed'
            BY <1>0, <2>1, <2>2, <2>3 DEF Passed
        <3> QED BY <3>1, <3>2
    <2>6. Cardinality(Passed \cup {n}) = Cardinality(Passed) + 1
        BY <1>p, <2>4, FS_AddElement
    <2>7. Cardinality(Passed) + 1 <= Cardinality(Passed')
        BY <1>p, <2>5, <2>6, FS_Subset
    <2> QED BY <1>0, <1>p, <2>2, <2>7 DEF CountInv
<1>5. CASE NextShard \/ LeaveShard
    <2>1. log' = log /\ order' = order /\ got' = got /\ at' = at + 1 /\ pos' = 0
        BY <1>5 DEF NextShard, LeaveShard, GoOn, Reading, sortVars, source
    <2>2. Passed \subseteq Passed'
        BY <1>0, <2>1 DEF Passed
    <2> QED BY <1>0, <1>p, <1>m, <2>1, <2>2 DEF CountInv
<1>6. CASE NextCycle
    <2>1. got' = 0
        BY <1>6 DEF NextCycle
    <2> QED BY <1>p, <2>1 DEF CountInv
<1>7. CASE UNCHANGED vars
    <2>1. UNCHANGED <<log, at, pos, got, order>>
        BY <1>7 DEF vars, sortVars, source
    <2> QED BY <2>1 DEF CountInv, Passed
<1> QED BY <1>1, <1>2, <1>3, <1>4, <1>5, <1>6, <1>7 DEF Next

\* What the operation of record n makes of the collection.
LEMMA ReadKey ==
    ASSUME Types, LogInv, Found, Clean, NEW n \in DOMAIN log,
           NEW o \in Operations(log[n]), NEW t \in Execute(o)
    PROVE  LET k == log[n].keys
               documents == ConvertDocument(convertFromAttributeValueMap(log[n].image), mapping)
           IN  /\ k \in setup.keys /\ log[n].event \in {"MODIFY", "REMOVE"}
               /\ \A e \in DOMAIN t : t[e] = 1
               /\ \A e : ~IsOf(e, k) => (e \in DOMAIN t <=> e \in DOMAIN target)
               /\ \A d, e \in DOMAIN t : IsOf(d, k) /\ IsOf(e, k) => d = e
               /\ log[n].event = "REMOVE" => \A d \in DOMAIN t : ~IsOf(d, k)
               /\ log[n].event = "MODIFY" =>
                     Error \in documents \/ \E d \in documents : d[2] \in DOMAIN t /\ IsOf(d[2], k)
<1> DEFINE r == log[n]
           k == log[n].keys
<1>0. /\ setup \in Setups /\ IsABag(target) /\ r \in LogRecord /\ setup.view
    BY DEF Types, Found
<1>1. k \in setup.keys /\ r.event \in {"MODIFY", "REMOVE"}
    BY <1>0 DEF LogRecord
<1>2. CASE r.event = "REMOVE"
    <2>1. /\ o.op = "delete" /\ Id \in DOMAIN o.filter /\ o.filter[Id] = IdOf(k)
          /\ \A x \in DOMAIN o.filter : x = Id
        BY <1>0, <1>1, <1>2, DeleteOfItem
    <2>2. /\ \A e : e \in DOMAIN t <=> e \in DOMAIN target /\ ~IsOf(e, k)
          /\ \A e \in DOMAIN t : t[e] = 1
        BY <1>0, <1>1, <2>1, DeletesKey
    <2> QED BY <1>1, <1>2, <2>2
<1>3. CASE r.event = "MODIFY"
    <2>1. PICK rest \in setup.others : r.image = Over(k, rest)
        BY <1>0, <1>3 DEF LogInv
    <2>2. DocumentsOfItem(k, rest) = ConvertDocument(convertFromAttributeValueMap(r.image), mapping)
        BY <2>1 DEF DocumentsOfItem
    <2>3. \/ o = None /\ Error \in DocumentsOfItem(k, rest)
          \/ \E d \in DocumentsOfItem(k, rest) :
                o = [op |-> "upsert", doc |-> d[2]] /\ d # Error /\ IsOf(d[2], k)
        BY <1>0, <1>1, <1>3, <2>1, UpsertOfItem
    <2>4. CASE o = None /\ Error \in DocumentsOfItem(k, rest)
        <3>1. t = target
            BY <1>0, <2>4, NoneChangesNothing
        <3>2. /\ \A e \in DOMAIN t : t[e] = 1
              /\ \A d, e \in DOMAIN t : IsOf(d, k) /\ IsOf(e, k) => d = e
            BY <1>1, <3>1 DEF Clean
        <3> QED BY <1>1, <1>3, <2>2, <2>4, <3>1, <3>2
    <2>5. CASE \E d \in DocumentsOfItem(k, rest) :
                o = [op |-> "upsert", doc |-> d[2]] /\ d # Error /\ IsOf(d[2], k)
        <3>1. PICK d \in DocumentsOfItem(k, rest) : o = [op |-> "upsert", doc |-> d[2]] /\ IsOf(d[2], k)
            BY <2>5
        <3>2. /\ \A e : e \in DOMAIN t <=> (e \in DOMAIN target /\ ~IsOf(e, k)) \/ e = d[2]
              /\ \A e \in DOMAIN t : t[e] = 1
            BY <1>0, <1>1, <3>1, UpsertsKey
        <3>3. \A e : ~IsOf(e, k) => (e \in DOMAIN t <=> e \in DOMAIN target)
            BY <3>1, <3>2
        <3>4. \A x, e \in DOMAIN t : IsOf(x, k) /\ IsOf(e, k) => x = e
            BY <3>2
        <3>5. d[2] \in DOMAIN t
            BY <3>2
        <3> QED BY <1>1, <1>3, <2>2, <3>1, <3>2, <3>3, <3>4, <3>5
    <2> QED BY <2>3, <2>4, <2>5
<1> QED BY <1>1, <1>2, <1>3

LEMMA CleanStep == Types /\ LogInv /\ (Found => Clean) /\ [Next]_vars => (Found => Clean)'
<1> SUFFICES ASSUME Types, LogInv, Found => Clean, [Next]_vars, Found' PROVE Clean'
    OBVIOUS
<1>0. setup' = setup /\ Found /\ Clean /\ setup \in Setups
    BY SetupStays, SameSetup DEF Types
<1>i. \A d, k : IsOf(d, k)' <=> IsOf(d, k)
    BY <1>0, SameSetup
<1>1. CASE ReadRecord
    <2>1. PICK n \in DOMAIN log : \E o \in Operations(log[n]) : target' \in Execute(o)
        BY <1>1 DEF ReadRecord
    <2>2. PICK o \in Operations(log[n]) : target' \in Execute(o)
        BY <2>1
    <2>3. log' = log
        BY <1>1 DEF ReadRecord, source
    <2> DEFINE k == log[n].keys
    <2>4. /\ k \in setup.keys
          /\ \A e \in DOMAIN target' : target'[e] = 1
          /\ \A e : ~IsOf(e, k) => (e \in DOMAIN target' <=> e \in DOMAIN target)
          /\ \A d, e \in DOMAIN target' : IsOf(d, k) /\ IsOf(e, k) => d = e
        BY <1>0, <2>2, ReadKey
    <2>5. \A d \in DOMAIN target' : \E l \in setup.keys : IsOf(d, l) /\ \E x \in DOMAIN log : log[x].keys = l
        <3> SUFFICES ASSUME NEW d \in DOMAIN target'
                     PROVE  \E l \in setup.keys : IsOf(d, l) /\ \E x \in DOMAIN log : log[x].keys = l
            OBVIOUS
        <3>1. CASE IsOf(d, k) BY <2>4, <3>1
        <3>2. CASE ~IsOf(d, k) BY <1>0, <2>4, <3>2 DEF Clean
        <3> QED BY <3>1, <3>2
    <2>6. ASSUME NEW d \in DOMAIN target', NEW e \in DOMAIN target', NEW l \in setup.keys, IsOf(d, l), IsOf(e, l)
          PROVE  d = e
        <3>1. CASE l = k BY <2>4, <2>6, <3>1
        <3>2. CASE l # k
            <4>1. ~IsOf(d, k) /\ ~IsOf(e, k)
                BY <1>0, <2>4, <2>6, <3>2, OneKeyEach
            <4> QED BY <1>0, <2>4, <2>6, <4>1 DEF Clean
        <3> QED BY <3>1, <3>2
    <2> HIDE DEF k
    <2> QED BY <1>0, <1>i, <2>3, <2>4, <2>5, <2>6 DEF Clean
<1>2. CASE ~ReadRecord
    <2>1. target' = target
        <3>1. CASE ListShards \/ ListDetails \/ Sort BY <3>1, SortSteps
        <3> QED BY <1>2, <3>1 DEF Next, Remove, Put, Record, Roll, NextShard, LeaveShard, GoOn, NextCycle, vars
    <2>2. \A n \in DOMAIN log : n \in DOMAIN log' /\ log'[n] = log[n]
        <3>1. CASE \E k \in setup.keys : Remove(k) \/ \E rest \in setup.others : Put(k, rest)
            <4>1. PICK r \in LogRecord : Record(r)
                BY <3>1, ChangeAppends
            <4>2. log \in Seq(LogRecord)
                BY DEF Types
            <4>3. log' = Append(log, r)
                BY <4>1 DEF Record
            <4> QED BY <4>2, <4>3, Appended
        <3>2. CASE ~\E k \in setup.keys : Remove(k) \/ \E rest \in setup.others : Put(k, rest)
            BY <3>2, LogGrows
        <3> QED BY <3>1, <3>2
    <2> QED BY <1>0, <1>i, <2>1, <2>2 DEF Clean
<1> QED BY <1>1, <1>2
-----------------------------------------------------------------------------
(* What the cycle has made of the collection *)

\* The record that is read next is beyond record m, and all that comes later is
\* beyond it.
LEMMA ReadsOn ==
    ASSUME SortInv, Types, LogInv, Ordered, ReadRecord,
           NEW n \in DOMAIN log, Follows(n), pos' = n, NEW m \in Nat, Ahead(m)
    PROVE  m < n /\ Ahead(n)'
<1>1. /\ at \in DOMAIN order /\ at <= Len(order) /\ log' = log /\ at' = at /\ order' = order
      /\ DOMAIN order = 1..Len(order) /\ DOMAIN log = 1..Len(log) /\ at \in Nat /\ pos \in Nat
    BY DEF ReadRecord, Reading, sortVars, source, Types, SortInv, SortTypeOK
<1>2. log[n].shard = order[at] /\ pos < n
    BY DEF Follows
<1>3. m < n
    BY <1>1, <1>2 DEF Ahead
<1>4. \A b \in DOMAIN order : at < b => \A x \in DOMAIN log : log[x].shard = order[b] => n < x
    <2> SUFFICES ASSUME NEW b \in DOMAIN order, at < b, NEW x \in DOMAIN log, log[x].shard = order[b]
                 PROVE  n < x
        OBVIOUS
    <2>1. order[at] < order[b]
        BY <1>1 DEF Ordered
    <2>2. x <= n => log[x].shard <= log[n].shard
        <3>1. CASE x = n
            BY <1>1, <1>2, <3>1, DocumentsAssumption, FS_CardinalityType DEF SortInv, SortTypeOK
        <3>2. CASE x < n BY <3>2 DEF LogInv
        <3> QED BY <1>1, <3>1, <3>2
    <2>3. order[at] \in Nat /\ order[b] \in Nat
        BY <1>1, DocumentsAssumption, FS_CardinalityType DEF SortInv, SortTypeOK
    <2> QED BY <1>1, <1>2, <2>1, <2>2, <2>3
<1>5. Ahead(n)'
    BY <1>1, <1>4 DEF Ahead
<1> QED BY <1>3, <1>5

\* Reading the record after those the collection agrees with, it agrees with that too.
LEMMA ReadAgrees ==
    ASSUME Types, LogInv, Found, Clean, setup' = setup, log' = log,
           NEW n \in DOMAIN log, NEW o \in Operations(log[n]), target' \in Execute(o),
           Agrees(n - 1)
    PROVE  Agrees(n)'
<1> DEFINE l == log[n].keys
<1>0. setup \in Setups /\ mapping' = mapping /\ DOMAIN log = 1..Len(log) /\ Len(log) \in Nat
    BY SameSetup DEF Types
<1>i. \A d, k : IsOf(d, k)' <=> IsOf(d, k)
    BY SameSetup
<1>1. /\ l \in setup.keys /\ log[n].event \in {"MODIFY", "REMOVE"}
      /\ \A e : ~IsOf(e, l) => (e \in DOMAIN target' <=> e \in DOMAIN target)
      /\ log[n].event = "REMOVE" => \A d \in DOMAIN target' : ~IsOf(d, l)
      /\ log[n].event = "MODIFY" =>
            LET documents == ConvertDocument(convertFromAttributeValueMap(log[n].image), mapping)
            IN  Error \in documents \/ \E d \in documents : d[2] \in DOMAIN target' /\ IsOf(d[2], l)
    BY ReadKey
<1> SUFFICES ASSUME NEW k \in setup.keys, NEW x \in DOMAIN log, IsLast(x, k, n)
             PROVE  Reflects(k, x)'
    BY DEF Agrees, IsLast
<1>2. CASE k = l
    <2>1. x = n
        BY <1>0, <1>2 DEF IsLast
    <2> QED BY <1>0, <1>i, <1>1, <1>2, <2>1 DEF Reflects
<1>3. CASE k # l
    <2>1. x # n /\ x <= n /\ log[x].keys = k
        BY <1>3 DEF IsLast
    <2>2. IsLast(x, k, n - 1)
        BY <1>0, <2>1 DEF IsLast
    <2>3. Reflects(k, x)
        BY <2>2 DEF Agrees
    <2>4. \A d : IsOf(d, k) => (d \in DOMAIN target' <=> d \in DOMAIN target)
        BY <1>0, <1>1, <1>3, OneKeyEach
    <2> HIDE DEF l
    <2>5. CASE log[x].event = "REMOVE"
        BY <1>i, <2>3, <2>4, <2>5 DEF Reflects
    <2>6. CASE log[x].event = "MODIFY"
        BY <1>0, <1>i, <2>3, <2>4, <2>6 DEF Reflects
    <2> QED BY <2>3, <2>5, <2>6 DEF Reflects
<1> QED BY <1>2, <1>3

\* The collection agrees with what it agreed with when it is left alone.
LEMMA StillAgrees ==
    ASSUME Types, setup' = setup, target' = target, NEW m \in 0..Len(log),
           \A n \in DOMAIN log : n \in DOMAIN log' /\ log'[n] = log[n],
           \A n \in DOMAIN log' : n \in DOMAIN log \/ n = Len(log) + 1,
           Agrees(m)
    PROVE  Agrees(m)'
<1>0. mapping' = mapping /\ DOMAIN log = 1..Len(log) /\ Len(log) \in Nat
    BY SameSetup DEF Types
<1>i. \A d, k : IsOf(d, k)' <=> IsOf(d, k)
    BY SameSetup
<1> SUFFICES ASSUME NEW k \in setup.keys, NEW n \in DOMAIN log', IsLast(n, k, m)'
             PROVE  Reflects(k, n)'
    BY DEF Agrees
<1>1. n \in DOMAIN log
    BY <1>0 DEF IsLast
<1>2. IsLast(n, k, m)
    BY <1>1 DEF IsLast
<1>3. Reflects(k, n) /\ log'[n] = log[n]
    BY <1>1, <1>2 DEF Agrees
<1> QED BY <1>0, <1>i, <1>3 DEF Reflects

LEMMA ReadInvStep == DocumentsInv /\ [Next]_vars => ReadInv'
<1> SUFFICES ASSUME DocumentsInv, [Next]_vars, sort' \in {"sorted", "unsorted"}, Ordered'
             PROVE  \E m \in 0..Len(log') : got' <= m /\ Ahead(m)' /\ (Found' /\ got' = m => Agrees(m)')
    BY DEF ReadInv
<1>0. /\ SortInv /\ Types /\ LogInv /\ CycleInv /\ (Found => Clean) /\ ReadInv
      /\ setup' = setup /\ (Found' <=> Found)
    BY SetupStays, SameSetup DEF DocumentsInv
<1>d. /\ DOMAIN log = 1..Len(log) /\ Len(log) \in Nat /\ got \in Nat /\ at \in Nat /\ pos \in 0..Len(log)
      /\ Len(order) \in Nat /\ DOMAIN order = 1..Len(order) /\ log \in Seq(LogRecord)
    BY <1>0 DEF Types, SortInv, SortTypeOK
<1>1. CASE ListShards \/ ListDetails \/ Sort
    <2>1. at' = 1 /\ pos' = 0 /\ got' = 0 /\ log' = log
        BY <1>0, <1>1, SortSteps DEF CycleInv, source
    <2>2. Ahead(0)'
        <3>1. \A n \in DOMAIN log' : 0 < n
            BY <1>d, <2>1
        <3> QED BY <3>1 DEF Ahead
    <2>3. Agrees(0)'
        <3>1. \A n \in DOMAIN log' : ~(n <= 0)
            BY <1>d, <2>1
        <3> QED BY <3>1 DEF Agrees, IsLast
    <2>4. 0 \in 0..Len(log')
        BY <1>d, <2>1
    <2> QED BY <2>1, <2>2, <2>3, <2>4
<1>2. CASE NextCycle
    BY <1>2 DEF NextCycle, NextSort
<1>3. CASE ReadRecord
    <2>0. /\ sort \in {"sorted", "unsorted"} /\ Ordered /\ log' = log /\ got' = got + 1
        BY <1>3 DEF ReadRecord, sortVars, source, Ordered
    <2>1. PICK m \in 0..Len(log) : got <= m /\ Ahead(m) /\ (Found /\ got = m => Agrees(m))
        BY <1>0, <2>0 DEF ReadInv
    <2>2. PICK n \in DOMAIN log :
              Follows(n) /\ pos' = n /\ \E o \in Operations(log[n]) : target' \in Execute(o)
        BY <1>3 DEF ReadRecord
    <2>3. PICK o \in Operations(log[n]) : target' \in Execute(o)
        BY <2>2
    <2>4. m < n /\ Ahead(n)'
        BY <1>0, <1>3, <2>0, <2>1, <2>2, ReadsOn
    <2>5. n \in 0..Len(log') /\ got' <= n
        BY <1>d, <2>0, <2>1, <2>4
    <2>6. ASSUME Found, got' = n PROVE Agrees(n)'
        <3>1. got = m /\ m = n - 1
            BY <1>d, <2>0, <2>1, <2>4, <2>6
        <3>2. Agrees(n - 1)
            BY <2>1, <2>6, <3>1
        <3> QED BY <1>0, <2>0, <2>3, <2>6, <3>2, ReadAgrees
    <2> QED BY <1>0, <2>4, <2>5, <2>6
<1>4. CASE ~(ListShards \/ ListDetails \/ Sort) /\ ~NextCycle /\ ~ReadRecord
    <2>1. /\ sort \in {"sorted", "unsorted"} /\ order' = order /\ target' = target /\ got' = got
          /\ \/ at' = at /\ pos' = pos
             \/ at < Len(order) + 1 /\ at' = at + 1 /\ pos' = 0 /\ log' = log
        <3>1. CASE \E k \in setup.keys : Remove(k) \/ \E rest \in setup.others : Put(k, rest)
            BY <3>1 DEF Remove, Put, Record, sortVars
        <3>2. CASE Roll BY <3>2 DEF Roll, sortVars
        <3>3. CASE NextShard \/ LeaveShard
            BY <1>d, <3>3 DEF NextShard, LeaveShard, GoOn, Reading, source, sortVars
        <3>4. CASE UNCHANGED vars BY <3>4 DEF vars, source, sortVars
        <3> QED BY <1>4, <3>1, <3>2, <3>3, <3>4 DEF Next
    <2>2. PICK m \in 0..Len(log) : got <= m /\ Ahead(m) /\ (Found /\ got = m => Agrees(m))
        BY <1>0, <2>1 DEF ReadInv, Ordered
    <2>3. /\ \A n \in DOMAIN log : n \in DOMAIN log' /\ log'[n] = log[n]
          /\ \A n \in DOMAIN log' : n \in DOMAIN log \/ n = Len(log) + 1
          /\ m \in 0..Len(log')
        <3>1. CASE \E k \in setup.keys : Remove(k) \/ \E rest \in setup.others : Put(k, rest)
            <4>1. PICK r \in LogRecord : Record(r)
                BY <1>0, <3>1, ChangeAppends
            <4>2. log' = Append(log, r)
                BY <4>1 DEF Record
            <4>3. /\ Len(log') = Len(log) + 1 /\ DOMAIN log' = 1..(Len(log) + 1)
                  /\ \A n \in DOMAIN log : n \in DOMAIN log' /\ log'[n] = log[n]
                BY <1>d, <4>2, Appended
            <4> QED BY <1>d, <2>2, <4>3
        <3>2. CASE ~\E k \in setup.keys : Remove(k) \/ \E rest \in setup.others : Put(k, rest)
            <4>1. log' = log
                BY <1>0, <3>2, LogGrows
            <4> QED BY <2>2, <4>1
        <3> QED BY <3>1, <3>2
    <2>4. Found' /\ got' = m => Agrees(m)'
        BY <1>0, <2>1, <2>2, <2>3, StillAgrees
    <2>5. \A n \in DOMAIN log' : n \notin DOMAIN log => m < n
        BY <1>d, <2>2, <2>3
    <2>6. Ahead(m)'
        <3>1. CASE at' = at /\ pos' = pos
            BY <2>1, <2>2, <2>3, <2>5, <3>1 DEF Ahead
        <3>2. CASE at < Len(order) + 1 /\ at' = at + 1 /\ pos' = 0 /\ log' = log
            <4>1. /\ at' <= Len(order) => at' \in DOMAIN order /\ at < at'
                  /\ \A b \in DOMAIN order : at' < b => at < b
                BY <1>d, <3>2
            <4>2. \A b \in DOMAIN order : at < b => \A n \in DOMAIN log : log[n].shard = order[b] => m < n
                BY <2>2 DEF Ahead
            <4> QED BY <2>1, <3>2, <4>1, <4>2 DEF Ahead
        <3> QED BY <2>1, <3>1, <3>2
    <2> QED BY <1>0, <2>1, <2>2, <2>3, <2>4, <2>6
<1> QED BY <1>1, <1>2, <1>3, <1>4
-----------------------------------------------------------------------------
(* The theorems *)

LEMMA InitDocuments == Init => DocumentsInv
<1> SUFFICES ASSUME Init PROVE DocumentsInv
    OBVIOUS
<1>1. SortInv /\ sort = "idle" /\ order = <<>> /\ DOMAIN details = {}
    BY InitInv DEF Init, SortInit, NoDetail
<1>2. /\ setup \in Setups /\ table = <<>> /\ log = <<>> /\ open = 1 /\ target = EmptyBag
      /\ at = 1 /\ pos = 0 /\ got = 0
    BY DEF Init
<1>3. Cardinality(Shards) \in Nat /\ Cardinality(Shards) # 0
    BY DocumentsAssumption, FS_CardinalityType, FS_EmptySet
<1>4. 1 \in Shards
    BY <1>3, DocumentsAssumption
<1>5. DOMAIN target = {} /\ IsABag(target)
    BY <1>2 DEF EmptyBag, SetToBag, IsABag
<1>6. log \in Seq(LogRecord) /\ DOMAIN log = {} /\ Len(log) = 0 /\ DOMAIN table = {}
    BY <1>2
<1>7. Types
    BY <1>1, <1>2, <1>4, <1>5, <1>6 DEF Types
<1>8. LogInv /\ TableInv /\ CycleInv
    BY <1>1, <1>2, <1>6 DEF LogInv, TableInv, CycleInv
<1>9. CountInv
    BY <1>2, <1>7, PassedIsFinite DEF CountInv
<1>10. Clean
    BY <1>5 DEF Clean
<1>11. ReadInv
    BY <1>1 DEF ReadInv
<1> QED BY <1>1, <1>7, <1>8, <1>9, <1>10, <1>11 DEF DocumentsInv

LEMMA DocumentsInvariant == Spec => []DocumentsInv
<1>1. DocumentsInv /\ [Next]_vars => DocumentsInv'
    BY SortInvStep, TypesStep, LogInvStep, TableInvStep, CycleInvStep, CountInvStep, CleanStep, ReadInvStep
       DEF DocumentsInv
<1> QED BY InitDocuments, <1>1, PTL DEF Spec

\* Every variable has its type, in every table with every mapping; no record is
\* read twice in a cycle, so that got is at most the length of the log.
THEOREM DocumentsTypeCorrect == Spec => []TypeOK
<1>1. DocumentsInv => TypeOK
    <2> SUFFICES ASSUME DocumentsInv PROVE TypeOK
        OBVIOUS
    <2>1. SortTypeOK /\ Types /\ LogInv /\ CountInv
        BY DEF DocumentsInv, SortInv
    <2>2. Len(log) \in Nat /\ got \in Nat /\ DOMAIN log = 1..Len(log) /\ log \in Seq(LogRecord)
        BY <2>1 DEF Types
    <2>3. got \in 0..Len(log)
        <3>1. IsFiniteSet(1..Len(log)) /\ Cardinality(1..Len(log)) = Len(log)
            BY <2>2, FS_Interval
        <3>2. Passed \subseteq 1..Len(log) /\ Cardinality(Passed) \in Nat
            BY <2>1, PassedIsFinite
        <3>3. Cardinality(Passed) <= Cardinality(1..Len(log))
            BY <3>1, <3>2, FS_Subset
        <3> QED BY <2>1, <2>2, <3>1, <3>2, <3>3 DEF CountInv
    <2>4. \A r \in Members(log) : r.shard \in 1..open /\ r.keys \in setup.keys
        <3> SUFFICES ASSUME NEW n \in DOMAIN log PROVE log[n].shard \in 1..open /\ log[n].keys \in setup.keys
            BY DEF Members
        <3>0. log[n] \in LogRecord
            BY <2>2
        <3>1. log[n].shard \in Shards /\ log[n].keys \in setup.keys
            BY <3>0 DEF LogRecord
        <3>2. log[n].shard <= open /\ open \in Shards
            BY <2>1 DEF LogInv, Types
        <3> QED BY <3>1, <3>2, DocumentsAssumption, FS_CardinalityType
    <2> QED BY <2>1, <2>3, <2>4 DEF TypeOK, Types
<1> QED BY DocumentsInvariant, <1>1, PTL

\* A key that is a string, or a number a float64 holds, comes back from the
\* checkpoint file as the key of the same item (KeySurvivesResume), wherever
\* int64 and float64 end.
THEOREM KeysSurviveResume == Spec => []KeySurvivesResume
<1>1. DocumentsInv => KeySurvivesResume
    <2> SUFFICES ASSUME DocumentsInv, NEW k \in DOMAIN table, NEW a \in DOMAIN k,
                        k[a][1] = "S" \/ (k[a][1] = "N" /\ k[a][2] <= FloatExact)
                 PROVE  ResumeKey(k[a]) = k[a]
        BY DEF KeySurvivesResume
    <2>1. k \in setup.keys /\ setup \in Setups
        BY DEF DocumentsInv, Types
    <2>2. k[a] \in KeyValue
        BY <2>1, KeyAssumption
    <2> QED BY <2>2, KeyComesBack
<1> QED BY DocumentsInvariant, <1>1, PTL

\* In a cycle that read every record in order the collection agrees with the log.
LEMMA CaughtUpAgrees ==
    ASSUME DocumentsInv, CaughtUp, Found
    PROVE  Agrees(Len(log))
<1>1. PICK m \in 0..Len(log) : got <= m /\ (Found /\ got = m => Agrees(m))
    BY DEF DocumentsInv, CaughtUp, ReadInv
<1>2. got = Len(log) /\ Len(log) \in Nat
    BY DEF DocumentsInv, CaughtUp, Types
<1>3. m = Len(log)
    BY <1>1, <1>2
<1> QED BY <1>1, <1>2, <1>3

\* A cycle that read every record, of shards in the order they were opened in,
\* leaves each item of the table whose conversion cannot fail exactly one document,
\* one of its present attributes (ItemsAreCopied): for every table whose key becomes
\* the _id, every mapping and whatever nested values are converted to.
THEOREM ItemsCopied == Spec => []ItemsAreCopied
<1>1. DocumentsInv => ItemsAreCopied
    <2> DEFINE Documents(k) == ConvertDocument(convertFromAttributeValueMap(Over(k, table[k])), mapping)
    <2> SUFFICES ASSUME DocumentsInv, CaughtUp, Found, NEW k \in DOMAIN table, Error \notin Documents(k)
                 PROVE  \E d \in Documents(k) : DocumentsOf(k) = {d[2]} /\ target[d[2]] = 1
        BY DEF ItemsAreCopied
    <2>0. Agrees(Len(log))
        BY CaughtUpAgrees
    <2>1. /\ k \in setup.keys /\ setup \in Setups /\ Clean /\ setup.view /\ TableInv
          /\ log \in Seq(LogRecord)
        BY DEF DocumentsInv, Types, Found
    <2>2. PICK n \in DOMAIN log :
              IsLast(n, k, Len(log)) /\ log[n].event = "MODIFY" /\ log[n].image = Over(k, table[k])
        BY <2>1 DEF TableInv
    <2>3. Reflects(k, n)
        BY <2>0, <2>1, <2>2 DEF Agrees
    <2>4. PICK d \in Documents(k) : d[2] \in DOMAIN target /\ IsOf(d[2], k)
        BY <2>2, <2>3 DEF Reflects
    <2> HIDE DEF Documents
    <2>5. \A e : e \in DocumentsOf(k) <=> e \in DOMAIN target /\ IsOf(e, k)
        BY <2>1, DocumentsOfKey
    <2>6. \A e : e \in DocumentsOf(k) <=> e = d[2]
        BY <2>1, <2>4, <2>5 DEF Clean
    <2>7. target[d[2]] = 1
        BY <2>1, <2>4 DEF Clean
    <2> QED BY <2>4, <2>6, <2>7
<1> QED BY DocumentsInvariant, <1>1, PTL

\* After such a cycle every document is that of an item in the table
\* (RemovedAreDeleted).
THEOREM RemovedDeleted == Spec => []RemovedAreDeleted
<1>1. DocumentsInv => RemovedAreDeleted
    <2> SUFFICES ASSUME DocumentsInv, CaughtUp, Found, NEW d \in DOMAIN target
                 PROVE  \E k \in DOMAIN table : d \in DocumentsOf(k)
        BY DEF RemovedAreDeleted, BagToSet
    <2>0. Agrees(Len(log))
        BY CaughtUpAgrees
    <2>1. setup \in Setups /\ Clean /\ TableInv
        BY DEF DocumentsInv, Types
    <2>2. PICK k \in setup.keys : IsOf(d, k) /\ \E n \in DOMAIN log : log[n].keys = k
        BY <2>1 DEF Clean
    <2>3. d \in DocumentsOf(k)
        BY <2>1, <2>2, DocumentsOfKey
    <2>4. k \in DOMAIN table
        <3> SUFFICES ASSUME k \notin DOMAIN table PROVE FALSE
            OBVIOUS
        <3>1. PICK n \in DOMAIN log : IsLast(n, k, Len(log)) /\ log[n].event = "REMOVE"
            BY <2>1, <2>2 DEF TableInv
        <3>2. Reflects(k, n)
            BY <2>0, <2>2, <3>1 DEF Agrees
        <3> QED BY <2>2, <3>1, <3>2 DEF Reflects
    <2> QED BY <2>3, <2>4
<1> QED BY DocumentsInvariant, <1>1, PTL

\* The shards that a cycle of the replication reads are each one that was asked
\* for and is known, once (EachShardOnce), in the order of their numbers as int64
\* holds them (SortedByNumber): the sort within the specification it is part of.
THEOREM ReplicationSortsShards == Spec => [](EachShardOnce /\ SortedByNumber)
<1>1. DocumentsInv => EachShardOnce /\ SortedByNumber
    BY InvKeepsShards, InvIsSorted DEF DocumentsInv
<1> QED BY DocumentsInvariant, <1>1, PTL

\* int64 keeps the order of the numbers: no wrap lies between those of two shards.
NumbersAscend ==
    \A s, t \in DOMAIN details : s < t /\ details[s] # NoNumber /\ details[t] # NoNumber =>
        parseSequenceNumber(details[s]) < parseSequenceNumber(details[t])

\* Sorted shards are in the order they were opened in (Ordered) as long as no wrap
\* lies between their numbers, however large these are: this is what ItemsCopied
\* and RemovedDeleted ask of a cycle, and all that int64 can take from it.
THEOREM ShardsAscendWithinAWrap == Spec => [](sort = "sorted" /\ NumbersAscend => Ordered)
<1>1. ASSUME DocumentsInv, sort = "sorted", NumbersAscend,
             NEW a \in DOMAIN order, NEW b \in DOMAIN order, a < b
      PROVE  order[a] < order[b]
    <2> DEFINE s == order[a]
               u == order[b]
    <2>0. SortInv /\ Types /\ CycleInv
        BY <1>1 DEF DocumentsInv
    <2>1. s \in Members(order) /\ u \in Members(order) /\ a # b
        BY <1>1, <2>0 DEF Members, SortInv, SortTypeOK
    <2>2. s \in DOMAIN details /\ u \in DOMAIN details /\ s # u
        BY <1>1, <2>0, <2>1 DEF SortInv, FilterInv, NoRepeat
    <2>3. s \in Nat /\ u \in Nat
        BY <2>0, <2>2, DocumentsAssumption, FS_CardinalityType DEF SortInv, SortTypeOK
    <2>4. details[u] # NoNumber =>
              details[s] # NoNumber /\ parseSequenceNumber(details[s]) <= parseSequenceNumber(details[u])
        BY <1>1, <2>0, InvIsSorted DEF SortedByNumber
    <2>5. \A x \in DOMAIN details : details[x] # NoNumber => parseSequenceNumber(details[x]) \in Int
        BY <2>0, ParsedInt DEF SortInv, SortTypeOK, SequenceNumber
    <2>6. details[u] = NoNumber => s <= u
        <3>1. \A x \in DOMAIN details : x \in Nat /\ setup.first \in Nat
            BY <2>0, DocumentsAssumption, FS_CardinalityType DEF SortInv, SortTypeOK, Types
        <3> HIDE DEF s, u
        <3> QED BY <2>0, <2>2, <3>1 DEF CycleInv, NoNumber
    <2>7. ~(u < s)
        <3> HIDE DEF s, u
        <3> QED BY <1>1, <2>2, <2>3, <2>4, <2>5, <2>6 DEF NumbersAscend
    <2> HIDE DEF s, u
    <2>8. s < u
        BY <2>2, <2>3, <2>7
    <2> QED BY <2>8 DEF s, u
<1>2. DocumentsInv => (sort = "sorted" /\ NumbersAscend => Ordered)
    BY <1>1 DEF Ordered
<1> QED BY DocumentsInvariant, <1>2, PTL

\* The replication never touches the sort but by the sort's own steps.
THEOREM DocumentsSort == Spec => SortSpec
<1>1. Init => SortInit
    BY DEF Init
<1>2. DocumentsInv /\ [Next]_vars => [SortNext]_sortVars
    BY SortsOn DEF DocumentsInv
<1> QED BY DocumentsInvariant, <1>1, <1>2, PTL DEF Spec, SortSpec
=============================================================================
