----------------------------- MODULE Conversion -----------------------------
(***************************************************************************)
(* What becomes of an item on its way into the collection: the attribute   *)
(* values of the service are converted to Go values                        *)
(* (internal/dynamodb/client.go), these to a document                      *)
(* (internal/converter/converter.go) with the names and transforms of the  *)
(* pair's mapping (internal/config/config.go).                             *)
(*                                                                         *)
(* A value is a tag with its content: <<"N", 3>>, <<"string", "x">>.  The  *)
(* fields of an item, a document or a nested object are a function from    *)
(* names.  A name is its words, each with the underscores before it and    *)
(* whether it starts with a capital.  Go visits a map in any order, so     *)
(* where two names become one the conversion has several results: the      *)
(* conversions below are sets of what may come out.                        *)
(*                                                                         *)
(* The conversions call themselves on what a list or an object contains.   *)
(* Those calls go to four constants, so that theorems hold whatever comes  *)
(* of nested values; a configuration gives each the operator it stands for.*)
(***************************************************************************)
EXTENDS Integers, Sequences, TLC

CONSTANTS IntLimit,     \* the integers below it are read as int64
          FloatExact,   \* a float64 holds the integers below it exactly
          TimeOf,       \* the strings that time.Parse or ParseInt read, and what they read
          NumberOf,     \* the strings ParseFloat reads
          ArrayOf,      \* the strings that are a JSON array
          ObjectOf,     \* the strings that are a JSON object
          FromNested(_),          \* convertFromAttributeValue
          ConvertNested(_, _),    \* convertValue
          GetNested(_, _),        \* getNestedValue
          SetNested(_, _, _)      \* setNestedValue

\* Powers of two, the scale of 2^63 and 2^53.
ASSUME LimitAssumption ==
    FloatExact \in Nat \ {0} /\ FloatExact % 2 = 0 /\ IntLimit \in Nat \ {0}
\* Fields: one, and those of f with those of g that have other names.
Field(name, v) == [n \in {name} |-> v]
Over(f, g) == [n \in DOMAIN f \cup DOMAIN g |-> IF n \in DOMAIN f THEN f[n] ELSE g[n]]
-----------------------------------------------------------------------------
(* Attribute values and Go values *)

\* The spacing of the floats around n, which is below 2^8 times FloatExact.
Unit(n) == CHOOSE u \in {1, 2, 4, 8, 16, 32, 64, 128, 256} :
               n < FloatExact * u /\ (u = 1 \/ n >= FloatExact * (u \div 2))

\* The float64 next to n, of two equally near ones the even one.
Float(n) == LET u == Unit(n)
                q == n \div u
                r == n % u
            IN u * IF 2 * r > u \/ (2 * r = u /\ q % 2 = 1) THEN q + 1 ELSE q

Number(n) == IF n < IntLimit THEN <<"int64", n>> ELSE <<"float64", Float(n)>>

\* A binary value becomes the string of its bytes, not their Base64, of which the
\* comments at dynamodb/client.go:556 and 636 speak.
convertFromAttributeValue(av) ==
    LET type == av[1]
        value == av[2]
    IN CASE type = "NULL" -> <<"nil">>
         [] type = "BOOL" -> <<"bool", value>>
         [] type = "N" -> Number(value)
         [] type \in {"S", "B"} -> <<"string", value>>
         [] type = "NS" -> <<"list", [x \in DOMAIN value |-> Number(value[x])]>>
         [] type \in {"SS", "BS"} -> <<"list", [x \in DOMAIN value |-> <<"string", value[x]>>]>>
         [] type = "L" -> <<"list", [x \in DOMAIN value |-> FromNested(value[x])]>>
         [] type = "M" -> <<"map", [x \in DOMAIN value |-> FromNested(value[x])]>>

\* The fields of an item as Scan and convertStreamRecord hand them on.
convertFromAttributeValueMap(item) == [a \in DOMAIN item |-> convertFromAttributeValue(item[a])]

\* Mutant: a number from the checkpoint file is sent as a string.
ToAttributeValueAsText(v) ==
    CASE v[1] = "string" -> <<"S", v[2]>>
      [] v[1] = "int64" -> <<"N", v[2]>>
      [] OTHER -> <<"S", "number">>

\* The key of a resumed scan; keys hold strings and numbers only.
convertToAttributeValue(v) ==
    CASE v[1] = "string" -> <<"S", v[2]>>
      [] v[1] \in {"int64", "float64"} -> <<"N", v[2]>>

\* The checkpoint file is JSON, which has one kind of number.
ThroughJSON(v) == IF v[1] = "int64" THEN <<"float64", Float(v[2])>> ELSE v

\* LastEvaluatedKey is converted, saved, loaded after a restart and sent again.
ResumeKey(av) == convertToAttributeValue(ThroughJSON(convertFromAttributeValue(av)))
-----------------------------------------------------------------------------
(* Names *)

\* An underscore goes before every capital but a leading one.
toSnakeCase(name) ==
    [w \in DOMAIN name |->
        [name[w] EXCEPT !.under = IF name[w].cap /\ (w > 1 \/ @ > 0) THEN @ + 1 ELSE @,
                        !.cap = FALSE]]

\* The name is split at its underscores, each part but the first capitalised.
toCamelCase(name) ==
    [w \in DOMAIN name |->
        [name[w] EXCEPT !.under = 0, !.cap = @ \/ name[w].under > 0]]

ApplyNamingConvention(name, convention) ==
    CASE convention = "snake_case" -> toSnakeCase(name)
      [] convention = "camelCase" -> toCamelCase(name)
      [] OTHER -> name
-----------------------------------------------------------------------------
(* Documents *)

\* The mapping of a pair; primaryKey is a pair of names, or <<>>.
ValidMapping(m) ==
    /\ m.primaryKey = <<>> \/ (DOMAIN m.primaryKey = 1..2 /\ <<>> \notin {m.primaryKey[1], m.primaryKey[2]})
    /\ m.naming \in {"preserve", "snake_case", "camelCase"}
    /\ Len(m.transforms) \in Nat
    /\ \A t \in 1..Len(m.transforms) :
          /\ m.transforms[t].field # <<>>
          /\ m.transforms[t].type \in {"datetime", "decimal128", "array", "object"}

\* The fields that may come out when each is one of its values: of those that
\* get one name, one stays.
Renamed(values, naming) ==
    LET Named(f) == ApplyNamingConvention(f, naming)
    IN {r \in [{Named(f) : f \in DOMAIN values} -> UNION {values[f] : f \in DOMAIN values}] :
            \A n \in DOMAIN r : \E f \in DOMAIN values : Named(f) = n /\ r[n] \in values[f]}

convertValue(v, naming) ==
    LET values == [x \in DOMAIN v[2] |-> ConvertNested(v[2][x], naming)]
    IN CASE v[1] = "list" ->
              {<<"list", l>> : l \in {s \in [DOMAIN values -> UNION {values[x] : x \in DOMAIN values}] :
                                          \A x \in DOMAIN s : s[x] \in values[x]}}
         [] v[1] = "map" -> {<<"map", r>> : r \in Renamed(values, naming)}
         [] OTHER -> {v}

Error == <<"error">>

transformToDateTime(v) ==
    CASE v[1] = "string" /\ v[2] \in DOMAIN TimeOf -> <<"time", TimeOf[v[2]]>>
      [] v[1] \in {"int64", "float64"} -> <<"time", v[2]>>
      [] OTHER -> Error

transformToDecimal(v) ==
    CASE v[1] = "string" /\ v[2] \in DOMAIN NumberOf -> <<"float64", NumberOf[v[2]]>>
      [] v[1] \in {"int64", "float64"} -> v
      [] OTHER -> Error

transformToArray(v) ==
    CASE v[1] = "list" -> v
      [] v[1] = "string" /\ v[2] \in DOMAIN ArrayOf -> <<"list", ArrayOf[v[2]]>>
      [] OTHER -> <<"list", <<v>>>>

transformToObject(v) ==
    CASE v[1] = "map" -> v
      [] v[1] = "string" /\ v[2] \in DOMAIN ObjectOf -> <<"map", ObjectOf[v[2]]>>
      [] OTHER -> Error

transformValue(v, type) ==
    IF v = <<"nil">> THEN v
    ELSE CASE type = "datetime" -> transformToDateTime(v)
           [] type = "decimal128" -> transformToDecimal(v)
           [] type = "array" -> transformToArray(v)
           [] type = "object" -> transformToObject(v)

\* The value at a path of names; Absent also where the path leads through a value.
Absent == <<"absent">>

getNestedValue(v, path) ==
    LET field == Head(path)
    IN IF path = <<>> THEN v
       ELSE IF v[1] = "map" /\ field \in DOMAIN v[2] THEN GetNested(v[2][field], Tail(path))
       ELSE Absent

\* Only called for a path that has a value.
setNestedValue(v, path, new) ==
    LET field == Head(path)
    IN IF path = <<>> THEN new
       ELSE <<"map", [v[2] EXCEPT ![field] = SetNested(@, Tail(path), new)]>>

\* One transform; the first that fails rejects the document.
applyTransform(doc, t) ==
    LET old == getNestedValue(doc, t.field)
        new == transformValue(old, t.type)
    IN IF doc = Error \/ old = Absent THEN doc
       ELSE IF new = Error THEN Error
       ELSE setNestedValue(doc, t.field, new)

\* The transforms, in the order they are configured in.
applyCustomTransforms(doc, transforms) ==
    LET after[n \in 0..Len(transforms)] ==
            IF n = 0 THEN doc ELSE applyTransform(after[n - 1], transforms[n])
    IN after[Len(transforms)]

\* The key that is mapped has its own name, the others follow the convention.
isKey(f, m) == m.primaryKey # <<>> /\ f = m.primaryKey[1]

MappedKey(item, m) ==
    IF \E f \in DOMAIN item : isKey(f, m)
    THEN {Field(m.primaryKey[2], v) : v \in convertValue(item[m.primaryKey[1]], m.naming)}
    ELSE {<<>>}

OtherFields(item, m) ==
    Renamed([f \in {n \in DOMAIN item : ~isKey(n, m)} |-> convertValue(item[f], m.naming)], m.naming)

\* The documents that may come of an item, or Error.
ConvertDocument(item, m) ==
    {applyCustomTransforms(<<"map", Over(f, k)>>, m.transforms) :
        f \in OtherFields(item, m), k \in MappedKey(item, m)}
=============================================================================
