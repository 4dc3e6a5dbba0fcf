---------------------------- MODULE MCDocuments ----------------------------
(***************************************************************************)
(* Documents with one or two keys, a few attributes and the mappings that  *)
(* make a difference.  Items' integers are read exactly below 8 as int64   *)
(* and up to 4 as float64.  Sequence numbers are parsed into -4..3, and    *)
(* all of them are beyond it, as those of a stream are beyond int64: 9, 10 *)
(* and 11 become 1, 2 and 3, an order, but 12 becomes -4.                  *)
(***************************************************************************)
EXTENDS Documents

plain(w) == [under |-> 0, cap |-> FALSE, word |-> w]
userId == <<plain("user"), [plain("id") EXCEPT !.cap = TRUE]>>
user_id == <<plain("user"), [plain("id") EXCEPT !.under = 1]>>
at_ == <<plain("at")>>
note == <<plain("note")>>
userName == <<plain("user"), [plain("name") EXCEPT !.cap = TRUE]>>
user_name == <<plain("user"), [plain("name") EXCEPT !.under = 1]>>
_id == Id

S(s) == <<"S", s>>
N(n) == <<"N", n>>

Texts == [x \in {"7"} |-> 7]
NoTexts == [x \in {} |-> <<>>]
\* Transforms, by field and type.
Transform(field, type) == [field |-> field, type |-> type]
Mapping(primaryKey, naming, transforms) ==
    [primaryKey |-> primaryKey, naming |-> naming, transforms |-> transforms]

ByText == {userId :> S("a"), userId :> S("b")}
ByNumber == {userId :> N(3), userId :> N(5)}
ByLargeNumber == {userId :> N(16), userId :> N(17)}
ByTwo == {(userId :> S("a")) @@ (at_ :> N(1)), (userId :> S("a")) @@ (at_ :> N(2))}
ById == {_id :> S("a"), _id :> S("b")}

\* Two names that snake_case makes one, and a nested object with a list.
Colliding == {(note :> S("x")),
              (user_id :> S("x")) @@ (userName :> N(9)) @@ (user_name :> <<"BOOL", TRUE>>)}
Nested == {note :> <<"M", (userName :> S("7"))>>,
           note :> <<"M", (userName :> S("soon")) @@ (at_ :> <<"L", <<N(1), <<"NULL">>>>>>)>>}
Kinds == {note :> <<"NS", <<1, 16>>>>, note :> <<"SS", <<"x">>>>}

SomeSetups == {
    [keys |-> ByText, others |-> Colliding, limit |-> 2, view |-> TRUE, first |-> 8,
     mapping |-> Mapping(<<userId, Id>>, "snake_case", <<>>)],
    [keys |-> ByNumber, others |-> Nested, limit |-> 2, view |-> TRUE, first |-> 8,
     mapping |-> Mapping(<<userId, Id>>, "camelCase",
                         <<Transform(<<note, userName>>, "datetime"), Transform(<<note>>, "array")>>)],
    [keys |-> ByText, others |-> Nested, limit |-> 2, view |-> TRUE, first |-> 10,
     mapping |-> Mapping(<<userId, Id>>, "preserve", <<Transform(<<note>>, "object")>>)],
    [keys |-> ById, others |-> Kinds, limit |-> 3, view |-> TRUE, first |-> 8,
     mapping |-> Mapping(<<>>, "snake_case", <<Transform(<<note>>, "decimal128")>>)],
    [keys |-> ByTwo, others |-> {<<>>}, limit |-> 2, view |-> TRUE, first |-> 8,
     mapping |-> Mapping(<<userId, Id>>, "preserve", <<>>)],
    [keys |-> ByText, others |-> {<<>>}, limit |-> 2, view |-> TRUE, first |-> 8,
     mapping |-> Mapping(<<>>, "camelCase", <<>>)],
    [keys |-> ByText, others |-> {<<>>}, limit |-> 2, view |-> FALSE, first |-> 8,
     mapping |-> Mapping(<<userId, Id>>, "camelCase", <<>>)],
    [keys |-> ByLargeNumber, others |-> {<<>>}, limit |-> 2, view |-> TRUE, first |-> 8,
     mapping |-> Mapping(<<userId, Id>>, "preserve", <<>>)]}

\* A table whose stream passes the wrap from its first shard to the second.
WrappingSetups == {
    [keys |-> ByText, others |-> {<<>>}, limit |-> 3, view |-> TRUE, first |-> 10,
     mapping |-> Mapping(<<userId, Id>>, "preserve", <<>>)]}
=============================================================================
