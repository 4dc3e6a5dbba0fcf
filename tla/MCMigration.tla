----------------------------- MODULE MCMigration -----------------------------
(* Small instances of Migration for TLC: the shapes of the tables. *)
EXTENDS Migration, TLC

CONSTANTS s1, s2
TwoSegments == {s1, s2}
NoRows == {}

\* A segment of two rows beside one of one row.
RowsTwoOne == s1 :> 2 @@ s2 :> 1
RowsThreeOne == s1 :> 3 @@ s2 :> 1

\* The filter, or the converter, rejects the first row of the first segment.
FirstRow == {<<s1, 1>>}
=============================================================================
