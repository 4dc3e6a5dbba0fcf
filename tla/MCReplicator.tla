---------------------------- MODULE MCReplicator ----------------------------
(* Small instances of Replicator for TLC. *)
EXTENDS Replicator, TLC

CONSTANTS k1, k2, a, b
Keys == {k1, k2}
OneLineage == {a}
HomeOne == k1 :> a @@ k2 :> a
TwoLineages == {a, b}
HomeTwo == k1 :> a @@ k2 :> b
NoKeys == {}
Symmetry == Permutations(Keys)
=============================================================================
