----------------------------- MODULE MCCommands -----------------------------
(* A small instance of Commands for TLC. *)
EXTENDS Commands, TLC

\* Two keys in one segment, or in one each.
OneOrTwo == {1, 2}
PartOfTwo == 1 :> (1 :> 0 @@ 2 :> 0) @@ 2 :> (1 :> 1 @@ 2 :> 0)
=============================================================================
