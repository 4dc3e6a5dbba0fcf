----------------------------- MODULE MCProcessor -----------------------------
(* Small instances of Processor for TLC. *)
EXTENDS Processor, TLC

\* The first two pairs have one region and endpoint.
Shared == 1 :> "r1" @@ 2 :> "r1" @@ 3 :> "r2"
=============================================================================
