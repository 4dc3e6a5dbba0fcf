---------------------------- MODULE MCWriterPool ----------------------------
(* Small instances of WriterPool for TLC. *)
EXTENDS WriterPool, TLC

CallerSymmetry == Permutations(Caller)
=============================================================================
