---------------------------- MODULE MCProcessors ---------------------------
(* Processors with the symmetry of workers and of request contents. *)
EXTENDS Processors, TLC

Symmetry == Permutations(Workers) \cup Permutations(Hints)
=============================================================================
