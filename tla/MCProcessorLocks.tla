-------------------------- MODULE MCProcessorLocks -------------------------
(* ProcessorLocks with the symmetry of database sessions. *)
EXTENDS ProcessorLocks, TLC

Symmetry == Permutations(Txs)
=============================================================================
