------------------------------ MODULE MCStorage ------------------------------
(***************************************************************************)
(* StorageHistory with interchangeable ids and processes.                  *)
(***************************************************************************)
EXTENDS StorageHistory, TLC

Symmetry == Permutations(Ids) \cup Permutations(Procs)
=============================================================================
