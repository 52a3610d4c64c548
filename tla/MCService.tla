------------------------------ MODULE MCService ------------------------------
(***************************************************************************)
(* Service on one or two interchangeable devices.                          *)
(***************************************************************************)
EXTENDS Service, TLC

Symmetry == Permutations(Devices)
=============================================================================
