------------------------------ MODULE MCTuiNav ------------------------------
(***************************************************************************)
(* TuiNav with four pushes and a stack of three: a home screen, a device   *)
(* list under a second scan, and a connected screen under a pairing one.   *)
(***************************************************************************)
EXTENDS TuiNav
=============================================================================
