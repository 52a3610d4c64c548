---------------------------- MODULE MCMouseMotion ----------------------------
(***************************************************************************)
(* MouseMotion on a small grid; the module has no model values.            *)
(***************************************************************************)
EXTENDS MouseMotion
=============================================================================
