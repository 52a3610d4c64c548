--------------------------- MODULE MCAppCommands ---------------------------
(***************************************************************************)
(* AppCommands with one MCP client, the auto-connect task and a TUI that   *)
(* may send anything, and queues of one place, so that everyone has to     *)
(* wait for everyone.                                                      *)
(***************************************************************************)
EXTENDS AppCommands
=============================================================================
