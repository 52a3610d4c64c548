------------------------------- MODULE MCIpc -------------------------------
(***************************************************************************)
(* Ipc with small queues and pipes, so that every wait happens.            *)
(***************************************************************************)
EXTENDS Ipc
=============================================================================
