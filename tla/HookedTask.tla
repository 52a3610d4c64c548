----------------------------- MODULE HookedTask -----------------------------
(***************************************************************************)
(* The BLE task together with the input hook, as far as the rest of the    *)
(* service can tell: the hook copies AppState as an event begins and, for  *)
(* a toggle, writes the copy back, whatever the task published in between. *)
(* A task that finds its connection taken back when a challenge comes      *)
(* panics.  Service is shown to implement this module                      *)
(* (ImplementsHookedTask); AppCommands puts queues and clients around it.  *)
(***************************************************************************)
EXTENDS BleTask

VARIABLE copy   \* AppState as the hook copied it, or {}: it holds no copy

hookedVars == <<taskVars, copy>>

HookedInit == TaskInit /\ copy = {}

\* handle_event takes a copy.
ReadState ==
    /\ mode # "down" /\ copy = {}
    /\ copy' = {[listed |-> listed, connected |-> connected]}
    /\ UNCHANGED taskVars

\* A toggle: update_state sends the copy back.
WriteBack ==
    /\ \E old \in copy : listed' = old.listed /\ connected' = old.connected
    /\ copy' = {}
    /\ UNCHANGED <<mode, wanted>>

\* Any other event leaves AppState alone.
DropCopy == copy # {} /\ copy' = {} /\ UNCHANGED taskVars

\* on_challenge unwraps connected_device.
FindTaken ==
    /\ mode = "running" /\ connected = NoDevice /\ mode' = "dead"
    /\ UNCHANGED <<wanted, listed, connected>>

HookedNext ==
    \/ TaskNext /\ copy' = IF mode' = "down" THEN {} ELSE copy
    \/ FindTaken /\ UNCHANGED copy
    \/ ReadState \/ WriteBack \/ DropCopy

HookedSpec == HookedInit /\ [][HookedNext]_hookedVars
=============================================================================
