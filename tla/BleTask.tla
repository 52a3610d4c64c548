------------------------------ MODULE BleTask ------------------------------
(***************************************************************************)
(* What the rest of the service relies on of its BLE task: which commands  *)
(* it takes when, and how the devices and the connected device of AppState *)
(* change.  BleSession is shown to implement this module (ImplementsTask); *)
(* AppCommands puts the queues and the clients of the service around it.   *)
(***************************************************************************)
CONSTANTS
    Devices,   \* devices in radio range
    NoDevice   \* "None" of the Option fields

VARIABLES
    mode,      \* what the task is doing; "dead": it panicked; "down": no process
    wanted,    \* the device of the connect in progress
    listed,    \* AppState.devices
    connected  \* AppState.connected_device

taskVars == <<mode, wanted, listed, connected>>

Modes == {"idle", "scanning", "connecting", "announced", "running", "dead", "down"}

TaskInit == mode = "idle" /\ wanted = NoDevice /\ listed = {} /\ connected = NoDevice

\* A scan begins; an adapter that refuses it kills the task.
BeginScan ==
    /\ mode = "idle" /\ mode' \in {"scanning", "dead"}
    /\ UNCHANGED <<wanted, listed, connected>>

\* It ends with a list of devices, or with an error and the old list.
EndScan ==
    /\ mode = "scanning" /\ mode' = "idle"
    /\ listed' \in (SUBSET Devices) \cup {listed}
    /\ UNCHANGED <<wanted, connected>>

BeginConnect(d) ==
    /\ mode = "idle" /\ mode' = "connecting" /\ wanted' = d
    /\ UNCHANGED <<listed, connected>>

\* The connect fails, or panics.
FailConnect ==
    /\ mode = "connecting" /\ mode' \in {"idle", "dead"}
    /\ UNCHANGED <<wanted, listed, connected>>

\* The device asked for is published before its notifications are subscribed.
Announce ==
    /\ mode = "connecting" /\ mode' = "announced" /\ connected' = wanted
    /\ UNCHANGED <<wanted, listed>>

\* A subscription that fails leaves it published.
EndConnect ==
    /\ mode = "announced" /\ mode' \in {"running", "idle"}
    /\ UNCHANGED <<wanted, listed, connected>>

\* The process ends, with AppState; the machine may too, with or without it.
EndProcess ==
    /\ mode' = "down"
    /\ wanted' = NoDevice /\ listed' = {} /\ connected' = NoDevice

StartProcess == mode = "down" /\ mode' = "idle" /\ UNCHANGED <<wanted, listed, connected>>

TaskNext == \/ BeginScan \/ EndScan \/ FailConnect \/ Announce \/ EndConnect
            \/ EndProcess \/ StartProcess
            \/ \E d \in Devices : BeginConnect(d)

TaskSpec == TaskInit /\ [][TaskNext]_taskVars
=============================================================================
