------------------------------- MODULE Service -------------------------------
(***************************************************************************)
(* The service process as far as AppState goes: the BLE task (BleSession)  *)
(* and the keyboard hook's thread (input/handler.rs) share one watch       *)
(* channel.  The BLE task changes fields in place (send_modify); the hook  *)
(* copies the whole state at the start of an event and, for one of its     *)
(* three toggle combinations, shows a notification and then sends the      *)
(* whole copy back with one flag flipped.                                  *)
(***************************************************************************)
EXTENDS BleSession

VARIABLES
    capture,  \* one enable_*_capture flag; only the hook writes it
    hookPc,   \* "waiting" for an event, or "handling" one
    snap      \* the hook's current_state: its copy of AppState

hookVars == <<capture, hookPc, snap>>
serviceVars == <<vars, hookVars>>

InitialSnapshot == [app |-> InitialApp, capture |-> FALSE]

\* Faulty: the state is copied at the first event only.
SnapshotOnce == IF snap = InitialSnapshot THEN [app |-> app, capture |-> capture] ELSE snap
Snapshot == [app |-> app, capture |-> capture]

ServiceInit == /\ Init
               /\ capture = FALSE
               /\ hookPc = "waiting"
               /\ snap = InitialSnapshot

\* handle_event: the copy is taken first, whatever the event is.
HookReads ==
    /\ phase # "down" /\ hookPc = "waiting"
    /\ snap' = Snapshot
    /\ hookPc' = "handling"
    /\ UNCHANGED <<vars, capture>>

\* Ctrl+Alt and C, V or M: update_state sends the copy with the flag flipped.
HookToggles ==
    /\ phase # "down" /\ hookPc = "handling"
    /\ app' = snap.app
    /\ capture' = ~snap.capture
    /\ hookPc' = "waiting"
    /\ UNCHANGED <<control, manager, deviceId, active, keys, notes, linked, inbox,
                   firmware, out, restarts, snap>>

\* Any other event leaves AppState alone.
HookPasses ==
    /\ hookPc = "handling"
    /\ hookPc' = "waiting"
    /\ UNCHANGED <<vars, capture, snap>>

\* The hook's thread and its memory go with the process.
HookEnds == capture' = FALSE /\ hookPc' = "waiting" /\ snap' = InitialSnapshot

BleStep == \/ TaskStep \/ ScanStart \/ PairDevice \/ Transmit \/ DeviceStep \/ Start
           \/ LoseMaster \/ \E d \in Devices : Connect(d)

ServiceNext == \/ BleStep /\ UNCHANGED hookVars
               \/ (KillService \/ Crash \/ LosePower) /\ HookEnds
               \/ HookReads \/ HookToggles \/ HookPasses

ServiceSpec == ServiceInit /\ [][ServiceNext]_serviceVars

\* The fairness of the BLE task and of the devices. The hook owes nothing: a user
\* may press no key for ever, or keep the hook writing stale copies.
ServiceFairSpec == ServiceSpec /\ Fairness

-----------------------------------------------------------------------------
(* Properties *)

ServiceTypeOK ==
    /\ TypeOK
    /\ capture \in BOOLEAN
    /\ hookPc \in {"waiting", "handling"}
    /\ snap.app \in [devices : SUBSET Devices,
                     connected : Devices \cup {NoDevice}, auth : AuthStates]
    /\ snap.capture \in BOOLEAN

\* However stale the state the hook writes back, every device in it, listed or
\* connected, is one the transport can find: found_peripherals never shrinks
\* while the process lives (handler.rs, update_state; ble/mod.rs, line 62).
StaleStateIsConnectable ==
    app.devices \cup ({app.connected} \ {NoDevice}) \subseteq found

\* The rest of the service sees a task that takes one command at a time, and an
\* AppState that is the task's but for copies the hook made of it earlier in the
\* life of the same process; only a connection so taken back makes a session
\* end in a panic (main.rs, ble_task; handler.rs, handle_event and update_state).
Hooked == INSTANCE HookedTask WITH
              mode <- TaskMode, wanted <- target,
              listed <- app.devices, connected <- app.connected,
              copy <- IF hookPc = "waiting" THEN {}
                      ELSE {[listed |-> snap.app.devices, connected |-> snap.app.connected]}
ImplementsHookedTask == Hooked!HookedSpec

\* interface.rs:78 asserts that a device is published when a challenge is
\* handled. Not so: the hook may write back a copy from before the connect.
ChallengeUnwrapAsserted == cause # "connected_device"
=============================================================================
