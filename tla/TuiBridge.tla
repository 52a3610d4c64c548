----------------------------- MODULE TuiBridge -----------------------------
(***************************************************************************)
(* What the screens of the terminal user interface rely on of the bridge:  *)
(* the order in which availability and AppState are published.  A loss is  *)
(* published before the default state, and a service found again before    *)
(* any state of it.  Ipc is shown to implement this module                 *)
(* (ImplementsBridge); TuiNav puts the screens and the keys around it.     *)
(***************************************************************************)
CONSTANTS
    AppStates,     \* what a service may push
    DefaultState   \* AppState::default()

VARIABLES
    bridge,     \* "up", "lost" (availability published, state not), "down"
    available,  \* what service_available_tx sent last
    state       \* what app_state_tx sent last

bridgeVars == <<bridge, available, state>>

BridgeInit == bridge = "up" /\ available = TRUE /\ state = DefaultState

Push ==
    /\ bridge = "up" /\ state' \in AppStates
    /\ UNCHANGED <<bridge, available>>

Lose ==
    /\ bridge = "up" /\ bridge' = "lost"
    /\ available' = FALSE /\ UNCHANGED state

Reset ==
    /\ bridge = "lost" /\ bridge' = "down"
    /\ state' = DefaultState /\ UNCHANGED available

Find ==
    /\ bridge = "down" /\ bridge' = "up"
    /\ available' = TRUE /\ UNCHANGED state

\* The user quits, and starts the TUI again.
Restart == bridge' = "up" /\ available' = TRUE /\ state' = DefaultState

BridgeNext == Push \/ Lose \/ Reset \/ Find \/ Restart

BridgeSpec == BridgeInit /\ [][BridgeNext]_bridgeVars
=============================================================================
