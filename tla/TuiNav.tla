------------------------------- MODULE TuiNav -------------------------------
(***************************************************************************)
(* The screens of the terminal user interface (tui/mod.rs and              *)
(* tui/screens): a current screen over a stack, moved by keys and by the   *)
(* AppState and the availability that the IPC bridge publishes on two      *)
(* watch channels (TuiBridge, which Ipc implements).  The user interface   *)
(* is one thread: each round of its loop looks at the first channel, then  *)
(* at the second, draws, and handles at most one key.  The bridge          *)
(* publishes at any moment in between.  Which item of a list is selected   *)
(* is left open: Enter may meet any.                                       *)
(***************************************************************************)
EXTENDS Integers, Sequences

CONSTANTS
    MaxPushes,  \* bound: states published
    MaxDepth,   \* bound: screens on the stack when another scan is asked for
    MaxTyped    \* bound: characters typed as a public key

ASSUME TuiBounds == MaxPushes \in Nat /\ MaxDepth \in Nat /\ MaxTyped \in Nat

VARIABLES
    (* ToothPasteTUI *)
    current,    \* current_screen
    stack,      \* screen_stack
    shown,      \* service_available: its copy, as drawn
    exit,
    at,         \* where the loop is: "available", "state" or "key"
    sent,       \* the last command offered to the bridge
    (* the two watch channels *)
    available, availableNew,   \* service_available_rx and its has_changed
    state, stateNew,           \* app_state_rx and its has_changed
    (* the bridge and the user *)
    bridge,     \* "up", "lost" (availability published, state not), "down"
    pushes,     \* states published so far
    leaving     \* from now on the user presses Backspace only

screens  == <<current, stack, exit>>
channels == <<available, availableNew, state, stateNew>>
world    == <<bridge, pushes>>
vars == <<screens, shown, at, sent, channels, world, leaving>>

Kinds == {"Home", "Scanning", "DeviceList", "Connected", "PairingInput"}
Screen(k) == [kind |-> k, connecting |-> FALSE, typed |-> 0]

\* What the screens tell apart of AppState: whether devices are listed, and the
\* connected device with its authentication.
Links == {"none", "NotAuthenticated", "AuthenticationFailed", "Authenticated"}
States == [devices : BOOLEAN, link : Links]
DefaultState == [devices |-> FALSE, link |-> "none"]
Commands == {"none", "ScanForDevices", "ConnectToDevice", "DisconnectDevice",
             "PairDevice", "KillService"}

Published == INSTANCE TuiBridge WITH AppStates <- States

Init ==
    /\ current = Screen("Home") /\ stack = <<>> /\ exit = FALSE
    /\ shown = TRUE /\ at = "available" /\ sent = "none"
    /\ Published!BridgeInit /\ availableNew = FALSE /\ stateNew = FALSE
    /\ pushes = 0 /\ leaving = FALSE

-----------------------------------------------------------------------------
(* sync_app_state *)

\* Faulty: a lost service leads home, over the screens there were.
LostServiceKeepsStack ==
    IF availableNew /\ ~available /\ shown
    THEN current' = Screen("Home") /\ UNCHANGED stack
    ELSE UNCHANGED <<current, stack>>

\* A service that was there and is gone: back to a new home screen.
LostService ==
    IF availableNew /\ ~available /\ shown
    THEN current' = Screen("Home") /\ stack' = <<>>
    ELSE UNCHANGED <<current, stack>>

SyncAvailable ==
    /\ ~exit /\ at = "available" /\ at' = "state"
    /\ LostService
    /\ shown' = IF availableNew THEN available ELSE shown
    /\ availableNew' = FALSE
    /\ UNCHANGED <<exit, sent, available, state, stateNew, world, leaving>>

\* Scanning gives way to the devices, and either to the connected device.
Advance(s) ==
    LET found == IF s.kind = "Scanning" /\ state.devices THEN Screen("DeviceList") ELSE s
    IN IF found.kind \in {"Scanning", "DeviceList"} /\ state.link # "none"
       THEN Screen("Connected") ELSE found

\* Faulty: a rejected key asks for a public key whatever the screen is.
AsksForKeyAnywhere(s) == state.link = "AuthenticationFailed"

\* A device that rejected our key: ask for its public key.
AsksForKey(s) == s.kind = "Connected" /\ state.link = "AuthenticationFailed"

SyncState ==
    /\ ~exit /\ at = "state" /\ at' = "key"
    /\ stateNew' = FALSE
    /\ LET next == Advance(current)
       IN \/ ~stateNew /\ UNCHANGED <<current, stack>>
          \/ /\ stateNew /\ AsksForKey(next)
             /\ current' = Screen("PairingInput") /\ stack' = Append(stack, next)
          \/ /\ stateNew /\ ~AsksForKey(next)
             /\ current' = next /\ UNCHANGED stack
    /\ UNCHANGED <<exit, shown, sent, available, availableNew, state, world, leaving>>

-----------------------------------------------------------------------------
(* apply_nav_signal *)

Back ==
    IF stack = <<>>
    THEN exit' = TRUE /\ UNCHANGED <<current, stack>>
    ELSE /\ current' = stack[Len(stack)]
         /\ stack' = SubSeq(stack, 1, Len(stack) - 1)
         /\ UNCHANGED exit

Open(s) == current' = s /\ stack' = Append(stack, current) /\ UNCHANGED exit

Stay == UNCHANGED screens

\* try_send: a full channel drops the command.
Send(c) == sent' \in {c, sent}

-----------------------------------------------------------------------------
(* handle_keypress. The loop goes round after at most one key. *)

Pressed == /\ ~exit /\ at = "key" /\ at' = "available"
           /\ UNCHANGED <<shown, channels, world, leaving>>

\* Faulty: the pairing screen takes every Backspace for itself.
EraseOrStay ==
    IF current.kind = "PairingInput"
    THEN /\ current' = [current EXCEPT !.typed = IF @ > 0 THEN @ - 1 ELSE 0]
         /\ UNCHANGED <<stack, exit>>
    ELSE Back

\* Faulty: the last character typed is taken off without a look.
EraseUnchecked ==
    IF current.kind = "PairingInput" /\ stack # <<>>
    THEN current' = [current EXCEPT !.typed = @ - 1] /\ UNCHANGED <<stack, exit>>
    ELSE Back

\* handle_back_key: the pairing screen erases what was typed first.
EraseOrBack ==
    IF current.kind = "PairingInput" /\ current.typed > 0
    THEN current' = [current EXCEPT !.typed = @ - 1] /\ UNCHANGED <<stack, exit>>
    ELSE Back

Backspace == Pressed /\ EraseOrBack /\ UNCHANGED sent

\* Escape, q where q is not text, and the Quit item of the home screen: nothing
\* while a device list is connecting.
Escape ==
    /\ Pressed /\ ~leaving
    /\ IF current.kind = "DeviceList" /\ current.connecting THEN Stay ELSE Back
    /\ UNCHANGED sent

\* Any other key, the arrows and no key within 100 ms included.
OtherKey == Pressed /\ ~leaving /\ Stay /\ UNCHANGED sent

\* Home: the menu is that of the availability as it is now, not as drawn.
HomeScan ==
    /\ Pressed /\ ~leaving /\ current.kind = "Home" /\ available
    /\ Send("ScanForDevices") /\ Open(Screen("Scanning"))

HomeKill ==
    /\ Pressed /\ ~leaving /\ current.kind = "Home" /\ available
    /\ Send("KillService") /\ Stay

\* Device list: scan again, or connect to the device selected.
Rescan ==
    /\ Pressed /\ ~leaving /\ Len(stack) < MaxDepth
    /\ current.kind = "DeviceList" /\ ~current.connecting
    /\ Send("ScanForDevices") /\ Open(Screen("Scanning"))

ConnectSelected ==
    /\ Pressed /\ ~leaving
    /\ current.kind = "DeviceList" /\ ~current.connecting /\ state.devices
    /\ Send("ConnectToDevice")
    /\ current' = [current EXCEPT !.connecting = TRUE] /\ UNCHANGED <<stack, exit>>

\* Connected: d, or the item of the menu.
Disconnect ==
    /\ Pressed /\ ~leaving /\ current.kind = "Connected"
    /\ Send("DisconnectDevice") /\ Back

PairSelected ==
    /\ Pressed /\ ~leaving
    /\ current.kind = "Connected" /\ state.link # "Authenticated"
    /\ Open(Screen("PairingInput")) /\ UNCHANGED sent

\* Pairing: characters, and Enter on a well-formed key. With no device
\* connected any more Enter does nothing.
Type ==
    /\ Pressed /\ ~leaving /\ current.kind = "PairingInput" /\ current.typed < MaxTyped
    /\ current' = [current EXCEPT !.typed = @ + 1] /\ UNCHANGED <<stack, exit, sent>>

Submit ==
    /\ Pressed /\ ~leaving
    /\ current.kind = "PairingInput" /\ current.typed > 0 /\ state.link # "none"
    /\ Send("PairDevice") /\ Back

Key == \/ Backspace \/ Escape \/ OtherKey
       \/ HomeScan \/ HomeKill \/ Rescan \/ ConnectSelected
       \/ Disconnect \/ PairSelected \/ Type \/ Submit

-----------------------------------------------------------------------------
(* The bridge, and what its channels flag *)

PushState ==
    /\ pushes < MaxPushes /\ pushes' = pushes + 1
    /\ Published!Push /\ stateNew' = TRUE
    /\ UNCHANGED <<screens, shown, at, sent, availableNew, leaving>>

LoseService ==
    /\ Published!Lose /\ availableNew' = TRUE
    /\ UNCHANGED <<screens, shown, at, sent, stateNew, pushes, leaving>>

ResetState ==
    /\ Published!Reset /\ stateNew' = TRUE
    /\ UNCHANGED <<screens, shown, at, sent, availableNew, pushes, leaving>>

FindService ==
    /\ pushes < MaxPushes /\ pushes' = pushes + 1
    /\ Published!Find /\ availableNew' = TRUE
    /\ UNCHANGED <<screens, shown, at, sent, stateNew, leaving>>

\* The user has had enough.
Leave == /\ ~leaving /\ leaving' = TRUE
         /\ UNCHANGED <<screens, shown, at, sent, channels, world>>

Sync == SyncAvailable \/ SyncState
Bridge == PushState \/ LoseService \/ ResetState \/ FindService

Next == Sync \/ Key \/ Bridge \/ Leave

Spec == Init /\ [][Next]_vars

\* The loop of the user interface runs, and a user who leaves presses keys.
FairSpec == Spec /\ WF_vars(Sync) /\ WF_vars(Key)

-----------------------------------------------------------------------------
(* Properties *)

\* The screens keep their types; what was typed never falls below nothing.
ScreenType == [kind : Kinds, connecting : BOOLEAN, typed : Nat]
TypeOK ==
    /\ current \in ScreenType /\ stack \in Seq(ScreenType) /\ exit \in BOOLEAN
    /\ shown \in BOOLEAN /\ at \in {"available", "state", "key"} /\ sent \in Commands
    /\ available \in BOOLEAN /\ availableNew \in BOOLEAN
    /\ state \in States /\ stateNew \in BOOLEAN
    /\ bridge \in {"up", "lost", "down"} /\ pushes \in Nat /\ leaving \in BOOLEAN

\* The home screen is at the bottom and nowhere else, whatever keys and pushed
\* states cross: only Back on the home screen quits (apply_nav_signal), and a
\* lost service leaves no screen underneath it (sync_app_state).
HomeAtBottom ==
    /\ stack = <<>> <=> current.kind = "Home"
    /\ \A i \in DOMAIN stack : stack[i].kind = "Home" <=> i = 1

\* Back never leads to a screen that waits for something already over: no scan
\* and no connect in progress is on the stack, and a connected screen is there
\* only right under the pairing screen it opened (device_list.rs, the guards on
\* connecting_to; sync_app_state, which replaces the waiting screens).
StackNeverWaits ==
    /\ current.kind = "PairingInput" => stack # <<>>
    /\ \A i \in DOMAIN stack :
          /\ stack[i].kind \in {"Home", "DeviceList", "Connected"}
          /\ ~stack[i].connecting
          /\ stack[i].kind = "Connected" <=> i = Len(stack) /\ current.kind = "PairingInput"

\* A user who presses nothing but Backspace gets out, though pushed states open
\* screens meanwhile and a connecting device list takes no other key
\* (handle_back_key).
BackLeaves == leaving ~> exit
=============================================================================
