----------------------------- MODULE KeyCapture -----------------------------
(***************************************************************************)
(* The keyboard and button half of the input hook (input/handler.rs) and   *)
(* the queue that takes its events to the session loop of the BLE task     *)
(* (ble/interface.rs, run).  One call of handle_event is one step: the     *)
(* three capture flags are written by the hook's thread only.  What those  *)
(* calls do to the rest of AppState is the subject of module Service, the  *)
(* sums of mouse motion that of MouseMotion, and the texts that clipboard  *)
(* items stand for that of Packets.                                        *)
(***************************************************************************)
EXTENDS Packets

CONSTANTS
    Keys,       \* bound: keys of the keyboard, by their rdev names
    Buttons,    \* mouse buttons
    MaxQueue    \* capacity of the input event channel

CtrlKeys  == {"ControlLeft", "ControlRight"}
AltKeys   == {"Alt", "AltGr"}
ShiftKeys == {"ShiftLeft", "ShiftRight"}

\* key_to_hid, as far as which keys have a HID code.
Special == CtrlKeys \cup AltKeys \cup ShiftKeys \cup {"MetaLeft", "MetaRight"}
           \cup {"UpArrow", "DownArrow", "LeftArrow", "RightArrow", "Home", "End",
                 "PageUp", "PageDown"}
           \cup {"Backspace", "Tab", "Return", "Escape", "Insert", "Delete"}
           \cup {"F1", "F2", "F3", "F4", "F5", "F6", "F7", "F8", "F9", "F10", "F11",
                 "F12"}

\* key_to_ascii: which keys have an ASCII code; the full stop has none.
Printable == {"KeyA", "KeyB", "KeyC", "KeyD", "KeyE", "KeyF", "KeyG", "KeyH", "KeyI",
              "KeyJ", "KeyK", "KeyL", "KeyM", "KeyN", "KeyO", "KeyP", "KeyQ", "KeyR",
              "KeyS", "KeyT", "KeyU", "KeyV", "KeyW", "KeyX", "KeyY", "KeyZ"}
             \cup {"Num0", "Num1", "Num2", "Num3", "Num4", "Num5", "Num6", "Num7",
                   "Num8", "Num9"}
             \cup {"Space", "Comma", "Minus", "Slash", "Equal", "BackQuote"}

\* The flag that Ctrl+Alt and a key toggle.
FlagOf == [KeyC |-> "key", KeyV |-> "clipboard", KeyM |-> "mouse"]
Flags  == {"key", "clipboard", "mouse"}

ASSUME QueueAssumption == MaxQueue \in Nat \ {0}

VARIABLES
    hook,     \* "listening", or "dead": the callback panicked, the process with it
    pressed,  \* pressed_keys
    flags,    \* the published enable_*_capture flags
    current,  \* the same flags in current_state
    queue,    \* the input event channel
    buttons,  \* the buttons set in the last mouse packet
    (* history *)
    held,     \* buttons the user holds
    wanted,   \* the flags the user's toggles amount to
    lost      \* buttons let go of whose release did not reach the device

user == <<held, wanted, lost>>
vars == <<hook, pressed, flags, current, queue, buttons, user>>

AllOff == [f \in Flags |-> FALSE]

Init == /\ hook = "listening" /\ pressed = {}
        /\ flags = AllOff /\ current = AllOff
        /\ queue = <<>> /\ buttons = {}
        /\ held = {} /\ wanted = AllOff /\ lost = {}

-----------------------------------------------------------------------------
(* The hook *)

\* The modifiers among the keys p.
Modifiers(p) == (IF p \cap CtrlKeys # {} THEN {"ctrl"} ELSE {})
                \cup (IF p \cap AltKeys # {} THEN {"alt"} ELSE {})
                \cup (IF p \cap ShiftKeys # {} THEN {"shift"} ELSE {})

\* The toggle combinations; is_combo_active does not mind Shift.
IsToggle(k, p) == k \in DOMAIN FlagOf /\ {"ctrl", "alt"} \subseteq Modifiers(p)

\* Faulty: the channel has no limit.
OfferUnbounded(q, items) == q \o items

\* try_send: a full channel drops the event.
Offer(q, items) == IF Len(q \o items) <= MaxQueue THEN q \o items ELSE q

Item(type, of, mods) == [type |-> type, of |-> of, mods |-> mods]

\* Faulty: current_state stays as it was when the hook started.
NotRefreshed == UNCHANGED current

\* handle_event: current_state is refreshed first.
Refreshed == current' = flags

\* build_hid_report: a key in neither table gives none.
HidReport(k, p) ==
    IF k \in Special \cup Printable THEN <<Item("Keycode", k, Modifiers(p))>> ELSE <<>>

\* The event of a key: a HID report of key and modifiers, or the key as text.
KeyItems(k, p) ==
    IF Modifiers(p) # {} \/ k \in Special THEN HidReport(k, p)
    ELSE IF k \in Printable THEN <<Item("KeyPress", k, {})>> ELSE <<>>

\* Faulty: the clipboard is sent whatever the flag says.
PastesAlways(k, p) == k = "KeyV" /\ "ctrl" \in Modifiers(p)

\* Ctrl+V while current_state has clipboard capture on.
Pastes(k, p) == current'["clipboard"] /\ k = "KeyV" /\ "ctrl" \in Modifiers(p)

\* A toggle writes the copy of the state back, with one flag flipped.
Toggle(k, p) ==
    IF IsToggle(k, p)
    THEN /\ flags' = [current' EXCEPT ![FlagOf[k]] = ~@]
         /\ wanted' = [wanted EXCEPT ![FlagOf[k]] = ~@]
    ELSE UNCHANGED <<flags, wanted>>

\* handle_keyboard_event of a press, repeated ones included. The clipboard may
\* hold no text, or not open at all, which panics.
KeyPress(k) ==
    /\ hook = "listening" /\ Refreshed
    /\ pressed' = pressed \cup {k}
    /\ Toggle(k, pressed')
    /\ LET typed == IF current'["key"] THEN KeyItems(k, pressed') ELSE <<>>
       IN  \/ queue' = Offer(queue, typed) /\ UNCHANGED hook
           \/ /\ Pastes(k, pressed')
              /\ queue' = Offer(Offer(queue, <<Item("Clipboard", k, {})>>), typed)
              /\ UNCHANGED hook
           \/ Pastes(k, pressed') /\ hook' = "dead" /\ UNCHANGED queue
    /\ UNCHANGED <<buttons, held, lost>>

KeyRelease(k) ==
    /\ hook = "listening" /\ Refreshed
    /\ k \in pressed /\ pressed' = pressed \ {k}
    /\ UNCHANGED <<hook, flags, queue, buttons, user>>

\* handle_mouse_click, of a press or a release.
Click(type, b) ==
    /\ hook = "listening" /\ Refreshed
    /\ queue' = IF current'["mouse"] THEN Offer(queue, <<Item(type, b, {})>>) ELSE queue
    /\ UNCHANGED <<hook, pressed, flags, buttons, wanted>>

\* What was lost of a button before no longer matters once it is down again.
ButtonPress(b) ==
    /\ b \notin held /\ held' = held \cup {b}
    /\ Click("ButtonPress", b)
    /\ lost' = lost \ {b}

ButtonRelease(b) ==
    /\ b \in held /\ held' = held \ {b}
    /\ Click("ButtonRelease", b)
    /\ lost' = IF queue' = queue THEN lost \cup {b} ELSE lost

\* handle_mouse_move, when it sends what was accumulated.
MouseMove ==
    /\ hook = "listening" /\ Refreshed
    /\ current'["mouse"]
    /\ queue' = Offer(queue, <<Item("MouseMove", "delta", {})>>)
    /\ UNCHANGED <<hook, pressed, flags, buttons, user>>

-----------------------------------------------------------------------------
(* The session loop *)

\* Faulty: the branch of a release is a copy of that of a press.
ButtonsOfAny(item) ==
    IF item.type # "MouseMove" THEN {item.of} \cap {"Left", "Right"} ELSE {}

\* The button fields of the packet sent for an item: a move and any release
\* say that no button is down.
ButtonsOf(item) == IF item.type = "ButtonPress" THEN {item.of} \cap {"Left", "Right"} ELSE {}

\* The button that is let go of by an item that fails to leave.
Forgets(item) == IF item.type = "ButtonRelease" THEN {item.of} \ held ELSE {}

\* command_rx.recv() of the input events; the packet may fail to leave.
TakeEvent ==
    /\ hook = "listening" /\ queue # <<>>
    /\ queue' = Tail(queue)
    /\ \/ /\ Head(queue).type \in {"ButtonPress", "ButtonRelease", "MouseMove"}
          /\ \/ buttons' = ButtonsOf(Head(queue)) /\ UNCHANGED lost
             \/ lost' = lost \cup Forgets(Head(queue)) /\ UNCHANGED buttons
       \/ /\ Head(queue).type \in {"KeyPress", "Keycode", "Clipboard"}
          /\ UNCHANGED <<buttons, lost>>
    /\ UNCHANGED <<hook, pressed, flags, current, held, wanted>>

HookStep == \/ \E k \in Keys : KeyPress(k) \/ KeyRelease(k)
            \/ \E b \in Buttons : ButtonPress(b) \/ ButtonRelease(b)
            \/ MouseMove

Next == HookStep \/ TakeEvent

Spec == Init /\ [][Next]_vars

-----------------------------------------------------------------------------
(* Properties *)

ItemTypes == {"KeyPress", "Keycode", "Clipboard", "ButtonPress", "ButtonRelease",
              "MouseMove"}

TypeOK ==
    /\ hook \in {"listening", "dead"} /\ pressed \subseteq Keys
    /\ flags \in [Flags -> BOOLEAN] /\ current \in [Flags -> BOOLEAN]
    /\ queue \in Seq([type : ItemTypes, of : Keys \cup Buttons \cup {"delta"},
                      mods : SUBSET {"ctrl", "alt", "shift"}])
    /\ Len(queue) <= MaxQueue
    /\ buttons \subseteq Buttons /\ held \subseteq Buttons
    /\ lost \subseteq Buttons /\ wanted \in [Flags -> BOOLEAN]

\* Each flag is what the user's toggles of that flag amount to: writing the
\* whole state back never undoes another toggle (handle_event refreshes
\* current_state before the toggles copy it).
FlagsFollowToggles == flags = wanted

\* The flag an item needs.
FlagFor(item) == CASE item.type \in {"KeyPress", "Keycode"} -> "key"
                   [] item.type = "Clipboard" -> "clipboard"
                   [] OTHER -> "mouse"

\* What the user types, copies or clicks enters the queue only if its capture
\* was published as on when the event came, and what waits there stays in the
\* order of the events (handle_keyboard_event, handle_mouse_click).
OnlyCapturedIsQueued ==
    [][\/ queue # <<>> /\ queue' = Tail(queue)
       \/ /\ \A i \in DOMAIN queue : queue'[i] = queue[i]
          /\ \A i \in DOMAIN queue' \ DOMAIN queue : flags[FlagFor(queue'[i])]]_vars

\* Once the device has caught up with the queue, it keeps no button down that
\* the user has let go of, but for a button whose own last release was lost: by
\* a full queue, a capture that was off, or a packet that failed. What was lost
\* of another button or at an earlier click is no excuse (handle_mouse_click and
\* the three mouse branches of run).
NoButtonSticks == queue = <<>> => buttons \subseteq held \cup lost

\* Whatever text a clipboard item in the queue carries, the device types all of
\* it that it can (InputEvent::Clipboard).
ClipboardIsTyped == \A i \in DOMAIN queue : queue[i].type = "Clipboard" => EveryTextIsTyped
=============================================================================
