# ToothPaste Desktop: TLA+ models and proofs

ToothPaste Desktop is a background service and a terminal interface (TUI) for the
ToothPaste Bluetooth keyboard and mouse. The service pairs with a device, keeps an
encrypted session with it and forwards text, keys, mouse motion and clicks. These
modules model the service's concurrent and failure-prone core, TLC checks them on
small instances, and TLAPS proves the central properties for every instance.

Paths below are short: `main.rs`, `ble/...`, `crypto.rs`, `storage.rs`, `input/...` and
`mcp/...` stand for the files under `crates/toothpaste-desktop-service/src` (all but
`main.rs` in its `modules` directory); `core` and `proto` for the crates of that name,
and `TUI ...` for `crates/toothpaste-desktop-tui/src`.

## Inventory

| Component | State | Operations | Interacts through |
|---|---|---|---|
| Command loop `ble_task` (main.rs) | none of its own | takes one command at a time; runs scan and connect to their end | `app_command` queue (32), calls BLEInterface |
| `BleManager` (ble/mod.rs) | found peripherals, connected peripheral, cached characteristics | scan, connect with retries, write, subscribe | OS Bluetooth stack |
| `BLEInterface` (ble/interface.rs) | device id (MAC), session loop | connect, greet, loop over notifications, input events and commands | both queues, AppState |
| `EcdhContext` (crypto.rs) | active session: device, key pair, AES key | generate, save, load, derive, encrypt | storage |
| `StorageService` (storage.rs) | master key, map, file | open, get, set, flush | OS keyring, file system |
| Input hook (input/handler.rs, hidmap.rs) | pressed keys, copy of AppState, accumulated motion | one callback per OS input event, on its own thread | `input_event` queue (50), writes AppState |
| AppState watch channel (core, main.rs) | devices, connected device and its authentication, three capture flags | `send_modify` (BLE task), whole-state `send` (hook), reads | every task |
| `auto_connect_task` (main.rs) | a start time | scan and connect to the first device when no TUI comes | AppState, `app_command` |
| `ipc_server` (main.rs) | one client | pushes AppState, takes commands | socket, `app_command` |
| MCP server (mcp/mod.rs) | none of its own | tools that send commands or events, read AppState and serial data | both queues, AppState |
| Packets (proto) | none | constructors of protobuf messages | |
| TUI bridge (TUI main.rs) | connection, commands that wait | spawn the service, reconnect, forward | socket |
| TUI screens (TUI tui/) | current screen and its widgets | key presses and pushed AppState | bridge |
| Firmware, OS | known keys, links | answers, drops | external |

What is hard, and what correct means for each part:

* **BLE task.** One asynchronous task whose await points are cut by link losses, device
  answers and kills. Correct: keys of one device never serve another; a key pair a device
  learns is not forgotten behind its back by a failed write, a kill or a restart (a torn
  file, a power loss and a replaced master key do lose it, see below); the session key
  comes from the newest challenge; the unwraps of the send functions hold; a command ends.
* **AppState.** Two threads write it, one of them by copying everything, waiting, and
  sending the copy back. Correct: what is published can be acted on, and the secrets do
  not depend on it.
* **Storage.** A file rewritten as a whole, a key in a keyring that can fail, several
  processes. Correct: what is stored can be read while its master key exists, what was
  acknowledged is kept while power lasts and no second process writes.
* **Input hook.** Stale copies of flags, a bounded queue that drops, sums of motion.
  Correct: nothing leaves that was not captured, no motion is forgotten, none but the
  first delta is made up, no button sticks beyond its next click.
* **Queues and their users** (TUI connection, MCP tools, auto-connect). Bounded queues with
  several producers, timeouts that race the answer, receivers made after the command was
  sent, a hook that takes a connection back. Correct: an answer of success stays shown, nobody
  waits for what is there already, a click lets go of its button, a call ends.
* **IPC.** Two processes that each come and go, four places where a write waits, a bridge
  that never gives up. Correct: each command at most once and in order, none lost unless
  something ended or a queue was full, states in order and never of an earlier service, a
  change is seen.
* **TUI navigation.** A stack of screens moved by keys and by two watch channels looked at
  one after the other. Correct: home is at the bottom, no screen below waits for something
  over, Backspace leads out.
* **Packets.** A text is trimmed, filtered and cut. Correct: every character a keyboard
  has is typed, in order, whatever the text.

`PROJECT.json` lists the hazards at their lines and the properties that address each.

## Modules

| Module | Models | About |
|---|---|---|
| `SecureChannel` | (abstract) | what the cryptographic context promises |
| `BleTask` | (abstract) | which commands the BLE task takes when, and what it publishes |
| `HookedTask` | (abstract) | BleTask and the hook that copies AppState and writes the copy back |
| `KeyStore` | (abstract) | what the BLE task relies on of its storage, and what it has to expect |
| `TuiBridge` | (abstract) | in which order the screens see availability and AppState |
| `BleSession` | ble_task, BleManager, BLEInterface, EcdhContext | the core; implements SecureChannel, BleTask and KeyStore |
| `Service` | BleSession composed with the hook's whole-state writes | two writers of AppState; implements HookedTask |
| `AppCommands` | HookedTask composed with both queues, the MCP tools, auto-connect and the TUI | who waits for whom |
| `Ipc` | ipc_server, handle_connection, the TUI bridge | the socket between the two processes; implements TuiBridge |
| `TuiNav` | ToothPasteTUI and its screens, on TuiBridge | navigation |
| `Storage` | StorageService and its several processes | opening and flushing step by step |
| `StorageHistory` | Storage with two history variables | implements KeyStore while one process runs at a time |
| `KeyCapture` | keyboard and button half of the hook, the input queue, its consumer | toggles, reports, clicks |
| `Packets` | create_keyboard_stream and the filter before it | a pure function; extended by KeyCapture |
| `MouseMotion` | mouse half of the hook | accumulated deltas |
| `BleSessionProofs`, `ServiceProofs`, `AppCommandsProofs`, `IpcProofs`, `TuiNavProofs`, `StorageProofs`, `KeyCaptureProofs`, `MouseMotionProofs` | | theorems |
| `MC*` | | instances for TLC |

`BleSession` is large, so the other parts meet it through small abstract modules. Each is
implemented on one side and used on the other, and both sides are proved:

| Boundary | Implemented by | Used by |
|---|---|---|
| `HookedTask` (extends `BleTask`) | `Service` | `AppCommands`, each step of which is one of `HookedTask` or a stutter |
| `KeyStore` | `StorageHistory`, while one process runs at a time | `BleSession` and `Service`, whose stores take no other steps |
| `TuiBridge` | `Ipc` | `TuiNav`, each step of which is one of `TuiBridge` or a stutter |

So what a user of a boundary assumes is no more than what the detailed module does, with
one reservation: `StorageHistory` implements `KeyStore` only while one process runs at a
time, so `BleSession` says nothing of a second service that rewrites the file. What does
cross that boundary is everything else that can happen to the file: writes that fail or
are cut short by an error or a kill, the torn file no process starts from, power losses
that take unsynced writes back, and a replaced master key that makes every entry
unreadable. A command `Ipc` delivers is a command `AppCommands` lets the TUI send.

Operators whose comment begins with "Faulty" are variants of the definition that follows
them, with a mistake a change of the code could make. No specification uses them; each
is there to see a property fail.

### BleSession

The task is cut at its await points; `phase` says at which one it is. `idle` is the
command loop, `scanning` the five seconds of a scan, `discover`, `resolve`, `greet` and
`publish` the parts of `connect_to_device`, `subscribe` the entry of `run`, `running` its
loop. `dead` is a task that panicked (its process goes on, without Bluetooth), `down` no
process.

| Variable | Code |
|---|---|
| `found`, `connP`, `cached`, `discovered` | found_peripherals, connected_peripherial, cached_peripheral, services the OS knows |
| `deviceId` | BLEInterface.device_id |
| `active` | EcdhContext.active_session: device, key pair, and the challenge its AES key comes from (0: none) |
| `stored`, `disk` | the storage map in memory and the file, when it was last whole: per device a key pair, nothing, or an entry that cannot be read |
| `torn`, `older` | whether the file parses; the maps a power loss may bring back, since nothing is synced |
| `forgotten` | history: devices whose entry a power loss took back or a new master key made unreadable |
| `app` | devices, connected_device and its authentication in AppState |
| `notes`, `linked`, `inbox`, `peers`, `issued` | external: notification stream, links, writes under way, keys the device knows, its last challenge |

Cryptography is abstracted to numbers: key pairs and challenges are numbered as they are
made, and an AES key is the pair of both. The address shown to the user and the MAC read
from the peripheral are the same model value. Each command's action includes all the
calls the code makes before its next await that changes shared state; a failed step
returns to the command loop as `?` does, with everything before it kept.

Assumptions: notifications of a subscribed link arrive once and in order; writes without
response may be lost; a device answers a key it knows with a Challenge and another with
PeerUnknown or, in pairing mode, with a Challenge; the firmware never sends PeerKnown
(its handler is `unimplemented!`, "Firmware does not implement this"). Keepalive and
SerialData change no modelled state. OldKey stands for each device's own earlier pair;
a device may have forgotten it before the first start. The awaits at the start of a connect
(properties, is_connected, connect) are one step, since a link that changes between them is
one that changes before or after.

Set and write are one step of `PairDevice`, with three outcomes: whole, not begun, or cut
short. A kill may fall inside the write (`Crash`), and `Start` refuses a file that does not
parse (storage.rs:70). `LosePower` takes unsynced writes back; `LoseMaster` is a start whose
get_secret fails for any reason (storage.rs:46).

### Service

Adds the hook's copy of AppState (`snap`), one capture flag and the steps `HookReads`,
`HookToggles`, `HookPasses`. The copy and the write back are apart because `handle_event`
takes the copy first and shows a notification before it sends. The liveness properties of
the task are checked here, with the hook interfering.

### AppCommands

| Variable | Code |
|---|---|
| `mode`, `wanted`, `listed`, `connected` | the BLE task as `BleTask` has it, and its part of AppState |
| `queue`, `inputs` | the channels app_command (32 places) and input_event (50) |
| `at`, `goal`, `answer` | of each MCP call and of auto_connect_task: the await point, the device it wants, the last answer |
| `unseen`, `written` | whether changed() would return on a receiver; AppState was written since the start |
| `copy` | the hook's copy of AppState, or none |
| `pressed` | whose button the device holds down |
| `undone`, `abandoned` | histories: a stale write took a connection back; a release that never left |

Each call is cut at its awaits: a wait for a place in a queue, for a change of AppState, or
between the two events of a click. Two details of the code carry the properties. A receiver
of AppState is a clone of one that has never looked, so whatever was written since the start
counts as unseen, also between the command and the receiver. And `select!` polls both
queues, so a text that waits does not keep the input from being taken. Time is open: a timer
may fire whenever its wait has not ended. In the code the auto-connect task looks at its
clock only after a change; `AutoSees` does too, so a scan that publishes nothing leaves it
waiting. DisconnectDevice is a command of its own only for `DisconnectIsDone`: the task
discards it like any other it does not know.

### Ipc

`up`, `born` and `state` are the service process, with AppStates numbered across restarts;
`server` and `hand` the connection loop and what it is writing; `link`, `wire` and `down`
the socket; `bridge`, `carry`, `view` and `available` the bridge; `screenq` its queue.
Commands are numbered as the screens issue them. The service and the TUI may end and start
again at any step, the BLE task may die, and a pipe may be full. While one side writes it
does not read. A TUI that quits leaves what it sent to be read (`rest`). One TUI runs at a
time, and it quits only while its connection is served or lost: what a server finds of a
client that left before being accepted is not followed.

### TuiNav

One round of the loop is three steps: the availability, the state, and at most one key;
the bridge may publish between any two. `stack` is the screen stack, `connecting` and
`typed` the fields of a screen that its keys look at. Every key of every screen is an
action; which entry of a list is selected is left open, so Enter may do what any entry
does. `leaving` is a user who from now on presses Backspace only.

### Packets

Characters are of four kinds: with a glyph, the space, other blanks, everything else.
`Trimmed` is `trim`, `Filtered` the filter after it, `Chunks` the cutting into packets.
`KeyCapture` extends it, since a clipboard item of the queue is what it is applied to; which
texts may be copied is a constant. `PastesWhole` counts: the character that is number
`Rank` of those to be typed is number `Place` of those in the packets.

### Storage

`new` is cut between `get_secret`, `set_secret` and reading the file, `flush` between the
truncation and the end of `fs::write`. Processes may stop at any point, and
`get_secret` may fail at any start. A process may
run beside another: `main` opens the storage before the IPC socket is found taken, and
goes on without it. Values are numbers; an entry carries the master key it is sealed with.
The file is never synced: `older` holds what it has held whole, and `LosePower` brings back
any of that or leaves it torn. What the keyring accepts is taken to last.
`StorageHistory` adds `settled`, each process's map without the set in progress, and
`intact`, the last file that was whole. A set counts when its write is over. An entry counts
as its value only for who has the master key it is sealed with (`View`), so that a master
key replaced at a start shows as every entry lost. A torn file is torn for `KeyStore` too.

### KeyCapture and MouseMotion

One event of the hook is one step: only the hook's thread writes the capture flags. The
two `try_send` of one key press are taken together, as if the consumer did not run
between them. The tables of hidmap.rs are kept as the sets of keys they know.
`buttons` holds the button fields of the last mouse packet sent, `lost` the buttons whose
last release did not reach the device, by a full queue, a capture that was off or a packet
that failed; a button leaves it with its next press. `MouseMotion` has positions on a grid
and wall-clock ticks, which may go back. The pointer starts anywhere; the hook takes it to
be at (0, 0) until the first event, as the code does.

## Runs

| Run | Bounds | Shows |
|---|---|---|
| `ble_safety` | 2 devices, 1 new key pair besides the old one, 2 challenges, 2 notifications, 1 restart | all safety invariants and the inductive invariant; every step is one of SecureChannel and of BleTask, or a stutter |
| `service` | 1 device, 1 restart | stale writes of the hook do not harm connectability; every step is one of HookedTask, or a stutter; a delivered challenge is answered, a connect ends |
| `commands` | 1 device, 1 MCP client, auto-connect, the TUI and the hook, queues of one place | answers of success stay shown, clicks end, no change is missed, calls end |
| `ipc` | 4 commands (the second kills the service), 3 states, command queue of 2, pipes and screen queue of 1 | order and loss of commands and states; a change is seen; the bridge publishes as TuiBridge says |
| `tui_nav` | 4 pushes, a scan asked for again at most 3 deep, keys of 1 character | shape of the screen stack; Backspace leads out |
| `storage` | 2 processes, 2 ids, 3 new master keys, 3 values | readable entries until a master key is overwritten, acknowledgements kept until a power loss; one process at a time takes the steps of KeyStore |
| `key_capture` | Ctrl, Alt, C, V, M, one button, queue of 2; texts of up to 5 characters in packets of 2 | flags, what is queued and its order, no button that sticks unless its own last release was lost; what is typed of a text |
| `mouse_motion` | 3 by 3 grid, any start, 3 times, 4 events | conservation after the first delta, no cancellation |

Why the bounds are enough to be interesting: two devices are what a mix-up needs; a
second key pair and a second challenge are what crossing and stale answers need; two
notifications can be reordered or superseded; one restart is a kill, a power loss or a lost
master key before, after or inside every step (none is followed once no start is left to
come). One device is enough for the hook's stale copies, which know connected and not
connected, and for liveness, since a task that waits for one device waits for no other. A queue of two can be full with one item on either side. Queues of one place make
everyone in `commands` wait for everyone: the MCP call has the auto-connect task, the TUI and
the hook to compete with. In `ipc` every pipe fills with one message, a third command is
behind the one that kills the service and a fourth is issued after it; three states are an
old service, a new one and a change of the new one. Four pushes take the TUI through a scan,
a device, a connection and a rejection. Texts of five characters have a short, a full and
a last packet. The theorems below remove the bounds from the properties they cover.
Deadlock is not checked where the bounds, an ended process or a panic stop the system;
`mouse_motion` checks it.

The other runs each end in a counterexample to what a line of the source says:

| Run | What happens |
|---|---|
| `disconnect_ignored` | the tool answers "Disconnected"; the task discards DisconnectDevice, and the session goes on |
| `wrong_device` | an already linked peripheral is published, packets go to the earlier one |
| `greeting_unanswered` | the answer to the greeting comes before the subscription |
| `challenge_unwrap` | a toggle pressed during a connect undoes it; the challenge panics the task |

Other failures are behaviours of the models without a run of their own:

* A connect after a restart, while the OS still has the link, panics the task
  (`Discover`); so does a scan that cannot start (`ScanStart`).
* Authenticated stays published after a new pairing dropped the AES key
  (`PairDevice`).
* A keyring that fails once makes a start replace the master key (`GenerateMaster`,
  `LoseMaster`), and two racing first starts leave one process with a master key nobody
  keeps (`SaveMaster`): "generated once" (storage.rs:21) holds of neither.
  `EntriesReadable` is conditional on `replaced`, `NoPairingForgotten` on `forgotten`.
* A kill or an error inside `fs::write` leaves a torn file, and every later start fails
  (`CutShort`, `LoadFile`): the pairings are gone though no value is misread.
* Nothing is synced, so a power loss may take back a set() that returned Ok, with the key
  pair the device has meanwhile accepted (`LosePower`).
* A button release that is not queued, because the queue is full or capture was switched
  off, or whose packet fails, leaves the device's button down until its next click
  (`lost`).
* The first mouse delta is the pointer's position, motion nobody made: the "last observed
  position" of handler.rs:218 is (0, 0) before any was observed (`Init` of MouseMotion).
* A challenge issued for the old key pair and handled after a PairDevice makes a session of
  the new key pair with the old challenge (`LoadDeviceKeys`).
* A subscription that fails leaves the device published as connected without a session
  (`Subscribe`).
* Ctrl+Alt+C, pressed to stop the capture, is itself sent to the device (`KeyPress`).
* press_key waits for a place in the input queue for as long as no session runs
  (`SendInput`; `CallsEnd` claims nothing else).
* tool_connect answers with the name of the device it asked for although another may be
  connected (`SeeConnected`), and a toggle may take the connection back (`HookToggles`).
* Bridge and server stop for ever when both write into full pipes (`Jammed`).
* An auto-connect whose scan publishes nothing waits for ever, its 10 s notwithstanding
  (`AutoSees`).
* Two services that run at once undo each other's pairings (`Storage`, `shared`).
* Commands that wait in the bridge are sent to whichever service it reaches next
  (`Connect`); one being written when the service ends is dropped (`WriteCommand`).

### Fairness

Only the runs with a liveness property assume any.

* `BleSession`, for `service` and `greeting_unanswered`: `WF_vars(TaskStep)`: the runtime polls a task that can proceed, sleeps and
  retries are finite, and `select!` polls its branches in random order, so a waiting
  notification is not passed over for ever. `WF` of each device's answer: a linked device
  handles what it receives. Nothing is assumed of users, the hook, links, kills or restarts.
  `greeting_unanswered` holds the code to no more than that: its counterexample is not a
  device that never answers but one that answers too early.
* `AppCommands`: `WF` of the task's steps and of taking input. `SF` of each call's wait for a
  place: a tokio channel gives its places to those who wait in the order they asked, so
  nobody is passed over though the place comes and goes. `WF` of each call's timeout: timers
  fire. Nothing of devices, clients or the hook.
* `Ipc`: `WF` of the server, of the bridge and of the BLE task taking commands. The latter is
  `ConnectEnds` of `BleSession`: the task always comes back for its next command.
  Ends, starts and users owe nothing.
* `TuiNav`: `WF` of the loop, and of keys: a user who leaves goes on pressing Backspace.

## Proofs

The theorems assume only the named assumptions on constants: `NoDevice` is not a device,
bounds are naturals. All leaves are checked by tlapm.

**Inductive invariant of BleSession.** `IInv` strengthens the properties by what they
rest on:

* `ConnectOrder`: past a successful connect, `connP`, `deviceId` and `cached` are set and
  the MAC is that of the peripheral packets go to. `SessionFollowsLink` needs it: sessions
  are built for `deviceId`, used on `connP`.
* `SessionInLoop`: a session exists only in the session loop. A connect therefore never
  changes `connP` under an existing session.
* `FileBehindMap`: the file never leads the map, and they agree outside the loop; nothing
  is newer than the newest key pair, so a pairing is newer than all the devices were told.
* `FileKnows`: the file, when it was last whole, had every key pair a device was told of,
  but for the devices in `forgotten`. A public key is sent only once the file has it, and a
  write that is cut short changes nothing of what the file was before. A start reads that
  file or none. With both, `NoPairingForgotten` is inductive.
* `ChallengeOrder`: waiting challenges are newer than the session's and sorted, the last
  of them is the device's newest. Handling them one by one then gives `ChallengeInStep`.

`InitIInv` and one lemma per conjunct (`TypeStep`, `ConnectOrderStep`, ..., each with one
step per action that can disturb it) give `Invariance`; type correctness, key and
challenge theorems follow by `PTL`. `ScansAreConnectable` and `ChallengeNeverPanics` are
inductive beside it. `ChannelRefinement` shows, from `IInv`, that initial states map to
initial states and every step to a step or stutter of `SecureChannel`.

`TaskRefinement` shows the same for `BleTask`; `TaskAbstractStep` has one case per
group of actions. `StoreRefinement` shows it for `KeyStore`: only a pairing writes, it
changes the entry of one device, and what reaches the file is the map as it then is, or
nothing, or a part that does not parse.

**Service.** `ServiceStep` shows `IInv` preserved by the hook's steps too: no conjunct of
`IInv` but types mentions `app`, which is why `ConnectionIsPublished` is kept out of it.
For `StaleStateStaysConnectable`
the invariant must cover the hook's copy and the connect in progress as well as what is
published: all of them are in `found`, which grows until the process ends
(`TaskWithin`, `WithinStep`).

`HookedTaskRefinement` takes the task's steps from `TaskAbstractStep`, which holds whatever
`app` is, and adds the hook's; the new case is a challenge that finds no device published,
which the task alone never meets. `ServiceChannelRefinement` and `ServiceStoreRefinement`
carry the channel and the store over: the hook touches neither.

**AppCommands.** Types (`CommandTypeCorrectness`), then three theorems, each
with an invariant of its own. `SuccessStaysShown`: once published, `connected` goes only
by the hook (`PublishedStays`), which remembers it in `undone`. It is about what is shown:
neither a lost session nor a disconnect takes the name away. `WaitsAreWoken`: what
AppState shows was written (`ShownWasWritten`) and the auto-connect task has not looked
before it waits (`AutoHasNotLooked`); a fresh receiver starts from `written`, so it has that
to see. `ClicksEnd`: a press in the queue has its release behind it, or the call still
holds it, or it is in `abandoned` (`PressesAreCovered`); the queue is a sequence of any
length, so `TakeInputStep` and `JoinStep` argue about positions.
`CommandsRunHookedTask` shows each step to be one of `HookedTask` or a stutter: queues,
calls and timers decide when the task moves and never how.

**Ipc.** `TypeInv` adds to the types what is in hand. For `CommandsKeepTheirOrder`,
`Pipeline` is the concatenation of every place a command can be at, and `PipelineStep` shows
that a step leaves it as it is, appends the command just issued, or drops a part of it and
remembers that. Ascending sequences stay so under each (`OrderStep`). `Leftovers`
(`RestIsRead`, `LossIsKnown`) says that a server which takes a new connection has read the
last one to its end. `StatesKeepTheirOrder` rests on `LinkIsCurrent`: a connection not given
up leads to the service that runs, and each starts from the default state with nothing under
way; `FlowInv` is the order of what is seen, under way and in hand, element by element.
`BridgeRefinement` maps the bridge to `TuiBridge`. It needs `AvailableOK`, that the
service is published as available just when the bridge talks to it or is about to for the
first time, and `LinkIsCurrent` for a service that comes back.

**TuiNav.** `ScreenStep` goes through the four ways the stack changes (`BackKeeps`,
`PushKeeps`, `ReplaceKeeps`, `HomeKeeps`). `HomeAtBottom` and `StackNeverWaits` are
inductive together with the types, and only together: a screen pushed must not be
connecting, and the screen a Back returns to must have been one that waits for nothing.
`ScreensRunBridge` is the other side of `BridgeRefinement`.

**Storage.** `EntriesStayReadable` rests on `SealInv`: unless a master key was
overwritten, each entry of the file carries the key of the keyring and each entry of a
process its own key, which is that of the keyring too once the file is read.
`AckedStaysKept` needs `OneAtATime` and that values grow (`KeptInv`): a flush in progress
then writes nothing older than what was acknowledged. Both hold for any set of processes and
ids, and any number of starts, kills and power losses; of a power loss `AckedIsKept` claims
only that what the file then holds is there. `KeyStoreRefinement` is about one process at a
time: `HistoryInv` adds to these that a set in progress differs from `settled` in one entry
(`SetIsOne`), that a file that parses is `intact` (`FileIsIntact`) and that a master key just
generated seals no entry yet, while processes that take turns share the keyring's
(`MasterIsNew`); so replacing it turns every entry of every view into a lost one, and
nothing else does. `Alone` and `AloneAfter` say whose map the store's memory is before and
after a step, `Views` that sealed maps look the same to who has the same key, and
`StoreStep` maps the end of each flush to a save, each kill to a close, each power loss to
one, each new master key to `LoseMaster` and each complete start to an open.

**KeyCapture.** `TogglesAreIndependent`: the flags are always what their toggles amount
to, from the refresh of `current_state` at the start of each event. `CaptureTypeCorrectness`
bounds the queue. `ButtonsComeUp` strengthens `NoButtonSticks` to `ReleasesFollow`: a button
that is down on the device, or by an item of the queue, is held, or its release is further
behind in the queue, or was lost.
`NothingElseIsQueued` shows the action property `OnlyCapturedIsQueued`: each handler extends
the queue at its end, by items whose flag is published (`Extends`, which composes: a paste
is an extension by the clipboard and then by the key).
`ClipboardStaysTyped` is about texts of any length (`EveryPasteIsWhole`) and follows the
three steps of the code. `TrimKeepsTheInk`: trimming cuts blanks off the ends and nothing
else. `FilterKeepsOrder`: what is left of the first n characters has each at its rank, which
is an induction over n. `ChunksAreTheText`: the packets hold each character of what they are
cut from once and in order, full but for the last, none empty. The library's induction
theorems cannot be used with an operator, so `CountUp` does it with a set, from a least
counterexample that a finite family of sets must have (`SmallestSet`, `FirstOf`);
`FilterUnfolds` shows by it that the filter's recursive function exists.

**MouseMotion.** `MotionInvariance` proves conservation and absence of cancellation
together, one case per branch of process_accumulated_event (`AccumulateStep`). With them
goes `SeesPointer`: from the first event on the hook knows the pointer's place, so that what
is made up is where the pointer was at the start, once.

**Only model-checked:** the liveness properties (`ChallengeIsAnswered`, `ConnectEnds`,
`CallsEnd`, `ChangeIsSeen`, `BackLeaves`): fairness and ENABLED are out of the prover's
reach. Nothing is proved of several processes that write the file at the same time beyond
`EntriesStayReadable`: they do lose entries.

## Not modelled

* Rendering (TUI tui/ui.rs, draw functions): it changes nothing but throbber frames.
* Real cryptography, logging, notifications to the user, the wording of messages.
* The tables of key names and parse_key_combo (mcp/mod.rs), which map constants to
  constants; the JSON-RPC of the MCP server (a library); the contents of `serial_buffer`.
* All packet constructors but create_keyboard_stream: they copy arguments into a message.
* Code that nothing calls: the wheel handler of the hook, rename, ble_send_unencrypted_packet,
  the password branch and delete of the storage, set_active_device, decrypt_bytes and
  clear_session of EcdhContext.
* UpdateSettings, which every consumer ignores.
* The ten attempts of the TUI's first connect are one wait, which may last for ever.

## Plan

1. `serial_buffer`: what tool_read_serial returns while the device goes on sending; it has no
   bound (ble/interface.rs:208).
2. Input the models leave open: scroll deltas that wrap (mcp/mod.rs:234), the lookups by a
   stale index (TUI tui/screens/home.rs:75, device_list.rs:77), a stream that goes on or
   stops after a piece failed (ble/interface.rs:329).
3. Larger instances of `commands`: a second MCP client, and a second device for the name in
   the answer of tool_connect.
