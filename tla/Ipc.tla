-------------------------------- MODULE Ipc --------------------------------
(***************************************************************************)
(* The local socket between the service and the terminal user interface:   *)
(* in the service ipc_server and handle_connection (service main.rs), one  *)
(* client at a time; in the TUI the bridge (TUI main.rs), which reconnects *)
(* and never gives up.  Every write may have to wait: for room in a pipe,  *)
(* or, on the way to the BLE task, for room in the command queue.          *)
(* Commands are numbered as the screens issue them.  AppStates are         *)
(* numbered as the service publishes them, a new process starting a new    *)
(* number; 0 is the default AppState of the TUI.                           *)
(* One TUI runs at a time; it ends only while its connection is served.    *)
(* What the BLE task does with a command is module BleSession's business.  *)
(***************************************************************************)
EXTENDS Integers, Sequences

CONSTANTS
    Kills,        \* the commands that are KillService
    QueueSize,    \* places of the command queue (32)
    ScreenSize,   \* places between the screens and the bridge (32)
    PipeSize,     \* messages a pipe holds in one direction
    MaxCommands,  \* bound: commands issued
    MaxStates     \* bound: states published

ASSUME IpcSizes == /\ QueueSize \in Nat \ {0} /\ ScreenSize \in Nat \ {0}
                   /\ PipeSize \in Nat \ {0}
                   /\ MaxCommands \in Nat /\ MaxStates \in Nat /\ Kills \subseteq Nat

VARIABLES
    (* the service process *)
    up,        \* it runs
    born,      \* the first AppState of its present or last run
    state,     \* AppState
    queue,     \* app_command_tx to app_command_rx
    taskAlive, \* the BLE task holds the receiving end
    executed,  \* commands the BLE task took (history)
    server,    \* "accept", "greet", "select", "push" or "enqueue"
    hand,      \* the state being written, or the command being passed on
    unseen,    \* changed() would return
    rest,      \* unread commands of a client that has gone
    (* the connection, seen from the TUI *)
    link,      \* "none", "waiting" to be accepted, "served", or "dead"
    wire,      \* commands under way
    down,      \* states under way
    (* the TUI process *)
    bridge,    \* "start", "select", "write", "lost" or "sleep"
    carry,     \* the command being written
    linkBorn,  \* born of the service the connection leads to (history)
    view,      \* the AppState the screens see
    available,
    screenq,   \* cmd_tx to cmd_rx
    issued,    \* commands issued
    quiet      \* nothing has been lost to an end or a full queue (history)

process == <<up, born, state>>
tasks   == <<queue, taskAlive, executed>>
serving == <<server, hand, unseen, rest>>
pipes   == <<link, wire, down>>
tui     == <<bridge, carry, linkBorn, view, available>>
screens == <<screenq, issued>>
vars == <<process, tasks, serving, pipes, tui, screens, quiet>>

Nothing == 0

Init ==
    /\ up = TRUE /\ born = 1 /\ state = 1
    /\ queue = <<>> /\ taskAlive = TRUE /\ executed = <<>>
    /\ server = "accept" /\ hand = Nothing /\ unseen = FALSE /\ rest = <<>>
    /\ link = "none" /\ wire = <<>> /\ down = <<>>
    /\ bridge = "start" /\ carry = Nothing /\ linkBorn = Nothing
    /\ view = Nothing /\ available = TRUE
    /\ screenq = <<>> /\ issued = 0 /\ quiet = TRUE

-----------------------------------------------------------------------------
(* The service: a process that may end at any moment *)

\* Any task changes AppState: most of all the BLE task, in connect_to_device, scan
\* and the handlers of notifications, and the hook with its toggles.
Change ==
    /\ up /\ state < MaxStates
    /\ state' = state + 1 /\ unseen' = TRUE
    /\ UNCHANGED <<up, born, tasks, server, hand, rest, pipes, tui, screens, quiet>>

\* The end of the process. States already in the pipe may still be read.
Death ==
    /\ up' = FALSE /\ UNCHANGED <<born, state>>
    /\ queue' = <<>> /\ taskAlive' = FALSE
    /\ server' = "accept" /\ hand' = Nothing /\ unseen' = FALSE /\ rest' = <<>>
    /\ link' = IF link = "none" THEN "none" ELSE "dead"
    /\ wire' = <<>> /\ down' \in {down, <<>>}
    /\ quiet' = FALSE
    /\ UNCHANGED <<tui, screens>>

Crash == up /\ Death /\ UNCHANGED executed

\* By the TUI or by hand.
Start ==
    /\ ~up /\ state < MaxStates
    /\ up' = TRUE /\ state' = state + 1 /\ born' = state' /\ taskAlive' = TRUE
    /\ UNCHANGED <<queue, executed, serving, pipes, tui, screens, quiet>>

\* ble_task and run take the next command. KillService ends the process.
Execute ==
    /\ up /\ taskAlive /\ queue # <<>>
    /\ executed' = Append(executed, Head(queue))
    /\ \/ Head(queue) \in Kills /\ Death
       \/ /\ Head(queue) \notin Kills /\ queue' = Tail(queue)
          /\ UNCHANGED <<process, taskAlive, serving, pipes, tui, screens, quiet>>

\* The BLE task panics (an unwrap of on_challenge or of a connect, the expect of a
\* scan), and the command queue closes.
TaskDies ==
    /\ up /\ taskAlive
    /\ taskAlive' = FALSE /\ queue' = <<>> /\ quiet' = FALSE
    /\ UNCHANGED <<process, executed, serving, pipes, tui, screens>>

-----------------------------------------------------------------------------
(* ipc_server and handle_connection. tui_connected is server # "accept".   *)
(* The receiver given to the connection is a copy of one that has seen     *)
(* nothing since the process started.                                      *)

Served == link = "served"

Accept ==
    /\ up /\ server = "accept" /\ link = "waiting"
    /\ link' = "served" /\ server' = "greet"
    /\ hand' = state /\ unseen' = (state > born)
    /\ UNCHANGED <<process, tasks, rest, wire, down, tui, screens, quiet>>

Deliver == Len(down) < PipeSize /\ down' = Append(down, hand)

\* The initial state. An error is ignored.
Greet ==
    /\ server = "greet" /\ server' = "select" /\ hand' = Nothing
    /\ IF Served THEN Deliver ELSE UNCHANGED down
    /\ UNCHANGED <<process, tasks, unseen, rest, link, wire, tui, screens, quiet>>

\* changed() and borrow_and_update.
SeeChange ==
    /\ server = "select" /\ unseen
    /\ server' = "push" /\ hand' = state /\ unseen' = FALSE
    /\ UNCHANGED <<process, tasks, rest, pipes, tui, screens, quiet>>

\* Faulty: the state is marked as seen only once it has been written.
PushThenMark ==
    /\ server = "push" /\ hand' = Nothing /\ unseen' = FALSE
    /\ \/ Served /\ Deliver /\ server' = "select" /\ UNCHANGED rest
       \/ ~Served /\ server' = "accept" /\ rest' = <<>> /\ UNCHANGED down
    /\ UNCHANGED <<process, tasks, link, wire, tui, screens, quiet>>

\* send_msg in the loop. A client that has gone ends the connection, what it
\* sent last unread.
Push ==
    /\ server = "push" /\ hand' = Nothing
    /\ \/ Served /\ Deliver /\ server' = "select" /\ UNCHANGED rest
       \/ ~Served /\ server' = "accept" /\ rest' = <<>> /\ UNCHANGED down
    /\ UNCHANGED <<process, tasks, unseen, link, wire, tui, screens, quiet>>

\* next_line: a command, or the end of what a client that has gone sent.
ReadCommand ==
    /\ server = "select" /\ server' = "enqueue"
    /\ \/ Served /\ wire # <<>> /\ hand' = Head(wire) /\ wire' = Tail(wire) /\ UNCHANGED rest
       \/ ~Served /\ rest # <<>> /\ hand' = Head(rest) /\ rest' = Tail(rest) /\ UNCHANGED wire
    /\ UNCHANGED <<process, tasks, unseen, link, down, tui, screens, quiet>>

ReadEnd ==
    /\ server = "select" /\ ~Served /\ rest = <<>> /\ server' = "accept"
    /\ UNCHANGED <<process, tasks, hand, unseen, rest, pipes, tui, screens, quiet>>

\* Faulty: each command is passed on by a task of its own, which may be overtaken.
EnqueueAside(c) ==
    \/ taskAlive /\ Len(queue) < QueueSize
       /\ queue' \in {Append(queue, c), <<c>> \o queue}
    \/ ~taskAlive /\ UNCHANGED queue

\* app_command_tx.send waits for a place; on a closed queue it fails, unheeded.
Enqueue(c) ==
    \/ taskAlive /\ Len(queue) < QueueSize /\ queue' = Append(queue, c)
    \/ ~taskAlive /\ UNCHANGED queue

PassOn ==
    /\ server = "enqueue" /\ server' = "select" /\ hand' = Nothing
    /\ Enqueue(hand)
    /\ UNCHANGED <<process, taskAlive, executed, unseen, rest, pipes, tui, screens, quiet>>

-----------------------------------------------------------------------------
(* The TUI: connect_or_spawn, ipc_bridge and the screens *)

\* try_connect: the socket takes connections the server has not accepted yet.
Connect ==
    /\ bridge \in {"start", "sleep"} /\ up
    /\ bridge' = "select" /\ link' = "waiting" /\ available' = TRUE /\ linkBorn' = born
    /\ UNCHANGED <<process, tasks, serving, wire, down, carry, view, screens, quiet>>

ReadState ==
    /\ bridge = "select" /\ down # <<>>
    /\ view' = Head(down) /\ down' = Tail(down)
    /\ UNCHANGED <<process, tasks, serving, link, wire, bridge, carry, linkBorn,
                   available, screens, quiet>>

TakeCommand ==
    /\ bridge = "select" /\ screenq # <<>>
    /\ bridge' = "write" /\ carry' = Head(screenq) /\ screenq' = Tail(screenq)
    /\ UNCHANGED <<process, tasks, serving, pipes, linkBorn, view, available, issued, quiet>>

\* write_msg. A write that fails takes its command with it.
WriteCommand ==
    /\ bridge = "write" /\ carry' = Nothing
    /\ \/ /\ link \in {"waiting", "served"} /\ Len(wire) < PipeSize
          /\ wire' = Append(wire, carry) /\ bridge' = "select"
          /\ UNCHANGED <<link, down, available>>
       \/ /\ link = "dead" /\ bridge' = "lost" /\ available' = FALSE
          /\ link' = "none" /\ down' = <<>> /\ UNCHANGED wire
    /\ UNCHANGED <<process, tasks, serving, linkBorn, view, screens, quiet>>

\* Faulty: only a write that fails says that the service is gone.
NoticeEndSilently ==
    /\ bridge = "select" /\ link = "dead"
    /\ bridge' = "lost" /\ link' = "none" /\ down' = <<>>
    /\ UNCHANGED <<process, tasks, serving, wire, carry, linkBorn, view, available,
                   screens, quiet>>

NoticeEnd ==
    /\ bridge = "select" /\ link = "dead"
    /\ bridge' = "lost" /\ available' = FALSE
    /\ link' = "none" /\ down' = <<>>
    /\ UNCHANGED <<process, tasks, serving, wire, carry, linkBorn, view, screens, quiet>>

\* Faulty: the screens keep the last state of a service that is gone.
ForgetsNothing ==
    /\ bridge = "lost" /\ bridge' = "sleep"
    /\ UNCHANGED <<process, tasks, serving, pipes, carry, linkBorn, view, available,
                   screens, quiet>>

\* The default state is published, then the bridge sleeps and tries again.
ForgetState ==
    /\ bridge = "lost" /\ bridge' = "sleep" /\ view' = Nothing
    /\ UNCHANGED <<process, tasks, serving, pipes, carry, linkBorn, available,
                   screens, quiet>>

\* Faulty: a full channel is not looked at.
OfferAlways(c) == screenq' = Append(screenq, c) /\ UNCHANGED quiet

\* try_send drops the command when the channel is full.
Offer(c) ==
    IF Len(screenq) < ScreenSize
    THEN screenq' = Append(screenq, c) /\ UNCHANGED quiet
    ELSE UNCHANGED screenq /\ quiet' = FALSE

Issue ==
    /\ bridge # "start" /\ issued < MaxCommands
    /\ issued' = issued + 1
    /\ Offer(issued')
    /\ UNCHANGED <<process, tasks, serving, pipes, tui>>

\* The user quits, and starts the TUI again.
Quit ==
    /\ bridge # "start" /\ link \in {"none", "served"}
    /\ bridge' = "start" /\ carry' = Nothing /\ view' = Nothing /\ available' = TRUE
    /\ screenq' = <<>> /\ link' = "none" /\ wire' = <<>> /\ down' = <<>>
    /\ rest' = wire /\ quiet' = FALSE
    /\ UNCHANGED <<process, tasks, server, hand, unseen, linkBorn, issued>>

-----------------------------------------------------------------------------

ServerStep == Accept \/ Greet \/ SeeChange \/ Push \/ ReadCommand \/ ReadEnd \/ PassOn
BridgeStep == Connect \/ ReadState \/ TakeCommand \/ WriteCommand \/ NoticeEnd \/ ForgetState

Next == \/ ServerStep \/ BridgeStep \/ Execute
        \/ Change \/ Crash \/ Start \/ TaskDies \/ Issue \/ Quit

Spec == Init /\ [][Next]_vars

\* The runtimes poll tasks that can proceed; the BLE task comes back for the
\* next command (BleSession, ConnectEnds). Users, changes and ends owe nothing.
FairSpec == Spec /\ WF_vars(ServerStep) /\ WF_vars(BridgeStep) /\ WF_vars(Execute)

-----------------------------------------------------------------------------
(* Properties *)

\* Queues and pipes stay within their sizes, whoever waits (mpsc::channel,
\* try_send).
Ids == 1..MaxCommands
TypeOK ==
    /\ up \in BOOLEAN /\ taskAlive \in BOOLEAN /\ unseen \in BOOLEAN
    /\ available \in BOOLEAN /\ quiet \in BOOLEAN
    /\ born \in 1..state /\ state \in Nat /\ hand \in Nat
    /\ view \in 0..state /\ linkBorn \in 0..state /\ issued \in 0..MaxCommands
    /\ carry \in Ids \cup {Nothing}
    /\ server \in {"accept", "greet", "select", "push", "enqueue"}
    /\ link \in {"none", "waiting", "served", "dead"}
    /\ bridge \in {"start", "select", "write", "lost", "sleep"}
    /\ \A q \in {queue, executed, rest, wire, screenq} : q \in Seq(Ids)
    /\ down \in Seq(1..state)
    /\ Len(queue) <= QueueSize /\ Len(screenq) <= ScreenSize
    /\ Len(wire) <= PipeSize /\ Len(down) <= PipeSize

InHand(c, holds) == IF holds THEN <<c>> ELSE <<>>

\* Every command between the screens and the BLE task, the oldest first.
Pipeline == executed \o queue \o InHand(hand, server = "enqueue") \o rest
              \o wire \o InHand(carry, bridge = "write") \o screenq

Ascending(s) == \A i, j \in DOMAIN s : i < j => s[i] < s[j]

\* The BLE task gets each command at most once and in the order the screens
\* issued them, across reconnects, restarts of the service and of the TUI; and
\* it gets all of them as long as no process, task or queue let one down
\* (handle_connection reads on only when the last command is in the queue;
\* ipc_bridge never writes a command again).
CommandsInOrder ==
    /\ Ascending(Pipeline)
    /\ quiet => Pipeline = [i \in 1..issued |-> i]

\* The screens never see the states of the service out of order, and never a
\* state of an earlier service through a connection to a later one: what is
\* seen, under way and being written follows in time (handle_connection pushes
\* the newest state, ipc_bridge publishes the default one on a loss).
StatesInOrder ==
    LET flow == <<view>> \o down
                   \o InHand(hand, Served /\ server \in {"greet", "push"})
    IN /\ \A i, j \in DOMAIN flow : i < j => flow[i] <= flow[j]
       /\ bridge \in {"select", "write"} =>
             \A i \in DOMAIN flow : flow[i] = Nothing \/ flow[i] >= linkBorn

\* What the screens are built on: a loss is published before the default state,
\* and a service found again before any state of it. A TUI starts on its first
\* connection, so the availability it starts with holds (ipc_bridge, main).
Bridge == INSTANCE TuiBridge WITH
              AppStates <- Nat, DefaultState <- Nothing, state <- view,
              bridge <- CASE bridge = "lost" -> "lost"
                          [] bridge = "sleep" -> "down"
                          [] OTHER -> "up"
ImplementsBridge == Bridge!BridgeSpec

-----------------------------------------------------------------------------
(* The inductive invariants: why the properties above hold *)

\* What is held is what the holder's state says: a state to write, a command to
\* pass on or to write. In the pipe are the states of this and earlier services.
HandsOK ==
    /\ server \in {"greet", "push"} => hand \in 1..state
    /\ server = "enqueue" => hand \in Ids
    /\ bridge = "write" => carry \in Ids

\* Where commands may be, and that what was lost is remembered: the server takes
\* a new connection only when the last one is read to its end or given up.
RestIsRead == /\ server = "accept" => rest = <<>> /\ ~Served
              /\ Served => rest = <<>>
LossIsKnown == quiet => link # "dead" /\ taskAlive /\ rest = <<>>

\* A connection not yet given up leads to the service that runs, and the screens
\* start each connection from the default state with nothing under way.
LinkIsCurrent ==
    /\ link \in {"waiting", "served"} => up /\ linkBorn = born
    /\ bridge \in {"start", "lost", "sleep"} => link = "none"
    /\ link = "none" => down = <<>>
    /\ bridge \in {"start", "sleep"} => view = Nothing

\* The screens are told that the service is there just when the bridge talks to
\* it, or is about to for the first time.
AvailableOK == available <=> bridge \in {"start", "select", "write"}

\* Each waits for the other to read: neither loop reads while it writes.
Jammed == /\ server \in {"greet", "push"} /\ Len(down) = PipeSize
          /\ bridge = "write" /\ Len(wire) = PipeSize

\* core lib.rs:72: a snapshot on every change. A change is seen by the screens,
\* or a newer one, as long as the connection holds; what stands in the way is
\* that both ends are stuck writing (handle_connection, ipc_bridge).
ChangeIsSeen ==
    \A s \in 1..MaxStates :
        Served /\ state >= s ~> view >= s \/ ~Served \/ Jammed
=============================================================================
