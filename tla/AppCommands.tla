---------------------------- MODULE AppCommands ----------------------------
(***************************************************************************)
(* Everyone who gives the BLE task work, and what they wait for.  The      *)
(* tools of the MCP server (mcp/mod.rs), each call a future of its own,    *)
(* the auto-connect task and the TUI's connection (main.rs) share the      *)
(* bounded command queue and the bounded input queue and watch AppState.   *)
(* The BLE task and the hook are those of HookedTask, which Service        *)
(* implements.                                                             *)
(* Receivers of AppState are copies of one that never looked, so a fresh   *)
(* one has an unseen change whenever AppState was written since the start. *)
(* Time is left open: a timeout may fire whenever its wait has not ended.  *)
(***************************************************************************)
EXTENDS HookedTask, Integers, Sequences

CONSTANTS
    Calls,      \* MCP clients, one call at a time each
    AutoTask,   \* the auto-connect task
    Hook,       \* the input hook
    QueueSize,  \* places of the command queue (32)
    InputSize   \* places of the input queue (50)

ASSUME CommandSizes ==
    /\ QueueSize \in Nat \ {0} /\ InputSize \in Nat \ {0}
    /\ AutoTask \notin Calls /\ Hook \notin Calls /\ NoDevice \notin Devices

VARIABLES
    queue,      \* app_command_tx to app_command_rx
    inputs,     \* input_event_tx to input_event_rx
    at,         \* the await point each call and the auto-connect task is at
    goal,       \* the device each of them wants to connect
    unseen,     \* whether changed() would return on its receiver, if any
    written,    \* AppState was written since the process started
    answer,     \* the answer to the last call
    pressed,    \* whose button the device holds down
    undone,     \* the hook took a connection back that a call was told of (history)
    abandoned   \* calls whose last release was not sent or did not leave (history)

Clients == Calls \cup {AutoTask}
channels == <<queue, inputs>>
calls == <<at, goal, answer, abandoned>>
watch == <<unseen, written>>
toggling == <<copy, undone>>
vars == <<taskVars, channels, calls, watch, pressed, toggling>>

\* Other: what the BLE task sends to the device, a text for one. KillService, like
\* any end of the process, ends everything here.
Scan == [op |-> "ScanForDevices", dev |-> NoDevice]
ConnectTo(d) == [op |-> "ConnectToDevice", dev |-> d]
Other == [op |-> "Other", dev |-> NoDevice]
Disconnect == [op |-> "DisconnectDevice", dev |-> NoDevice]
Commands == {Scan, Other, Disconnect} \cup {ConnectTo(d) : d \in Devices}

\* "key" is a key, a combination or a media key; "move" a mouse frame that
\* names no button: a motion, or a turn of the wheel.
Input(c, k) == [by |-> c, kind |-> k]
InputKinds == {"key", "move", "press", "release"}

Init ==
    /\ HookedInit
    /\ queue = <<>> /\ inputs = <<>>
    /\ at = [c \in Clients |-> IF c = AutoTask THEN "sleep" ELSE "ready"]
    /\ goal = [c \in Clients |-> NoDevice]
    /\ unseen = [c \in Clients |-> FALSE] /\ written = FALSE
    /\ answer = [c \in Calls |-> "none"]
    /\ pressed = {} /\ abandoned = {}
    /\ undone = FALSE

-----------------------------------------------------------------------------
(* The BLE task *)

\* Calls have a receiver while they wait, the auto-connect task until then.
Watches(c) == at[c] \in {"sleep", "wait", "confirm"} \/ (c = AutoTask /\ at[c] = "scan")
Wrote == written' = TRUE /\ unseen' = [c \in Clients |-> Watches(c)]
WroteNothing == UNCHANGED watch

\* A task that panics drops the receiving ends: both queues close.
Close == IF mode' = "dead" THEN queue' = <<>> /\ inputs' = <<>> ELSE UNCHANGED inputs

Closed == mode = "dead"

\* ble_task takes the next command. Without a session a text is an error;
\* DisconnectDevice has no arm but the last, which does nothing.
TakeIdle ==
    /\ mode = "idle" /\ queue # <<>>
    /\ \/ Head(queue) = Scan /\ BeginScan
       \/ \E d \in Devices : Head(queue) = ConnectTo(d) /\ BeginConnect(d)
       \/ Head(queue) \in {Other, Disconnect} /\ UNCHANGED taskVars
    /\ Close /\ (mode' # "dead" => queue' = Tail(queue))
    /\ UNCHANGED <<calls, watch, pressed, toggling>>

\* run takes the next command: it types texts and discards the others,
\* DisconnectDevice too.
TakeRunning ==
    /\ mode = "running" /\ queue # <<>>
    /\ queue' = Tail(queue)
    /\ UNCHANGED <<taskVars, inputs, calls, watch, pressed, toggling>>

\* Faulty: input is looked at only when a command comes.
TakeInputWithCommand ==
    /\ mode = "running" /\ inputs # <<>> /\ queue # <<>>
    /\ inputs' = Tail(inputs) /\ queue' = Tail(queue)
    /\ UNCHANGED <<taskVars, calls, watch, pressed, toggling>>

\* A mouse frame tells the device of every button: the release of one, or a
\* move, is the release of all.
Buttons(e) == CASE e.kind = "press" -> {e.by}
                [] e.kind \in {"release", "move"} -> {}
                [] OTHER -> pressed

\* run takes the next input event.
TakeInput ==
    /\ mode = "running" /\ inputs # <<>>
    /\ inputs' = Tail(inputs)
    /\ LET e == Head(inputs)
       IN  \/ /\ pressed' = Buttons(e) /\ UNCHANGED abandoned
           \/ /\ UNCHANGED pressed    \* the write fails
              /\ abandoned' = IF e.kind = "release" THEN abandoned \cup ({e.by} \cap Calls)
                              ELSE abandoned
    /\ UNCHANGED <<taskVars, queue, at, goal, answer, watch, toggling>>

Work ==
    /\ \/ EndScan /\ (Wrote \/ (listed' = listed /\ WroteNothing)) /\ UNCHANGED undone
       \/ Announce /\ Wrote /\ undone' = FALSE
       \/ (FailConnect \/ EndConnect) /\ WroteNothing /\ UNCHANGED undone
    /\ Close /\ (mode' # "dead" => UNCHANGED queue)
    /\ UNCHANGED <<calls, pressed, copy>>

\* A handler of the device's answers writes AppState. The unwrap of on_challenge
\* panics when the hook has taken the connection back.
HandleAnswer ==
    /\ mode = "running"
    /\ \/ Wrote /\ UNCHANGED <<taskVars, channels>>
       \/ FindTaken /\ Close /\ WroteNothing
    /\ UNCHANGED <<calls, pressed, toggling>>

-----------------------------------------------------------------------------
(* The calls *)

\* The call c answers.
Answer(c, a) == at' = [at EXCEPT ![c] = "ready"] /\ answer' = [answer EXCEPT ![c] = a]
GoTo(c, where) == at' = [at EXCEPT ![c] = where] /\ answer' = [answer EXCEPT ![c] = "none"]
\* The device c wanted is in the command, or given up.
Forget(c) == goal' = [goal EXCEPT ![c] = NoDevice]

\* send().await: the place is there, or one waits; on a closed channel it fails.
\* Faulty: nobody waits for a place.
EnqueueAnyway(cmd) == ~Closed /\ queue' = Append(queue, cmd)
Enqueue(cmd) == ~Closed /\ Len(queue) < QueueSize /\ queue' = Append(queue, cmd)

\* Faulty: the receiver starts from AppState as it is now.
ReceiverFromNow(c) == unseen' = [unseen EXCEPT ![c] = FALSE]

\* A receiver is made by copying one that has seen nothing.
FreshReceiver(c) == unseen' = [unseen EXCEPT ![c] = written]

\* tool_connect, up to its first await.
CallConnect(c) ==
    /\ at[c] = "ready"
    /\ \/ connected # NoDevice /\ Answer(c, "connected") /\ UNCHANGED goal
       \/ /\ connected = NoDevice /\ listed # {} /\ GoTo(c, "connect")
          /\ \E d \in listed : goal' = [goal EXCEPT ![c] = d]
       \/ connected = NoDevice /\ listed = {} /\ GoTo(c, "scan") /\ UNCHANGED goal
    /\ UNCHANGED <<taskVars, channels, abandoned, watch, pressed, toggling>>

SendScan(c) ==
    /\ at[c] = "scan"
    /\ \/ Enqueue(Scan) /\ GoTo(c, "wait") /\ FreshReceiver(c)
       \/ Closed /\ Answer(c, "error") /\ UNCHANGED <<queue, unseen>>
    /\ UNCHANGED <<taskVars, inputs, goal, abandoned, written, pressed, toggling>>

SeeDevices(c) ==
    /\ at[c] = "wait" /\ unseen[c]
    /\ unseen' = [unseen EXCEPT ![c] = FALSE]
    /\ \/ /\ listed # {} /\ GoTo(c, "connect")
          /\ \E d \in listed : goal' = [goal EXCEPT ![c] = d]
       \/ listed = {} /\ UNCHANGED <<at, answer, goal>>
    /\ UNCHANGED <<taskVars, channels, abandoned, written, pressed, toggling>>

\* do_connect
SendConnect(c) ==
    /\ at[c] = "connect"
    /\ \/ Enqueue(ConnectTo(goal[c])) /\ GoTo(c, "confirm") /\ FreshReceiver(c)
       \/ Closed /\ Answer(c, "error") /\ UNCHANGED <<queue, unseen>>
    /\ Forget(c)
    /\ UNCHANGED <<taskVars, inputs, abandoned, written, pressed, toggling>>

\* Faulty: any change of AppState is taken for the connection.
SeeChange(c) ==
    /\ at[c] = "confirm" /\ unseen[c]
    /\ unseen' = [unseen EXCEPT ![c] = FALSE]
    /\ Answer(c, "connected")
    /\ UNCHANGED <<taskVars, channels, goal, abandoned, written, pressed, toggling>>

SeeConnected(c) ==
    /\ at[c] = "confirm" /\ unseen[c]
    /\ unseen' = [unseen EXCEPT ![c] = FALSE]
    /\ \/ connected # NoDevice /\ Answer(c, "connected")
       \/ connected = NoDevice /\ UNCHANGED <<at, answer>>
    /\ UNCHANGED <<taskVars, channels, goal, abandoned, written, pressed, toggling>>

\* Faulty: the wait for a device has no timeout.
TimesOutConnect(c) ==
    /\ at[c] = "confirm"
    /\ Answer(c, "error") /\ unseen' = [unseen EXCEPT ![c] = FALSE]
    /\ UNCHANGED <<taskVars, channels, goal, abandoned, written, pressed, toggling>>

TimesOut(c) ==
    /\ at[c] \in {"wait", "confirm"}
    /\ Answer(c, "error") /\ unseen' = [unseen EXCEPT ![c] = FALSE]
    /\ UNCHANGED <<taskVars, channels, goal, abandoned, written, pressed, toggling>>

\* tool_disconnect and tool_type_text; tool_press_key and tool_media_control;
\* tool_mouse_move and tool_mouse_scroll; tool_mouse_click.
CallOther(c) ==
    /\ at[c] = "ready"
    /\ \E where \in {"other", "key", "move", "press"} : GoTo(c, where)
    /\ UNCHANGED <<taskVars, channels, goal, abandoned, watch, pressed, toggling>>

SendCommand(c) ==
    /\ at[c] = "other"
    /\ \/ (Enqueue(Other) \/ Enqueue(Disconnect)) /\ Answer(c, "ok")
       \/ Closed /\ Answer(c, "error") /\ UNCHANGED queue
    /\ UNCHANGED <<taskVars, inputs, goal, abandoned, watch, pressed, toggling>>

\* Faulty: the release is dropped when there is no place.
OfferInput(c) ==
    /\ at[c] \in InputKinds
    /\ \/ /\ ~Closed /\ Len(inputs) < InputSize
          /\ inputs' = Append(inputs, Input(c, at[c]))
          /\ IF at[c] = "press" THEN GoTo(c, "release") ELSE Answer(c, "ok")
       \/ ~Closed /\ Len(inputs) = InputSize /\ Answer(c, "ok") /\ UNCHANGED inputs
       \/ Closed /\ Answer(c, "error") /\ UNCHANGED inputs
    /\ UNCHANGED <<taskVars, queue, goal, abandoned, watch, pressed, toggling>>

\* One event, or the two of a click one after the other.
SendInput(c) ==
    /\ at[c] \in InputKinds
    /\ \/ /\ ~Closed /\ Len(inputs) < InputSize
          /\ inputs' = Append(inputs, Input(c, at[c]))
          /\ IF at[c] = "press" THEN GoTo(c, "release") ELSE Answer(c, "ok")
          /\ abandoned' = IF at[c] = "press" THEN abandoned \ {c} ELSE abandoned
       \/ Closed /\ Answer(c, "error") /\ UNCHANGED <<inputs, abandoned>>
    /\ UNCHANGED <<taskVars, queue, goal, watch, pressed, toggling>>

\* tool_get_status and tool_read_serial answer at once.
CallQuery(c) ==
    /\ at[c] = "ready" /\ Answer(c, "ok")
    /\ UNCHANGED <<taskVars, channels, goal, abandoned, watch, pressed, toggling>>

\* The client closes its connection: its call is dropped where it waits.
HangUp(c) ==
    /\ at[c] # "ready" /\ Answer(c, "none") /\ Forget(c)
    /\ unseen' = [unseen EXCEPT ![c] = FALSE]
    /\ abandoned' = IF at[c] = "release" THEN abandoned \cup {c} ELSE abandoned
    /\ UNCHANGED <<taskVars, channels, written, pressed, toggling>>

-----------------------------------------------------------------------------
(* auto_connect_task *)

AutoGoTo(where) == at' = [at EXCEPT ![AutoTask] = where] /\ UNCHANGED <<answer, abandoned>>

\* After 5 s, unless the TUI is connected.
AutoWakes ==
    /\ at[AutoTask] = "sleep"
    /\ \/ AutoGoTo("scan") /\ UNCHANGED unseen
       \/ AutoGoTo("done") /\ unseen' = [unseen EXCEPT ![AutoTask] = FALSE]
    /\ UNCHANGED <<taskVars, channels, goal, written, pressed, toggling>>

AutoSends ==
    /\ \/ /\ at[AutoTask] = "scan"
          /\ Enqueue(Scan) /\ AutoGoTo("wait") /\ UNCHANGED unseen
       \/ /\ at[AutoTask] = "connect"
          /\ Enqueue(ConnectTo(goal[AutoTask])) /\ AutoGoTo("done") /\ UNCHANGED unseen
       \/ /\ at[AutoTask] \in {"scan", "connect"}
          /\ Closed /\ AutoGoTo("done") /\ UNCHANGED queue
          /\ unseen' = [unseen EXCEPT ![AutoTask] = FALSE]
    /\ Forget(AutoTask)
    /\ UNCHANGED <<taskVars, inputs, written, pressed, toggling>>

\* A device, or the time elapsed, is looked for only after a change.
AutoSees ==
    /\ at[AutoTask] = "wait" /\ unseen[AutoTask]
    /\ unseen' = [unseen EXCEPT ![AutoTask] = FALSE]
    /\ \/ /\ listed # {} /\ AutoGoTo("connect")
          /\ \E d \in listed : goal' = [goal EXCEPT ![AutoTask] = d]
       \/ /\ listed = {} /\ UNCHANGED goal
          /\ AutoGoTo("wait") \/ AutoGoTo("done")
    /\ UNCHANGED <<taskVars, channels, written, pressed, toggling>>

\* The TUI's connection passes a command on (module Ipc).
TuiSends ==
    /\ \E cmd \in Commands : Enqueue(cmd)
    /\ UNCHANGED <<taskVars, inputs, calls, watch, pressed, toggling>>

\* The hook looks at AppState as an event begins, and may write it.
HookReads == ReadState /\ UNCHANGED <<channels, calls, watch, pressed, undone>>
HookToggles ==
    /\ WriteBack /\ Wrote
    /\ undone' = (undone \/ \E c \in Calls : answer[c] = "connected" /\ connected' = NoDevice)
    /\ UNCHANGED <<channels, calls, pressed>>
HookPasses == DropCopy /\ UNCHANGED <<channels, calls, watch, pressed, undone>>

\* The hook offers what it captured, and drops it when there is no place.
HookOffers ==
    /\ Len(inputs) < InputSize /\ ~Closed
    /\ \E k \in InputKinds : inputs' = Append(inputs, Input(Hook, k))
    /\ UNCHANGED <<taskVars, queue, calls, watch, pressed, toggling>>

-----------------------------------------------------------------------------

\* What the BLE task does by itself.
TaskStep == TakeIdle \/ TakeRunning \/ Work
SendStep(c) == SendScan(c) \/ SendConnect(c) \/ SendCommand(c) \/ SendInput(c)
WaitStep(c) == SeeDevices(c) \/ SeeConnected(c) \/ TimesOut(c)
AutoStep == AutoWakes \/ AutoSends \/ AutoSees

HookStep == HookReads \/ HookToggles \/ HookPasses \/ HookOffers

Next == \/ TaskStep \/ TakeInput \/ HandleAnswer
        \/ AutoStep \/ TuiSends \/ HookStep
        \/ \E c \in Calls : \/ CallConnect(c) \/ CallOther(c) \/ CallQuery(c)
                            \/ SendStep(c) \/ WaitStep(c) \/ HangUp(c)

Spec == Init /\ [][Next]_vars

\* The BLE task runs, and select! polls both queues. Places of a queue go to
\* those who wait in the order they asked, so nobody is passed over for ever.
\* Timers fire.
FairSpec == /\ Spec
            /\ WF_vars(TaskStep) /\ WF_vars(TakeInput)
            /\ \A c \in Calls : SF_vars(SendStep(c)) /\ WF_vars(TimesOut(c))

-----------------------------------------------------------------------------
(* Properties *)

Places == {"ready", "scan", "wait", "connect", "confirm", "other"} \cup InputKinds

TaskTypeOK ==
    /\ mode \in Modes \ {"down"} /\ wanted \in Devices \cup {NoDevice}
    /\ listed \subseteq Devices /\ connected \in Devices \cup {NoDevice}

ChannelTypeOK ==
    /\ queue \in Seq(Commands) /\ Len(queue) <= QueueSize
    /\ inputs \in Seq([by : Calls \cup {Hook}, kind : InputKinds])
    /\ Len(inputs) <= InputSize

CallTypeOK ==
    /\ at \in [Clients -> Places \cup {"sleep", "done"}]
    /\ \A c \in Calls : at[c] \in Places
    /\ at[AutoTask] \in {"sleep", "scan", "wait", "connect", "done"}
    /\ goal \in [Clients -> Devices \cup {NoDevice}]
    /\ \A c \in Clients : at[c] = "connect" => goal[c] \in Devices
    /\ answer \in [Calls -> {"none", "ok", "connected", "error"}]

HookTypeOK ==
    /\ copy \subseteq [listed : SUBSET Devices, connected : Devices \cup {NoDevice}]
    /\ undone \in BOOLEAN

\* No queue is overfull however many calls, tasks and clients fill it at once
\* (mpsc::channel), a call waits only where one of its kind does, and a connect
\* command always names a device.
TypeOK ==
    /\ TaskTypeOK /\ ChannelTypeOK /\ CallTypeOK /\ HookTypeOK
    /\ unseen \in [Clients -> BOOLEAN] /\ written \in BOOLEAN
    /\ pressed \subseteq Calls \cup {Hook} /\ abandoned \subseteq Calls

\* What a connect answered is still shown: from its success to the next call of
\* its client AppState names a connected device, unless the hook wrote a stale
\* copy back. Nothing else takes the name away, a lost link or a failed
\* subscription least of all, and no command does (see DisconnectIsDone); so this
\* says what the user is shown, not that a session runs, nor that the device is
\* the one in the answer (do_connect; Publish is the only other write).
SuccessIsShown ==
    \A c \in Calls : answer[c] = "connected" => connected # NoDevice \/ undone

\* A click leaves no button down: its release is taken, or waits in the queue,
\* or the call still waits to send it. The exceptions are a client that closes
\* its connection between the two, and a release the link did not take
\* (tool_mouse_click; run, which only logs a write that failed).
ReleaseUnderWay(c) ==
    \/ at[c] = "release"
    \/ \E i \in DOMAIN inputs : inputs[i] = Input(c, "release")
NoButtonStaysDown ==
    mode = "running" =>
        \A c \in pressed \cap Calls : ReleaseUnderWay(c) \/ c \in abandoned

\* Nobody waits for what is there already: a call that waits for a device or a
\* connection, or the auto-connect task, has a change to look at whenever there
\* is one. The commands are on their way before the receivers are made, so the
\* BLE task may publish in between (tool_connect, do_connect: the copies are of
\* a receiver that has seen nothing; auto_connect_task).
NobodyMissesAChange ==
    \A c \in Clients :
        /\ at[c] = "wait" /\ listed # {} => unseen[c]
        /\ at[c] = "confirm" /\ connected # NoDevice => unseen[c]

-----------------------------------------------------------------------------
(* The inductive invariant: why the properties above hold *)

\* What AppState shows was written.
ShownWasWritten == listed # {} \/ connected # NoDevice => written
\* So the auto-connect task has it to look at from the first.
AutoHasNotLooked == at[AutoTask] \in {"sleep", "scan"} /\ written => unseen[AutoTask]

\* A press on its way has its release behind it, or on its way too. Not when
\* the task is dead, with the queue.
Covered(i) ==
    LET c == inputs[i].by
    IN  \/ \E j \in DOMAIN inputs : i < j /\ inputs[j] = Input(c, "release")
        \/ at[c] = "release" \/ c \in abandoned
PressesAreCovered ==
    mode # "dead" =>
        \A i \in DOMAIN inputs :
            inputs[i].kind = "press" /\ inputs[i].by \in Calls => Covered(i)
ButtonsAreCovered ==
    mode # "dead" => \A c \in pressed \cap Calls : ReleaseUnderWay(c) \/ c \in abandoned

\* A connect in progress knows its device.
ConnectsADevice == mode = "connecting" => wanted \in Devices

-----------------------------------------------------------------------------
(* Liveness *)

\* Every call comes to an end: one that needs the command queue or AppState
\* always does, one that needs the input queue does while a session runs
\* (tool_press_key waits for ever without one).
CallsEnd ==
    \A c \in Calls :
        /\ at[c] \in Places \ InputKinds ~> at[c] \in {"ready"} \cup InputKinds
        /\ at[c] \in InputKinds /\ mode = "running" ~> at[c] = "ready" \/ mode # "running"

-----------------------------------------------------------------------------
(* What a tool says of itself, and does not do *)

\* mcp/mod.rs:98 and :308: the tool disconnects from the connected device, and
\* answers "Disconnected" once its command is queued. Both loops discard it.
DisconnectIsDone ==
    [][(TakeIdle \/ TakeRunning) /\ Head(queue) = Disconnect => connected' = NoDevice]_vars
=============================================================================
