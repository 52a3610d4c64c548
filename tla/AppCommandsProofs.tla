------------------------- MODULE AppCommandsProofs -------------------------
(***************************************************************************)
(* Proofs about AppCommands: what a client of the MCP server may rely on   *)
(* for any number of clients and devices and queues of any length.         *)
(***************************************************************************)
EXTENDS AppCommands, TLAPS

CallStep(c) == \/ CallConnect(c) \/ CallOther(c) \/ CallQuery(c)
               \/ SendStep(c) \/ WaitStep(c) \/ HangUp(c)

-----------------------------------------------------------------------------
(* Types *)

LEMMA InitTypes == Init => TypeOK
<1> SUFFICES ASSUME Init PROVE TypeOK
  OBVIOUS
<1> USE DEF Init, HookedInit, TaskInit
<1>1. TaskTypeOK
  BY DEF TaskTypeOK, Modes
<1>2. ChannelTypeOK
  BY CommandSizes DEF ChannelTypeOK
<1>3. CallTypeOK
  BY CommandSizes DEF CallTypeOK, Clients, Places
<1>4. HookTypeOK
  BY DEF HookTypeOK
<1> QED
  BY <1>1, <1>2, <1>3, <1>4 DEF TypeOK

\* The BLE task.
LEMMA TaskTypeStep == TypeOK /\ [Next]_vars => TaskTypeOK'
<1> SUFFICES ASSUME TypeOK, [Next]_vars PROVE TaskTypeOK'
  OBVIOUS
<1> USE DEF TypeOK, TaskTypeOK
<1>1. CASE BeginScan \/ EndScan \/ FailConnect \/ Announce \/ EndConnect
  BY <1>1 DEF BeginScan, EndScan, FailConnect, Announce, EndConnect, Modes
<1>2. ASSUME NEW d \in Devices, BeginConnect(d) PROVE TaskTypeOK'
  BY <1>2 DEF BeginConnect, Modes
<1>4. CASE UNCHANGED taskVars
  BY <1>4 DEF taskVars
<1>3. CASE HandleAnswer
  BY <1>3, <1>4 DEF HandleAnswer, FindTaken, WroteNothing, Modes
<1>5. CASE TaskStep
  BY <1>1, <1>2, <1>4, <1>5 DEF TaskStep, TakeIdle, TakeRunning, Work
<1>6. CASE \/ TakeInput \/ AutoStep \/ TuiSends \/ HookOffers \/ HookReads \/ HookPasses
           \/ UNCHANGED vars
  BY <1>4, <1>6
     DEF TakeInput, AutoStep, AutoWakes, AutoSends, AutoSees, TuiSends, HookOffers,
         HookReads, ReadState, HookPasses, DropCopy, vars
<1>8. CASE HookToggles
  BY <1>8 DEF HookToggles, WriteBack, HookTypeOK
<1>7. ASSUME NEW c \in Calls, CallStep(c) PROVE TaskTypeOK'
  BY <1>4, <1>7
     DEF CallStep, CallConnect, CallOther, CallQuery, SendStep, SendScan, SendConnect,
         SendCommand, SendInput, WaitStep, SeeDevices, SeeConnected, TimesOut, HangUp
<1> QED
  BY <1>3, <1>5, <1>6, <1>7, <1>8 DEF Next, HookStep, CallStep

LEMMA CommandTypes ==
    /\ Scan \in Commands /\ Other \in Commands /\ Disconnect \in Commands
    /\ \A d \in Devices : ConnectTo(d) \in Commands
BY DEF Commands

\* A place taken in the command queue.
LEMMA EnqueueTypes ==
    ASSUME ChannelTypeOK, NEW cmd \in Commands, Enqueue(cmd), UNCHANGED inputs
    PROVE  ChannelTypeOK'
BY CommandSizes DEF ChannelTypeOK, Enqueue

\* A place taken in the input queue.
LEMMA OfferTypes ==
    ASSUME ChannelTypeOK, NEW c \in Calls \cup {Hook}, NEW k \in InputKinds,
           Len(inputs) < InputSize, inputs' = Append(inputs, Input(c, k)),
           UNCHANGED queue
    PROVE  ChannelTypeOK'
<1>1. Input(c, k) \in [by : Calls \cup {Hook}, kind : InputKinds]
  BY DEF Input
<1> QED
  BY <1>1, CommandSizes DEF ChannelTypeOK

LEMMA TailTypes ==
    ASSUME NEW S, NEW q \in Seq(S), NEW n \in Nat, Len(q) <= n, q # <<>>
    PROVE  Tail(q) \in Seq(S) /\ Len(Tail(q)) <= n
OBVIOUS

LEMMA HeadType == ASSUME NEW S, NEW q \in Seq(S), q # <<>> PROVE Head(q) \in S
OBVIOUS

\* The two queues.
LEMMA ChannelTypeStep == TypeOK /\ [Next]_vars => ChannelTypeOK'
<1> SUFFICES ASSUME TypeOK, [Next]_vars PROVE ChannelTypeOK'
  OBVIOUS
<1> USE DEF TypeOK
<1>1. CASE UNCHANGED channels
  BY <1>1 DEF ChannelTypeOK, channels
<1>2. CASE queue' = <<>> /\ inputs' = <<>>
  BY <1>2, CommandSizes DEF ChannelTypeOK
<1>3. CASE queue # <<>> /\ queue' = Tail(queue) /\ UNCHANGED inputs
  BY <1>3, CommandSizes, TailTypes DEF ChannelTypeOK
<1>4. CASE inputs # <<>> /\ inputs' = Tail(inputs) /\ UNCHANGED queue
  BY <1>4, CommandSizes, TailTypes DEF ChannelTypeOK
<1>5. CASE TakeIdle
  BY <1>2, <1>3, <1>5 DEF TakeIdle, Close
<1>6. CASE TakeRunning
  BY <1>3, <1>6 DEF TakeRunning
<1>7. CASE TakeInput
  BY <1>4, <1>7 DEF TakeInput
<1>8. CASE Work
  BY <1>1, <1>2, <1>8 DEF Work, Close, channels
<1>9. CASE HandleAnswer
  BY <1>1, <1>2, <1>9 DEF HandleAnswer, FindTaken, WroteNothing, Close
<1>10. CASE \/ AutoWakes \/ AutoSees \/ HookReads \/ HookToggles \/ HookPasses
            \/ UNCHANGED vars
  BY <1>1, <1>10
     DEF AutoWakes, AutoSees, HookReads, ReadState, HookToggles, WriteBack, HookPasses,
         DropCopy, vars, channels
<1>11. CASE TuiSends
  BY <1>11, EnqueueTypes DEF TuiSends
<1>12. CASE HookOffers
  BY <1>12, OfferTypes DEF HookOffers
<1>13. CASE AutoSends
  <2>1. at[AutoTask] = "connect" => ConnectTo(goal[AutoTask]) \in Commands
    BY CommandTypes DEF CallTypeOK, Clients
  <2> QED
    BY <1>1, <1>13, <2>1, CommandTypes, EnqueueTypes DEF AutoSends, channels
<1>14. ASSUME NEW c \in Calls, SendScan(c) \/ SendConnect(c) \/ SendCommand(c)
       PROVE  ChannelTypeOK'
  <2>1. at[c] = "connect" => ConnectTo(goal[c]) \in Commands
    BY CommandTypes DEF CallTypeOK, Clients
  <2> QED
    BY <1>1, <1>14, <2>1, CommandTypes, EnqueueTypes
       DEF SendScan, SendConnect, SendCommand, channels
<1>15. ASSUME NEW c \in Calls, SendInput(c) PROVE ChannelTypeOK'
  BY <1>1, <1>15, OfferTypes DEF SendInput, channels
<1>16. ASSUME NEW c \in Calls,
              \/ CallConnect(c) \/ CallOther(c) \/ CallQuery(c)
              \/ WaitStep(c) \/ HangUp(c)
       PROVE  ChannelTypeOK'
  BY <1>1, <1>16
     DEF CallConnect, CallOther, CallQuery, WaitStep, SeeDevices, SeeConnected,
         TimesOut, HangUp
<1> QED
  BY <1>5, <1>6, <1>7, <1>8, <1>9, <1>10, <1>11, <1>12, <1>13, <1>14, <1>15, <1>16
     DEF Next, TaskStep, AutoStep, HookStep, SendStep

\* A client moves from place to place.
LEMMA GoToTypes ==
    ASSUME CallTypeOK, NEW c \in Calls, NEW p \in Places \ {"connect"},
           NEW a \in {"none", "ok", "connected", "error"},
           at' = [at EXCEPT ![c] = p], answer' = [answer EXCEPT ![c] = a],
           \/ UNCHANGED goal
           \/ Forget(c)
    PROVE  CallTypeOK'
<1>0. c \in Clients /\ c # AutoTask /\ AutoTask \in Clients /\ Calls \subseteq Clients
  BY CommandSizes DEF Clients
<1>1. answer' \in [Calls -> {"none", "ok", "connected", "error"}]
  BY DEF CallTypeOK
<1>2. /\ at' \in [Clients -> Places \cup {"sleep", "done"}]
      /\ at'[c] = p /\ at'[AutoTask] = at[AutoTask]
      /\ \A b \in Clients \ {c} : at'[b] = at[b]
  BY <1>0 DEF CallTypeOK
<1>3. /\ goal' \in [Clients -> Devices \cup {NoDevice}]
      /\ \A b \in Clients \ {c} : goal'[b] = goal[b]
  BY <1>0 DEF CallTypeOK, Forget
<1> QED
  BY <1>0, <1>1, <1>2, <1>3 DEF CallTypeOK

LEMMA CallTypeStep == TypeOK /\ [Next]_vars => CallTypeOK'
<1> SUFFICES ASSUME TypeOK, [Next]_vars PROVE CallTypeOK'
  OBVIOUS
<1>0. CallTypeOK /\ listed \subseteq Devices
  BY DEF TypeOK, TaskTypeOK
<1>1. CASE UNCHANGED <<at, goal, answer>>
  BY <1>0, <1>1 DEF CallTypeOK
<1>2. CASE TaskStep \/ TakeInput \/ HandleAnswer \/ TuiSends \/ HookStep \/ UNCHANGED vars
  BY <1>1, <1>2
     DEF TaskStep, TakeIdle, TakeRunning, Work, TakeInput, HandleAnswer, FindTaken,
         WroteNothing, TuiSends, HookStep, HookReads, ReadState, HookToggles, WriteBack,
         HookPasses, DropCopy, HookOffers, vars, calls
<1>3. CASE AutoStep
  <2>0. AutoTask \in Clients /\ AutoTask \notin Calls /\ Calls \subseteq Clients
    BY CommandSizes DEF Clients
  <2>1. /\ at' \in [Clients -> Places \cup {"sleep", "done"}]
        /\ at'[AutoTask] \in {"scan", "wait", "connect", "done"}
        /\ \A b \in Calls : at'[b] = at[b]
    BY <1>0, <1>3, <2>0
       DEF CallTypeOK, AutoStep, AutoWakes, AutoSends, AutoSees, AutoGoTo, Places
  <2>2. /\ goal' \in [Clients -> Devices \cup {NoDevice}]
        /\ \A b \in Calls : goal'[b] = goal[b]
        /\ at'[AutoTask] = "connect" => goal'[AutoTask] \in Devices
    BY <1>0, <1>3, <2>0
       DEF CallTypeOK, AutoStep, AutoWakes, AutoSends, AutoSees, AutoGoTo, Forget
  <2>3. answer' = answer
    BY <1>3 DEF AutoStep, AutoWakes, AutoSends, AutoSees, AutoGoTo
  <2> QED
    BY <1>0, <2>0, <2>1, <2>2, <2>3 DEF CallTypeOK, Clients
<1>4. ASSUME NEW c \in Calls, NEW d \in listed, GoTo(c, "connect"),
             goal' = [goal EXCEPT ![c] = d]
      PROVE  CallTypeOK'
  <2>0. c \in Clients /\ c # AutoTask /\ AutoTask \in Clients /\ Calls \subseteq Clients
    BY CommandSizes DEF Clients
  <2>1. answer' \in [Calls -> {"none", "ok", "connected", "error"}]
    BY <1>0, <1>4 DEF CallTypeOK, GoTo
  <2>2. /\ at' \in [Clients -> Places \cup {"sleep", "done"}]
        /\ at'[c] = "connect" /\ at'[AutoTask] = at[AutoTask] /\ "connect" \in Places
        /\ \A b \in Clients \ {c} : at'[b] = at[b]
    BY <1>0, <1>4, <2>0 DEF CallTypeOK, GoTo, Places
  <2>3. /\ goal' \in [Clients -> Devices \cup {NoDevice}]
        /\ goal'[c] \in Devices /\ \A b \in Clients \ {c} : goal'[b] = goal[b]
    BY <1>0, <1>4, <2>0 DEF CallTypeOK
  <2> QED
    BY <1>0, <2>0, <2>1, <2>2, <2>3 DEF CallTypeOK
<1>5. ASSUME NEW c \in Calls, CallStep(c) PROVE CallTypeOK'
  <2> USE DEF Places, InputKinds, Answer, GoTo
  <2>1. CASE CallConnect(c)
    BY <1>0, <1>4, <2>1, GoToTypes DEF CallConnect
  <2>2. CASE SeeDevices(c)
    BY <1>0, <1>1, <1>4, <2>2, GoToTypes DEF SeeDevices
  <2>3. CASE SendScan(c) \/ SendConnect(c) \/ SendCommand(c)
    BY <1>0, <2>3, GoToTypes DEF SendScan, SendConnect, SendCommand
  <2>4. CASE SendInput(c)
    BY <1>0, <2>4, GoToTypes DEF SendInput
  <2>5. CASE CallOther(c) \/ CallQuery(c) \/ TimesOut(c) \/ HangUp(c)
    BY <1>0, <2>5, GoToTypes DEF CallOther, CallQuery, TimesOut, HangUp
  <2>6. CASE SeeConnected(c)
    BY <1>0, <1>1, <2>6, GoToTypes DEF SeeConnected
  <2> QED
    BY <1>5, <2>1, <2>2, <2>3, <2>4, <2>5, <2>6 DEF CallStep, SendStep, WaitStep
<1> QED
  BY <1>2, <1>3, <1>5 DEF Next, CallStep

\* What receivers have seen, and what the device holds down.
LEMMA HistoryTypeStep ==
    TypeOK /\ [Next]_vars =>
        /\ unseen' \in [Clients -> BOOLEAN] /\ written' \in BOOLEAN
        /\ pressed' \subseteq Calls \cup {Hook} /\ abandoned' \subseteq Calls
<1> SUFFICES ASSUME TypeOK, [Next]_vars
             PROVE  /\ unseen' \in [Clients -> BOOLEAN] /\ written' \in BOOLEAN
                    /\ pressed' \subseteq Calls \cup {Hook} /\ abandoned' \subseteq Calls
  OBVIOUS
<1>0. /\ unseen \in [Clients -> BOOLEAN] /\ written \in BOOLEAN
      /\ pressed \subseteq Calls \cup {Hook} /\ abandoned \subseteq Calls
  BY DEF TypeOK
<1> USE DEF calls, watch, Wrote, WroteNothing, FreshReceiver
<1>1. CASE TakeInput
  <2>1. Head(inputs) \in [by : Calls \cup {Hook}, kind : InputKinds]
    BY <1>1, HeadType DEF TakeInput, TypeOK, ChannelTypeOK
  <2>2. pressed' \subseteq Calls \cup {Hook} /\ abandoned' \subseteq Calls
    BY <1>0, <1>1, <2>1 DEF TakeInput, Buttons
  <2> QED
    BY <1>0, <1>1, <2>2 DEF TakeInput
<1>2. CASE TaskStep \/ HandleAnswer \/ TuiSends \/ HookStep \/ UNCHANGED vars
  <2>1. /\ unseen' = unseen \/ unseen' = [c \in Clients |-> Watches(c)]
        /\ written' = written \/ written' = TRUE
        /\ UNCHANGED <<pressed, abandoned>>
    BY <1>2
       DEF TaskStep, TakeIdle, TakeRunning, Work, HandleAnswer, FindTaken, WroteNothing,
           TuiSends, HookStep, HookReads, ReadState, HookToggles, WriteBack, HookPasses,
           DropCopy, HookOffers, vars
  <2>2. \A c \in Clients : Watches(c) \in BOOLEAN
    BY DEF Watches
  <2> QED
    BY <1>0, <2>1, <2>2
<1>3. CASE AutoStep
  BY <1>0, <1>3 DEF AutoStep, AutoWakes, AutoSends, AutoSees, AutoGoTo
<1>4. ASSUME NEW c \in Calls, CallStep(c)
      PROVE  /\ unseen' \in [Clients -> BOOLEAN] /\ written' \in BOOLEAN
             /\ pressed' \subseteq Calls \cup {Hook} /\ abandoned' \subseteq Calls
  <2>1. CASE CallConnect(c) \/ CallOther(c) \/ CallQuery(c) \/ HangUp(c) \/ TimesOut(c)
             \/ SendCommand(c) \/ SendInput(c)
    BY <1>0, <2>1 DEF CallConnect, CallOther, CallQuery, HangUp, TimesOut, SendCommand, SendInput
  <2>2. CASE SendScan(c) \/ SendConnect(c) \/ SeeDevices(c) \/ SeeConnected(c)
    BY <1>0, <2>2 DEF SendScan, SendConnect, SeeDevices, SeeConnected
  <2> QED
    BY <1>4, <2>1, <2>2 DEF CallStep, SendStep, WaitStep
<1> QED
  BY <1>1, <1>2, <1>3, <1>4 DEF Next, CallStep

\* The hook's copy.
LEMMA HookTypeStep == TypeOK /\ [Next]_vars => HookTypeOK'
<1> SUFFICES ASSUME TypeOK, [Next]_vars PROVE HookTypeOK'
  OBVIOUS
<1>0. /\ HookTypeOK
      /\ [listed |-> listed, connected |-> connected]
            \in [listed : SUBSET Devices, connected : Devices \cup {NoDevice}]
  BY DEF TypeOK, TaskTypeOK
<1>1. CASE UNCHANGED toggling
  BY <1>0, <1>1 DEF HookTypeOK, toggling
<1>2. CASE HookStep \/ Work
  BY <1>0, <1>2
     DEF HookStep, HookReads, ReadState, HookToggles, WriteBack, HookPasses, DropCopy,
         HookOffers, Work, HookTypeOK, toggling
<1>3. CASE TakeIdle \/ TakeRunning \/ TakeInput \/ HandleAnswer \/ AutoStep \/ TuiSends
           \/ UNCHANGED vars
  BY <1>1, <1>3
     DEF TakeIdle, TakeRunning, TakeInput, HandleAnswer, FindTaken, WroteNothing,
         AutoStep, AutoWakes, AutoSends, AutoSees, TuiSends, vars
<1>4. ASSUME NEW c \in Calls, CallStep(c) PROVE HookTypeOK'
  BY <1>1, <1>4
     DEF CallStep, CallConnect, CallOther, CallQuery, SendStep, SendScan, SendConnect,
         SendCommand, SendInput, WaitStep, SeeDevices, SeeConnected, TimesOut, HangUp
<1> QED
  BY <1>2, <1>3, <1>4 DEF Next, TaskStep, CallStep

LEMMA TypeStep == TypeOK /\ [Next]_vars => TypeOK'
BY TaskTypeStep, ChannelTypeStep, CallTypeStep, HistoryTypeStep, HookTypeStep DEF TypeOK

\* No queue is overfull, every client waits where it may, and a connect command
\* names a device.
THEOREM CommandTypeCorrectness == Spec => []TypeOK
BY InitTypes, TypeStep, PTL DEF Spec

-----------------------------------------------------------------------------
(* A connect that is told of success *)

\* What happens to the connected device, in any step: only the hook takes it
\* back.
LEMMA PublishedStays ==
    ConnectsADevice /\ [Next]_vars =>
        /\ ConnectsADevice'
        /\ HookToggles \/ (connected # NoDevice => connected' # NoDevice)
<1> SUFFICES ASSUME ConnectsADevice, [Next]_vars, ~HookToggles
             PROVE  ConnectsADevice' /\ (connected # NoDevice => connected' # NoDevice)
  BY DEF HookToggles, WriteBack, ConnectsADevice
<1> USE DEF ConnectsADevice
<1>1. CASE BeginScan \/ EndScan \/ FailConnect \/ EndConnect
  BY <1>1 DEF BeginScan, EndScan, FailConnect, EndConnect
<1>2. CASE Announce
  BY <1>2, CommandSizes DEF Announce
<1>3. ASSUME NEW d \in Devices, BeginConnect(d)
      PROVE  ConnectsADevice' /\ (connected # NoDevice => connected' # NoDevice)
  BY <1>3 DEF BeginConnect
<1>4. CASE UNCHANGED taskVars
  BY <1>4 DEF taskVars
<1>5. CASE HandleAnswer
  BY <1>4, <1>5 DEF HandleAnswer, FindTaken, WroteNothing
<1>6. CASE TaskStep
  BY <1>1, <1>2, <1>3, <1>4, <1>6 DEF TaskStep, TakeIdle, TakeRunning, Work
<1>7. CASE \/ TakeInput \/ AutoStep \/ TuiSends \/ HookReads \/ HookPasses \/ HookOffers
           \/ UNCHANGED vars
  BY <1>4, <1>7
     DEF TakeInput, AutoStep, AutoWakes, AutoSends, AutoSees, TuiSends, HookReads,
         ReadState, HookPasses, DropCopy, HookOffers, vars
<1>8. ASSUME NEW c \in Calls, CallStep(c) PROVE UNCHANGED taskVars
  BY <1>8
     DEF CallStep, CallConnect, CallOther, CallQuery, SendStep, SendScan, SendConnect,
         SendCommand, SendInput, WaitStep, SeeDevices, SeeConnected, TimesOut, HangUp
<1> QED
  BY <1>4, <1>5, <1>6, <1>7, <1>8 DEF Next, HookStep, CallStep

\* The hook remembers what it takes back until the next connection.
LEMMA UndoneStays ==
    ConnectsADevice /\ undone /\ [Next]_vars => undone' \/ connected' # NoDevice
<1> SUFFICES ASSUME ConnectsADevice, undone, [Next]_vars PROVE undone' \/ connected' # NoDevice
  OBVIOUS
<1>1. CASE UNCHANGED toggling
  BY <1>1 DEF toggling
<1>2. CASE Work
  BY <1>2, CommandSizes DEF Work, Announce, ConnectsADevice
<1>3. CASE HookStep
  BY <1>3
     DEF HookStep, HookReads, ReadState, HookToggles, WriteBack, HookPasses, DropCopy,
         HookOffers, toggling
<1>4. CASE TakeIdle \/ TakeRunning \/ TakeInput \/ HandleAnswer \/ AutoStep \/ TuiSends
           \/ UNCHANGED vars
  BY <1>1, <1>4
     DEF TakeIdle, TakeRunning, TakeInput, HandleAnswer, FindTaken, WroteNothing,
         AutoStep, AutoWakes, AutoSends, AutoSees, TuiSends, vars
<1>5. ASSUME NEW c \in Calls, CallStep(c) PROVE undone' \/ connected' # NoDevice
  BY <1>1, <1>5
     DEF CallStep, CallConnect, CallOther, CallQuery, SendStep, SendScan, SendConnect,
         SendCommand, SendInput, WaitStep, SeeDevices, SeeConnected, TimesOut, HangUp
<1> QED
  BY <1>2, <1>3, <1>4, <1>5 DEF Next, TaskStep, CallStep

\* Success is answered by two steps only, which both look at the device.
LEMMA SuccessIsSeen ==
    ASSUME TypeOK, [Next]_vars, NEW b \in Calls, answer'[b] = "connected"
    PROVE  answer[b] = "connected" \/ connected # NoDevice
<1>0. answer \in [Calls -> {"none", "ok", "connected", "error"}]
  BY DEF TypeOK, CallTypeOK
<1>1. CASE UNCHANGED answer
  BY <1>1
<1>2. CASE \/ TaskStep \/ TakeInput \/ HandleAnswer \/ AutoStep \/ TuiSends \/ HookStep
           \/ UNCHANGED vars
  BY <1>1, <1>2
     DEF TaskStep, TakeIdle, TakeRunning, Work, TakeInput, HandleAnswer, FindTaken,
         WroteNothing, AutoStep, AutoWakes, AutoSends, AutoSees, AutoGoTo, TuiSends,
         HookStep, HookReads, ReadState, HookToggles, WriteBack, HookPasses, DropCopy,
         HookOffers, vars, calls
<1>3. ASSUME NEW c \in Calls, CallStep(c)
      PROVE  answer[b] = "connected" \/ connected # NoDevice
  <2>1. CASE CallConnect(c) \/ SeeConnected(c)
    BY <1>0, <2>1 DEF CallConnect, SeeConnected, Answer, GoTo
  <2>2. CASE \/ CallOther(c) \/ CallQuery(c) \/ HangUp(c) \/ SeeDevices(c) \/ TimesOut(c)
             \/ SendStep(c)
    <3>1. \/ UNCHANGED answer
          \/ \E a \in {"none", "ok", "error"} : answer' = [answer EXCEPT ![c] = a]
      BY <2>2 DEF CallOther, CallQuery, HangUp, SeeDevices, TimesOut, SendStep, SendScan,
                  SendConnect, SendCommand, SendInput, Answer, GoTo
    <3> QED
      BY <1>0, <3>1
  <2> QED
    BY <1>3, <2>1, <2>2 DEF CallStep, WaitStep
<1> QED
  BY <1>2, <1>3 DEF Next, CallStep

\* From the answer of success on, AppState names a connected device until the
\* client's next call, unless the hook took it back: no command clears it, not
\* DisconnectDevice either, and no lost link or failed subscription does. It is
\* what AppState shows, whether or not a session runs.
THEOREM SuccessStaysShown == Spec => []SuccessIsShown
<1>1. Init => ConnectsADevice /\ SuccessIsShown
  BY DEF Init, HookedInit, TaskInit, ConnectsADevice, SuccessIsShown
<1>2. TypeOK /\ ConnectsADevice /\ SuccessIsShown /\ [Next]_vars
      => ConnectsADevice' /\ SuccessIsShown'
  <2> SUFFICES ASSUME TypeOK, ConnectsADevice, SuccessIsShown, [Next]_vars
               PROVE  ConnectsADevice' /\ SuccessIsShown'
    OBVIOUS
  <2>1. ConnectsADevice'
    BY PublishedStays
  <2>2. ASSUME NEW b \in Calls, answer'[b] = "connected"
        PROVE  connected' # NoDevice \/ undone'
    <3>1. undone \/ connected # NoDevice
      BY <2>2, SuccessIsSeen DEF SuccessIsShown
    <3>2. CASE undone
      BY <3>2, UndoneStays
    <3>3. CASE HookToggles
      BY <2>2, <3>3 DEF HookToggles, WriteBack, calls
    <3> QED
      BY <3>1, <3>2, <3>3, PublishedStays
  <2> QED
    BY <2>1, <2>2 DEF SuccessIsShown
<1> QED
  BY <1>1, <1>2, CommandTypeCorrectness, PTL DEF Spec

-----------------------------------------------------------------------------
(* Clicks *)

\* Both queues, and what waits to be sent, as far as releases go.
ReleaseInv == PressesAreCovered /\ ButtonsAreCovered

\* Nothing moves that a press on its way depends on.
LEMMA NothingMoves ==
    ASSUME ReleaseInv, UNCHANGED <<inputs, pressed, abandoned>>, mode' # "dead" => mode # "dead",
           \A c \in Calls : at[c] = "release" => at'[c] = "release"
    PROVE  ReleaseInv'
BY DEF ReleaseInv, PressesAreCovered, ButtonsAreCovered, Covered, ReleaseUnderWay

LEMMA TaskDead == ASSUME mode' = "dead" PROVE ReleaseInv'
BY DEF ReleaseInv, PressesAreCovered, ButtonsAreCovered

\* run takes an event: what it takes is the first, so a release it leaves
\* behind is still behind the press.
LEMMA TakeInputStep == TypeOK /\ ReleaseInv /\ TakeInput => ReleaseInv'
<1> SUFFICES ASSUME TypeOK, ReleaseInv, TakeInput PROVE ReleaseInv'
  OBVIOUS
<1>0. /\ inputs \in Seq([by : Calls \cup {Hook}, kind : InputKinds]) /\ inputs # <<>>
      /\ inputs' = Tail(inputs) /\ UNCHANGED <<mode, at>> /\ mode = "running"
      /\ abandoned \subseteq abandoned'
  BY DEF TypeOK, ChannelTypeOK, TakeInput, taskVars
<1> DEFINE e == Head(inputs)
<1>1. /\ e = inputs[1] /\ e \in [by : Calls \cup {Hook}, kind : InputKinds]
      /\ 1 \in DOMAIN inputs
  <2>1. e \in [by : Calls \cup {Hook}, kind : InputKinds]
    BY <1>0, HeadType
  <2>2. e = inputs[1] /\ 1 \in DOMAIN inputs
    BY <1>0
  <2> QED
    BY <2>1, <2>2
<1>2. /\ \A i \in DOMAIN inputs' : i + 1 \in DOMAIN inputs /\ inputs'[i] = inputs[i + 1]
      /\ \A j \in DOMAIN inputs : j > 1 => j - 1 \in DOMAIN inputs' /\ inputs'[j - 1] = inputs[j]
      /\ DOMAIN inputs \subseteq Nat \ {0} /\ DOMAIN inputs' \subseteq Nat \ {0}
  BY <1>0
<1>3. PressesAreCovered /\ ButtonsAreCovered /\ mode # "dead"
  BY <1>0 DEF ReleaseInv
<1>4. PressesAreCovered'
  <2> SUFFICES ASSUME NEW i \in DOMAIN inputs', inputs'[i].kind = "press",
                      inputs'[i].by \in Calls
               PROVE  Covered(i)'
    BY DEF PressesAreCovered
  <2>1. Covered(i + 1) /\ inputs'[i] = inputs[i + 1] /\ i \in Nat \ {0}
    BY <1>2, <1>3 DEF PressesAreCovered
  <2>2. ASSUME NEW j \in DOMAIN inputs, i + 1 < j,
               inputs[j] = Input(inputs[i + 1].by, "release")
        PROVE  Covered(i)'
    <3>1. /\ j - 1 \in DOMAIN inputs' /\ i < j - 1
          /\ inputs'[j - 1] = Input(inputs'[i].by, "release")
      BY <1>2, <2>1, <2>2
    <3> QED
      BY <3>1 DEF Covered, Input
  <2> QED
    BY <1>0, <2>1, <2>2 DEF Covered
<1>5. ButtonsAreCovered'
  <2> SUFFICES ASSUME NEW c \in pressed' \cap Calls
               PROVE  (ReleaseUnderWay(c) \/ c \in abandoned)'
    BY DEF ButtonsAreCovered
  <2>1. ASSUME c \in pressed, e # Input(c, "release") \/ c \in abandoned'
        PROVE  (ReleaseUnderWay(c) \/ c \in abandoned)'
    <3>1. ReleaseUnderWay(c) \/ c \in abandoned
      BY <1>3, <2>1 DEF ButtonsAreCovered
    <3>2. ASSUME NEW j \in DOMAIN inputs, inputs[j] = Input(c, "release"), c \notin abandoned'
          PROVE  ReleaseUnderWay(c)'
      <4>1. j > 1
        BY <1>1, <1>2, <2>1, <3>2
      <4>2. j - 1 \in DOMAIN inputs' /\ inputs'[j - 1] = Input(c, "release")
        BY <1>2, <3>2, <4>1
      <4> QED
        BY <4>2 DEF ReleaseUnderWay, Input
    <3> QED
      BY <1>0, <3>1, <3>2 DEF ReleaseUnderWay
  <2>2. CASE e.kind = "press"
    <3>1. CASE e.by = c
      <4>1. Covered(1)
        BY <1>1, <1>3, <2>2, <3>1 DEF PressesAreCovered
      <4>2. ASSUME NEW j \in DOMAIN inputs, 1 < j, inputs[j] = Input(c, "release")
            PROVE  ReleaseUnderWay(c)'
        <5>1. j - 1 \in DOMAIN inputs' /\ inputs'[j - 1] = Input(c, "release")
          BY <1>2, <4>2
        <5> QED
          BY <5>1 DEF ReleaseUnderWay, Input
      <4> QED
        BY <1>0, <1>1, <3>1, <4>1, <4>2 DEF Covered, ReleaseUnderWay
    <3>2. CASE e.by # c
      <4>1. c \in pressed
        BY <2>2, <3>2 DEF TakeInput, Buttons
      <4>2. e # Input(c, "release")
        BY <2>2 DEF Input
      <4> QED
        BY <2>1, <4>1, <4>2
    <3> QED
      BY <3>1, <3>2
  <2>3. CASE e.kind # "press"
    <3>1. c \in pressed
      BY <2>3 DEF TakeInput, Buttons
    <3>2. e = Input(c, "release") => c \in abandoned'
      BY <3>1 DEF TakeInput, Buttons, Input
    <3> QED
      BY <2>1, <3>1, <3>2
  <2> QED
    BY <2>2, <2>3
<1> QED
  BY <1>4, <1>5 DEF ReleaseInv

\* An event joins the queue: a press only with its release to follow.
LEMMA JoinStep ==
    ASSUME TypeOK, ReleaseInv, mode # "dead",
           NEW x \in [by : Calls \cup {Hook}, kind : InputKinds],
           inputs' = Append(inputs, x), UNCHANGED pressed,
           \A c \in abandoned : c \in abandoned' \/ (c \in Calls /\ at'[c] = "release"),
           x.kind = "press" /\ x.by \in Calls => at'[x.by] = "release",
           \A c \in Calls : at[c] = "release" => at'[c] = "release" \/ x = Input(c, "release")
    PROVE  ReleaseInv'
<1>0. /\ inputs \in Seq([by : Calls \cup {Hook}, kind : InputKinds])
      /\ PressesAreCovered /\ ButtonsAreCovered
  BY DEF TypeOK, ChannelTypeOK, ReleaseInv
<1> DEFINE n == Len(inputs) + 1
<1>1. /\ n \in DOMAIN inputs' /\ inputs'[n] = x
      /\ DOMAIN inputs' = DOMAIN inputs \cup {n}
      /\ \A i \in DOMAIN inputs : i < n /\ inputs'[i] = inputs[i]
  BY <1>0
<1> HIDE DEF n
<1>2. PressesAreCovered'
  <2> SUFFICES ASSUME NEW i \in DOMAIN inputs', inputs'[i].kind = "press",
                      inputs'[i].by \in Calls
               PROVE  Covered(i)'
    BY DEF PressesAreCovered
  <2>1. CASE i = n
    BY <1>1, <2>1 DEF Covered
  <2>2. CASE i \in DOMAIN inputs
    <3>1. Covered(i) /\ inputs'[i] = inputs[i]
      BY <1>0, <1>1, <2>2 DEF PressesAreCovered
    <3> QED
      BY <1>1, <2>2, <3>1 DEF Covered, Input
  <2> QED
    BY <1>1, <2>1, <2>2
<1>3. ButtonsAreCovered'
  <2> SUFFICES ASSUME NEW c \in pressed \cap Calls
               PROVE  (ReleaseUnderWay(c) \/ c \in abandoned)'
    BY DEF ButtonsAreCovered
  <2>1. ReleaseUnderWay(c) \/ c \in abandoned
    BY <1>0 DEF ButtonsAreCovered
  <2> QED
    BY <1>1, <2>1 DEF ReleaseUnderWay, Input
<1> QED
  BY <1>2, <1>3 DEF ReleaseInv

LEMMA ReleaseStep == TypeOK /\ ReleaseInv /\ [Next]_vars => ReleaseInv'
<1> SUFFICES ASSUME TypeOK, ReleaseInv, [Next]_vars PROVE ReleaseInv'
  OBVIOUS
<1>0. at \in [Clients -> Places \cup {"sleep", "done"}] /\ Calls \subseteq Clients
      /\ AutoTask \notin Calls
  BY CommandSizes DEF TypeOK, CallTypeOK, Clients
<1>1. CASE TakeIdle
  <2>1. mode' # "dead" => UNCHANGED inputs
    BY <1>1 DEF TakeIdle, Close
  <2>2. UNCHANGED <<at, pressed, abandoned>> /\ mode # "dead"
    BY <1>1 DEF TakeIdle, calls
  <2> QED
    BY <2>1, <2>2, NothingMoves, TaskDead
<1>2. CASE Work
  <2>1. mode' # "dead" => UNCHANGED inputs
    BY <1>2 DEF Work, Close
  <2>2. UNCHANGED <<at, pressed, abandoned>> /\ mode # "dead"
    BY <1>2 DEF Work, calls, EndScan, Announce, FailConnect, EndConnect
  <2> QED
    BY <2>1, <2>2, NothingMoves, TaskDead
<1>3. CASE \/ TakeRunning \/ TuiSends \/ HookReads \/ HookToggles \/ HookPasses
           \/ UNCHANGED vars
  BY <1>3, NothingMoves
     DEF TakeRunning, TuiSends, HookReads, ReadState, HookToggles, WriteBack, HookPasses,
         DropCopy, vars, calls, channels, taskVars
<1>4. CASE HandleAnswer
  BY <1>4, TaskDead, NothingMoves
     DEF HandleAnswer, FindTaken, WroteNothing, calls, channels, taskVars
<1>5. CASE TakeInput
  BY <1>5, TakeInputStep
<1>6. CASE HookOffers
  <2>1. PICK k \in InputKinds : inputs' = Append(inputs, Input(Hook, k))
    BY <1>6 DEF HookOffers
  <2>2. /\ Input(Hook, k) \in [by : Calls \cup {Hook}, kind : InputKinds]
        /\ Input(Hook, k).by \notin Calls
    BY CommandSizes DEF Input
  <2>3. UNCHANGED <<pressed, abandoned, at>> /\ mode # "dead"
    BY <1>6 DEF HookOffers, Closed, calls
  <2> QED
    BY <2>1, <2>2, <2>3, JoinStep
<1>7. CASE AutoStep
  <2>1. UNCHANGED <<inputs, pressed, abandoned, mode>>
    BY <1>7 DEF AutoStep, AutoWakes, AutoSends, AutoSees, AutoGoTo, channels, taskVars
  <2>2. \A c \in Calls : at'[c] = at[c]
    BY <1>0, <1>7 DEF AutoStep, AutoWakes, AutoSends, AutoSees, AutoGoTo
  <2> QED
    BY <2>1, <2>2, NothingMoves
<1>8. ASSUME NEW c \in Calls, CallStep(c) PROVE ReleaseInv'
  <2>1. CASE SendInput(c)
    <3>1. UNCHANGED <<pressed, mode>> /\ at[c] \in InputKinds
      BY <2>1 DEF SendInput, taskVars
    <3>2. CASE mode = "dead"
      BY <3>1, <3>2, TaskDead
    <3>3. CASE mode # "dead"
      <4>1. inputs' = Append(inputs, Input(c, at[c]))
        BY <2>1, <3>3 DEF SendInput, Closed
      <4>2. Input(c, at[c]) \in [by : Calls \cup {Hook}, kind : InputKinds]
        BY <3>1 DEF Input
      <4>3. /\ at[c] = "press" => at'[c] = "release"
            /\ \A b \in Calls \ {c} : at'[b] = at[b]
        BY <1>0, <2>1, <3>3 DEF SendInput, Closed, GoTo, Answer
      <4>5. \A b \in abandoned : b \in abandoned' \/ (b \in Calls /\ at'[b] = "release")
        BY <1>0, <2>1, <3>3, <4>3 DEF SendInput, Closed
      <4>4. Input(c, at[c]).kind = at[c] /\ Input(c, at[c]).by = c
        BY DEF Input
      <4> QED
        BY <3>1, <3>3, <4>1, <4>2, <4>3, <4>4, <4>5, JoinStep
    <3> QED
      BY <3>2, <3>3
  <2>2. CASE HangUp(c)
    <3>1. UNCHANGED <<inputs, pressed, mode>> /\ abandoned \subseteq abandoned'
      BY <2>2 DEF HangUp, channels, taskVars
    <3>2. \A b \in Calls : at[b] = "release" => at'[b] = "release" \/ b \in abandoned'
      BY <1>0, <2>2 DEF HangUp, Answer
    <3> QED
      BY <3>1, <3>2
         DEF ReleaseInv, PressesAreCovered, ButtonsAreCovered, Covered, ReleaseUnderWay
  <2>3. CASE \/ CallConnect(c) \/ CallOther(c) \/ CallQuery(c) \/ WaitStep(c)
             \/ SendScan(c) \/ SendConnect(c) \/ SendCommand(c)
    <3>1. UNCHANGED <<inputs, pressed, abandoned, mode>> /\ at[c] # "release"
      BY <2>3
         DEF CallConnect, CallOther, CallQuery, WaitStep, SeeDevices, SeeConnected, TimesOut,
             SendScan, SendConnect, SendCommand, channels, taskVars
    <3>2. \A b \in Calls \ {c} : at'[b] = at[b]
      BY <1>0, <2>3
         DEF CallConnect, CallOther, CallQuery, WaitStep, SeeDevices, SeeConnected, TimesOut,
             SendScan, SendConnect, SendCommand, GoTo, Answer
    <3> QED
      BY <3>1, <3>2, NothingMoves
  <2> QED
    BY <1>8, <2>1, <2>2, <2>3 DEF CallStep, SendStep
<1> QED
  BY <1>1, <1>2, <1>3, <1>4, <1>5, <1>6, <1>7, <1>8 DEF Next, TaskStep, HookStep, CallStep

\* A click leaves no button down, however the clicks of clients and of the user
\* mix in the queue.
THEOREM ClicksEnd == Spec => []NoButtonStaysDown
<1>1. Init => ReleaseInv
  BY DEF Init, ReleaseInv, PressesAreCovered, ButtonsAreCovered
<1>2. ReleaseInv => NoButtonStaysDown
  BY DEF ReleaseInv, ButtonsAreCovered, NoButtonStaysDown
<1> QED
  BY <1>1, <1>2, ReleaseStep, CommandTypeCorrectness, PTL DEF Spec
-----------------------------------------------------------------------------
(* Waiting *)

\* What was written, and who has looked.
WatchInv == ShownWasWritten /\ AutoHasNotLooked /\ NobodyMissesAChange

\* AppState is left alone, or it is written and every receiver told.
LEMMA WatchedStep ==
    ASSUME TypeOK, WatchInv, UNCHANGED at,
           \/ UNCHANGED <<listed, connected, unseen, written>>
           \/ Wrote
    PROVE  WatchInv'
<1>1. CASE UNCHANGED <<listed, connected, unseen, written>>
  BY <1>1 DEF WatchInv, ShownWasWritten, AutoHasNotLooked, NobodyMissesAChange
<1>2. CASE Wrote
  <2>1. AutoTask \in Clients /\ written' = TRUE
    BY <1>2 DEF Clients, Wrote
  <2>2. \A c \in Clients : unseen'[c] = Watches(c) /\ at'[c] = at[c]
    BY <1>2 DEF Wrote
  <2> QED
    BY <2>1, <2>2 DEF WatchInv, ShownWasWritten, AutoHasNotLooked, NobodyMissesAChange, Watches
<1> QED
  BY <1>1, <1>2

\* The client c moves, or looks, and AppState is left alone.
LEMMA LookStep ==
    ASSUME TypeOK, WatchInv, NEW c \in Clients, UNCHANGED <<listed, connected, written>>,
           \A b \in Clients \ {c} : at'[b] = at[b] /\ unseen'[b] = unseen[b],
           at'[c] = "wait" /\ listed # {} => unseen'[c],
           at'[c] = "confirm" /\ connected # NoDevice => unseen'[c],
           c = AutoTask /\ at'[c] \in {"sleep", "scan"} /\ written => unseen'[c]
    PROVE  WatchInv'
<1>1. AutoTask \in Clients
  BY DEF Clients
<1> QED
  BY <1>1 DEF WatchInv, ShownWasWritten, AutoHasNotLooked, NobodyMissesAChange

LEMMA WatchStep == TypeOK /\ WatchInv /\ [Next]_vars => WatchInv'
<1> SUFFICES ASSUME TypeOK, WatchInv, [Next]_vars PROVE WatchInv'
  OBVIOUS
<1>0. /\ at \in [Clients -> Places \cup {"sleep", "done"}] /\ unseen \in [Clients -> BOOLEAN]
      /\ AutoTask \in Clients /\ AutoTask \notin Calls /\ Calls \subseteq Clients
  BY CommandSizes DEF TypeOK, CallTypeOK, Clients
<1>00. ShownWasWritten /\ AutoHasNotLooked /\ NobodyMissesAChange
  BY DEF WatchInv
<1>1. CASE TakeIdle
  BY <1>1, WatchedStep DEF TakeIdle, BeginScan, BeginConnect, taskVars, calls, watch
<1>2. CASE Work
  BY <1>2, WatchedStep
     DEF Work, EndScan, FailConnect, Announce, EndConnect, WroteNothing, calls, watch
<1>3. CASE \/ TakeRunning \/ TakeInput \/ HandleAnswer \/ TuiSends \/ HookStep
           \/ UNCHANGED vars
  BY <1>3, WatchedStep
     DEF TakeRunning, TakeInput, HandleAnswer, FindTaken, WroteNothing, TuiSends,
         HookStep, HookReads, ReadState, HookToggles, WriteBack, HookPasses, DropCopy,
         HookOffers, vars, calls, watch, taskVars
<1>4. CASE AutoStep
  <2>1. /\ UNCHANGED <<listed, connected, written>>
        /\ \A b \in Clients \ {AutoTask} : at'[b] = at[b] /\ unseen'[b] = unseen[b]
    BY <1>0, <1>4 DEF AutoStep, AutoWakes, AutoSends, AutoSees, AutoGoTo, taskVars
  <2>2. CASE AutoWakes
    BY <1>0, <1>00, <2>1, <2>2, LookStep DEF AutoWakes, AutoGoTo, AutoHasNotLooked
  <2>3. CASE AutoSends
    <3>1. at[AutoTask] = "scan" /\ listed # {} => unseen[AutoTask]
      BY <1>00 DEF ShownWasWritten, AutoHasNotLooked
    <3> QED
      BY <1>0, <2>1, <2>3, <3>1, LookStep DEF AutoSends, AutoGoTo
  <2>4. CASE AutoSees
    BY <1>0, <2>1, <2>4, LookStep DEF AutoSees, AutoGoTo
  <2> QED
    BY <1>4, <2>2, <2>3, <2>4 DEF AutoStep
<1>5. ASSUME NEW c \in Calls, CallStep(c) PROVE WatchInv'
  <2>0. c \in Clients /\ c # AutoTask
    BY <1>0
  <2>1. /\ UNCHANGED <<listed, connected, written>>
        /\ \A b \in Clients \ {c} : at'[b] = at[b] /\ unseen'[b] = unseen[b]
    BY <1>0, <1>5
       DEF CallStep, CallConnect, CallOther, CallQuery, SendStep, SendScan, SendConnect,
           SendCommand, SendInput, WaitStep, SeeDevices, SeeConnected, TimesOut, HangUp,
           Answer, GoTo, FreshReceiver, taskVars, watch
  <2>2. CASE SendScan(c) \/ SendConnect(c)
    <3>1. unseen'[c] = written \/ at'[c] = "ready"
      BY <1>0, <2>0, <2>2 DEF SendScan, SendConnect, FreshReceiver, Answer
    <3> QED
      BY <1>00, <2>0, <2>1, <3>1, LookStep DEF ShownWasWritten
  <2>3. CASE SeeDevices(c)
    BY <1>0, <2>0, <2>1, <2>3, LookStep DEF SeeDevices, GoTo
  <2>4. CASE SeeConnected(c)
    BY <1>0, <2>0, <2>1, <2>4, LookStep DEF SeeConnected, Answer
  <2>5. CASE \/ CallConnect(c) \/ CallOther(c) \/ CallQuery(c) \/ SendCommand(c)
             \/ SendInput(c) \/ TimesOut(c) \/ HangUp(c)
    <3>1. at'[c] \notin {"wait", "confirm"}
      BY <1>0, <2>0, <2>5
         DEF CallConnect, CallOther, CallQuery, SendCommand, SendInput, TimesOut, HangUp,
             Answer, GoTo
    <3> QED
      BY <2>0, <2>1, <3>1, LookStep
  <2> QED
    BY <1>5, <2>2, <2>3, <2>4, <2>5 DEF CallStep, SendStep, WaitStep
<1> QED
  BY <1>1, <1>2, <1>3, <1>4, <1>5 DEF Next, TaskStep, CallStep

\* No call, nor the auto-connect task, waits for a device or a connection that
\* AppState shows already, whatever the BLE task and the hook publish between
\* the sending of a command and the making of a receiver.
THEOREM WaitsAreWoken == Spec => []NobodyMissesAChange
<1>1. Init => WatchInv
  <2> SUFFICES ASSUME Init PROVE WatchInv
    OBVIOUS
  <2>1. listed = {} /\ connected = NoDevice /\ written = FALSE
    BY DEF Init, HookedInit, TaskInit
  <2> QED
    BY <2>1 DEF WatchInv, ShownWasWritten, AutoHasNotLooked, NobodyMissesAChange
<1>2. WatchInv => NobodyMissesAChange
  BY DEF WatchInv
<1> QED
  BY <1>1, <1>2, WatchStep, CommandTypeCorrectness, PTL DEF Spec

-----------------------------------------------------------------------------
(* The task within *)

\* Queues, calls and timers add to the task and the hook no step of their own:
\* what Service is shown to do, and nothing else, moves the task and AppState.
LEMMA WithinHookedTask == TypeOK /\ [Next]_vars => [HookedNext]_hookedVars
<1> SUFFICES ASSUME TypeOK, [Next]_vars PROVE HookedNext \/ UNCHANGED hookedVars
  OBVIOUS
<1>0. mode # "down"
  BY DEF TypeOK, TaskTypeOK
<1> USE DEF HookedNext, hookedVars, toggling
<1>1. CASE TakeIdle
  BY <1>1 DEF TakeIdle, BeginScan, BeginConnect, TaskNext
<1>2. CASE Work
  BY <1>2 DEF Work, EndScan, Announce, FailConnect, EndConnect, TaskNext
<1>3. CASE HandleAnswer
  BY <1>3 DEF HandleAnswer
<1>4. CASE HookReads \/ HookToggles \/ HookPasses
  BY <1>4 DEF HookReads, HookToggles, HookPasses
<1>5. CASE \/ TakeRunning \/ TakeInput \/ AutoStep \/ TuiSends \/ HookOffers \/ UNCHANGED vars
  BY <1>5
     DEF TakeRunning, TakeInput, AutoStep, AutoWakes, AutoSends, AutoSees, TuiSends,
         HookOffers, vars
<1>6. ASSUME NEW c \in Calls, CallStep(c) PROVE UNCHANGED hookedVars
  BY <1>6
     DEF CallStep, CallConnect, CallOther, CallQuery, SendStep, SendScan, SendConnect,
         SendCommand, SendInput, WaitStep, SeeDevices, SeeConnected, TimesOut, HangUp
<1> QED
  BY <1>1, <1>2, <1>3, <1>4, <1>5, <1>6 DEF Next, TaskStep, HookStep, CallStep

\* Seen from the task, the clients are only the commands they queue.
THEOREM CommandsRunHookedTask == Spec => HookedSpec
<1>1. Init => HookedInit
  BY DEF Init
<1> QED
  BY <1>1, WithinHookedTask, CommandTypeCorrectness, PTL DEF Spec, HookedSpec
=============================================================================
