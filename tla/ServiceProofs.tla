---------------------------- MODULE ServiceProofs ----------------------------
(***************************************************************************)
(* Proofs about the service with its hook.  The inductive invariant of the *)
(* BLE task says nothing but types of what the hook overwrites, so it      *)
(* holds of the whole service.                                             *)
(***************************************************************************)
EXTENDS Service, BleSessionProofs

\* Every step of the service is a step of the BLE task or changes only AppState.
LEMMA ServiceStep ==
    ServiceTypeOK /\ IInv /\ [ServiceNext]_serviceVars => ServiceTypeOK' /\ IInv'
<1> SUFFICES ASSUME ServiceTypeOK, IInv, [ServiceNext]_serviceVars
             PROVE  ServiceTypeOK' /\ IInv'
  OBVIOUS
<1> DEFINE AppType == [devices : SUBSET Devices,
                       connected : Devices \cup {NoDevice}, auth : AuthStates]
<1>0. /\ capture \in BOOLEAN /\ snap.app \in AppType /\ snap.capture \in BOOLEAN
      /\ hookPc \in {"waiting", "handling"}
      /\ app \in AppType
  BY DEF ServiceTypeOK, TypeOK
<1>1. ASSUME [Next]_vars PROVE IInv'
  BY <1>1, TypeStep, ConnectOrderStep, SessionInLoopStep, SessionStep, FileStep,
     KnowsStep, ChallengeStep DEF IInv
<1>2. CASE BleStep /\ UNCHANGED hookVars
  <2>1. IInv'
    BY <1>1, <1>2 DEF BleStep, Next, CommandStep
  <2> QED
    BY <1>0, <1>2, <2>1 DEF IInv, ServiceTypeOK, hookVars
<1>3. CASE (KillService \/ Crash \/ LosePower) /\ HookEnds
  <2>1. IInv'
    BY <1>1, <1>3 DEF Next, CommandStep
  <2>2. snap' = InitialSnapshot /\ capture' = FALSE /\ hookPc' = "waiting"
    BY <1>3 DEF HookEnds
  <2>3. InitialSnapshot.app \in AppType /\ InitialSnapshot.capture \in BOOLEAN
    BY DEF InitialSnapshot, InitialApp, AuthStates
  <2> QED
    BY <2>1, <2>2, <2>3 DEF IInv, ServiceTypeOK
<1>4. CASE HookReads \/ HookPasses \/ UNCHANGED serviceVars
  <2>1. IInv'
    BY <1>1, <1>4 DEF HookReads, HookPasses, serviceVars
  <2>2. snap' = snap \/ snap' = [app |-> app, capture |-> capture]
    BY <1>4 DEF HookReads, HookPasses, Snapshot, serviceVars, hookVars
  <2>3. capture' = capture /\ hookPc' \in {"waiting", "handling"}
    BY <1>0, <1>4 DEF HookReads, HookPasses, serviceVars, hookVars
  <2> QED
    BY <1>0, <2>1, <2>2, <2>3 DEF IInv, ServiceTypeOK
<1>5. CASE HookToggles
  <2>1. UNCHANGED <<phase, cause, target, found, connP, cached, discovered,
                    deviceId, active, stored, disk, torn, older, lastKey, forgotten, notes, linked, inbox,
                    peers, issued, lastCh, out, restarts>>
    BY <1>5 DEF HookToggles, control, manager, keys, file, firmware
  <2>2. app' \in AppType /\ capture' \in BOOLEAN /\ snap' = snap /\ hookPc' = "waiting"
    BY <1>0, <1>5 DEF HookToggles
  <2>3. TypeOK'
    BY <2>1, <2>2 DEF IInv, TypeOK
  <2>4. Waiting' = Waiting
    BY <2>1 DEF Waiting
  <2>5. IInv'
    BY <2>1, <2>3, <2>4
       DEF IInv, ConnectOrder, SessionInLoop, SessionFollowsLink, SessionIsStored,
           FileBehindMap, FileKnows, Told, ChallengeOrder, ChallengeInStep,
           ChallengePending, HasKey
  <2> QED
    BY <1>0, <2>2, <2>3, <2>5 DEF ServiceTypeOK
<1> QED
  BY <1>2, <1>3, <1>4, <1>5 DEF ServiceNext

LEMMA ServiceInitial == ServiceInit => ServiceTypeOK /\ IInv
<1> SUFFICES ASSUME ServiceInit PROVE ServiceTypeOK /\ IInv
  OBVIOUS
<1>1. IInv
  BY InitIInv DEF ServiceInit
<1>2. snap.app = InitialApp /\ snap.capture = FALSE
  BY DEF ServiceInit, InitialSnapshot
<1>3. InitialApp \in [devices : SUBSET Devices, connected : Devices \cup {NoDevice},
                      auth : AuthStates]
  BY DEF InitialApp, AuthStates
<1>4. capture \in BOOLEAN /\ hookPc = "waiting"
  BY DEF ServiceInit
<1> QED
  BY <1>1, <1>2, <1>3, <1>4 DEF ServiceTypeOK, IInv

\* The type invariant of the service, its hook included.
THEOREM ServiceTypeCorrectness == ServiceSpec => []ServiceTypeOK
  BY ServiceInitial, ServiceStep, PTL DEF ServiceSpec

-----------------------------------------------------------------------------
(* What the hook writes back can be connected to *)

\* The devices of an AppState are peripherals the transport found.
Within(a) == a.devices \subseteq found /\ (a.connected = NoDevice \/ a.connected \in found)

\* So is the device of a connect from its start to its publication.
TargetFound == phase \in {"discover", "resolve", "greet", "publish"} => target \in found

WithinInv == Within(app) /\ Within(snap.app) /\ TargetFound

\* The BLE task's own steps.
LEMMA TaskWithin ==
    IInv /\ WithinInv /\ BleStep /\ UNCHANGED hookVars => WithinInv'
<1> SUFFICES ASSUME IInv, WithinInv, BleStep, UNCHANGED hookVars PROVE WithinInv'
  OBVIOUS
<1>0. /\ app \in [devices : SUBSET Devices, connected : Devices \cup {NoDevice},
                  auth : AuthStates]
      /\ snap' = snap
  BY DEF IInv, TypeOK, hookVars
<1> USE DEF WithinInv, Within, TargetFound
<1>1. CASE ScanEnd
  BY <1>0, <1>1 DEF ScanEnd
<1>2. CASE Publish
  BY <1>0, <1>2 DEF Publish, manager
<1>3. CASE HandlePeerUnknown \/ HandleChallenge
  BY <1>0, <1>3 DEF HandlePeerUnknown, HandleChallenge, manager, control, Panic
<1>4. ASSUME NEW d \in Devices, Connect(d) PROVE WithinInv'
  BY <1>0, <1>4 DEF Connect
<1>5. CASE ScanStart \/ Discover \/ Resolve \/ Greet \/ Subscribe
  BY <1>0, <1>5 DEF ScanStart, Discover, Resolve, Greet, Subscribe, manager, Panic
<1>6. CASE PairDevice \/ Transmit \/ Start \/ LoseMaster
  BY <1>0, <1>6 DEF PairDevice, NewPair, SavePair, Transmit, Start, LoseMaster, manager, control
<1>7. ASSUME NEW d \in Devices, LinkLost(d) \/ DeviceAccepts(d) \/ DeviceRejects(d)
      PROVE  WithinInv'
  BY <1>0, <1>7 DEF LinkLost, DeviceAccepts, DeviceRejects, manager, control
<1> QED
  BY <1>1, <1>2, <1>3, <1>4, <1>5, <1>6, <1>7 DEF BleStep, TaskStep, DeviceStep

LEMMA WithinStep ==
    IInv /\ WithinInv /\ [ServiceNext]_serviceVars => WithinInv'
<1> SUFFICES ASSUME IInv, WithinInv, [ServiceNext]_serviceVars PROVE WithinInv'
  OBVIOUS
<1>1. CASE BleStep /\ UNCHANGED hookVars
  BY <1>1, TaskWithin
<1>2. CASE (KillService \/ Crash \/ LosePower) /\ HookEnds
  BY <1>2
     DEF KillService, Crash, LosePower, Exit, HookEnds, InitialSnapshot, InitialApp, WithinInv, Within,
         TargetFound
<1>3. CASE HookReads
  BY <1>3
     DEF HookReads, Snapshot, WithinInv, Within, TargetFound, vars, control, manager
<1>4. CASE HookToggles
  BY <1>4 DEF HookToggles, WithinInv, Within, TargetFound, control, manager
<1>5. CASE HookPasses \/ UNCHANGED serviceVars
  BY <1>5
     DEF HookPasses, serviceVars, hookVars, WithinInv, Within, TargetFound, vars, control,
         manager
<1> QED
  BY <1>1, <1>2, <1>3, <1>4, <1>5 DEF ServiceNext

\* However stale the copy the hook writes back, each device in it is one the
\* transport can find by its address.
THEOREM StaleStateStaysConnectable == ServiceSpec => []StaleStateIsConnectable
<1>1. ServiceInit => WithinInv
  BY DEF ServiceInit, Init, InitialSnapshot, InitialApp, WithinInv, Within, TargetFound
<1>2. WithinInv => StaleStateIsConnectable
  BY DEF WithinInv, Within, StaleStateIsConnectable
<1> QED
  BY <1>1, <1>2, ServiceInitial, ServiceStep, WithinStep, PTL DEF ServiceSpec

-----------------------------------------------------------------------------
(* What the rest of the service may rely on *)

\* The two views of the task that BleTask and HookedTask give are one.
LEMMA SameTask == Task!TaskNext => Hooked!TaskNext
BY DEF Task!TaskNext, Task!BeginScan, Task!EndScan, Task!BeginConnect, Task!FailConnect,
       Task!Announce, Task!EndConnect, Task!EndProcess, Task!StartProcess,
       Hooked!TaskNext, Hooked!BeginScan, Hooked!EndScan, Hooked!BeginConnect,
       Hooked!FailConnect, Hooked!Announce, Hooked!EndConnect, Hooked!EndProcess,
       Hooked!StartProcess

\* The process does not end in a step of the task, the device or the link.
LEMMA ProcessLives == BleStep /\ phase' = "down" => UNCHANGED <<phase, target, app>>
BY DEF BleStep, TaskStep, DeviceStep, ScanStart, ScanEnd, Connect, Discover, Resolve, Greet,
       Publish, Subscribe, HandlePeerUnknown, HandleChallenge, PairDevice, NewPair, SavePair,
       Transmit, LinkLost, DeviceAccepts, DeviceRejects, Start, LoseMaster, Panic, control

LEMMA HookedStep ==
    IInv /\ ServiceTypeOK /\ [ServiceNext]_serviceVars
        => [Hooked!HookedNext]_(Hooked!hookedVars)
<1> SUFFICES ASSUME IInv, ServiceTypeOK, [ServiceNext]_serviceVars
             PROVE  Hooked!HookedNext \/ UNCHANGED (Hooked!hookedVars)
  OBVIOUS
<1> DEFINE copy == IF hookPc = "waiting" THEN {}
                   ELSE {[listed |-> snap.app.devices, connected |-> snap.app.connected]}
<1>0. /\ app \in [devices : SUBSET Devices, connected : Devices \cup {NoDevice},
                  auth : AuthStates]
      /\ hookPc \in {"waiting", "handling"}
  BY DEF ServiceTypeOK, TypeOK
<1>1. TaskMode = "down" <=> phase = "down"
  BY DEF TaskMode
<1>2. TaskMode' = "down" <=> phase' = "down"
  BY DEF TaskMode
<1> USE DEF Hooked!HookedNext, Hooked!hookedVars
<1>3. CASE HandleChallenge /\ UNCHANGED hookVars
  <2>1. /\ UNCHANGED <<target, app.devices, app.connected, copy>>
        /\ \/ phase' = phase
           \/ phase = "running" /\ phase' = "dead" /\ app.connected = NoDevice
    BY <1>0, <1>3 DEF HandleChallenge, Panic, hookVars
  <2> QED
    BY <2>1 DEF TaskMode, Hooked!FindTaken, Hooked!taskVars
<1>4. CASE BleStep /\ ~HandleChallenge /\ UNCHANGED hookVars
  <2>1. Task!TaskNext \/ UNCHANGED (Task!taskVars)
    BY <1>4, TaskAbstractStep DEF BleStep, Next, CommandStep
  <2>2. phase' = "down" => UNCHANGED (Task!taskVars)
    BY <1>4, ProcessLives DEF Task!taskVars, TaskMode
  <2>3. copy' = copy
    BY <1>4 DEF hookVars
  <2>4. CASE UNCHANGED (Task!taskVars)
    BY <2>3, <2>4 DEF Task!taskVars, Hooked!taskVars
  <2>5. CASE Task!TaskNext /\ phase' # "down"
    BY <1>2, <2>3, <2>5, SameTask
  <2> QED
    BY <2>1, <2>2, <2>4, <2>5
<1>5. CASE (KillService \/ Crash \/ LosePower) /\ HookEnds
  <2>1. Exit
    BY <1>5 DEF KillService, Crash, LosePower
  <2>2. Hooked!EndProcess
    BY <1>1, <2>1 DEF Exit, InitialApp, TaskMode, Hooked!EndProcess
  <2>3. TaskMode' = "down" /\ copy' = {}
    BY <1>2, <1>5, <2>1 DEF Exit, HookEnds
  <2> QED
    BY <2>2, <2>3 DEF Hooked!TaskNext
<1>6. CASE HookReads
  BY <1>1, <1>6 DEF HookReads, Snapshot, vars, control, TaskMode, Hooked!ReadState, Hooked!taskVars
<1>7. CASE HookToggles
  BY <1>7 DEF HookToggles, control, TaskMode, Hooked!WriteBack
<1>8. CASE HookPasses
  BY <1>8 DEF HookPasses, vars, control, TaskMode, Hooked!DropCopy, Hooked!taskVars
<1>9. CASE UNCHANGED serviceVars
  BY <1>9 DEF serviceVars, hookVars, vars, control, TaskMode, Hooked!taskVars
<1> QED
  BY <1>3, <1>4, <1>5, <1>6, <1>7, <1>8, <1>9 DEF ServiceNext

\* The task and the hook together keep the promise of HookedTask: AppState is
\* the task's but for copies made of it earlier in the life of the same process,
\* and only a connection so taken back ends a session in a panic.
THEOREM HookedTaskRefinement == ServiceSpec => ImplementsHookedTask
<1>1. ServiceInit => Hooked!HookedInit
  BY DEF ServiceInit, Init, InitialApp, TaskMode, Hooked!HookedInit, Hooked!TaskInit
<1> QED
  BY <1>1, HookedStep, ServiceInitial, ServiceStep, PTL
     DEF ServiceSpec, ImplementsHookedTask, Hooked!HookedSpec

\* The hook does not touch the session: with it running, the channel still
\* belongs to one device, its keys and challenges still only move forward, and
\* nothing leaves but under an agreed key (crypto.rs behind the stale AppState).
THEOREM ServiceChannelRefinement == ServiceSpec => ImplementsChannel
<1>1. ServiceInit => Channel!Init
  BY DEF ServiceInit, Init, NoSession, NoPacket, Channel!Init, Channel!Closed, Channel!Silent
<1>2. IInv /\ [ServiceNext]_serviceVars => [Channel!Next]_(Channel!chanVars)
  <2> SUFFICES ASSUME IInv, [ServiceNext]_serviceVars PROVE [Channel!Next]_(Channel!chanVars)
    OBVIOUS
  <2>1. CASE [Next]_vars
    BY <2>1, ChannelStep
  <2>2. CASE HookToggles
    BY <2>2 DEF HookToggles, Channel!chanVars
  <2> QED
    BY <2>1, <2>2
       DEF ServiceNext, BleStep, Next, CommandStep, HookReads, HookPasses, serviceVars
<1> QED
  BY <1>1, <1>2, ServiceInitial, ServiceStep, PTL
     DEF ServiceSpec, ImplementsChannel, Channel!Spec

\* Nor does it touch the pairings: with it running, they too are changed only in
\* ways the storage allows.
THEOREM ServiceStoreRefinement == ServiceSpec => ImplementsStore
<1>1. ServiceInit => Store!StoreInit
  <2> SUFFICES ASSUME ServiceInit PROVE Store!StoreInit
    OBVIOUS
  <2>1. disk \in [Devices -> {NoKey, Sealed} \cup KeyIds] /\ stored = disk
    BY DEF ServiceInit, Init, KeyIds, NoKey, OldKey, Sealed
  <2>2. phase = "idle" /\ torn = FALSE /\ older = {}
    BY DEF ServiceInit, Init
  <2> QED
    BY <2>1, <2>2 DEF Store!StoreInit
<1>2. IInv /\ [ServiceNext]_serviceVars => [Store!StoreNext]_(Store!storeVars)
  <2> SUFFICES ASSUME IInv, [ServiceNext]_serviceVars PROVE [Store!StoreNext]_(Store!storeVars)
    OBVIOUS
  <2>1. CASE [Next]_vars
    BY <2>1, StoreStep
  <2>2. CASE HookToggles
    BY <2>2 DEF HookToggles, Store!storeVars, Store!fileVars, control, keys, file
  <2> QED
    BY <2>1, <2>2
       DEF ServiceNext, BleStep, Next, CommandStep, HookReads, HookPasses, serviceVars
<1> QED
  BY <1>1, <1>2, ServiceInitial, ServiceStep, PTL
     DEF ServiceSpec, ImplementsStore, Store!StoreSpec
=============================================================================
