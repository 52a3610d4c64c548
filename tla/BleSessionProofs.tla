-------------------------- MODULE BleSessionProofs --------------------------
(***************************************************************************)
(* Proofs about BleSession, for every set of devices and every bound. The  *)
(* inductive invariant IInv is preserved part by part; its conjuncts and   *)
(* what follows from them are the theorems at the end.                     *)
(***************************************************************************)
EXTENDS BleSession, TLAPS

\* The actions that take a notification or a key out of or into a queue.
USE NoDeviceAssumption DEF KeyIds, NoKey, OldKey, Sealed, file

LEMMA InitIInv == Init => IInv
<1> SUFFICES ASSUME Init PROVE IInv
  OBVIOUS
<1>1. TypeOK
  <2>1. notes \in Seq(Notes) /\ inbox \in [Devices -> Seq(KeyIds)]
    BY DEF Init
  <2>2. app \in [devices : SUBSET Devices, connected : Devices \cup {NoDevice},
                 auth : AuthStates]
    BY DEF Init, InitialApp, AuthStates
  <2>3. /\ stored \in [Devices -> {NoKey, Sealed} \cup KeyIds]
        /\ disk \in [Devices -> {NoKey, Sealed} \cup KeyIds]
        /\ peers \in [Devices -> SUBSET KeyIds]
    BY DEF Init
  <2>4. torn \in BOOLEAN /\ older = {} /\ forgotten = {}
    BY DEF Init
  <2>5. /\ phase \in Phases /\ cause \in Causes /\ linked \in [Devices -> BOOLEAN]
        /\ issued \in [Devices -> {NoSession}
                          \cup [dev : Devices, key : KeyIds, ch : KeyIds]]
    BY DEF Init, Phases, Causes
  <2> QED
    BY <2>1, <2>2, <2>3, <2>4, <2>5 DEF Init, TypeOK
<1>2. ConnectOrder /\ SessionInLoop /\ SessionFollowsLink /\ SessionIsStored
  BY DEF Init, ConnectOrder, Connected, SessionInLoop, SessionFollowsLink,
         SessionIsStored, InitialApp
<1>3. \A d \in Devices : Told(d) \subseteq {disk[d]} /\ disk[d] \in Int /\ disk[d] <= lastKey
  <2> SUFFICES ASSUME NEW d \in Devices
               PROVE  Told(d) \subseteq {disk[d]} /\ disk[d] \in Int /\ disk[d] <= lastKey
    OBVIOUS
  <2>1. peers[d] \subseteq {stored[d]} /\ inbox[d] = <<>> /\ disk = stored
    BY DEF Init
  <2>2. DOMAIN inbox[d] = {}
    BY <2>1
  <2>3. stored[d] \in {NoKey, OldKey, Sealed} /\ lastKey = OldKey
    BY DEF Init
  <2> QED
    BY <2>1, <2>2, <2>3 DEF Told
<1>4. FileBehindMap /\ FileKnows
  BY <1>3 DEF Init, FileBehindMap, FileKnows
<1>5. ChallengeOrder /\ ChallengeInStep
  <2>1. Waiting = {} /\ active.ch = 0 /\ lastCh = 0
    BY DEF Init, Waiting, NoSession
  <2> QED
    BY <2>1 DEF ChallengeOrder, ChallengeInStep, HasKey
<1> QED
  BY <1>1, <1>2, <1>3, <1>4, <1>5 DEF IInv

-----------------------------------------------------------------------------
(* Facts about the two helpers several actions share *)

\* A public key that is sent, or lost, leaves the other inboxes alone and is
\* the only one added.
LEMMA SendKeyFacts ==
    ASSUME TypeOK, NEW k \in KeyIds, connP \in Devices, SendKey(k)
    PROVE  /\ inbox' \in [Devices -> Seq(KeyIds)]
           /\ \A d \in Devices : \A i \in DOMAIN inbox'[d] :
                 \/ i \in DOMAIN inbox[d] /\ inbox'[d][i] = inbox[d][i]
                 \/ d = connP /\ inbox'[d][i] = k
<1>1. CASE UNCHANGED inbox
  BY <1>1 DEF TypeOK
<1>2. CASE inbox' = [inbox EXCEPT ![connP] = Append(@, k)]
  <2>1. inbox[connP] \in Seq(KeyIds)
    BY DEF TypeOK
  <2>2. Append(inbox[connP], k) \in Seq(KeyIds)
    BY <2>1
  <2>3. inbox' \in [Devices -> Seq(KeyIds)]
    BY <1>2, <2>2 DEF TypeOK
  <2>4. ASSUME NEW d \in Devices, NEW i \in DOMAIN inbox'[d]
        PROVE  \/ i \in DOMAIN inbox[d] /\ inbox'[d][i] = inbox[d][i]
               \/ d = connP /\ inbox'[d][i] = k
    <3>1. CASE d # connP
      BY <1>2, <2>4, <3>1 DEF TypeOK
    <3>2. CASE d = connP
      <4>1. inbox'[d] = Append(inbox[d], k)
        BY <1>2, <3>2 DEF TypeOK
      <4> QED
        BY <2>1, <2>4, <3>2, <4>1
    <3> QED
      BY <3>1, <3>2
  <2> QED
    BY <2>3, <2>4
<1> QED
  BY <1>1, <1>2 DEF SendKey

\* A notification that arrives goes behind the ones that wait.
LEMMA NotifyFacts ==
    ASSUME TypeOK, NEW d \in Devices, NEW n \in Notes, Notify(d, n)
    PROVE  /\ notes' \in Seq(Notes)
           /\ \/ notes' = Append(notes, n) /\ phase = "running" /\ d = connP
              \/ notes' = notes /\ ~(phase = "running" /\ d = connP)
<1>1. CASE phase = "running" /\ d = connP
  <2>1. notes' = Append(notes, n)
    BY <1>1 DEF Notify
  <2> QED
    BY <1>1, <2>1 DEF TypeOK
<1>2. CASE ~(phase = "running" /\ d = connP)
  BY <1>2 DEF Notify, TypeOK
<1> QED
  BY <1>1, <1>2

-----------------------------------------------------------------------------
(* The parts of IInv, each preserved by every step *)

LEMMA TypeStep == IInv /\ [Next]_vars => TypeOK'
<1> SUFFICES ASSUME IInv, [Next]_vars PROVE TypeOK'
  OBVIOUS
<1> USE DEF Phases, Causes, AuthStates
<1>0. TypeOK /\ ConnectOrder
  BY DEF IInv
<1>1. CASE ScanStart
  BY <1>0, <1>1 DEF ScanStart, Panic, TypeOK, manager, keys, firmware
<1>2. CASE ScanEnd
  <2>1. app' \in [devices : SUBSET Devices, connected : Devices \cup {NoDevice},
                  auth : AuthStates]
    BY <1>0, <1>2 DEF ScanEnd, TypeOK
  <2>2. found' \subseteq Devices
    BY <1>0, <1>2 DEF ScanEnd, TypeOK
  <2>3. /\ phase' \in Phases
        /\ UNCHANGED <<cause, target, connP, cached, discovered, deviceId, active,
                       stored, file, lastKey, forgotten, notes, linked, inbox, peers, issued,
                       lastCh, out, restarts>>
    BY <1>2 DEF ScanEnd, keys, firmware
  <2> QED
    BY <1>0, <2>1, <2>2, <2>3 DEF TypeOK
<1>3. ASSUME NEW d \in Devices, Connect(d) PROVE TypeOK'
  <2>1. linked' \in [Devices -> BOOLEAN]
    BY <1>0, <1>3 DEF Connect, TypeOK
  <2>2. connP' \in Devices \cup {NoDevice}
    BY <1>0, <1>3 DEF Connect, TypeOK
  <2>3. /\ phase' \in Phases /\ target' \in Devices
        /\ UNCHANGED <<cause, found, cached, discovered, deviceId, active, stored,
                       file, lastKey, forgotten, app, notes, inbox, peers, issued, lastCh,
                       out, restarts>>
    BY <1>3 DEF Connect, keys, firmware
  <2> QED
    BY <1>0, <2>1, <2>2, <2>3, SMTT(60) DEF TypeOK
<1>4. CASE Discover
  BY <1>0, <1>4 DEF Discover, Panic, TypeOK, keys, firmware
<1>5. CASE Resolve
  BY <1>0, <1>5 DEF Resolve, TypeOK, keys, firmware
<1>6. CASE Greet
  <2>1. inbox' \in [Devices -> Seq(KeyIds)]
    <3>1. CASE Contains(deviceId) /\ Readable(deviceId)
      <4>1. stored[deviceId] \in KeyIds /\ connP \in Devices
        <5>1. connP \in Devices /\ deviceId = connP
          BY <1>0, <1>6 DEF Greet, ConnectOrder, Connected
        <5>2. stored[deviceId] \in {NoKey, Sealed} \cup KeyIds
          BY <1>0, <5>1 DEF TypeOK
        <5> QED
          BY <3>1, <5>1, <5>2 DEF Readable
      <4> QED
        BY <1>0, <1>6, <3>1, <4>1, SendKeyFacts DEF Greet
    <3>2. CASE ~(Contains(deviceId) /\ Readable(deviceId))
      BY <1>0, <1>6, <3>2 DEF Greet, TypeOK
    <3> QED
      BY <3>1, <3>2
  <2>2. /\ phase' \in Phases
        /\ UNCHANGED <<cause, target, found, connP, cached, discovered, deviceId,
                       active, stored, file, lastKey, forgotten, app, notes, linked, peers,
                       issued, lastCh, out, restarts>>
    BY <1>6 DEF Greet, manager, keys, firmware
  <2> QED
    BY <1>0, <2>1, <2>2, SMTT(60) DEF TypeOK
<1>7. CASE Publish
  <2>1. app' \in [devices : SUBSET Devices, connected : Devices \cup {NoDevice},
                  auth : AuthStates]
    BY <1>0, <1>7 DEF Publish, TypeOK
  <2> QED
    BY <1>0, <1>7, <2>1 DEF Publish, TypeOK, manager, keys, firmware
<1>8. CASE Subscribe
  BY <1>0, <1>8 DEF Subscribe, TypeOK, manager, keys, firmware
<1>9. CASE HandlePeerUnknown
  <2>1. app' \in [devices : SUBSET Devices, connected : Devices \cup {NoDevice},
                  auth : AuthStates]
    BY <1>0, <1>9 DEF HandlePeerUnknown, TypeOK
  <2>2. notes' \in Seq(Notes)
    BY <1>0, <1>9 DEF HandlePeerUnknown, TypeOK
  <2>3. UNCHANGED <<phase, cause, target, found, connP, cached, discovered,
                    deviceId, active, stored, file, lastKey, forgotten, linked, inbox, peers,
                    issued, lastCh, out, restarts>>
    BY <1>9 DEF HandlePeerUnknown, control, manager, keys, firmware
  <2> QED
    BY <1>0, <2>1, <2>2, <2>3 DEF TypeOK
<1>10. CASE HandleChallenge
  <2>1. app' \in [devices : SUBSET Devices, connected : Devices \cup {NoDevice},
                  auth : AuthStates]
    BY <1>0, <1>10 DEF HandleChallenge, TypeOK
  <2>2. notes' \in Seq(Notes) /\ Head(notes).ch \in Nat
    <3>1. Head(notes) \in Notes /\ Tail(notes) \in Seq(Notes)
      BY <1>0, <1>10 DEF HandleChallenge, TypeOK
    <3> QED
      BY <1>10, <3>1 DEF HandleChallenge, Notes, PeerUnknown
  <2>3. active' \in {NoSession} \cup [dev : Devices, key : KeyIds, ch : Nat]
    <3>1. CASE Contains(deviceId) /\ Readable(deviceId)
      <4>1. stored[deviceId] \in KeyIds /\ deviceId \in Devices
        <5>1. deviceId \in Devices
          BY <1>0, <1>10 DEF HandleChallenge, ConnectOrder, Connected
        <5>2. stored \in [Devices -> {NoKey, Sealed} \cup KeyIds]
          BY <1>0 DEF TypeOK
        <5> QED
          BY <3>1, <5>1, <5>2 DEF Readable
      <4>2. active' = [dev |-> deviceId, key |-> stored[deviceId],
                       ch |-> Head(notes).ch]
        BY <1>10, <3>1 DEF HandleChallenge, LoadDeviceKeys
      <4> QED
        BY <2>2, <4>1, <4>2
    <3>2. CASE ~(Contains(deviceId) /\ Readable(deviceId))
      BY <1>0, <1>10, <3>2 DEF HandleChallenge, LoadDeviceKeys, TypeOK
    <3> QED
      BY <3>1, <3>2
  <2>4. phase' \in Phases /\ cause' \in Causes
    BY <1>0, <1>10 DEF HandleChallenge, Panic, TypeOK
  <2> QED
    BY <1>0, <1>10, <2>1, <2>2, <2>3, <2>4
       DEF HandleChallenge, TypeOK, manager, keys, firmware
<1>11. CASE PairDevice
  <2>1. lastKey' \in KeyIds /\ connP \in Devices /\ deviceId = connP
    BY <1>0, <1>11 DEF PairDevice, NewPair, SavePair, TypeOK, ConnectOrder, Connected
  <2>2. inbox' \in [Devices -> Seq(KeyIds)]
    BY <1>0, <1>11, <2>1, SendKeyFacts DEF PairDevice, NewPair, SavePair, TypeOK
  <2>3. /\ stored' \in [Devices -> {NoKey, Sealed} \cup KeyIds]
        /\ disk' \in [Devices -> {NoKey, Sealed} \cup KeyIds] /\ torn' \in BOOLEAN
        /\ older' \subseteq [Devices -> {NoKey, Sealed} \cup KeyIds]
        /\ forgotten' \subseteq Devices
    <3>1. stored' \in [Devices -> {NoKey, Sealed} \cup KeyIds]
      BY <1>0, <1>11, <2>1 DEF PairDevice, SavePair, TypeOK
    <3>2. UNCHANGED file \/ CutShort \/ Complete
      BY <1>11 DEF PairDevice, SavePair
    <3>3. forgotten' \subseteq Devices
      BY <1>0, <1>11 DEF PairDevice, SavePair, TypeOK
    <3> QED
      BY <1>0, <3>1, <3>2, <3>3 DEF CutShort, Complete, Outdated, TypeOK
  <2>4. active' \in [dev : Devices, key : KeyIds, ch : Nat]
    BY <1>11, <2>1 DEF PairDevice, NewPair, SavePair
  <2> QED
    BY <1>0, <1>11, <2>1, <2>2, <2>3, <2>4
       DEF PairDevice, NewPair, SavePair, TypeOK, control, manager, firmware
<1>12. CASE Transmit
  <2>1. out' \in [to : Devices, key : KeyIds, ch : KeyIds]
    <3>1. connP \in Devices
      BY <1>0, <1>12 DEF Transmit, ConnectOrder, Connected
    <3>2. active.key \in KeyIds /\ active.ch \in KeyIds
      BY <1>0, <1>12 DEF Transmit, HasKey, TypeOK, NoSession
    <3> QED
      BY <1>12, <3>1, <3>2 DEF Transmit
  <2> QED
    BY <1>0, <1>12, <2>1
       DEF Transmit, TypeOK, control, manager, keys, firmware
<1>13. CASE KillService \/ Crash \/ LosePower
  <2>1. app' \in [devices : SUBSET Devices, connected : Devices \cup {NoDevice},
                  auth : AuthStates]
    BY <1>13 DEF KillService, Crash, LosePower, Exit, InitialApp
  <2>2. /\ phase' = "down" /\ cause' = "none" /\ target' = NoDevice
        /\ found' = {} /\ connP' = NoDevice /\ cached' = NoDevice
        /\ discovered' = {} /\ deviceId' = NoDevice /\ active' = NoSession
        /\ stored' = [d \in Devices |-> NoKey] /\ notes' = <<>> /\ out' = NoPacket
        /\ UNCHANGED <<lastKey, peers, issued, lastCh, restarts>>
    BY <1>13 DEF KillService, Crash, LosePower, Exit, firmware
  <2>3. linked' \in [Devices -> BOOLEAN] /\ inbox' \in [Devices -> Seq(KeyIds)]
    <3>1. CASE KillService \/ Crash
      BY <1>0, <3>1 DEF KillService, Crash, TypeOK
    <3>2. CASE LosePower
      <4>1. /\ linked' = [d \in Devices |-> FALSE] /\ inbox' = [d \in Devices |-> <<>>]
        BY <3>2 DEF LosePower
      <4> QED
        BY <4>1
    <3> QED
      BY <1>13, <3>1, <3>2
  <2>4. /\ disk' \in [Devices -> {NoKey, Sealed} \cup KeyIds] /\ torn' \in BOOLEAN
        /\ older' \subseteq [Devices -> {NoKey, Sealed} \cup KeyIds]
        /\ forgotten' \subseteq Devices
    BY <1>0, <1>13 DEF KillService, Crash, LosePower, CutShort, Outdated, TypeOK
  <2>5. stored' \in [Devices -> {NoKey, Sealed} \cup KeyIds]
    BY <2>2
  <2>6. phase' \in Phases /\ cause' \in Causes
    BY <2>2
  <2> QED
    BY <1>0, <2>1, <2>2, <2>3, <2>4, <2>5, <2>6, SMTT(60) DEF TypeOK
<1>14. CASE Start
  BY <1>0, <1>14 DEF Start, TypeOK, manager, firmware
<1>19. CASE LoseMaster
  <2>1. \A m \in [Devices -> {NoKey, Sealed} \cup KeyIds] :
           Unreadable(m) \in [Devices -> {NoKey, Sealed} \cup KeyIds]
    BY DEF Unreadable
  <2>2. disk' \in [Devices -> {NoKey, Sealed} \cup KeyIds]
    BY <1>0, <1>19, <2>1 DEF LoseMaster, TypeOK
  <2>3. older' \subseteq [Devices -> {NoKey, Sealed} \cup KeyIds]
    <3>1. older' = {Unreadable(m) : m \in older}
      BY <1>19 DEF LoseMaster
    <3>2. older \subseteq [Devices -> {NoKey, Sealed} \cup KeyIds]
      BY <1>0 DEF TypeOK
    <3> QED
      BY <2>1, <3>1, <3>2
  <2>4. forgotten' \subseteq Devices
    BY <1>0, <1>19 DEF LoseMaster, TypeOK
  <2>5. UNCHANGED <<phase, cause, target, found, connP, cached, discovered, deviceId,
                    active, stored, torn, lastKey, app, notes, linked, inbox, peers,
                    issued, lastCh, out, restarts>>
    BY <1>19 DEF LoseMaster, control, manager, firmware
  <2> QED
    BY <1>0, <2>2, <2>3, <2>4, <2>5, SMTT(60) DEF TypeOK
<1>15. ASSUME NEW d \in Devices, LinkLost(d) PROVE TypeOK'
  <2>1. inbox' \in [Devices -> Seq(KeyIds)]
    BY <1>0, <1>15 DEF LinkLost, TypeOK
  <2>2. linked' \in [Devices -> BOOLEAN] /\ discovered' \subseteq Devices
    BY <1>0, <1>15 DEF LinkLost, TypeOK
  <2> QED
    BY <1>0, <1>15, <2>1, <2>2 DEF LinkLost, TypeOK, control, keys, firmware
<1>16. ASSUME NEW d \in Devices, DeviceAccepts(d) PROVE TypeOK'
  <2>1. Head(inbox[d]) \in KeyIds /\ Tail(inbox[d]) \in Seq(KeyIds)
    BY <1>0, <1>16 DEF DeviceAccepts, TypeOK
  <2>2. lastCh' \in KeyIds
    BY <1>0, <1>16 DEF DeviceAccepts, TypeOK
  <2>3. notes' \in Seq(Notes)
    BY <1>0, <1>16, <2>2, NotifyFacts DEF DeviceAccepts, Challenge, Notes
  <2>4. /\ inbox' \in [Devices -> Seq(KeyIds)]
        /\ peers' \in [Devices -> SUBSET KeyIds]
    BY <1>0, <1>16, <2>1 DEF DeviceAccepts, TypeOK
  <2>5. issued' \in [Devices -> {NoSession}
                        \cup [dev : Devices, key : KeyIds, ch : KeyIds]]
    BY <1>0, <1>16, <2>1, <2>2 DEF DeviceAccepts, TypeOK
  <2>6. UNCHANGED <<phase, cause, target, found, connP, cached, discovered,
                    deviceId, active, stored, file, lastKey, forgotten, app, linked, out,
                    restarts>>
    BY <1>16 DEF DeviceAccepts, control, manager, keys
  <2> QED
    BY SMTT(60), <1>0, <2>2, <2>3, <2>4, <2>5, <2>6 DEF TypeOK
<1>17. ASSUME NEW d \in Devices, DeviceRejects(d) PROVE TypeOK'
  <2>1. inbox' \in [Devices -> Seq(KeyIds)]
    <3>1. Tail(inbox[d]) \in Seq(KeyIds)
      BY <1>0, <1>17 DEF DeviceRejects, TypeOK
    <3> QED
      BY <1>0, <1>17, <3>1 DEF DeviceRejects, TypeOK
  <2>2. notes' \in Seq(Notes)
    BY <1>0, <1>17, NotifyFacts DEF DeviceRejects, Notes
  <2>3. UNCHANGED <<phase, cause, target, found, connP, cached, discovered,
                    deviceId, active, stored, file, lastKey, forgotten, app, linked, peers,
                    issued, lastCh, out, restarts>>
    BY <1>17 DEF DeviceRejects, control, manager, keys, firmware
  <2> QED
    BY SMTT(60), <1>0, <2>1, <2>2, <2>3 DEF TypeOK
<1>18. CASE UNCHANGED vars
  BY <1>0, <1>18 DEF TypeOK, vars, control, manager, keys, firmware
<1> QED
  BY <1>1, <1>2, <1>3, <1>4, <1>5, <1>6, <1>7, <1>8, <1>9, <1>10, <1>11, <1>12,
     <1>13, <1>14, <1>15, <1>16, <1>17, <1>18, <1>19
     DEF Next, TaskStep, CommandStep, DeviceStep

\* Order of a connect: each step finds what the steps before it have set.
LEMMA ConnectOrderStep == IInv /\ [Next]_vars => ConnectOrder'
<1> SUFFICES ASSUME IInv, [Next]_vars PROVE ConnectOrder'
  OBVIOUS
<1> USE DEF ConnectOrder, Connected
<1>0. TypeOK /\ ConnectOrder
  BY DEF IInv
<1>1. CASE ScanStart \/ ScanEnd
  BY <1>1 DEF ScanStart, ScanEnd, Panic
<1>2. ASSUME NEW d \in Devices, Connect(d) PROVE ConnectOrder'
  BY <1>2 DEF Connect
<1>3. CASE Discover
  <2>1. connP \in Devices \cup {NoDevice}
    BY <1>0 DEF TypeOK
  <2> QED
    BY <1>0, <1>3, <2>1 DEF Discover, Panic
<1>4. CASE Resolve
  BY <1>0, <1>4 DEF Resolve
<1>5. CASE Greet \/ Publish \/ Subscribe
  BY <1>0, <1>5 DEF Greet, Publish, Subscribe, manager
<1>6. CASE HandlePeerUnknown \/ HandleChallenge \/ PairDevice \/ Transmit
  BY <1>0, <1>6
     DEF HandlePeerUnknown, HandleChallenge, PairDevice, NewPair, SavePair, Transmit, Panic, control,
         manager
<1>7. CASE KillService \/ Crash \/ LosePower \/ Start \/ LoseMaster
  BY <1>0, <1>7 DEF KillService, Crash, LosePower, Exit, Start, LoseMaster, control, manager
<1>8. ASSUME NEW d \in Devices, LinkLost(d) \/ DeviceAccepts(d) \/ DeviceRejects(d)
      PROVE  ConnectOrder'
  BY <1>0, <1>8 DEF LinkLost, DeviceAccepts, DeviceRejects, control, manager
<1>9. CASE UNCHANGED vars
  BY <1>0, <1>9 DEF vars, control, manager
<1> QED
  BY <1>1, <1>2, <1>3, <1>4, <1>5, <1>6, <1>7, <1>8, <1>9
     DEF Next, TaskStep, CommandStep, DeviceStep

\* Sessions and notifications stay inside the loop.
LEMMA SessionInLoopStep == IInv /\ [Next]_vars => SessionInLoop'
<1> SUFFICES ASSUME IInv, [Next]_vars PROVE SessionInLoop'
  OBVIOUS
<1> USE DEF SessionInLoop
<1>0. TypeOK /\ SessionInLoop
  BY DEF IInv
<1>1. CASE ScanStart \/ ScanEnd \/ Discover \/ Resolve \/ Greet \/ Publish \/ Subscribe
  BY <1>0, <1>1
     DEF ScanStart, ScanEnd, Discover, Resolve, Greet, Publish, Subscribe, Panic
<1>2. ASSUME NEW d \in Devices, Connect(d) PROVE SessionInLoop'
  BY <1>0, <1>2 DEF Connect
<1>3. CASE HandlePeerUnknown \/ HandleChallenge \/ PairDevice \/ Transmit
  BY <1>0, <1>3
     DEF HandlePeerUnknown, HandleChallenge, PairDevice, NewPair, SavePair, Transmit, Panic, control
<1>4. CASE KillService \/ Crash \/ LosePower \/ Start \/ LoseMaster
  BY <1>0, <1>4 DEF KillService, Crash, LosePower, Exit, Start, LoseMaster, control
<1>5. ASSUME NEW d \in Devices, LinkLost(d) PROVE SessionInLoop'
  BY <1>0, <1>5 DEF LinkLost, control
<1>6. ASSUME NEW d \in Devices, DeviceAccepts(d) \/ DeviceRejects(d)
      PROVE  SessionInLoop'
  BY <1>0, <1>6 DEF DeviceAccepts, DeviceRejects, Notify, control
<1>7. CASE UNCHANGED vars
  BY <1>0, <1>7 DEF vars, control
<1> QED
  BY <1>1, <1>2, <1>3, <1>4, <1>5, <1>6, <1>7
     DEF Next, TaskStep, CommandStep, DeviceStep

\* The session belongs to the peripheral and has the stored key pair.
LEMMA SessionStep ==
    IInv /\ [Next]_vars => SessionFollowsLink' /\ SessionIsStored'
<1> SUFFICES ASSUME IInv, [Next]_vars
             PROVE  SessionFollowsLink' /\ SessionIsStored'
  OBVIOUS
<1> USE DEF SessionFollowsLink, SessionIsStored
<1>0. /\ TypeOK /\ ConnectOrder /\ SessionInLoop
      /\ SessionFollowsLink /\ SessionIsStored
  BY DEF IInv
<1>1. CASE ScanStart \/ ScanEnd \/ Discover \/ Greet \/ Publish \/ Subscribe
  BY <1>0, <1>1
     DEF ScanStart, ScanEnd, Discover, Greet, Publish, Subscribe, manager, keys
<1>2. CASE Resolve
  BY <1>0, <1>2 DEF Resolve, SessionInLoop, keys
<1>3. ASSUME NEW d \in Devices, Connect(d)
      PROVE  SessionFollowsLink' /\ SessionIsStored'
  BY <1>0, <1>3 DEF Connect, SessionInLoop, keys
<1>4. CASE HandlePeerUnknown \/ Transmit
  BY <1>0, <1>4 DEF HandlePeerUnknown, Transmit, manager, keys
<1>5. CASE HandleChallenge
  <2>1. deviceId = connP /\ deviceId' = deviceId /\ connP' = connP /\ stored' = stored
    BY <1>0, <1>5 DEF HandleChallenge, ConnectOrder, Connected, manager, keys
  <2>2. \/ active' = active
        \/ active' = [dev |-> deviceId, key |-> stored[deviceId],
                      ch |-> Head(notes).ch]
    BY <1>5 DEF HandleChallenge, LoadDeviceKeys
  <2> QED
    BY <1>0, <2>1, <2>2
<1>6. CASE PairDevice
  <2>1. connP \in Devices /\ deviceId = connP
    BY <1>0, <1>6 DEF PairDevice, NewPair, SavePair, ConnectOrder, Connected
  <2>2. active'.dev = deviceId /\ active'.key = lastKey'
    BY <1>6 DEF PairDevice, NewPair, SavePair
  <2>3. stored'[deviceId] = lastKey'
    BY <1>0, <1>6, <2>1 DEF PairDevice, NewPair, SavePair, TypeOK
  <2> QED
    BY <1>6, <2>1, <2>2, <2>3 DEF PairDevice, NewPair, SavePair, manager
<1>7. CASE KillService \/ Crash \/ LosePower \/ Start \/ LoseMaster
  <2>1. active' = NoSession
    BY <1>0, <1>7
       DEF KillService, Crash, LosePower, Exit, Start, LoseMaster, SessionInLoop
  <2> QED
    BY <2>1
<1>8. ASSUME NEW d \in Devices, LinkLost(d) \/ DeviceAccepts(d) \/ DeviceRejects(d)
      PROVE  SessionFollowsLink' /\ SessionIsStored'
  BY <1>0, <1>8 DEF LinkLost, DeviceAccepts, DeviceRejects, manager, keys
<1>9. CASE UNCHANGED vars
  BY <1>0, <1>9 DEF vars, manager, keys
<1> QED
  BY <1>1, <1>2, <1>3, <1>4, <1>5, <1>6, <1>7, <1>8, <1>9
     DEF Next, TaskStep, CommandStep, DeviceStep

\* What a device is told of is a number.
LEMMA ToldType == ASSUME TypeOK, NEW d \in Devices PROVE Told(d) \subseteq KeyIds
<1>1. peers[d] \subseteq KeyIds /\ inbox[d] \in Seq(KeyIds)
  BY DEF TypeOK
<1> QED
  BY <1>1 DEF Told

\* A device is told of nothing new but by a greeting, of the key pair in the map,
\* and by a pairing whose file is written, of the newest one.
LEMMA ToldStep ==
    ASSUME IInv, [Next]_vars, NEW e \in Devices, NEW k \in Told(e)'
    PROVE  \/ k \in Told(e)
           \/ Greet /\ phase = "greet" /\ k = stored[e]
           \/ PairDevice /\ e = deviceId /\ k = lastKey' /\ Complete
<1>0. TypeOK /\ ConnectOrder
  BY DEF IInv
<1>a. k \in peers'[e] \/ \E i \in DOMAIN inbox'[e] : k = inbox'[e][i]
  BY DEF Told
<1>b. inbox[e] \in Seq(KeyIds)
  BY <1>0 DEF TypeOK
<1>1. ASSUME peers' = peers, inbox'[e] = inbox[e] PROVE k \in Told(e)
  BY <1>1, <1>a DEF Told
<1>2. ASSUME peers' = peers, inbox'[e] = <<>> PROVE k \in Told(e)
  BY <1>2, <1>a DEF Told
<1>3. ASSUME peers' = peers, connP \in Devices, NEW n \in KeyIds, SendKey(n)
      PROVE  k \in Told(e) \/ (e = connP /\ k = n)
  <2>1. \A i \in DOMAIN inbox'[e] :
           \/ i \in DOMAIN inbox[e] /\ inbox'[e][i] = inbox[e][i]
           \/ e = connP /\ inbox'[e][i] = n
    BY <1>0, <1>3, SendKeyFacts
  <2> QED
    BY <1>3, <1>a, <2>1 DEF Told
<1>4. CASE Greet
  <2>1. peers' = peers /\ phase = "greet" /\ connP \in Devices /\ deviceId = connP
    BY <1>0, <1>4 DEF Greet, firmware, ConnectOrder, Connected
  <2>2. CASE Contains(deviceId) /\ Readable(deviceId)
    <3>1. stored[deviceId] \in KeyIds /\ SendKey(stored[deviceId])
      BY <1>0, <1>4, <2>1, <2>2 DEF Greet, TypeOK, Readable
    <3> QED
      BY <1>3, <1>4, <2>1, <3>1
  <2>3. CASE ~(Contains(deviceId) /\ Readable(deviceId))
    BY <1>1, <1>4, <2>1, <2>3 DEF Greet
  <2> QED
    BY <2>2, <2>3
<1>5. CASE PairDevice
  <2>1. peers' = peers /\ connP \in Devices /\ deviceId = connP /\ lastKey' \in KeyIds
    BY <1>0, <1>5 DEF PairDevice, firmware, ConnectOrder, Connected, TypeOK
  <2>2. CASE Complete /\ SendKey(lastKey')
    BY <1>3, <1>5, <2>1, <2>2
  <2> QED
    BY <1>1, <1>5, <2>1, <2>2 DEF PairDevice, SavePair
<1>6. ASSUME NEW d \in Devices, LinkLost(d) PROVE k \in Told(e)
  <2>1. peers' = peers /\ inbox' = [inbox EXCEPT ![d] = <<>>]
    BY <1>6 DEF LinkLost, firmware
  <2>2. inbox'[e] = <<>> \/ inbox'[e] = inbox[e]
    BY <1>0, <2>1 DEF TypeOK
  <2> QED
    BY <1>1, <1>2, <2>1, <2>2
<1>7. ASSUME NEW d \in Devices, DeviceAccepts(d) \/ DeviceRejects(d) PROVE k \in Told(e)
  <2>1. /\ inbox[d] # <<>> /\ inbox' = [inbox EXCEPT ![d] = Tail(@)]
        /\ peers' = peers \/ peers' = [peers EXCEPT ![d] = @ \cup {Head(inbox[d])}]
    BY <1>7 DEF DeviceAccepts, DeviceRejects, firmware
  <2>2. CASE e # d
    <3>1. inbox'[e] = inbox[e] /\ peers'[e] = peers[e]
      BY <1>0, <2>1, <2>2 DEF TypeOK
    <3> QED
      BY <1>a, <3>1 DEF Told
  <2>3. CASE e = d
    <3>1. /\ inbox'[e] = Tail(inbox[e])
          /\ peers'[e] = peers[e] \/ peers'[e] = peers[e] \cup {Head(inbox[e])}
      BY <1>0, <2>1, <2>3 DEF TypeOK
    <3>2. \A i \in DOMAIN Tail(inbox[e]) :
             i + 1 \in DOMAIN inbox[e] /\ Tail(inbox[e])[i] = inbox[e][i + 1]
      BY <1>b, <2>1, <2>3
    <3>3. 1 \in DOMAIN inbox[e] /\ Head(inbox[e]) = inbox[e][1]
      BY <1>b, <2>1, <2>3
    <3> QED
      BY <1>a, <3>1, <3>2, <3>3 DEF Told
  <2> QED
    BY <2>2, <2>3
<1>8. ASSUME NEW d \in Devices, Connect(d) PROVE k \in Told(e)
  BY <1>1, <1>8 DEF Connect, firmware
<1>9. CASE \/ ScanStart \/ ScanEnd \/ Discover \/ Resolve \/ Publish \/ Subscribe
           \/ HandlePeerUnknown \/ HandleChallenge \/ Transmit
           \/ KillService \/ Crash \/ Start \/ LoseMaster \/ UNCHANGED vars
  <2>1. UNCHANGED <<peers, inbox>>
    BY <1>9
       DEF ScanStart, ScanEnd, Discover, Resolve, Publish, Subscribe,
           HandlePeerUnknown, HandleChallenge, Transmit, KillService, Crash, Exit,
           Start, LoseMaster, vars, firmware
  <2> QED
    BY <1>1, <2>1
<1>10. CASE LosePower
  BY <1>2, <1>10 DEF LosePower, Exit, firmware
<1> QED
  BY <1>4, <1>5, <1>6, <1>7, <1>8, <1>9, <1>10 DEF Next, TaskStep, CommandStep, DeviceStep

\* Numbers, for the two lemmas that follow.
LEMMA FileNumbers ==
    ASSUME TypeOK
    PROVE  /\ lastKey \in KeyIds
           /\ \A d \in Devices : disk[d] \in Int /\ stored[d] \in Int
           /\ \A d \in Devices : \A m \in older : m[d] \in Int
           /\ \A d \in Devices : \A k \in Told(d) : k \in KeyIds
<1>1. \A m \in older : m \in [Devices -> {NoKey, Sealed} \cup KeyIds]
  BY DEF TypeOK
<1>2. \A d \in Devices : \A k \in Told(d) : k \in KeyIds
  BY ToldType
<1> QED
  BY <1>1, <1>2 DEF TypeOK

\* The file never leads the map, and is the map outside the session loop; no key
\* pair is newer than the newest.
LEMMA FileStep == IInv /\ [Next]_vars => FileBehindMap'
<1> SUFFICES ASSUME IInv, [Next]_vars PROVE FileBehindMap'
  OBVIOUS
<1> DEFINE Settled == phase \notin {"running", "dead", "down"} => ~torn /\ stored = disk
           Bounded(d) == /\ phase # "down" => disk[d] <= stored[d]
                         /\ disk[d] <= lastKey /\ stored[d] <= lastKey
                         /\ \A m \in older : m[d] <= lastKey
<1>0. TypeOK /\ ConnectOrder /\ FileBehindMap
  BY DEF IInv
<1>a. /\ lastKey \in KeyIds
      /\ \A d \in Devices : disk[d] \in Int /\ stored[d] \in Int
      /\ \A d \in Devices : \A m \in older : m[d] \in Int
      /\ \A d \in Devices : \A k \in Told(d) : k \in KeyIds
  BY <1>0, FileNumbers
<1>b. Settled /\ \A d \in Devices : Bounded(d)
  BY <1>0 DEF FileBehindMap
<1>c. lastKey' >= lastKey /\ lastKey' \in KeyIds
  <2>1. CASE PairDevice
    BY <1>a, <2>1 DEF PairDevice
  <2>2. CASE KillService \/ Crash \/ LosePower \/ Start \/ LoseMaster \/ UNCHANGED vars
    BY <1>a, <2>2 DEF KillService, Crash, LosePower, Exit, Start, LoseMaster, vars, keys
  <2>3. CASE \/ ScanStart \/ ScanEnd \/ Discover \/ Resolve \/ Greet \/ Publish \/ Subscribe
             \/ HandlePeerUnknown \/ HandleChallenge \/ Transmit
    BY <1>a, <2>3
       DEF ScanStart, ScanEnd, Discover, Resolve, Greet, Publish, Subscribe,
           HandlePeerUnknown, HandleChallenge, Transmit, keys
  <2>4. ASSUME NEW d \in Devices,
               Connect(d) \/ LinkLost(d) \/ DeviceAccepts(d) \/ DeviceRejects(d)
        PROVE  lastKey' >= lastKey /\ lastKey' \in KeyIds
    BY <1>a, <2>4 DEF Connect, LinkLost, DeviceAccepts, DeviceRejects, keys
  <2> QED
    BY <2>1, <2>2, <2>3, <2>4 DEF Next, TaskStep, CommandStep, DeviceStep
<1>d. ASSUME NEW d \in Devices, NEW k \in Told(d)' PROVE k <= lastKey'
  <2>1. k \in Told(d) \/ k = stored[d] \/ k = lastKey'
    BY <1>d, ToldStep
  <2>2. \A n \in Told(d) : n <= lastKey
    BY <1>0 DEF FileBehindMap
  <2> QED
    BY <1>a, <1>b, <1>c, <2>1, <2>2
<1> SUFFICES Settled' /\ \A d \in Devices : Bounded(d)'
  BY <1>d DEF FileBehindMap
<1>1. ASSUME UNCHANGED keys, phase' \in {phase, "running", "dead"},
             phase = "down" => phase' = "down"
      PROVE  Settled' /\ \A d \in Devices : Bounded(d)'
  BY <1>1, <1>b DEF keys
<1>2. CASE ScanStart \/ ScanEnd \/ Discover \/ Resolve \/ Greet \/ Publish \/ Subscribe
  BY <1>2, <1>b
     DEF ScanStart, ScanEnd, Discover, Resolve, Greet, Publish, Subscribe, Panic, keys
<1>3. CASE HandlePeerUnknown \/ HandleChallenge \/ Transmit \/ UNCHANGED vars
  BY <1>1, <1>3
     DEF HandlePeerUnknown, HandleChallenge, Transmit, Panic, control, vars
<1>4. ASSUME NEW d \in Devices,
             Connect(d) \/ LinkLost(d) \/ DeviceAccepts(d) \/ DeviceRejects(d)
      PROVE  Settled' /\ \A e \in Devices : Bounded(e)'
  BY <1>4, <1>b DEF Connect, LinkLost, DeviceAccepts, DeviceRejects, control, keys
<1>5. CASE PairDevice
  <2>1. /\ deviceId \in Devices /\ phase = "running" /\ phase' = "running"
        /\ lastKey' = lastKey + 1
        /\ stored' = [stored EXCEPT ![deviceId] = lastKey']
    BY <1>0, <1>5 DEF PairDevice, SavePair, ConnectOrder, Connected, control
  <2>2. /\ disk' = disk \/ disk' = stored'
        /\ older' = older \/ older' = older \cup {disk}
    BY <1>5 DEF PairDevice, SavePair, Complete, CutShort, Outdated
  <2>3. ASSUME NEW d \in Devices PROVE Bounded(d)'
    <3>1. stored'[d] = IF d = deviceId THEN lastKey' ELSE stored[d]
      BY <1>0, <2>1 DEF TypeOK
    <3>2. disk'[d] = stored'[d] \/ disk'[d] = disk[d]
      BY <2>2
    <3>3. disk[d] <= stored[d] /\ stored[d] <= lastKey /\ \A m \in older : m[d] <= lastKey
      BY <1>b, <2>1
    <3>4. ASSUME NEW m \in older' PROVE m[d] <= lastKey'
      BY <1>a, <1>b, <2>1, <2>2, <3>3, <3>4
    <3> QED
      BY <1>a, <2>1, <3>1, <3>2, <3>3, <3>4
  <2> QED
    BY <2>1, <2>3
<1>6. CASE KillService \/ Crash \/ LosePower
  <2>1. /\ phase' = "down" /\ lastKey' = lastKey /\ stored' = [d \in Devices |-> NoKey]
        /\ disk' = disk \/ disk' \in older
        /\ older' \subseteq older \cup {disk}
    BY <1>6 DEF KillService, Crash, LosePower, Exit, CutShort, Outdated
  <2>2. ASSUME NEW d \in Devices PROVE Bounded(d)'
    <3>1. stored'[d] = 0
      BY <2>1
    <3>2. disk'[d] <= lastKey /\ \A m \in older' : m[d] <= lastKey
      BY <1>b, <2>1
    <3> QED
      BY <1>a, <2>1, <3>1, <3>2
  <2> QED
    BY <2>1, <2>2
<1>7. CASE Start
  BY <1>a, <1>b, <1>7 DEF Start
<1>8. CASE LoseMaster
  <2>1. \A m, d : d \in Devices => Unreadable(m)[d] <= 0
    BY DEF Unreadable
  <2>2. /\ phase' = "down" /\ lastKey' = lastKey /\ stored' = stored
        /\ disk' = Unreadable(disk) /\ older' = {Unreadable(m) : m \in older}
    BY <1>8 DEF LoseMaster, control
  <2>3. ASSUME NEW d \in Devices PROVE Bounded(d)'
    <3>1. Unreadable(disk)[d] <= lastKey
      BY <1>a DEF Unreadable
    <3>2. ASSUME NEW m \in older' PROVE m[d] <= lastKey
      <4>1. PICK n \in older : m = Unreadable(n)
        BY <2>2, <3>2
      <4> QED
        BY <1>a, <4>1 DEF Unreadable
    <3> QED
      BY <1>b, <2>2, <3>1, <3>2
  <2> QED
    BY <2>2, <2>3
<1> QED
  BY <1>2, <1>3, <1>4, <1>5, <1>6, <1>7, <1>8 DEF Next, TaskStep, CommandStep, DeviceStep

\* A key pair is written before its public key is sent, and no write but that of a
\* newer one replaces it.
LEMMA KnowsStep == IInv /\ [Next]_vars => FileKnows'
<1> SUFFICES ASSUME IInv, [Next]_vars, NEW e \in Devices \ forgotten', NEW k \in Told(e)'
             PROVE  disk'[e] >= k
  BY DEF FileKnows
<1>0. TypeOK /\ ConnectOrder /\ FileBehindMap /\ FileKnows
  BY DEF IInv
<1>a. /\ lastKey \in KeyIds /\ disk[e] \in Int /\ stored[e] \in Int
      /\ \A n \in Told(e) : n \in KeyIds /\ n <= lastKey
      /\ e \notin forgotten => \A n \in Told(e) : disk[e] >= n
  BY <1>0, FileNumbers DEF FileBehindMap, FileKnows
<1>b. \/ k \in Told(e)
      \/ Greet /\ phase = "greet" /\ k = stored[e]
      \/ PairDevice /\ e = deviceId /\ k = lastKey' /\ Complete
  BY ToldStep
<1>1. ASSUME ~Greet, ~PairDevice, UNCHANGED <<disk, forgotten>> PROVE disk'[e] >= k
  BY <1>1, <1>a, <1>b
<1>2. CASE Greet
  <2>1. UNCHANGED <<disk, forgotten>>
    BY <1>2 DEF Greet, keys
  <2>2. phase = "greet" => stored = disk
    BY <1>0 DEF FileBehindMap
  <2>3. ~PairDevice
    BY <1>2 DEF Greet, PairDevice
  <2> QED
    BY <1>a, <1>b, <2>1, <2>2, <2>3
<1>3. CASE PairDevice
  <2>1. /\ deviceId \in Devices /\ phase = "running" /\ lastKey' = lastKey + 1 /\ ~Greet
        /\ stored' = [stored EXCEPT ![deviceId] = lastKey']
    BY <1>0, <1>3 DEF PairDevice, SavePair, Greet, ConnectOrder, Connected
  <2>2. CASE Complete /\ forgotten' = forgotten \ {deviceId}
    <3>1. disk'[e] = IF e = deviceId THEN lastKey' ELSE stored[e]
      BY <1>0, <2>1, <2>2 DEF Complete, TypeOK
    <3>2. disk[e] <= stored[e]
      BY <1>0, <2>1 DEF FileBehindMap
    <3>3. e # deviceId => e \notin forgotten
      BY <2>2
    <3> QED
      BY <1>a, <1>b, <2>1, <3>1, <3>2, <3>3
  <2>3. CASE UNCHANGED <<disk, forgotten>> /\ ~(Complete /\ forgotten' = forgotten \ {deviceId})
    <3>1. k \in Told(e) \/ disk' = stored'
      BY <1>b, <2>1 DEF Complete
    <3>2. stored[e] <= lastKey /\ disk[e] <= lastKey
      BY <1>0 DEF FileBehindMap
    <3>3. disk' = stored' => FALSE
      <4>1. stored'[deviceId] = lastKey + 1
        BY <1>0, <2>1 DEF TypeOK
      <4>2. disk[deviceId] <= lastKey /\ disk[deviceId] \in Int
        BY <1>0, <2>1, FileNumbers DEF FileBehindMap
      <4> QED
        BY <1>a, <2>3, <4>1, <4>2
    <3> QED
      BY <1>a, <2>3, <3>1, <3>3
  <2> QED
    BY <1>3, <2>2, <2>3 DEF PairDevice, SavePair, CutShort
<1>4. CASE LosePower
  <2>1. ~Greet /\ ~PairDevice /\ e \notin forgotten /\ disk'[e] = disk[e]
    BY <1>4 DEF LosePower, Exit, Greet, PairDevice, control
  <2> QED
    BY <1>a, <1>b, <2>1
<1>5. CASE LoseMaster
  <2>1. ~Greet /\ ~PairDevice /\ e \notin forgotten /\ ~(disk[e] > 0)
    BY <1>5 DEF LoseMaster, Greet, PairDevice, control
  <2> QED
    BY <1>a, <1>b, <2>1
<1>6. CASE KillService \/ Crash \/ Start
  <2>1. ~Greet /\ ~PairDevice /\ UNCHANGED <<disk, forgotten>>
    BY <1>6
       DEF KillService, Crash, Exit, CutShort, Start, Greet, PairDevice, control
  <2> QED
    BY <1>1, <2>1
<1>7. CASE ~Greet /\ ~PairDevice /\ UNCHANGED keys
  BY <1>1, <1>7 DEF keys
<1>8. CASE \/ ScanStart \/ ScanEnd \/ Discover \/ Resolve \/ Publish \/ Subscribe
           \/ HandlePeerUnknown \/ HandleChallenge \/ Transmit \/ UNCHANGED vars
  <2>1. UNCHANGED keys
    BY <1>8
       DEF ScanStart, ScanEnd, Discover, Resolve, Publish, Subscribe,
           HandlePeerUnknown, HandleChallenge, Transmit, vars
  <2> QED
    BY <1>2, <1>3, <1>7, <2>1
<1>9. ASSUME NEW d \in Devices,
             Connect(d) \/ LinkLost(d) \/ DeviceAccepts(d) \/ DeviceRejects(d)
      PROVE  disk'[e] >= k
  <2>1. UNCHANGED keys
    BY <1>9 DEF Connect, LinkLost, DeviceAccepts, DeviceRejects
  <2> QED
    BY <1>2, <1>3, <1>7, <2>1
<1> QED
  BY <1>2, <1>3, <1>4, <1>5, <1>6, <1>8, <1>9 DEF Next, TaskStep, CommandStep, DeviceStep

\* With no session and no notification there is nothing to keep in order.
LEMMA NothingWaiting ==
    ASSUME lastCh' \in Nat, notes' = <<>>, active' = NoSession
    PROVE  ChallengeOrder' /\ ChallengeInStep'
<1>1. Waiting' = {} /\ active'.ch = 0
  BY DEF Waiting, NoSession
<1> QED
  BY <1>1 DEF ChallengeOrder, ChallengeInStep, HasKey

\* Facts about the types of what waits.
LEMMA WaitingType ==
    ASSUME TypeOK
    PROVE  /\ active.ch \in Nat /\ lastCh \in Nat
           /\ \A i \in Waiting : notes[i].ch \in KeyIds /\ i \in Nat /\ i >= 1
<1>1. active.ch \in Nat /\ lastCh \in Nat
  BY DEF TypeOK, NoSession
<1>2. ASSUME NEW i \in Waiting
      PROVE  notes[i].ch \in KeyIds /\ i \in Nat /\ i >= 1
  <2>1. notes \in Seq(Notes) /\ i \in DOMAIN notes /\ notes[i].type = "Challenge"
    BY <1>2 DEF TypeOK, Waiting
  <2>2. notes[i] \in Notes /\ i \in Nat /\ i >= 1
    BY <2>1
  <2> QED
    BY <2>1, <2>2 DEF Notes, PeerUnknown
<1> QED
  BY <1>1, <1>2

\* Handling the first notification.
LEMMA ChallengeHandled ==
    ASSUME IInv, HandleChallenge \/ HandlePeerUnknown
    PROVE  ChallengeOrder' /\ ChallengeInStep'
<1>0. TypeOK /\ ConnectOrder /\ SessionIsStored /\ SessionFollowsLink
  BY DEF IInv
<1>a. ChallengeOrder /\ ChallengeInStep
  BY DEF IInv
<1>1. /\ notes \in Seq(Notes) /\ notes # <<>> /\ notes' = Tail(notes)
      /\ phase = "running" /\ UNCHANGED <<connP, issued, lastCh>>
  BY <1>0 DEF HandleChallenge, HandlePeerUnknown, TypeOK, manager, firmware
<1>2. /\ \A i \in DOMAIN notes' : i \in Nat /\ i + 1 \in DOMAIN notes
                                  /\ notes'[i] = notes[i + 1]
      /\ \A j \in DOMAIN notes : j # 1 => j - 1 \in DOMAIN notes'
      /\ 1 \in DOMAIN notes /\ Head(notes) = notes[1]
  BY <1>1
<1>3. \A i \in Waiting' : /\ i \in Nat /\ i + 1 \in Waiting
                          /\ notes'[i] = notes[i + 1]
  BY <1>2 DEF Waiting
<1>4. /\ active.ch \in Nat /\ lastCh \in Nat
      /\ \A i \in Waiting : notes[i].ch \in KeyIds /\ i \in Nat /\ i >= 1
  BY <1>0, WaitingType
<1>5. ASSUME NEW j \in Waiting, j # 1 PROVE j - 1 \in Waiting'
  <2>1. j \in DOMAIN notes /\ j \in Nat /\ j - 1 \in DOMAIN notes'
    BY <1>2, <1>4, <1>5 DEF Waiting
  <2>2. notes'[j - 1] = notes[j]
    BY <1>2, <2>1
  <2> QED
    BY <1>5, <2>1, <2>2 DEF Waiting
<1>6. \/ 1 \notin Waiting /\ active' = active
      \/ 1 \in Waiting /\ active'.ch = notes[1].ch
      \/ active'.ch = 0
  <2>1. CASE HandlePeerUnknown
    BY <1>2, <2>1 DEF HandlePeerUnknown, Waiting
  <2>2. CASE HandleChallenge
    <3>1. 1 \in Waiting /\ active' = LoadDeviceKeys(notes[1].ch)
      BY <1>2, <2>2 DEF HandleChallenge, Waiting
    <3>2. CASE Contains(deviceId) /\ Readable(deviceId)
      BY <3>1, <3>2 DEF LoadDeviceKeys
    <3>3. CASE ~(Contains(deviceId) /\ Readable(deviceId))
      <4>1. active' = active
        BY <3>1, <3>3 DEF LoadDeviceKeys
      <4>2. active # NoSession => stored[deviceId] \in KeyIds
        BY <1>0 DEF SessionIsStored, SessionFollowsLink, TypeOK
      <4>3. active = NoSession
        BY <3>3, <4>2 DEF Contains, Readable
      <4> QED
        BY <4>1, <4>3 DEF NoSession
    <3> QED
      BY <3>2, <3>3
  <2> QED
    BY <2>1, <2>2
<1>7. active'.ch \in Nat /\ active'.ch <= lastCh'
  BY <1>1, <1>a, <1>4, <1>6 DEF ChallengeOrder
<1>8. ASSUME NEW i \in Waiting'
      PROVE  active'.ch < notes'[i].ch /\ notes'[i].ch <= lastCh'
  <2>1. i \in Nat /\ i >= 1 /\ i + 1 \in Waiting /\ notes'[i] = notes[i + 1]
    <3>1. i \in Nat /\ i + 1 \in Waiting /\ notes'[i] = notes[i + 1] /\ i \in DOMAIN notes'
      BY <1>3, <1>8 DEF Waiting
    <3> QED
      BY <1>1, <3>1
  <2>2. 1 \in Waiting => notes[1].ch < notes[i + 1].ch
    BY <1>a, <2>1 DEF ChallengeOrder
  <2>3. active.ch < notes[i + 1].ch /\ notes[i + 1].ch <= lastCh
    BY <1>a, <2>1 DEF ChallengeOrder
  <2> QED
    <3>1. lastCh' = lastCh /\ notes'[i].ch = notes[i + 1].ch
      BY <1>1, <2>1
    <3>2. notes[i + 1].ch \in KeyIds
      BY <1>4, <2>1
    <3> QED
      BY <1>6, <2>2, <2>3, <3>1, <3>2
<1>9. ASSUME NEW i \in Waiting', NEW j \in Waiting', i < j
      PROVE  notes'[i].ch < notes'[j].ch
  <2>1. /\ i \in Nat /\ i + 1 \in Waiting /\ notes'[i] = notes[i + 1]
        /\ j \in Nat /\ j + 1 \in Waiting /\ notes'[j] = notes[j + 1]
    BY <1>3, <1>9
  <2> QED
    BY <1>a, <1>9, <2>1 DEF ChallengeOrder
<1>10. ASSUME NEW i \in Waiting', \A j \in Waiting' : j <= i
       PROVE  notes'[i].ch = issued'[connP'].ch
  <2>1. i \in Nat /\ i + 1 \in Waiting /\ notes'[i] = notes[i + 1]
    BY <1>3, <1>10
  <2>2. ASSUME NEW j \in Waiting PROVE j <= i + 1
    <3>1. CASE j = 1
      BY <2>1, <3>1
    <3>2. CASE j # 1
      BY <1>4, <1>5, <1>10, <2>1, <3>2
    <3> QED
      BY <3>1, <3>2
  <2> QED
    BY <1>1, <1>a, <2>1, <2>2 DEF ChallengeOrder
<1>11. ASSUME HasKey', Waiting' = {} PROVE active'.ch = issued'[connP'].ch
  <2>1. \A j \in Waiting : j = 1
    BY <1>5, <1>11
  <2>2. active'.ch # 0
    BY <1>11 DEF HasKey
  <2>3. CASE 1 \in Waiting
    <3>1. \A j \in Waiting : j <= 1
      BY <2>1
    <3>2. notes[1].ch = issued[connP].ch
      BY <1>1, <1>a, <2>3, <3>1 DEF ChallengeOrder
    <3> QED
      BY <1>1, <1>6, <2>2, <2>3, <3>2
  <2>4. CASE 1 \notin Waiting
    <3>1. Waiting = {}
      BY <2>1, <2>4
    <3>2. active' = active
      BY <1>6, <2>2, <2>4
    <3> QED
      BY <1>1, <1>a, <2>2, <3>1, <3>2 DEF ChallengeInStep, ChallengePending, HasKey
  <2> QED
    BY <2>3, <2>4
<1>12. ChallengeOrder'
  BY <1>7, <1>8, <1>9, <1>10 DEF ChallengeOrder
<1>13. ChallengeInStep'
  BY <1>11 DEF ChallengeInStep, ChallengePending
<1> QED
  BY <1>12, <1>13

\* A device's answer is the newest challenge there is.
LEMMA ChallengeArrives ==
    ASSUME IInv, NEW d \in Devices, DeviceAccepts(d)
    PROVE  ChallengeOrder' /\ ChallengeInStep'
<1>0. TypeOK /\ SessionInLoop
  BY DEF IInv
<1>a. ChallengeOrder /\ ChallengeInStep
  BY DEF IInv
<1>1. /\ lastCh' = lastCh + 1
      /\ issued' = [issued EXCEPT ![d] =
                       [dev |-> d, key |-> Head(inbox[d]), ch |-> lastCh']]
      /\ Notify(d, Challenge(lastCh'))
      /\ UNCHANGED <<phase, connP, active>>
  BY DEF DeviceAccepts, control, manager
<1>2. issued'[d].ch = lastCh' /\ \A e \in Devices : e # d => issued'[e] = issued[e]
  BY <1>0, <1>1 DEF TypeOK
<1>3. /\ active.ch \in Nat /\ lastCh \in Nat
      /\ \A i \in Waiting : notes[i].ch \in KeyIds /\ i \in Nat /\ i >= 1
  BY <1>0, WaitingType
<1>4. CASE notes' = Append(notes, Challenge(lastCh')) /\ d = connP
  <2>1. notes \in Seq(Notes)
    BY <1>0 DEF TypeOK
  <2>2. /\ DOMAIN notes' = DOMAIN notes \cup {Len(notes) + 1}
        /\ \A i \in DOMAIN notes : notes'[i] = notes[i] /\ i \in Nat /\ i <= Len(notes)
        /\ notes'[Len(notes) + 1] = Challenge(lastCh')
        /\ Len(notes) \in Nat
    BY <1>4, <2>1
  <2>3. /\ Challenge(lastCh').type = "Challenge"
        /\ Challenge(lastCh').ch = lastCh'
    BY DEF Challenge
  <2>4. /\ Waiting' = Waiting \cup {Len(notes) + 1}
        /\ \A i \in Waiting : notes'[i] = notes[i] /\ i <= Len(notes)
    BY <2>2, <2>3 DEF Waiting
  <2>5. ASSUME NEW i \in Waiting'
        PROVE  active.ch < notes'[i].ch /\ notes'[i].ch <= lastCh'
    <3>1. CASE i \in Waiting
      BY <1>1, <1>3, <1>a, <2>4, <3>1 DEF ChallengeOrder
    <3>2. CASE i = Len(notes) + 1
      BY <1>1, <1>3, <1>a, <2>2, <2>3, <3>2 DEF ChallengeOrder
    <3> QED
      BY <2>4, <3>1, <3>2
  <2>6. ASSUME NEW i \in Waiting', NEW j \in Waiting', i < j
        PROVE  notes'[i].ch < notes'[j].ch
    <3>1. i \in Waiting
      BY <1>3, <2>2, <2>4, <2>6
    <3>2. CASE j \in Waiting
      BY <1>a, <2>4, <2>6, <3>1, <3>2 DEF ChallengeOrder
    <3>3. CASE j = Len(notes) + 1
      <4>1. notes'[j].ch = lastCh + 1 /\ notes'[i] = notes[i]
        BY <1>1, <2>2, <2>3, <2>4, <3>1, <3>3
      <4>2. notes[i].ch \in KeyIds /\ notes[i].ch <= lastCh
        BY <1>3, <1>a, <3>1 DEF ChallengeOrder
      <4> QED
        BY <1>3, <4>1, <4>2
    <3> QED
      BY <2>4, <3>2, <3>3
  <2>7. ASSUME NEW i \in Waiting', \A j \in Waiting' : j <= i
        PROVE  notes'[i].ch = issued'[connP'].ch
    <3>1. i = Len(notes) + 1
      <4>1. Len(notes) + 1 <= i
        BY <2>4, <2>7
      <4>2. CASE i \in Waiting
        BY <1>3, <2>2, <2>4, <4>1, <4>2
      <4> QED
        BY <2>4, <4>2
    <3> QED
      BY <1>1, <1>2, <1>4, <2>2, <2>3, <3>1
  <2>8. active'.ch <= lastCh'
    BY <1>1, <1>3, <1>a DEF ChallengeOrder
  <2>9. ChallengeOrder'
    BY <1>1, <2>5, <2>6, <2>7, <2>8 DEF ChallengeOrder
  <2> QED
    BY <2>4, <2>9 DEF ChallengeInStep, ChallengePending
<1>5. CASE notes' = notes /\ ~(phase = "running" /\ d = connP)
  <2>1. Waiting' = Waiting
    BY <1>5 DEF Waiting
  <2>2. phase = "running" => issued'[connP'] = issued[connP]
    <3>1. phase = "running" => connP \in Devices
      BY DEF IInv, ConnectOrder, Connected
    <3> QED
      BY <1>1, <1>2, <1>5, <3>1
  <2>3. ASSUME NEW i \in Waiting PROVE notes[i].ch <= lastCh'
    BY <1>1, <1>3, <1>a, <2>3 DEF ChallengeOrder
  <2>4. active.ch <= lastCh'
    BY <1>1, <1>3, <1>a DEF ChallengeOrder
  <2>5. ChallengeOrder'
    BY <1>1, <1>5, <1>a, <2>1, <2>2, <2>3, <2>4 DEF ChallengeOrder
  <2> QED
    BY <1>1, <1>5, <1>a, <2>1, <2>2, <2>5 DEF ChallengeInStep, ChallengePending, HasKey
<1>6. Challenge(lastCh') \in Notes
  BY <1>1, <1>3 DEF Challenge, Notes
<1> QED
  BY <1>0, <1>1, <1>4, <1>5, <1>6, NotifyFacts

LEMMA ChallengeStep == IInv /\ [Next]_vars => ChallengeOrder' /\ ChallengeInStep'
<1> SUFFICES ASSUME IInv, [Next]_vars
             PROVE  ChallengeOrder' /\ ChallengeInStep'
  OBVIOUS
<1>0. TypeOK /\ SessionInLoop
  BY DEF IInv
<1>a. ChallengeOrder /\ ChallengeInStep
  BY DEF IInv
<1>b. /\ active.ch \in Nat /\ lastCh \in Nat
      /\ \A i \in Waiting : notes[i].ch \in KeyIds /\ i \in Nat /\ i >= 1
  BY <1>0, WaitingType
\* Steps outside the session loop, and the end of the process.
<1>1. ASSUME phase \notin {"running", "dead"}, UNCHANGED <<active, notes, lastCh>>
      PROVE  ChallengeOrder' /\ ChallengeInStep'
  BY <1>0, <1>1, <1>b, NothingWaiting DEF SessionInLoop
<1>2. CASE ScanStart \/ ScanEnd \/ Discover \/ Resolve \/ Greet \/ Publish
           \/ Subscribe \/ Start \/ LoseMaster
  BY <1>1, <1>2
     DEF ScanStart, ScanEnd, Discover, Resolve, Greet, Publish, Subscribe, Start, LoseMaster, control,
         firmware
<1>3. ASSUME NEW d \in Devices, Connect(d)
      PROVE  ChallengeOrder' /\ ChallengeInStep'
  BY <1>1, <1>3 DEF Connect, firmware
<1>4. CASE KillService \/ Crash \/ LosePower
  BY <1>4, <1>b, NothingWaiting DEF KillService, Crash, LosePower, Exit, firmware
\* Steps that touch none of it.
<1>5. ASSUME UNCHANGED <<phase, connP, active, notes, issued, lastCh>>
      PROVE  ChallengeOrder' /\ ChallengeInStep'
  <2>1. Waiting' = Waiting
    BY <1>5 DEF Waiting
  <2> QED
    BY <1>5, <1>a, <2>1 DEF ChallengeOrder, ChallengeInStep, ChallengePending, HasKey
<1>6. CASE Transmit \/ UNCHANGED vars
  BY <1>5, <1>6 DEF Transmit, vars, control, manager, firmware
<1>7. ASSUME NEW d \in Devices, LinkLost(d)
      PROVE  ChallengeOrder' /\ ChallengeInStep'
  BY <1>5, <1>7 DEF LinkLost, control, firmware
<1>8. CASE HandlePeerUnknown \/ HandleChallenge
  BY <1>8, ChallengeHandled
<1>9. CASE PairDevice
  <2>1. active'.ch = 0 /\ UNCHANGED <<phase, connP, notes, issued, lastCh>>
    BY <1>9 DEF PairDevice, NewPair, SavePair, control, manager, firmware
  <2>2. Waiting' = Waiting
    BY <2>1 DEF Waiting
  <2>3. \A i \in Waiting : 0 < notes[i].ch
    BY <1>b
  <2> QED
    BY <1>a, <1>b, <2>1, <2>2, <2>3 DEF ChallengeOrder, ChallengeInStep, HasKey
<1>10. ASSUME NEW d \in Devices, DeviceAccepts(d)
       PROVE  ChallengeOrder' /\ ChallengeInStep'
  BY <1>10, ChallengeArrives
<1>11. ASSUME NEW d \in Devices, DeviceRejects(d)
       PROVE  ChallengeOrder' /\ ChallengeInStep'
  <2>1. UNCHANGED <<phase, connP, active, issued, lastCh>> /\ Notify(d, PeerUnknown)
    BY <1>11 DEF DeviceRejects, control, manager, firmware
  <2>2. PeerUnknown \in Notes
    BY DEF Notes
  <2>3. CASE notes' = Append(notes, PeerUnknown)
    <3>1. notes \in Seq(Notes)
      BY <1>0 DEF TypeOK
    <3>2. /\ DOMAIN notes' = DOMAIN notes \cup {Len(notes) + 1}
          /\ \A i \in DOMAIN notes : notes'[i] = notes[i]
          /\ notes'[Len(notes) + 1] = PeerUnknown
          /\ Len(notes) + 1 \notin DOMAIN notes
      BY <2>3, <3>1
    <3>3. PeerUnknown.type # "Challenge"
      BY DEF PeerUnknown
    <3>4. Waiting' = Waiting /\ \A i \in Waiting : notes'[i] = notes[i]
      BY <3>2, <3>3 DEF Waiting
    <3> QED
      BY <1>a, <2>1, <3>4 DEF ChallengeOrder, ChallengeInStep, ChallengePending, HasKey
  <2>4. CASE notes' = notes
    BY <1>5, <2>1, <2>4
  <2> QED
    BY <1>0, <2>1, <2>2, <2>3, <2>4, NotifyFacts
<1> QED
  BY <1>2, <1>3, <1>4, <1>6, <1>7, <1>8, <1>9, <1>10, <1>11
     DEF Next, TaskStep, CommandStep, DeviceStep

-----------------------------------------------------------------------------
(* Theorems *)

\* IInv holds in every reachable state: it is what each operation of the task
\* may rely on and must restore.
THEOREM Invariance == Spec => []IInv
<1>1. IInv /\ [Next]_vars => IInv'
  BY TypeStep, ConnectOrderStep, SessionInLoopStep, SessionStep, FileStep,
     KnowsStep, ChallengeStep DEF IInv
<1> QED
  BY InitIInv, <1>1, PTL DEF Spec

\* Every variable keeps its type (the fields of BleManager, BLEInterface,
\* EcdhContext and AppState).
THEOREM TypeCorrectness == Spec => []TypeOK
<1>1. IInv => TypeOK
  BY DEF IInv
<1> QED
  BY Invariance, <1>1, PTL

\* Keys of one device never protect traffic to another.
THEOREM KeysStayWithTheirDevice == Spec => []SessionFollowsLink
<1>1. IInv => SessionFollowsLink
  BY DEF IInv
<1> QED
  BY Invariance, <1>1, PTL

\* The key pair in use is the stored one.
THEOREM KeysAreStored == Spec => []SessionIsStored
<1>1. IInv => SessionIsStored
  BY DEF IInv
<1> QED
  BY Invariance, <1>1, PTL

\* No sequence of pairings, failed writes, kills (in the middle of a write too) and
\* restarts makes the service forget a key pair a device was told of, unless a
\* power loss takes an unsynced write back or the master key is replaced: what can
\* be read of it, in memory or in the file, has that key pair or a newer one.
THEOREM PairingsAreNotForgotten == Spec => []NoPairingForgotten
<1>1. IInv => NoPairingForgotten
  <2> SUFFICES ASSUME IInv, NEW d \in Devices \ forgotten, NEW k \in Told(d)
               PROVE  disk[d] >= k /\ (phase # "down" => stored[d] >= k)
    BY DEF NoPairingForgotten
  <2>1. TypeOK /\ disk[d] >= k /\ (phase # "down" => disk[d] <= stored[d])
    BY DEF IInv, FileKnows, FileBehindMap
  <2>2. disk[d] \in Int /\ stored[d] \in Int /\ k \in Int
    BY <2>1, FileNumbers
  <2> QED
    BY <2>1, <2>2
<1> QED
  BY Invariance, <1>1, PTL

\* No packet is encrypted under a challenge the device has replaced, once the
\* notifications that arrived are handled.
THEOREM ChallengesStayInStep == Spec => []ChallengeInStep
<1>1. IInv => ChallengeInStep
  BY DEF IInv
<1> QED
  BY Invariance, <1>1, PTL

\* The connected device is published before the loop and stays published.
LEMMA PublishedBeforeTheLoop == Spec => []ConnectionIsPublished
<1> USE DEF ConnectionIsPublished
<1>1. Init => ConnectionIsPublished
  BY DEF Init
<1>2. IInv /\ ConnectionIsPublished /\ [Next]_vars => ConnectionIsPublished'
  <2> SUFFICES ASSUME IInv, ConnectionIsPublished, [Next]_vars
               PROVE  ConnectionIsPublished'
    OBVIOUS
  <2>0. /\ app \in [devices : SUBSET Devices, connected : Devices \cup {NoDevice},
                    auth : AuthStates]
        /\ phase = "publish" => target \in Devices
    BY DEF IInv, TypeOK, ConnectOrder, Connected
  <2>1. CASE ScanStart \/ ScanEnd \/ Discover \/ Resolve \/ Greet
    BY <2>1 DEF ScanStart, ScanEnd, Discover, Resolve, Greet, Panic
  <2>2. CASE Publish \/ Subscribe
    BY <2>0, <2>2 DEF Publish, Subscribe
  <2>3. CASE HandlePeerUnknown \/ HandleChallenge
    BY <2>0, <2>3 DEF HandlePeerUnknown, HandleChallenge, Panic, control
  <2>4. CASE PairDevice \/ Transmit \/ Start \/ LoseMaster \/ UNCHANGED vars
    BY <2>4 DEF PairDevice, NewPair, SavePair, Transmit, Start, LoseMaster, vars, control
  <2>5. CASE KillService \/ Crash \/ LosePower
    BY <2>5 DEF KillService, Crash, LosePower, Exit
  <2>6. ASSUME NEW d \in Devices, Connect(d) PROVE ConnectionIsPublished'
    BY <2>6 DEF Connect
  <2>7. ASSUME NEW d \in Devices, LinkLost(d) \/ DeviceAccepts(d) \/ DeviceRejects(d)
        PROVE  ConnectionIsPublished'
    BY <2>7 DEF LinkLost, DeviceAccepts, DeviceRejects, control
  <2> QED
    BY <2>1, <2>2, <2>3, <2>4, <2>5, <2>6, <2>7
       DEF Next, TaskStep, CommandStep, DeviceStep
<1> QED
  BY <1>1, <1>2, Invariance, PTL DEF Spec

\* The unwrap of on_challenge cannot panic while only this task writes AppState.
THEOREM ChallengeNeverPanics == Spec => []ChallengeUnwrapHolds
<1>1. ConnectionIsPublished => ChallengeUnwrapHolds
  BY DEF ConnectionIsPublished, ChallengeUnwrapHolds
<1> QED
  BY <1>1, PublishedBeforeTheLoop, PTL

\* The unwrap of the ble_send functions cannot panic: the characteristics are
\* cached after a peripheral was recorded, and that one is only ever replaced.
THEOREM WriteNeverPanics == Spec => []WriteUnwrapHolds
<1> USE DEF WriteUnwrapHolds
<1>1. Init => WriteUnwrapHolds
  BY DEF Init
<1>2. IInv /\ WriteUnwrapHolds /\ [Next]_vars => WriteUnwrapHolds'
  <2> SUFFICES ASSUME IInv, WriteUnwrapHolds, [Next]_vars PROVE WriteUnwrapHolds'
    OBVIOUS
  <2>1. CASE Resolve
    <3>1. connP \in Devices
      BY <2>1 DEF Resolve, IInv, ConnectOrder
    <3> QED
      BY <2>1, <3>1 DEF Resolve
  <2>2. ASSUME NEW d \in Devices, Connect(d) PROVE WriteUnwrapHolds'
    BY <2>2 DEF Connect
  <2>3. CASE ScanStart \/ ScanEnd \/ Discover \/ Greet \/ Publish \/ Subscribe
    BY <2>3 DEF ScanStart, ScanEnd, Discover, Greet, Publish, Subscribe, manager
  <2>4. CASE HandlePeerUnknown \/ HandleChallenge \/ PairDevice \/ Transmit
    BY <2>4 DEF HandlePeerUnknown, HandleChallenge, PairDevice, NewPair, SavePair, Transmit, manager
  <2>5. CASE KillService \/ Crash \/ LosePower \/ Start \/ LoseMaster \/ UNCHANGED vars
    BY <2>5 DEF KillService, Crash, LosePower, Exit, Start, LoseMaster, control, vars, manager
  <2>6. ASSUME NEW d \in Devices, LinkLost(d) \/ DeviceAccepts(d) \/ DeviceRejects(d)
        PROVE  WriteUnwrapHolds'
    BY <2>6 DEF LinkLost, DeviceAccepts, DeviceRejects, manager
  <2> QED
    BY <2>1, <2>2, <2>3, <2>4, <2>5, <2>6 DEF Next, TaskStep, CommandStep, DeviceStep
<1> QED
  BY <1>1, <1>2, Invariance, PTL DEF Spec

\* Whatever is shown to the user can be connected to.
THEOREM ScansAreConnectable == Spec => []PublishedIsConnectable
<1> USE DEF PublishedIsConnectable
<1>1. Init => PublishedIsConnectable
  BY DEF Init, InitialApp
<1>2. IInv /\ PublishedIsConnectable /\ [Next]_vars => PublishedIsConnectable'
  <2> SUFFICES ASSUME IInv, PublishedIsConnectable, [Next]_vars
               PROVE  PublishedIsConnectable'
    OBVIOUS
  <2>0. app \in [devices : SUBSET Devices, connected : Devices \cup {NoDevice},
                 auth : AuthStates]
    BY DEF IInv, TypeOK
  <2>1. CASE ScanEnd
    BY <2>0, <2>1 DEF ScanEnd
  <2>2. CASE Publish
    BY <2>0, <2>2 DEF Publish, manager
  <2>3. CASE HandlePeerUnknown \/ HandleChallenge
    BY <2>0, <2>3 DEF HandlePeerUnknown, HandleChallenge, manager
  <2>4. ASSUME NEW d \in Devices, Connect(d) PROVE PublishedIsConnectable'
    BY <2>4 DEF Connect
  <2>5. CASE ScanStart \/ Discover \/ Resolve \/ Greet \/ Subscribe
    BY <2>5 DEF ScanStart, Discover, Resolve, Greet, Subscribe, manager
  <2>6. CASE PairDevice \/ Transmit \/ Start \/ LoseMaster \/ UNCHANGED vars
    BY <2>6 DEF PairDevice, NewPair, SavePair, Transmit, Start, LoseMaster, control, vars, manager
  <2>7. CASE KillService \/ Crash \/ LosePower
    BY <2>7 DEF KillService, Crash, LosePower, Exit, InitialApp
  <2>8. ASSUME NEW d \in Devices, LinkLost(d) \/ DeviceAccepts(d) \/ DeviceRejects(d)
        PROVE  PublishedIsConnectable'
    BY <2>8 DEF LinkLost, DeviceAccepts, DeviceRejects, manager
  <2> QED
    BY <2>1, <2>2, <2>3, <2>4, <2>5, <2>6, <2>7, <2>8
       DEF Next, TaskStep, CommandStep, DeviceStep
<1> QED
  BY <1>1, <1>2, Invariance, PTL DEF Spec

-----------------------------------------------------------------------------
(* The sessions implement the abstract channel *)

LEMMA ChannelStep == IInv /\ [Next]_vars => [Channel!Next]_(Channel!chanVars)
<1> SUFFICES ASSUME IInv, [Next]_vars
             PROVE  Channel!Next \/ UNCHANGED <<active, out>>
  BY DEF Channel!chanVars
<1> USE DEF Channel!Closed, NoSession
<1>0. TypeOK /\ ConnectOrder /\ SessionInLoop /\ SessionFollowsLink /\ SessionIsStored
  BY DEF IInv
<1>1. CASE HandleChallenge
  <2>1. /\ deviceId \in Devices /\ deviceId = connP
        /\ stored \in [Devices -> {NoKey, Sealed} \cup KeyIds] /\ out' = out
    BY <1>0, <1>1 DEF HandleChallenge, ConnectOrder, Connected, TypeOK
  <2>2. CASE Contains(deviceId) /\ Readable(deviceId)
    <3>1. active' = [dev |-> deviceId, key |-> stored[deviceId],
                     ch |-> Head(notes).ch]
      BY <1>1, <2>2 DEF HandleChallenge, LoadDeviceKeys
    <3>2. Head(notes).ch > active.ch
      <4>1. notes \in Seq(Notes) /\ notes # <<>> /\ Head(notes).type = "Challenge"
        BY <1>0, <1>1 DEF HandleChallenge, TypeOK
      <4>2. 1 \in Waiting /\ Head(notes) = notes[1]
        BY <4>1 DEF Waiting
      <4>3. active.ch < notes[1].ch
        BY <4>2 DEF IInv, ChallengeOrder
      <4>4. active.ch \in Nat /\ notes[1].ch \in KeyIds
        BY <1>0, <4>2, WaitingType
      <4> QED
        BY <4>2, <4>3, <4>4
    <3>3. active # NoSession => active.dev = deviceId /\ active.key = stored[deviceId]
      BY <1>0, <2>1 DEF SessionFollowsLink, SessionIsStored
    <3>4. stored[deviceId] \in KeyIds
      BY <2>1, <2>2 DEF Readable
    <3>5. active'.key >= active.key
      BY <3>1, <3>3, <3>4
    <3> QED
      BY <2>1, <3>1, <3>2, <3>3, <3>4, <3>5
         DEF Channel!Next, Channel!Agree, Channel!SameDevice
  <2>3. CASE ~(Contains(deviceId) /\ Readable(deviceId))
    BY <1>1, <2>1, <2>3 DEF HandleChallenge, LoadDeviceKeys
  <2> QED
    BY <2>2, <2>3
<1>2. CASE PairDevice
  <2>1. /\ deviceId \in Devices /\ deviceId = connP /\ out' = out
        /\ lastKey \in KeyIds /\ lastKey' = lastKey + 1
        /\ active' = [dev |-> deviceId, key |-> lastKey', ch |-> 0]
    BY <1>0, <1>2 DEF PairDevice, NewPair, SavePair, ConnectOrder, Connected, TypeOK
  <2>2. active # NoSession => active.dev = deviceId
    BY <1>0 DEF SessionFollowsLink
  <2>3. active.key < lastKey'
    <3>1. CASE active = NoSession
      BY <2>1, <3>1
    <3>2. CASE active # NoSession
      <4>1. active.key = stored[deviceId]
        BY <1>0, <2>2, <3>2 DEF SessionIsStored
      <4>2. stored[deviceId] <= lastKey /\ stored[deviceId] \in Int
        BY <1>0, <2>1 DEF IInv, FileBehindMap, TypeOK
      <4> QED
        BY <2>1, <4>1, <4>2
    <3> QED
      BY <3>1, <3>2
  <2>4. active.key \in Int
    BY <1>0 DEF TypeOK
  <2> QED
    <3>1. active'.dev = deviceId /\ active'.key > active.key /\ active'.ch = 0
      BY <2>1, <2>3, <2>4
    <3> QED
      BY <2>1, <2>2, <3>1 DEF Channel!Next, Channel!Pair, Channel!SameDevice
<1>3. CASE Transmit
  <2>1. active # NoSession
    BY <1>3 DEF Transmit, HasKey
  <2> QED
    BY <1>0, <1>3, <2>1
       DEF Transmit, HasKey, SessionFollowsLink, Channel!Next, Channel!Transmit
<1>4. CASE KillService \/ Crash \/ LosePower
  BY <1>4 DEF KillService, Crash, LosePower, Exit, NoPacket, Channel!Next, Channel!Close,
              Channel!Silent
<1>5. CASE \/ ScanStart \/ ScanEnd \/ Discover \/ Resolve \/ Greet \/ Publish
           \/ Subscribe \/ HandlePeerUnknown \/ Start \/ LoseMaster \/ UNCHANGED vars
  BY <1>5
     DEF ScanStart, ScanEnd, Discover, Resolve, Greet, Publish, Subscribe,
         HandlePeerUnknown, Start, LoseMaster, control, vars
<1>6. ASSUME NEW d \in Devices,
             Connect(d) \/ LinkLost(d) \/ DeviceAccepts(d) \/ DeviceRejects(d)
      PROVE  UNCHANGED <<active, out>>
  BY <1>6 DEF Connect, LinkLost, DeviceAccepts, DeviceRejects
<1> QED
  BY <1>1, <1>2, <1>3, <1>4, <1>5, <1>6 DEF Next, TaskStep, CommandStep, DeviceStep

\* The task, with its transport, storage, devices and crashes, keeps the
\* promise of the abstract channel.
THEOREM ChannelRefinement == Spec => ImplementsChannel
<1>1. Init => Channel!Init
  BY DEF Init, NoSession, NoPacket, Channel!Init, Channel!Closed, Channel!Silent
<1> QED
  BY <1>1, ChannelStep, Invariance, PTL DEF Spec, ImplementsChannel, Channel!Spec

-----------------------------------------------------------------------------
(* The task implements what the rest of the service relies on *)

\* Every step but a challenge, whose unwrap may panic, whoever changed AppState.
LEMMA TaskAbstractStep ==
    IInv /\ [Next]_vars /\ ~HandleChallenge => [Task!TaskNext]_(Task!taskVars)
<1> SUFFICES ASSUME IInv, [Next]_vars, ~HandleChallenge
             PROVE  Task!TaskNext \/ UNCHANGED (Task!taskVars)
  OBVIOUS
<1>0. /\ app \in [devices : SUBSET Devices, connected : Devices \cup {NoDevice},
                  auth : AuthStates]
      /\ phase \in Phases
  BY DEF IInv, TypeOK
<1> USE DEF Task!TaskNext, Task!taskVars, TaskMode
<1>1. CASE ScanStart
  BY <1>1 DEF ScanStart, Panic, Task!BeginScan
<1>2. CASE ScanEnd
  BY <1>0, <1>2 DEF ScanEnd, Task!EndScan
<1>3. ASSUME NEW d \in Devices, Connect(d) PROVE Task!BeginConnect(d)
  BY <1>3 DEF Connect, Task!BeginConnect
<1>4. CASE Discover \/ Resolve
  BY <1>4 DEF Discover, Resolve, Panic, Task!FailConnect
<1>5. CASE Greet
  BY <1>5 DEF Greet
<1>6. CASE Publish
  BY <1>0, <1>6 DEF Publish, Task!Announce
<1>7. CASE Subscribe
  BY <1>7 DEF Subscribe, Task!EndConnect
<1>8. CASE HandlePeerUnknown
  BY <1>0, <1>8 DEF HandlePeerUnknown, control
<1>9. CASE PairDevice \/ Transmit \/ UNCHANGED vars
  BY <1>9 DEF PairDevice, NewPair, SavePair, Transmit, vars, control
<1>10. CASE KillService \/ Crash \/ LosePower
  BY <1>10 DEF KillService, Crash, LosePower, Exit, InitialApp, Task!EndProcess
<1>11. CASE Start \/ LoseMaster
  BY <1>11 DEF Start, LoseMaster, control, Task!StartProcess
<1>12. ASSUME NEW d \in Devices, LinkLost(d) \/ DeviceAccepts(d) \/ DeviceRejects(d)
       PROVE  UNCHANGED <<phase, target, app>>
  BY <1>12 DEF LinkLost, DeviceAccepts, DeviceRejects, control
<1> QED
  BY <1>1, <1>2, <1>3, <1>4, <1>5, <1>6, <1>7, <1>8, <1>9, <1>10, <1>11, <1>12
     DEF Next, TaskStep, CommandStep, DeviceStep

\* Queues, calls and clients may rely on BleTask: the task with its transport,
\* storage, devices and crashes keeps that promise too.
THEOREM TaskRefinement == Spec => ImplementsTask
<1>1. Init => Task!TaskInit
  BY DEF Init, InitialApp, TaskMode, Task!TaskInit
<1>2. IInv /\ ConnectionIsPublished /\ HandleChallenge => UNCHANGED (Task!taskVars)
  <2> SUFFICES ASSUME IInv, ConnectionIsPublished, HandleChallenge
               PROVE  UNCHANGED <<phase, target, app.devices, app.connected>>
    BY DEF Task!taskVars, TaskMode
  <2>1. app.connected # NoDevice
    BY NoDeviceAssumption DEF HandleChallenge, ConnectionIsPublished
  <2> QED
    BY <2>1 DEF HandleChallenge, IInv, TypeOK
<1>3. IInv /\ ConnectionIsPublished /\ [Next]_vars => [Task!TaskNext]_(Task!taskVars)
  BY <1>2, TaskAbstractStep
<1> QED
  BY <1>1, <1>3, Invariance, PublishedBeforeTheLoop, PTL
     DEF Spec, ImplementsTask, Task!TaskSpec

-----------------------------------------------------------------------------
(* What the task asks of the storage *)

LEMMA StoreStep == IInv /\ [Next]_vars => [Store!StoreNext]_(Store!storeVars)
<1> SUFFICES ASSUME IInv, [Next]_vars
             PROVE  Store!StoreNext \/ UNCHANGED <<phase # "down", stored, file>>
  BY DEF Store!storeVars, Store!fileVars
<1>0. TypeOK /\ ConnectOrder /\ FileBehindMap
  BY DEF IInv
<1> USE DEF Store!StoreNext, Store!fileVars
<1>a. /\ CutShort <=> Store!CutShort
      /\ Complete <=> Store!Complete
      /\ \A m : Unreadable(m) = Store!Unreadable(m)
  BY DEF CutShort, Complete, Outdated, Unreadable, Store!CutShort, Store!Complete,
         Store!Outdated, Store!Unreadable
<1>1. CASE PairDevice
  <2>1. deviceId \in Devices /\ phase = "running" /\ phase' = "running"
    BY <1>0, <1>1 DEF PairDevice, ConnectOrder, Connected, control
  <2>2. lastKey' \in KeyIds
    BY <1>0, <1>1 DEF PairDevice, TypeOK
  <2>3. /\ stored' = [stored EXCEPT ![deviceId] = lastKey']
        /\ UNCHANGED file \/ CutShort \/ Complete
    BY <1>1 DEF PairDevice, SavePair
  <2>4. /\ stored' \in [Devices -> {NoKey, Sealed} \cup KeyIds]
        /\ stored'[deviceId] \notin {NoKey, Sealed}
        /\ \A d \in Devices \ {deviceId} : stored'[d] = stored[d]
    BY <1>0, <2>1, <2>2, <2>3 DEF TypeOK
  <2>5. Store!Save(deviceId)
    BY <1>a, <2>1, <2>3, <2>4 DEF Store!Save
  <2> QED
    BY <2>1, <2>5
<1>2. CASE KillService \/ Crash
  <2>1. phase # "down" /\ Exit /\ (UNCHANGED file \/ CutShort)
    BY <1>2 DEF KillService, Crash
  <2> QED
    BY <1>a, <2>1 DEF Exit, Store!CloseStore, Store!Blank
<1>3. CASE LosePower
  BY <1>3 DEF LosePower, Exit, Store!LosePower, Store!Blank
<1>4. CASE LoseMaster
  BY <1>4, <1>a DEF LoseMaster, control, Store!LoseMaster
<1>5. CASE Start
  BY <1>5 DEF Start, Store!OpenStore
<1>6. CASE ScanStart \/ ScanEnd \/ Discover \/ Resolve \/ Greet \/ Publish \/ Subscribe
  BY <1>6 DEF ScanStart, ScanEnd, Discover, Resolve, Greet, Publish, Subscribe, Panic, keys
<1>7. CASE HandlePeerUnknown \/ HandleChallenge \/ Transmit \/ UNCHANGED vars
  BY <1>7 DEF HandlePeerUnknown, HandleChallenge, Transmit, Panic, vars, control, keys
<1>8. ASSUME NEW d \in Devices,
             Connect(d) \/ LinkLost(d) \/ DeviceAccepts(d) \/ DeviceRejects(d)
      PROVE  UNCHANGED <<phase # "down", stored, file>>
  BY <1>8 DEF Connect, LinkLost, DeviceAccepts, DeviceRejects, control, keys
<1> QED
  BY <1>1, <1>2, <1>3, <1>4, <1>5, <1>6, <1>7, <1>8 DEF Next, TaskStep, CommandStep, DeviceStep

\* The pairings the task keeps are changed in no way that the storage of module
\* StorageHistory does not allow: an entry at a time, and the file whole, cut,
\* taken back or made unreadable only as it says.
THEOREM StoreRefinement == Spec => ImplementsStore
<1>1. Init => Store!StoreInit
  <2> SUFFICES ASSUME Init PROVE Store!StoreInit
    OBVIOUS
  <2>1. /\ disk \in [Devices -> {NoKey, Sealed} \cup KeyIds] /\ stored = disk
        /\ phase = "idle" /\ torn = FALSE /\ older = {}
    BY DEF Init
  <2> QED
    BY <2>1 DEF Store!StoreInit
<1> QED
  BY <1>1, StoreStep, Invariance, PTL DEF Spec, ImplementsStore, Store!StoreSpec
=============================================================================
