----------------------------- MODULE BleSession -----------------------------
(***************************************************************************)
(* The BLE task of the desktop service: the command loop (main.rs,         *)
(* ble_task), the transport (ble/mod.rs, BleManager), the session loop     *)
(* (ble/interface.rs, BLEInterface and InternalHandler) and the key        *)
(* material (crypto.rs, EcdhContext).  The whole is one asynchronous task, *)
(* cut here at its await points: between two steps links drop, devices     *)
(* answer and the process may be killed.  Commands and input events are    *)
(* taken from their queues by the actions that handle them; the queues     *)
(* themselves are not part of this module.                                 *)
(*                                                                         *)
(* The devices are external: their actions are the least that the service  *)
(* relies on (a known public key is answered by a challenge, an unknown    *)
(* one by PeerUnknown or, in pairing mode, by a challenge).                *)
(***************************************************************************)
EXTENDS Integers, Sequences

CONSTANTS
    Devices,        \* devices in radio range
    NoDevice,       \* "None" of the Option fields
    MaxKeys,        \* bound: key pairs generated
    MaxChallenges,  \* bound: challenges issued
    MaxNotes,       \* bound: notifications in flight
    MaxInbox,       \* bound: authentication packets in flight to a device
    MaxRestarts     \* bound: starts of the service after the first; no power is
                    \* lost after the last

ASSUME NoDeviceAssumption == NoDevice \notin Devices
ASSUME BoundAssumption == /\ MaxKeys \in Nat
                          /\ MaxChallenges \in Nat
                          /\ MaxNotes \in Nat
                          /\ MaxInbox \in Nat
                          /\ MaxRestarts \in Nat

VARIABLES
    (* control of the task *)
    phase,      \* the await point the task is at; "dead": it panicked; "down": no process
    cause,      \* the expression whose panic killed the task
    target,     \* the device argument of the connect in progress
    (* BleManager *)
    found,      \* found_peripherals
    connP,      \* connected_peripherial
    cached,     \* device the cached characteristics were read from (cached_peripheral)
    discovered, \* peripherals whose services are known
    (* BLEInterface and EcdhContext *)
    deviceId,   \* device_id: the MAC read from a peripheral
    active,     \* active_session: device, key pair, challenge its AES key comes from
    stored,     \* the storage map in memory: per device a key pair, NoKey or Sealed
    disk,       \* the storage file, when it was last whole
    torn,       \* the storage file does not parse
    older,      \* files a power loss may bring back: nothing is synced
    lastKey,    \* the newest key pair generated
    forgotten,  \* history: devices whose entry a power loss took back, or a new
                \* master key made unreadable
    (* what the service publishes *)
    app,        \* the AppState fields this task writes
    (* the link and the devices, external *)
    notes,      \* notifications on the subscribed stream
    linked,     \* devices with a link; the OS keeps it when the process ends
    inbox,      \* public keys in flight to each device
    peers,      \* key pairs each device accepts
    issued,     \* key pair and challenge of each device's last Challenge
    lastCh,     \* the newest challenge issued
    out,        \* the last data packet the process wrote
    restarts

control   == <<phase, cause, target>>
manager   == <<found, connP, cached, discovered>>
file      == <<disk, torn, older>>
keys      == <<stored, file, lastKey, forgotten>>
firmware  == <<peers, issued, lastCh>>
vars == <<control, manager, deviceId, active, keys, app, notes, linked, inbox,
          firmware, out, restarts>>

-----------------------------------------------------------------------------

NoKey  == 0
OldKey == 1     \* the pairing some devices already have at the first start
Sealed == -1    \* a stored entry that does not decrypt or parse
KeyIds == Nat \ {0}    \* key pairs and challenges, numbered as they are made

NoSession == [dev |-> NoDevice, key |-> 0, ch |-> 0]
NoPacket  == [to |-> NoDevice, key |-> 0, ch |-> 0]
InitialApp == [devices |-> {}, connected |-> NoDevice, auth |-> "NotAuthenticated"]

Phases == {"idle", "scanning", "discover", "resolve", "greet", "publish",
           "subscribe", "running", "dead", "down"}
Causes == {"none", "start_scan", "connected_peripherial", "connected_device"}
AuthStates == {"NotAuthenticated", "AuthenticationFailed", "Authenticated"}

Challenge(c) == [type |-> "Challenge", ch |-> c]
PeerUnknown  == [type |-> "PeerUnknown", ch |-> 0]
Notes == [type : {"Challenge"}, ch : KeyIds] \cup {PeerUnknown}

\* EcdhContext::has_session and StorageService::get
Contains(d) == stored[d] # NoKey
Readable(d) == stored[d] > 0

\* The AES key of the session has been derived.
HasKey == active.ch # 0

\* ble_send_unencrypted: a write without response, which may be lost.
SendKey(k) ==
    \/ /\ linked[connP] /\ Len(inbox[connP]) < MaxInbox
       /\ inbox' = [inbox EXCEPT ![connP] = Append(@, k)]
    \/ UNCHANGED inbox

\* A panic ends the task, not the process: its memory stays, unused.
Panic(where) == phase' = "dead" /\ cause' = where

Init ==
    /\ phase = "idle" /\ cause = "none" /\ target = NoDevice
    /\ found = {} /\ connP = NoDevice /\ cached = NoDevice /\ discovered = {}
    /\ deviceId = NoDevice /\ active = NoSession
    /\ stored \in [Devices -> {NoKey, OldKey, Sealed}]
    /\ disk = stored /\ torn = FALSE /\ older = {} /\ forgotten = {}
    /\ lastKey = OldKey
    /\ app = InitialApp
    /\ notes = <<>>
    /\ linked = [d \in Devices |-> FALSE]
    /\ inbox = [d \in Devices |-> <<>>]
    /\ peers \in [Devices -> SUBSET {OldKey}]    \* a device may have forgotten it
    /\ \A d \in Devices : peers[d] \subseteq {stored[d]}
    /\ issued = [d \in Devices |-> NoSession]
    /\ lastCh = 0 /\ out = NoPacket /\ restarts = 0

-----------------------------------------------------------------------------
(* Commands of the idle task *)

\* ScanForDevices: ble_discover_toothpaste up to its sleep.
ScanStart ==
    /\ phase = "idle"
    /\ \/ phase' = "scanning" /\ UNCHANGED cause
       \/ Panic("start_scan")
    /\ UNCHANGED <<target, manager, deviceId, active, keys, app, notes, linked,
                   inbox, firmware, out, restarts>>

\* Faulty: a scan forgets what earlier ones found.
ScanEndForgets ==
    /\ phase = "scanning"
    /\ phase' = "idle"
    /\ \E seen \in SUBSET Devices :
          /\ found' = seen
          /\ app' \in {app, [app EXCEPT !.devices = seen]}
    /\ UNCHANGED <<cause, target, connP, cached, discovered, deviceId, active,
                   keys, notes, linked, inbox, firmware, out, restarts>>

\* The list of peripherals is read. An error part of the way keeps the
\* peripherals already pushed and publishes nothing.
ScanEnd ==
    /\ phase = "scanning"
    /\ phase' = "idle"
    /\ \E seen \in SUBSET Devices :
          /\ found' = found \cup seen
          /\ app' \in {app, [app EXCEPT !.devices = seen]}
    /\ UNCHANGED <<cause, target, connP, cached, discovered, deviceId, active,
                   keys, notes, linked, inbox, firmware, out, restarts>>

\* ConnectToDevice: ble_connect_toothpaste up to its sleep. A peripheral the
\* OS already has a link to is not connected, nor recorded. Its awaits (properties,
\* is_connected, connect) are one step: a link that drops or is made between them
\* is one that does so just before or after. A connect that fails, or a device no
\* longer in found_peripherals, changes nothing.
Connect(d) ==
    /\ phase = "idle"
    /\ d \in found
    /\ phase' = "discover" /\ target' = d
    /\ \/ linked[d] /\ UNCHANGED <<connP, linked>>
       \/ ~linked[d] /\ connP' = d /\ linked' = [linked EXCEPT ![d] = TRUE]
    /\ UNCHANGED <<cause, found, cached, discovered, deviceId, active, keys, app,
                   notes, inbox, firmware, out, restarts>>

\* Faulty: a failed discovery forgets the peripheral, not its characteristics.
DiscoverForgets ==
    /\ phase = "discover"
    /\ \/ connP = NoDevice /\ Panic("connected_peripherial") /\ UNCHANGED <<connP, discovered>>
       \/ /\ connP # NoDevice /\ linked[connP]
          /\ phase' = "resolve" /\ discovered' = discovered \cup {connP}
          /\ UNCHANGED <<cause, connP>>
       \/ /\ connP # NoDevice /\ phase' = "idle" /\ connP' = NoDevice
          /\ UNCHANGED <<cause, discovered>>
    /\ UNCHANGED <<target, found, cached, deviceId, active, keys, app, notes,
                   linked, inbox, firmware, out, restarts>>

\* discover_services on connected_peripherial, whose unwrap panics on None.
Discover ==
    /\ phase = "discover"
    /\ \/ connP = NoDevice /\ Panic("connected_peripherial") /\ UNCHANGED discovered
       \/ /\ connP # NoDevice /\ linked[connP]
          /\ phase' = "resolve" /\ discovered' = discovered \cup {connP}
          /\ UNCHANGED cause
       \/ connP # NoDevice /\ phase' = "idle" /\ UNCHANGED <<cause, discovered>>
    /\ UNCHANGED <<target, found, connP, cached, deviceId, active, keys, app,
                   notes, linked, inbox, firmware, out, restarts>>

\* Faulty: the MAC is taken from the peripheral that was asked for.
ResolveAsked ==
    /\ phase = "resolve"
    /\ \/ /\ target \in discovered /\ linked[connP]
          /\ phase' = "greet" /\ cached' = target /\ deviceId' = target
       \/ phase' = "idle" /\ UNCHANGED <<cached, deviceId>>
    /\ UNCHANGED <<cause, target, found, connP, discovered, active, keys, app,
                   notes, linked, inbox, firmware, out, restarts>>

\* Faulty: the retries never give up.
ResolveForever ==
    /\ phase = "resolve"
    /\ target \in discovered /\ linked[connP]
    /\ phase' = "greet" /\ cached' = target /\ deviceId' = connP
    /\ UNCHANGED <<cause, target, found, connP, discovered, active, keys, app,
                   notes, linked, inbox, firmware, out, restarts>>

\* Service and characteristics come from the peripheral that was asked for,
\* the MAC from connected_peripherial; any of the four may fail.
Resolve ==
    /\ phase = "resolve"
    /\ \/ /\ target \in discovered /\ linked[connP]
          /\ phase' = "greet" /\ cached' = target /\ deviceId' = connP
       \/ phase' = "idle" /\ UNCHANGED <<cached, deviceId>>
    /\ UNCHANGED <<cause, target, found, connP, discovered, active, keys, app,
                   notes, linked, inbox, firmware, out, restarts>>

\* Faulty: an entry is sent without having been decrypted and parsed.
GreetUnchecked ==
    /\ phase = "greet"
    /\ phase' = "publish"
    /\ IF Contains(deviceId) THEN SendKey(stored[deviceId]) ELSE UNCHANGED inbox
    /\ UNCHANGED <<cause, target, manager, deviceId, active, keys, app, notes,
                   linked, firmware, out, restarts>>

\* connect_to_device: a known device is sent our stored public key. An entry
\* that cannot be read is only logged.
Greet ==
    /\ phase = "greet"
    /\ phase' = "publish"
    /\ IF Contains(deviceId) /\ Readable(deviceId)
       THEN SendKey(stored[deviceId])
       ELSE UNCHANGED inbox
    /\ UNCHANGED <<cause, target, manager, deviceId, active, keys, app, notes,
                   linked, firmware, out, restarts>>

\* Faulty: only a known device is published.
PublishKnown ==
    /\ phase = "publish"
    /\ phase' = "subscribe"
    /\ app' = IF Contains(deviceId)
              THEN [app EXCEPT !.connected = target, !.auth = "NotAuthenticated"]
              ELSE app
    /\ UNCHANGED <<cause, target, manager, deviceId, active, keys, notes, linked,
                   inbox, firmware, out, restarts>>

\* connect_to_device: the device asked for is published as connected.
Publish ==
    /\ phase = "publish"
    /\ phase' = "subscribe"
    /\ app' = [app EXCEPT !.connected = target, !.auth = "NotAuthenticated"]
    /\ UNCHANGED <<cause, target, manager, deviceId, active, keys, notes, linked,
                   inbox, firmware, out, restarts>>

\* run: notifications sent before this point are lost. A failure returns to
\* the command loop and leaves the published state as it is.
Subscribe ==
    /\ phase = "subscribe"
    /\ \/ linked[connP] /\ phase' = "running"
       \/ phase' = "idle"
    /\ UNCHANGED <<cause, target, manager, deviceId, active, keys, app, notes,
                   linked, inbox, firmware, out, restarts>>

-----------------------------------------------------------------------------
(* The session loop: notifications, input events and commands *)

\* Faulty: a device that does not know us is no longer published.
HandlePeerUnknownDrops ==
    /\ phase = "running"
    /\ notes # <<>> /\ Head(notes).type = "PeerUnknown"
    /\ notes' = Tail(notes)
    /\ app' = [app EXCEPT !.connected = NoDevice, !.auth = "AuthenticationFailed"]
    /\ UNCHANGED <<control, manager, deviceId, active, keys, linked, inbox,
                   firmware, out, restarts>>

\* on_peer_unknown
HandlePeerUnknown ==
    /\ phase = "running"
    /\ notes # <<>> /\ Head(notes).type = "PeerUnknown"
    /\ notes' = Tail(notes)
    /\ app' = IF app.connected = NoDevice THEN app
              ELSE [app EXCEPT !.auth = "AuthenticationFailed"]
    /\ UNCHANGED <<control, manager, deviceId, active, keys, linked, inbox,
                   firmware, out, restarts>>

\* Faulty: a session that has a key is not derived again.
LoadOnce(c) ==
    IF Contains(deviceId) /\ Readable(deviceId) /\ ~HasKey
    THEN [dev |-> deviceId, key |-> stored[deviceId], ch |-> c]
    ELSE active

\* load_device_keys and derive_aes_key: the session this challenge leads to;
\* an absent or unreadable entry leaves the old one.
LoadDeviceKeys(c) ==
    IF Contains(deviceId) /\ Readable(deviceId)
    THEN [dev |-> deviceId, key |-> stored[deviceId], ch |-> c]
    ELSE active

\* Faulty: a challenge after AuthenticationFailed is not published.
HandleChallengeUnlessFailed ==
    /\ phase = "running"
    /\ notes # <<>> /\ Head(notes).type = "Challenge"
    /\ notes' = Tail(notes)
    /\ active' = LoadDeviceKeys(Head(notes).ch)
    /\ app' = IF app.auth = "AuthenticationFailed" THEN app
              ELSE [app EXCEPT !.auth = "Authenticated"]
    /\ UNCHANGED <<control, manager, deviceId, keys, linked, inbox, firmware, out,
                   restarts>>

\* on_challenge: whatever load_device_keys returned, Authenticated is published.
HandleChallenge ==
    /\ phase = "running"
    /\ notes # <<>> /\ Head(notes).type = "Challenge"
    /\ notes' = Tail(notes)
    /\ active' = LoadDeviceKeys(Head(notes).ch)
    /\ \/ /\ app.connected = NoDevice
          /\ Panic("connected_device") /\ UNCHANGED app
       \/ /\ app.connected # NoDevice
          /\ app' = [app EXCEPT !.auth = "Authenticated"]
          /\ UNCHANGED <<phase, cause>>
    /\ UNCHANGED <<target, manager, deviceId, keys, linked, inbox, firmware, out,
                   restarts>>

\* Faulty: the AES key of the old session outlives the new key pair.
KeepsCipher(k) == [dev |-> deviceId, key |-> k, ch |-> active.ch]

\* generate_device_keys: the new key pair replaces the session at once.
NewPair(k) == [dev |-> deviceId, key |-> k, ch |-> 0]

\* fs::write empties the file and fills it. An error, or the end of the process,
\* may leave it empty or cut.
Outdated == IF torn THEN older ELSE older \cup {disk}
CutShort == torn' = TRUE /\ older' = Outdated /\ UNCHANGED disk
Complete == torn' = FALSE /\ older' = Outdated /\ disk' = stored'

\* Faulty: the public key is sent whether or not the file was written.
SavePairAnyway(k) ==
    /\ stored' = [stored EXCEPT ![deviceId] = k] /\ SendKey(k)
    /\ Complete \/ UNCHANGED file \/ CutShort
    /\ UNCHANGED forgotten

\* save_session: the new key is put in the map and the map is written; our
\* public key is sent only if the write succeeded.
SavePair(k) ==
    /\ stored' = [stored EXCEPT ![deviceId] = k]
    /\ \/ Complete /\ SendKey(k) /\ forgotten' = forgotten \ {deviceId}
       \/ UNCHANGED <<file, inbox, forgotten>>
       \/ CutShort /\ UNCHANGED <<inbox, forgotten>>

\* PairDevice, with a public key that decompresses; any other is only logged.
PairDevice ==
    /\ phase = "running" /\ lastKey < MaxKeys
    /\ lastKey' = lastKey + 1
    /\ active' = NewPair(lastKey')
    /\ SavePair(lastKey')
    /\ UNCHANGED <<control, manager, deviceId, app, notes, linked, firmware, out,
                   restarts>>

\* Faulty: a failed write leaves the session loop, the session stays.
TransmitOrLeave ==
    /\ phase = "running" /\ HasKey
    /\ \/ /\ linked[connP]
          /\ out' = [to |-> connP, key |-> active.key, ch |-> active.ch]
          /\ UNCHANGED phase
       \/ ~linked[connP] /\ phase' = "idle" /\ UNCHANGED out
    /\ UNCHANGED <<cause, target, manager, deviceId, active, keys, app, notes,
                   linked, inbox, firmware, restarts>>

\* encrypt_and_send: keyboard text, key codes, mouse, media and jiggle packets.
\* Without an AES key it is an error, and nothing leaves.
Transmit ==
    /\ phase = "running" /\ HasKey /\ linked[connP]
    /\ out' = [to |-> connP, key |-> active.key, ch |-> active.ch]
    /\ UNCHANGED <<control, manager, deviceId, active, keys, app, notes, linked,
                   inbox, firmware, restarts>>

-----------------------------------------------------------------------------
(* The end and the start of the process *)

\* The memory of the process is gone.
Exit ==
    /\ phase' = "down" /\ cause' = "none" /\ target' = NoDevice
    /\ found' = {} /\ connP' = NoDevice /\ cached' = NoDevice /\ discovered' = {}
    /\ deviceId' = NoDevice /\ active' = NoSession
    /\ stored' = [d \in Devices |-> NoKey]
    /\ app' = InitialApp /\ notes' = <<>> /\ out' = NoPacket
    /\ UNCHANGED <<lastKey, firmware, restarts>>

KillService ==
    phase \in {"idle", "running"} /\ Exit /\ UNCHANGED <<file, forgotten, linked, inbox>>

\* A kill; also in the middle of the write of a pairing.
Crash ==
    /\ phase # "down" /\ Exit /\ UNCHANGED <<forgotten, linked, inbox>>
    /\ UNCHANGED file \/ (phase = "running" /\ CutShort)

\* The machine loses power: the links go too, and the file is what reached the
\* medium of the writes since the last time, the one under way included.
LosePower ==
    /\ restarts < MaxRestarts /\ Exit
    /\ linked' = [d \in Devices |-> FALSE] /\ inbox' = [d \in Devices |-> <<>>]
    /\ older' = {}
    /\ \/ UNCHANGED <<disk, torn>>
       \/ (phase = "running" \/ older # {}) /\ torn' = TRUE /\ UNCHANGED disk
       \/ disk' \in older /\ torn' = FALSE
    /\ forgotten' = forgotten \cup {d \in Devices : disk'[d] # disk[d]}

\* A start that gets no master key from the keyring, for whatever reason, makes
\* a new one and overwrites what is there: every entry is unreadable from now on.
Unreadable(m) == [d \in Devices |-> IF m[d] = NoKey THEN NoKey ELSE Sealed]
LoseMaster ==
    /\ phase = "down" /\ restarts < MaxRestarts
    /\ disk' = Unreadable(disk) /\ older' = {Unreadable(m) : m \in older}
    /\ forgotten' = forgotten \cup {d \in Devices : disk[d] > 0}
    /\ UNCHANGED <<control, manager, deviceId, active, stored, torn, lastKey, app,
                   notes, linked, inbox, firmware, out, restarts>>

\* main: storage is opened, unless its file does not parse, and the task spawned.
Start ==
    /\ phase = "down" /\ ~torn /\ restarts < MaxRestarts
    /\ phase' = "idle" /\ restarts' = restarts + 1
    /\ stored' = disk
    /\ UNCHANGED <<cause, target, manager, deviceId, active, file, lastKey,
                   forgotten, app, notes, linked, inbox, firmware, out>>

-----------------------------------------------------------------------------
(* The link and the devices *)

\* The session loop is not told. Whether the platform keeps the services of
\* a peripheral it lost differs.
LinkLost(d) ==
    /\ linked[d]
    /\ linked' = [linked EXCEPT ![d] = FALSE]
    /\ inbox' = [inbox EXCEPT ![d] = <<>>]
    /\ discovered' \in {discovered, discovered \ {d}}
    /\ UNCHANGED <<control, found, connP, cached, deviceId, active, keys, app,
                   notes, firmware, out, restarts>>

\* A notification reaches the service only once it has subscribed.
Notify(d, n) ==
    IF phase = "running" /\ d = connP
    THEN Len(notes) < MaxNotes /\ notes' = Append(notes, n)
    ELSE UNCHANGED notes

\* A key the device knows, or takes because it is in pairing mode.
DeviceAccepts(d) ==
    /\ linked[d] /\ inbox[d] # <<>> /\ lastCh < MaxChallenges
    /\ lastCh' = lastCh + 1
    /\ inbox' = [inbox EXCEPT ![d] = Tail(@)]
    /\ peers' = [peers EXCEPT ![d] = @ \cup {Head(inbox[d])}]
    /\ issued' = [issued EXCEPT ![d] =
                     [dev |-> d, key |-> Head(inbox[d]), ch |-> lastCh']]
    /\ Notify(d, Challenge(lastCh'))
    /\ UNCHANGED <<control, manager, deviceId, active, keys, app, linked, out,
                   restarts>>

\* A key it does not know.
DeviceRejects(d) ==
    /\ linked[d] /\ inbox[d] # <<>>
    /\ Head(inbox[d]) \notin peers[d]
    /\ inbox' = [inbox EXCEPT ![d] = Tail(@)]
    /\ Notify(d, PeerUnknown)
    /\ UNCHANGED <<control, manager, deviceId, active, keys, app, linked, firmware,
                   out, restarts>>

-----------------------------------------------------------------------------

\* Steps the task takes by itself once a command is accepted.
TaskStep == \/ ScanEnd \/ Discover \/ Resolve \/ Greet \/ Publish \/ Subscribe
            \/ HandlePeerUnknown \/ HandleChallenge

CommandStep == ScanStart \/ (\E d \in Devices : Connect(d))
               \/ PairDevice \/ Transmit \/ KillService

DeviceStep == \E d \in Devices : LinkLost(d) \/ DeviceAccepts(d) \/ DeviceRejects(d)

Next == TaskStep \/ CommandStep \/ DeviceStep \/ Crash \/ LosePower \/ LoseMaster \/ Start

Spec == Init /\ [][Next]_vars

\* The runtime polls a task that can proceed, and select! polls its branches
\* in random order, so a notification is not passed over for ever. Linked
\* devices answer. Users, links and crashes owe nothing.
Fairness == /\ WF_vars(TaskStep)
            /\ \A d \in Devices : WF_vars(DeviceAccepts(d) \/ DeviceRejects(d))

FairSpec == Spec /\ Fairness

-----------------------------------------------------------------------------
(* Properties *)

\* Every variable has the type of the field it stands for; in particular what
\* is sent to a device and what a session uses is always a readable key pair,
\* though the storage map may hold entries that are not (send_public_key,
\* load_device_keys).
TypeOK ==
    /\ phase \in Phases /\ cause \in Causes
    /\ target \in Devices \cup {NoDevice}
    /\ found \subseteq Devices /\ discovered \subseteq Devices
    /\ connP \in Devices \cup {NoDevice} /\ cached \in Devices \cup {NoDevice}
    /\ deviceId \in Devices \cup {NoDevice}
    /\ lastKey \in KeyIds /\ lastCh \in Nat /\ restarts \in Nat
    /\ active \in {NoSession} \cup [dev : Devices, key : KeyIds, ch : Nat]
    /\ stored \in [Devices -> {NoKey, Sealed} \cup KeyIds]
    /\ disk \in [Devices -> {NoKey, Sealed} \cup KeyIds]
    /\ torn \in BOOLEAN /\ older \subseteq [Devices -> {NoKey, Sealed} \cup KeyIds]
    /\ forgotten \subseteq Devices
    /\ app \in [devices : SUBSET Devices, connected : Devices \cup {NoDevice},
                auth : AuthStates]
    /\ notes \in Seq(Notes)
    /\ linked \in [Devices -> BOOLEAN]
    /\ inbox \in [Devices -> Seq(KeyIds)]
    /\ peers \in [Devices -> SUBSET KeyIds]
    /\ issued \in [Devices -> {NoSession}
                      \cup [dev : Devices, key : KeyIds, ch : KeyIds]]
    /\ out \in {NoPacket} \cup [to : Devices, key : KeyIds, ch : KeyIds]

\* The session in use is always one for the peripheral the packets go to, and
\* the loop that handles its challenges works for the same device: keys of one
\* device never protect traffic to another (interface.rs, run and
\* encrypt_and_send, which never compare the two).
SessionFollowsLink ==
    active # NoSession => active.dev = connP /\ active.dev = deviceId

\* The key pair in use is the one the storage map holds for its device, even
\* when writing the file failed in the middle of a pairing: the next challenge
\* loads the same key (crypto.rs, pair_new_device and load_device_keys).
SessionIsStored == active # NoSession => active.key = stored[active.dev]

\* A key pair that a device was told of is not forgotten behind its back: the
\* running service has it or a newer one for that device, and so has the file, if
\* one can start from it at all. Failed writes, kills, in the middle of a write
\* too, and restarts do not change that; a power loss that takes an unsynced write
\* back and a master key that is replaced do, for the devices in "forgotten"
\* (crypto.rs, pair_new_device: save_session()? precedes the return of the public
\* key; storage.rs, set: the map is changed first, and written whole).
Told(d) == peers[d] \cup {inbox[d][i] : i \in DOMAIN inbox[d]}
NoPairingForgotten ==
    \A d \in Devices \ forgotten : \A k \in Told(d) :
        /\ phase # "down" => stored[d] >= k
        /\ ~torn => disk[d] >= k

Waiting == {i \in DOMAIN notes : notes[i].type = "Challenge"}
ChallengePending == Waiting # {}

\* While no challenge is waiting to be handled, the session key comes from the
\* newest challenge the device issued: through reconnects, repeated pairings
\* and crossing packets the service never encrypts under a stale challenge
\* (on_challenge, load_device_keys, one notification at a time).
ChallengeInStep ==
    phase = "running" /\ HasKey /\ ~ChallengePending
        => active.ch = issued[connP].ch

\* With cached characteristics there is always a connected_peripherial, so the
\* unwrap of the three ble_send functions cannot panic.
WriteUnwrapHolds == cached # NoDevice => connP # NoDevice

\* While the session loop runs a connected device is published, so the unwrap
\* of on_challenge cannot panic as long as only this task writes AppState.
ChallengeUnwrapHolds == phase = "running" => app.connected # NoDevice

\* A device shown to the user can be found again by address, whatever scans
\* failed half way since (ble_discover_toothpaste, ble_connect_toothpaste).
PublishedIsConnectable == app.devices \subseteq found

\* The sessions and the packets follow the abstract channel.
Channel == INSTANCE SecureChannel WITH chan <- active, wire <- out
ImplementsChannel == Channel!Spec

\* What the rest of the service tells apart of the phases.
TaskMode == CASE phase \in {"discover", "resolve", "greet", "publish"} -> "connecting"
              [] phase = "subscribe" -> "announced"
              [] OTHER -> phase

\* Seen from the rest of the service the task takes one command at a time,
\* publishes devices only at the end of a scan and a connected device only in a
\* connect, never takes it back, and never leaves a session but with the
\* process (main.rs, ble_task; interface.rs, connect_to_device and run).
Task == INSTANCE BleTask WITH
            mode <- TaskMode, wanted <- target,
            listed <- app.devices, connected <- app.connected
ImplementsTask == Task!TaskSpec

\* The pairings are used as KeyStore says of the storage below, which module
\* StorageHistory shows of its code: the task changes one entry at a time, and a
\* file cut short, taken back or sealed with a lost master key is what it gets
\* to see (crypto.rs, save_session; storage.rs, set and new).
Store == INSTANCE KeyStore WITH
             Ids <- Devices, Values <- {NoKey, Sealed} \cup KeyIds,
             NoEntry <- NoKey, Lost <- Sealed, open <- phase # "down"
ImplementsStore == Store!StoreSpec

\* A challenge that reached the loop is handled: the device ends up published
\* as authenticated, unless the task or the process ends.
ChallengeIsAnswered ==
    phase = "running" /\ ChallengePending
        ~> app.auth = "Authenticated" \/ phase # "running"

\* A connect command ends: in the session loop, back in the command loop, or
\* with the task or the process; it does not hang between two of its steps.
ConnectEnds == phase \notin {"idle", "running"}
                   ~> phase \in {"idle", "running", "dead", "down"}

-----------------------------------------------------------------------------
(* The inductive invariant: why the properties above hold *)

Connected == {"greet", "publish", "subscribe", "running"}

\* Past a successful connect the peripheral, its MAC and its characteristics
\* are set; the MAC is the one of the peripheral packets go to.
ConnectOrder ==
    /\ phase \in {"discover", "resolve"} \cup Connected => target \in Devices
    /\ phase = "resolve" => connP \in Devices
    /\ phase \in Connected => connP \in Devices /\ deviceId = connP /\ cached \in Devices

\* The connected device is published before the session loop is entered. Not
\* part of IInv: the hook's thread can undo it (module Service).
ConnectionIsPublished ==
    phase \in {"subscribe", "running"} => app.connected \in Devices

\* A session and notifications exist in the session loop only: nothing leads
\* out of it but the end of the task or of the process.
SessionInLoop == active # NoSession \/ notes # <<>> => phase \in {"running", "dead"}

\* The file may lag behind the map, only after a failed write, and never leads;
\* nothing is newer than the newest key pair.
FileBehindMap ==
    /\ \A d \in Devices : /\ phase # "down" => disk[d] <= stored[d]
                          /\ disk[d] <= lastKey /\ stored[d] <= lastKey
                          /\ \A m \in older : m[d] <= lastKey
                          /\ \A k \in Told(d) : k <= lastKey
    /\ phase \notin {"running", "dead", "down"} => ~torn /\ stored = disk

\* The file had every key pair the devices were told of, when it was last whole.
FileKnows == \A d \in Devices \ forgotten : \A k \in Told(d) : disk[d] >= k

\* Challenges are handled in the order they were issued; the last one waiting
\* is the newest of the device.
ChallengeOrder ==
    /\ active.ch <= lastCh
    /\ \A i \in Waiting : active.ch < notes[i].ch /\ notes[i].ch <= lastCh
    /\ \A i, j \in Waiting : i < j => notes[i].ch < notes[j].ch
    /\ phase = "running" =>
          \A i \in Waiting : (\A j \in Waiting : j <= i) => notes[i].ch = issued[connP].ch

IInv == /\ TypeOK
        /\ ConnectOrder
        /\ SessionInLoop
        /\ SessionFollowsLink
        /\ SessionIsStored
        /\ FileBehindMap
        /\ FileKnows
        /\ ChallengeOrder
        /\ ChallengeInStep

-----------------------------------------------------------------------------
(* What the comments and assertions of the source say, and does not hold *)

\* interface.rs:131: connect to the named device.
TalksToNamedDevice == phase = "running" => app.connected = connP

\* interface.rs:131-132: a paired device is greeted so that it can challenge
\* us immediately: the first greeting it accepts leads to a session key.
Greeted == /\ phase = "publish" /\ lastCh = 0
           /\ inbox[connP] # <<>> /\ Head(inbox[connP]) \in peers[connP]
GaveUp  == \/ phase \notin {"publish", "subscribe", "running"}
           \/ ~linked[connP]
GreetingIsAnswered == Greeted ~> HasKey \/ GaveUp
=============================================================================
