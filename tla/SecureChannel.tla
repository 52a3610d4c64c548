---------------------------- MODULE SecureChannel ----------------------------
(***************************************************************************)
(* What the cryptographic context of the desktop service promises, without *)
(* Bluetooth, commands, storage or notifications: a channel belongs to one *)
(* device for as long as it lasts, its key only moves forward, every key   *)
(* agreement uses a challenge newer than the last one, and data leaves     *)
(* only under a key that was agreed, for the device it was agreed with.    *)
(* BleSession implements it.                                               *)
(***************************************************************************)
EXTENDS Naturals

CONSTANTS Devices, NoDevice

VARIABLES
    chan,   \* the session: device, key pair, challenge (0: none agreed yet)
    wire    \* the last data packet: addressee, key pair and challenge used

chanVars == <<chan, wire>>

Closed == [dev |-> NoDevice, key |-> 0, ch |-> 0]
Silent == [to |-> NoDevice, key |-> 0, ch |-> 0]

Init == chan = Closed /\ wire = Silent

\* The successor session belongs to a device, and to the same one as before.
SameDevice == /\ chan'.dev \in Devices
              /\ chan # Closed => chan'.dev = chan.dev

\* A new key pair replaces the old one; nothing can be sent under it yet.
Pair == /\ SameDevice
        /\ chan'.key > chan.key
        /\ chan'.ch = 0
        /\ UNCHANGED wire

\* A challenge completes the agreement on the current or a newer key pair.
Agree == /\ SameDevice
         /\ chan'.key >= chan.key
         /\ chan'.key > 0
         /\ chan'.ch > chan.ch
         /\ UNCHANGED wire

Transmit == /\ chan.ch # 0
            /\ wire' = [to |-> chan.dev, key |-> chan.key, ch |-> chan.ch]
            /\ UNCHANGED chan

Close == chan' = Closed /\ wire' = Silent

Next == Pair \/ Agree \/ Transmit \/ Close

Spec == Init /\ [][Next]_chanVars
=============================================================================
