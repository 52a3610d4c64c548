---------------------------- MODULE MCBleSession ----------------------------
(***************************************************************************)
(* BleSession on two devices. The devices are interchangeable, which the   *)
(* safety runs use; the liveness runs do not.                              *)
(***************************************************************************)
EXTENDS BleSession, TLC

Symmetry == Permutations(Devices)
=============================================================================
