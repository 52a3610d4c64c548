---------------------------- MODULE MCKeyCapture ----------------------------
(***************************************************************************)
(* KeyCapture on a keyboard of one key of each kind the code tells apart;  *)
(* the names of the keys are given in the configuration.  Any text of up   *)
(* to MaxText characters, one or two of each kind, may be copied.          *)
(***************************************************************************)
EXTENDS KeyCapture

MaxText == 5

AnyTexts == UNION {[1..n -> Graphic \cup Blank \cup Foreign] : n \in 0..MaxText}
=============================================================================
