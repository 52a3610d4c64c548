----------------------------- MODULE MouseMotion -----------------------------
(***************************************************************************)
(* The mouse half of the input hook (input/handler.rs): positions become   *)
(* deltas, deltas in one direction are added up, and the sum is sent when  *)
(* the direction changes or 50 ms have passed.  Positions are pixels on a  *)
(* small grid and times are ticks; the time of an event is the wall clock, *)
(* which may be set back.  The wheel half has no caller and is left out.   *)
(***************************************************************************)
EXTENDS Integers

CONSTANTS
    Size,       \* bound: the grid is 0..Size in both directions
    MaxTime,    \* bound: times are 0..MaxTime
    Threshold,  \* mouse_debounce_threshold_ms, in ticks
    MaxMoves    \* bound: mouse events

ASSUME SizeAssumption == Size \in Nat /\ MaxTime \in Nat /\ MaxMoves \in Nat
ASSUME ThresholdAssumption == Threshold \in Nat \ {0}

VARIABLES
    last,       \* mouse_last_position
    acc,        \* accumulated_delta
    since,      \* mouse_last_event_time
    capture,    \* enable_mouse_capture
    moves,      \* events so far
    (* history *)
    start,      \* where the pointer is when the hook starts
    pointer,    \* where it is now
    way,        \* the sum of its motions since
    sent,       \* sum of the deltas sent
    lost,       \* sum of the deltas dropped: capture off, or the channel full
    path        \* per axis, distance covered since acc was last reset

vars == <<last, acc, since, capture, moves, start, pointer, way, sent, lost, path>>

Origin == [x |-> 0, y |-> 0]
Add(u, v) == [x |-> u.x + v.x, y |-> u.y + v.y]
Minus(u, v) == [x |-> u.x - v.x, y |-> u.y - v.y]
Abs(n) == IF n < 0 THEN -n ELSE n
Length(u) == [x |-> Abs(u.x), y |-> Abs(u.y)]

Grid == [x : 0..Size, y : 0..Size]

\* mouse_last_position starts at the origin, wherever the pointer is.
Init == /\ start \in Grid /\ pointer = start /\ way = Origin
        /\ last = Origin /\ acc = Origin /\ since = 0
        /\ capture = FALSE /\ moves = 0
        /\ sent = Origin /\ lost = Origin /\ path = Origin

\* One axis turns back.
Opposite(a, b) == (a > 0 /\ b < 0) \/ (a < 0 /\ b > 0)
\* Faulty: only a turn on both axes counts.
DirectionChangedOnBoth(d) == Opposite(d.x, acc.x) /\ Opposite(d.y, acc.y)

DirectionChanged(d) == Opposite(d.x, acc.x) \/ Opposite(d.y, acc.y)

\* try_send of the sum u, if capture is on; a full channel drops it.
Emit(u) ==
    \/ capture /\ sent' = Add(sent, u) /\ UNCHANGED lost
    \/ lost' = Add(lost, u) /\ UNCHANGED sent

\* Faulty: the next accumulation is timed from the last one, not from the event.
RestartByPeriod(u, t) == acc' = u /\ since' = since + Threshold /\ path' = Length(u)

\* A new accumulation starts from u at time t.
Restart(u, t) == acc' = u /\ since' = t /\ path' = Length(u)

\* Faulty: the delta that turns is dropped.
AccumulateDropsTurn(d, t) ==
    \/ /\ DirectionChanged(d)
       /\ Emit(acc) /\ Restart(Origin, t)
    \/ /\ ~DirectionChanged(d)
       /\ t - since >= Threshold
       /\ Emit(Add(acc, d)) /\ Restart(Origin, t)
    \/ /\ ~DirectionChanged(d)
       /\ t - since < Threshold
       /\ acc' = Add(acc, d) /\ path' = Add(path, Length(d))
       /\ UNCHANGED <<since, sent, lost>>

\* process_accumulated_event for the delta d at time t.
Accumulate(d, t) ==
    \/ /\ DirectionChanged(d)
       /\ Emit(acc) /\ Restart(d, t)
    \/ /\ ~DirectionChanged(d)
       /\ t - since >= Threshold
       /\ Emit(Add(acc, d)) /\ Restart(Origin, t)
    \/ /\ ~DirectionChanged(d)
       /\ t - since < Threshold      \* too early, or the clock went back
       /\ acc' = Add(acc, d) /\ path' = Add(path, Length(d))
       /\ UNCHANGED <<since, sent, lost>>

\* handle_mouse_move
Move ==
    /\ moves < MaxMoves /\ moves' = moves + 1
    /\ \E p \in Grid, t \in 0..MaxTime :
          /\ pointer' = p /\ way' = Add(way, Minus(p, pointer))
          /\ last' = p
          /\ Accumulate(Minus(p, last), t)
    /\ UNCHANGED <<capture, start>>

\* Ctrl+Alt+M, between two mouse events.
ToggleCapture ==
    /\ capture' = ~capture
    /\ UNCHANGED <<last, acc, since, moves, start, pointer, way, sent, lost, path>>

Next == Move \/ ToggleCapture

Spec == Init /\ [][Next]_vars

-----------------------------------------------------------------------------
(* Properties *)

Vectors == [x : Int, y : Int]

\* Sums are vectors; the time kept is always that of an event that came.
TypeOK == /\ last \in Vectors /\ acc \in Vectors /\ sent \in Vectors
          /\ lost \in Vectors /\ path \in [x : Nat, y : Nat]
          /\ start \in Vectors /\ pointer \in Vectors /\ way \in Vectors
          /\ since \in 0..MaxTime /\ capture \in BOOLEAN /\ moves \in Nat

\* One motion is made up, once: the first event counts the pointer's way from the
\* origin to where it was when the hook started, which it need not have gone
\* (handler.rs:48 and :219). Nothing else is made up, doubled or forgotten: what
\* was sent, what was dropped and what still waits add up to that and the way the
\* pointer went, for every direction change, debounce, toggle and clock change
\* (handle_mouse_move and process_accumulated_event).
MotionIsConserved ==
    Add(Add(sent, lost), acc) = IF moves = 0 THEN Origin ELSE Add(start, way)

\* A motion and its reversal never cancel out before they are sent: the sum
\* that waits is as long, on each axis, as the way covered since the last reset.
NothingCancels == Length(acc) = path
-----------------------------------------------------------------------------
(* The inductive invariant *)

\* The hook sees the pointer from the first event on.
SeesPointer == /\ pointer = Add(start, way)
               /\ last = IF moves = 0 THEN Origin ELSE pointer
MotionInv == TypeOK /\ SeesPointer /\ MotionIsConserved /\ NothingCancels
=============================================================================
