-------------------------- MODULE MouseMotionProofs --------------------------
(***************************************************************************)
(* Proofs about MouseMotion for every grid, threshold and number of moves: *)
(* each property is inductive once the types and the hook's idea of where  *)
(* the pointer is are known.                                               *)
(***************************************************************************)
EXTENDS MouseMotion, TLAPS

\* The operators on vectors stay within the vectors; an axis has a length.
LEMMA VectorFacts ==
    ASSUME NEW u \in Vectors, NEW v \in Vectors
    PROVE  /\ Add(u, v) \in Vectors /\ Minus(u, v) \in Vectors
           /\ Length(u) \in [x : Nat, y : Nat]
  <1>1. Add(u, v) \in Vectors /\ Minus(u, v) \in Vectors
    BY DEF Vectors, Add, Minus
  <1>2. Abs(u.x) \in Nat /\ Abs(u.y) \in Nat
    BY DEF Vectors, Abs
  <1> QED
    BY <1>1, <1>2 DEF Length

\* Whether it is sent or dropped, a sum that leaves is counted once.
LEMMA EmitCounts ==
    ASSUME TypeOK, NEW u \in Vectors, Emit(u)
    PROVE  Add(sent', lost') = Add(Add(sent, lost), u)
  <1>1. CASE sent' = Add(sent, u) /\ lost' = lost
    BY <1>1 DEF TypeOK, Vectors, Add
  <1>2. CASE lost' = Add(lost, u) /\ sent' = sent
    BY <1>2 DEF TypeOK, Vectors, Add
  <1> QED
    BY <1>1, <1>2 DEF Emit

\* One event: whatever branch of process_accumulated_event it takes, types,
\* the balance and the length of the sum are kept.
LEMMA AccumulateStep ==
    ASSUME MotionInv, NEW p \in Vectors, NEW t \in 0..MaxTime,
           pointer' = p, way' = Add(way, Minus(p, pointer)),
           last' = p, Accumulate(Minus(p, last), t),
           UNCHANGED <<capture, start>>, moves' = moves + 1
    PROVE  MotionInv'
  <1> DEFINE d == Minus(p, last)
  <1> USE DEF MotionInv
  <1>1. d \in Vectors /\ d = [x |-> p.x - last.x, y |-> p.y - last.y]
    BY VectorFacts DEF TypeOK, Minus
  <1>a. /\ way' \in Vectors /\ moves' \in Nat /\ moves' # 0
        /\ start' \in Vectors /\ pointer' \in Vectors /\ last' \in Vectors
        /\ capture' \in BOOLEAN
    BY VectorFacts DEF TypeOK
  <1>b. Add(start', way') = p
    BY DEF TypeOK, SeesPointer, Vectors, Add, Minus
  <1>c. SeesPointer'
    BY <1>a, <1>b DEF SeesPointer
  <1>d. Add(Add(sent, lost), acc) = last
    BY DEF SeesPointer, MotionIsConserved
  <1>2. Origin \in Vectors /\ Length(Origin) = Origin
    BY DEF Origin, Vectors, Length, Abs
  <1>3. CASE DirectionChanged(d) /\ Emit(acc) /\ Restart(d, t)
    <2>1. sent' \in Vectors /\ lost' \in Vectors
      BY <1>3, VectorFacts DEF Emit, TypeOK
    <2>2. TypeOK'
      BY <1>a, <1>1, <1>3, <2>1, VectorFacts DEF TypeOK, Restart
    <2>3. Add(sent', lost') = Add(Add(sent, lost), acc)
      BY <1>3, EmitCounts DEF TypeOK
    <2>4. Add(Add(sent', lost'), acc') = p
      BY <1>1, <1>d, <1>3, <2>3 DEF Restart, TypeOK, Vectors, Add
    <2> QED
      BY <1>a, <1>b, <1>c, <1>3, <2>2, <2>4 DEF MotionIsConserved, NothingCancels, Restart
  <1>4. CASE Emit(Add(acc, d)) /\ Restart(Origin, t)
    <2>1. sent' \in Vectors /\ lost' \in Vectors
      BY <1>1, <1>4, VectorFacts DEF Emit, TypeOK
    <2>2. TypeOK'
      BY <1>a, <1>2, <1>4, <2>1, VectorFacts DEF TypeOK, Restart
    <2>3. Add(sent', lost') = Add(Add(sent, lost), Add(acc, d))
      BY <1>1, <1>4, EmitCounts, VectorFacts DEF TypeOK
    <2>4. Add(Add(sent', lost'), acc') = p
      BY <1>1, <1>d, <1>4, <2>3 DEF Restart, TypeOK, Vectors, Add, Origin
    <2> QED
      BY <1>a, <1>b, <1>c, <1>4, <2>2, <2>4 DEF MotionIsConserved, NothingCancels, Restart
  <1>5. CASE /\ ~DirectionChanged(d)
             /\ acc' = Add(acc, d) /\ path' = Add(path, Length(d))
             /\ UNCHANGED <<since, sent, lost>>
    <2>1. Length(d) \in [x : Nat, y : Nat]
      BY <1>1, VectorFacts
    <2>2. acc' \in Vectors
      BY <1>1, <1>5, VectorFacts DEF TypeOK
    <2>3. path' \in [x : Nat, y : Nat]
      BY <1>5, <2>1 DEF TypeOK, Add
    <2>4. TypeOK'
      BY <1>a, <1>5, <2>2, <2>3 DEF TypeOK
    <2>5. Add(Add(sent, lost), Add(acc, d)) = p
      BY <1>1, <1>d DEF TypeOK, Vectors, Add
    <2>6. Abs(acc.x + d.x) = Abs(acc.x) + Abs(d.x)
      BY <1>1, <1>5 DEF DirectionChanged, Opposite, TypeOK, Vectors, Abs
    <2>7. Abs(acc.y + d.y) = Abs(acc.y) + Abs(d.y)
      BY <1>1, <1>5 DEF DirectionChanged, Opposite, TypeOK, Vectors, Abs
    <2>8. Length(Add(acc, d)) = Add(Length(acc), Length(d))
      BY <2>6, <2>7 DEF Length, Add
    <2> QED
      BY <1>a, <1>b, <1>c, <1>5, <2>4, <2>5, <2>8 DEF MotionIsConserved, NothingCancels
  <1> QED
    BY <1>3, <1>4, <1>5 DEF Accumulate

\* The inductive invariant, for every grid, threshold, start of the pointer and
\* sequence of events.
LEMMA MotionInvariance == Spec => []MotionInv
  <1>1. Init => MotionInv
    <2> SUFFICES ASSUME Init PROVE MotionInv
      OBVIOUS
    <2>1. Abs(0) = 0
      BY DEF Abs
    <2>2. Length(Origin) = Origin
      BY <2>1 DEF Length, Origin
    <2>3. Add(Add(Origin, Origin), Origin) = Origin
      BY DEF Add, Origin
    <2>4. Origin \in Vectors /\ Origin \in [x : Nat, y : Nat]
      BY DEF Origin, Vectors
    <2>5. capture \in BOOLEAN
      BY Zenon DEF Init
    <2>6. since \in 0..MaxTime /\ moves \in Nat
      BY SizeAssumption DEF Init
    <2>7. start \in Vectors /\ pointer = start
      BY SizeAssumption DEF Init, Grid, Vectors
    <2>8. TypeOK
      BY <2>4, <2>5, <2>6, <2>7 DEF Init, TypeOK
    <2>9. Add(start, Origin) = start
      BY <2>7 DEF Add, Origin, Vectors
    <2> QED
      BY <2>2, <2>3, <2>7, <2>8, <2>9
         DEF Init, MotionInv, SeesPointer, MotionIsConserved, NothingCancels
  <1>2. MotionInv /\ [Next]_vars => MotionInv'
    <2> SUFFICES ASSUME MotionInv, [Next]_vars PROVE MotionInv'
      OBVIOUS
    <2>1. CASE Move
      <3>1. PICK p \in Grid, t \in 0..MaxTime :
               /\ pointer' = p /\ way' = Add(way, Minus(p, pointer))
               /\ last' = p
               /\ Accumulate(Minus(p, last), t)
        BY <2>1 DEF Move
      <3>2. p \in Vectors
        BY SizeAssumption DEF Grid, Vectors
      <3>3. moves' = moves + 1 /\ UNCHANGED <<capture, start>>
        BY <2>1 DEF Move
      <3> QED
        BY <3>1, <3>2, <3>3, AccumulateStep
    <2>2. CASE ToggleCapture
      <3>1. capture' \in BOOLEAN
        BY <2>2 DEF ToggleCapture, MotionInv, TypeOK
      <3> QED
        BY <2>2, <3>1
           DEF ToggleCapture, MotionInv, TypeOK, SeesPointer, MotionIsConserved, NothingCancels
    <2>3. CASE UNCHANGED vars
      BY <2>3
         DEF vars, MotionInv, TypeOK, SeesPointer, MotionIsConserved, NothingCancels
    <2> QED
      BY <2>1, <2>2, <2>3 DEF Next
  <1> QED
    BY <1>1, <1>2, PTL DEF Spec

\* Every variable of the accumulator keeps its type.
THEOREM MotionTypeCorrectness == Spec => []TypeOK
  BY MotionInvariance, PTL DEF MotionInv

\* What is sent, dropped and waiting is the way the pointer went and, once, the way
\* from the origin to where it was when the hook started.
THEOREM MotionConservation == Spec => []MotionIsConserved
  BY MotionInvariance, PTL DEF MotionInv

\* A motion and its reversal are never summed away.
THEOREM NoCancellation == Spec => []NothingCancels
  BY MotionInvariance, PTL DEF MotionInv
=============================================================================
