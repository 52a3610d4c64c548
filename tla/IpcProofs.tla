----------------------------- MODULE IpcProofs -----------------------------
(***************************************************************************)
(* Proofs about Ipc, for queues and pipes of any size, any number of       *)
(* commands and states, and however often services and TUIs end and start. *)
(***************************************************************************)
EXTENDS Ipc, SequenceTheorems, TLAPS

-----------------------------------------------------------------------------
(* Types *)

\* The sequences of commands.
CommandSeqs ==
    /\ queue \in Seq(Ids) /\ executed \in Seq(Ids) /\ rest \in Seq(Ids)
    /\ wire \in Seq(Ids) /\ screenq \in Seq(Ids)
SizesOK == /\ Len(queue) <= QueueSize /\ Len(screenq) <= ScreenSize
           /\ Len(wire) <= PipeSize /\ Len(down) <= PipeSize
\* The states, of which the newest only grows.
StatesOK ==
    /\ state \in Nat /\ born \in 1..state /\ view \in 0..state /\ linkBorn \in 0..state
    /\ down \in Seq(1..state) /\ hand \in Nat
FlagsOK == /\ up \in BOOLEAN /\ taskAlive \in BOOLEAN /\ unseen \in BOOLEAN
           /\ available \in BOOLEAN /\ quiet \in BOOLEAN
OthersOK ==
    /\ issued \in 0..MaxCommands /\ carry \in Ids \cup {Nothing}
    /\ server \in {"accept", "greet", "select", "push", "enqueue"}
    /\ link \in {"none", "waiting", "served", "dead"}
    /\ bridge \in {"start", "select", "write", "lost", "sleep"}

TypeInv == TypeOK /\ HandsOK

LEMMA TypeParts == TypeOK <=> CommandSeqs /\ SizesOK /\ StatesOK /\ OthersOK /\ FlagsOK
BY DEF TypeOK, CommandSeqs, SizesOK, StatesOK, OthersOK, FlagsOK

\* What may happen to a channel in one step.
Turns(q, after, size, S) ==
    \/ after = q
    \/ after = <<>>
    \/ q # <<>> /\ after = Tail(q)
    \/ Len(q) < size /\ \E x \in S : after = Append(q, x)

LEMMA ChannelKept ==
    ASSUME NEW S, NEW q \in Seq(S), NEW n \in Nat, Len(q) <= n, NEW after,
           Turns(q, after, n, S)
    PROVE  after \in Seq(S) /\ Len(after) <= n
<1>1. CASE after = <<>>
  <2>1. <<>> \in Seq(S) /\ Len(<<>>) = 0
    OBVIOUS
  <2> QED
    BY <1>1, <2>1
<1>4. CASE after = q
  BY <1>4
<1>2. CASE q # <<>> /\ after = Tail(q)
  BY <1>2
<1>3. ASSUME NEW x \in S, Len(q) < n, after = Append(q, x)
      PROVE  after \in Seq(S) /\ Len(after) <= n
  BY <1>3
<1> QED
  BY <1>1, <1>2, <1>3, <1>4 DEF Turns

LEMMA SeqGrows ==
    ASSUME NEW m \in Nat, NEW n \in Nat, m <= n, NEW q \in Seq(1..m)
    PROVE  q \in Seq(1..n)
OBVIOUS

LEMMA HeadTail ==
    ASSUME NEW S, NEW q \in Seq(S), q # <<>>
    PROVE  Head(q) \in S /\ Tail(q) \in Seq(S)
OBVIOUS

LEMMA CommandSeqStep ==
    TypeInv /\ [Next]_vars =>
        CommandSeqs' /\ Len(queue') <= QueueSize /\ Len(screenq') <= ScreenSize
                     /\ Len(wire') <= PipeSize
<1> SUFFICES ASSUME TypeInv, [Next]_vars
             PROVE  CommandSeqs' /\ Len(queue') <= QueueSize /\ Len(screenq') <= ScreenSize
                                 /\ Len(wire') <= PipeSize
  OBVIOUS
<1>0. /\ CommandSeqs /\ SizesOK /\ HandsOK /\ issued \in 0..MaxCommands
      /\ QueueSize \in Nat /\ ScreenSize \in Nat /\ PipeSize \in Nat /\ MaxCommands \in Nat
  BY TypeParts, IpcSizes DEF TypeInv, OthersOK
<1>1. Turns(queue, queue', QueueSize, Ids)
  <2>1. CASE PassOn
    BY <1>0, <2>1 DEF PassOn, Enqueue, HandsOK, Turns
  <2>2. CASE Execute \/ TaskDies \/ Crash
    BY <2>2 DEF Execute, TaskDies, Crash, Death, Turns
  <2>3. CASE ~(PassOn \/ Execute \/ TaskDies \/ Crash)
    <3>1. UNCHANGED queue
      BY <2>3
         DEF Next, ServerStep, Accept, Greet, SeeChange, Push, ReadCommand, ReadEnd,
             BridgeStep, Connect, ReadState, TakeCommand, WriteCommand, NoticeEnd,
             ForgetState, Change, Start, Issue, Quit, vars, tasks
    <3> QED
      BY <3>1 DEF Turns
  <2> QED
    BY <2>1, <2>2, <2>3
<1>2. Turns(wire, wire', PipeSize, Ids)
  <2>1. CASE WriteCommand
    BY <1>0, <2>1 DEF WriteCommand, HandsOK, Turns
  <2>2. CASE Execute \/ Crash \/ ReadCommand \/ Quit
    BY <2>2 DEF Execute, Crash, Death, ReadCommand, Quit, Turns, pipes
  <2>3. CASE ~(WriteCommand \/ Execute \/ Crash \/ ReadCommand \/ Quit)
    <3>1. UNCHANGED wire
      BY <2>3
         DEF Next, ServerStep, Accept, Greet, SeeChange, Push, PassOn, ReadEnd,
             BridgeStep, Connect, ReadState, TakeCommand, NoticeEnd, TaskDies,
             ForgetState, Change, Start, Issue, vars, pipes
    <3> QED
      BY <3>1 DEF Turns
  <2> QED
    BY <2>1, <2>2, <2>3
<1>3. Turns(screenq, screenq', ScreenSize, Ids)
  <2>1. CASE Issue
    <3>1. issued' \in Ids
      BY <1>0, <2>1 DEF Issue, Ids
    <3> QED
      BY <2>1, <3>1 DEF Issue, Offer, Turns
  <2>2. CASE TakeCommand \/ Quit
    BY <2>2 DEF TakeCommand, Quit, Turns
  <2>3. CASE ~(Issue \/ TakeCommand \/ Quit)
    <3>1. UNCHANGED screenq
      BY <2>3
         DEF Next, ServerStep, Accept, Greet, SeeChange, Push, PassOn, ReadEnd, ReadCommand,
             BridgeStep, Connect, ReadState, WriteCommand, NoticeEnd, TaskDies, Execute, Crash,
             Death, ForgetState, Change, Start, vars, screens
    <3> QED
      BY <3>1 DEF Turns
  <2> QED
    BY <2>1, <2>2, <2>3
<1>4. /\ queue' \in Seq(Ids) /\ Len(queue') <= QueueSize
      /\ wire' \in Seq(Ids) /\ Len(wire') <= PipeSize
      /\ screenq' \in Seq(Ids) /\ Len(screenq') <= ScreenSize
  BY <1>0, <1>1, <1>2, <1>3, ChannelKept DEF CommandSeqs, SizesOK
<1>5. executed' \in Seq(Ids)
  <2>1. CASE Execute
    <3>1. Head(queue) \in Ids
      BY <1>0, <2>1, HeadTail DEF Execute, CommandSeqs
    <3> QED
      BY <1>0, <2>1, <3>1 DEF Execute, CommandSeqs
  <2>2. CASE ~Execute
    <3>1. UNCHANGED executed
      BY <2>2
         DEF Next, ServerStep, Accept, Greet, SeeChange, Push, PassOn, ReadEnd, ReadCommand,
             BridgeStep, Connect, ReadState, TakeCommand, WriteCommand, NoticeEnd, TaskDies,
             Crash, ForgetState, Change, Start, Issue, Quit, vars, tasks
    <3> QED
      BY <1>0, <3>1 DEF CommandSeqs
  <2> QED
    BY <2>1, <2>2
<1>6. rest' \in Seq(Ids)
  <2>1. CASE Push \/ Execute \/ Crash \/ ReadCommand \/ Quit
    <3>1. \/ rest' = rest \/ rest' = <<>> \/ rest' = wire
          \/ (rest # <<>> /\ rest' = Tail(rest))
      <4>1. CASE Push \/ ReadCommand \/ Quit
        BY <4>1 DEF Push, ReadCommand, Quit
      <4>2. CASE Execute \/ Crash
        BY <4>2 DEF Execute, Crash, Death, serving
      <4> QED
        BY <2>1, <4>1, <4>2
    <3>2. <<>> \in Seq(Ids)
      OBVIOUS
    <3> QED
      BY <1>0, <3>1, <3>2, HeadTail DEF CommandSeqs
  <2>2. CASE ~(Push \/ Execute \/ Crash \/ ReadCommand \/ Quit)
    <3>1. UNCHANGED rest
      BY <2>2
         DEF Next, ServerStep, Accept, Greet, SeeChange, PassOn, ReadEnd, BridgeStep, Connect,
             ReadState, TakeCommand, WriteCommand, NoticeEnd, TaskDies, ForgetState, Change,
             Start, Issue, vars, serving
    <3> QED
      BY <1>0, <3>1 DEF CommandSeqs
  <2> QED
    BY <2>1, <2>2
<1> QED
  BY <1>4, <1>5, <1>6 DEF CommandSeqs

LEMMA DownStep == TypeInv /\ [Next]_vars => down' \in Seq(1..state') /\ Len(down') <= PipeSize
<1> SUFFICES ASSUME TypeInv, [Next]_vars
             PROVE  down' \in Seq(1..state') /\ Len(down') <= PipeSize
  OBVIOUS
<1>0. /\ down \in Seq(1..state) /\ Len(down) <= PipeSize /\ HandsOK /\ state \in Nat
      /\ PipeSize \in Nat
  BY TypeParts, IpcSizes DEF TypeInv, StatesOK, SizesOK
<1>1. Turns(down, down', PipeSize, 1..state)
  <2>1. CASE Greet \/ Push
    BY <1>0, <2>1 DEF Greet, Push, Deliver, HandsOK, Turns
  <2>2. CASE ~(Greet \/ Push)
    BY <2>2
       DEF Next, ServerStep, Accept, SeeChange, PassOn, ReadEnd, ReadCommand,
           BridgeStep, Connect, ReadState, TakeCommand, WriteCommand, NoticeEnd, TaskDies,
           Execute, Crash, Death, ForgetState, Change, Start, Issue, Quit, vars, pipes, Turns
  <2> QED
    BY <2>1, <2>2
<1>2. down' \in Seq(1..state) /\ Len(down') <= PipeSize
  BY <1>0, <1>1, ChannelKept
<1>3. state' \in Nat /\ state <= state'
  BY <1>0
     DEF Next, ServerStep, Accept, Greet, SeeChange, Push, PassOn, ReadEnd, ReadCommand,
         BridgeStep, Connect, ReadState, TakeCommand, WriteCommand, NoticeEnd, TaskDies,
         Execute, Crash, Death, ForgetState, Change, Start, Issue, Quit, vars, process
<1> QED
  BY <1>0, <1>2, <1>3, SeqGrows

LEMMA StateStep == TypeInv /\ [Next]_vars => StatesOK' /\ HandsOK'
<1> SUFFICES ASSUME TypeInv, [Next]_vars PROVE StatesOK' /\ HandsOK'
  OBVIOUS
<1>0. CommandSeqs /\ StatesOK /\ HandsOK /\ down' \in Seq(1..state')
  BY TypeParts, DownStep DEF TypeInv
<1>00. /\ state \in Nat /\ born \in 1..state /\ view \in 0..state /\ linkBorn \in 0..state
       /\ hand \in Nat /\ Ids \subseteq Nat
       /\ server \in {"greet", "push"} => hand \in 1..state
       /\ server = "enqueue" => hand \in Ids
       /\ bridge = "write" => carry \in Ids
  BY <1>0 DEF StatesOK, HandsOK, Ids
<1> DEFINE Rest == /\ state' \in Nat /\ born' \in 1..state' /\ view' \in 0..state'
                   /\ linkBorn' \in 0..state' /\ hand' \in Nat
                   /\ server' \in {"greet", "push"} => hand' \in 1..state'
                   /\ server' = "enqueue" => hand' \in Ids
                   /\ bridge' = "write" => carry' \in Ids
<1>1. ASSUME Change \/ Start PROVE Rest
  BY <1>00, <1>1 DEF Change, Start, serving, pipes, tui
<1>2. ASSUME TaskDies \/ ReadEnd \/ Issue \/ UNCHANGED vars PROVE Rest
  BY <1>00, <1>2 DEF TaskDies, ReadEnd, Issue, vars, process, serving, pipes, tui
<1>3. ASSUME Crash \/ Execute PROVE Rest
  BY <1>00, <1>3 DEF Crash, Execute, Death, process, serving, pipes, tui, Nothing
<1>4. ASSUME Quit \/ NoticeEnd \/ Connect \/ ForgetState PROVE Rest
  BY <1>00, <1>4
     DEF Quit, NoticeEnd, Connect, ForgetState, process, serving, tui, Nothing
<1>5. ASSUME Accept \/ SeeChange \/ Greet \/ Push \/ PassOn PROVE Rest
  BY <1>00, <1>5 DEF Accept, SeeChange, Greet, Push, PassOn, process, tui, Nothing
<1>6. ASSUME ReadCommand PROVE Rest
  <2>1. hand' \in Ids
    BY <1>0, <1>6, HeadTail DEF ReadCommand, CommandSeqs
  <2> QED
    BY <1>00, <1>6, <2>1 DEF ReadCommand, process, tui
<1>7. ASSUME TakeCommand PROVE Rest
  <2>1. carry' \in Ids
    BY <1>0, <1>7, HeadTail DEF TakeCommand, CommandSeqs
  <2> QED
    BY <1>00, <1>7, <2>1 DEF TakeCommand, process, serving
<1>8. ASSUME WriteCommand PROVE Rest
  BY <1>00, <1>8 DEF WriteCommand, process, serving
<1>9. ASSUME ReadState PROVE Rest
  <2>1. Head(down) \in 1..state
    BY <1>0, <1>9, HeadTail DEF ReadState, StatesOK
  <2> QED
    BY <1>00, <1>9, <2>1 DEF ReadState, process, serving
<1>10. Rest
  BY <1>1, <1>2, <1>3, <1>4, <1>5, <1>6, <1>7, <1>8, <1>9 DEF Next, ServerStep, BridgeStep
<1> QED
  BY <1>0, <1>10 DEF StatesOK, HandsOK, Ids

LEMMA OtherStep == TypeInv /\ [Next]_vars => OthersOK'
<1> SUFFICES ASSUME TypeInv, [Next]_vars PROVE OthersOK'
  OBVIOUS
<1>0. OthersOK /\ CommandSeqs /\ MaxCommands \in Nat
  BY TypeParts, IpcSizes DEF TypeInv
<1> USE DEF OthersOK, Nothing
<1>1. CASE UNCHANGED vars
  BY <1>0, <1>1 DEF vars, pipes, tui, screens, serving
<1>2. CASE ServerStep
  BY <1>0, <1>2
     DEF ServerStep, Accept, Greet, SeeChange, Push, ReadCommand, ReadEnd, PassOn,
         pipes, tui, screens
<1>3. CASE Connect \/ ReadState \/ WriteCommand \/ NoticeEnd \/ ForgetState
  BY <1>0, <1>3
     DEF Connect, ReadState, WriteCommand, NoticeEnd, ForgetState, serving, pipes, screens
<1>4. CASE TakeCommand
  BY <1>0, <1>4, HeadTail DEF TakeCommand, serving, pipes, CommandSeqs
<1>5. CASE Change \/ Start \/ TaskDies \/ Quit
  BY <1>0, <1>5 DEF Change, Start, TaskDies, Quit, serving, pipes, tui, screens
<1>7. CASE Execute \/ Crash
  BY <1>0, <1>7 DEF Crash, Execute, Death, serving, pipes, tui, screens
<1>6. CASE Issue
  BY <1>0, <1>6 DEF Issue, serving, pipes, tui
<1> QED
  BY <1>1, <1>2, <1>3, <1>4, <1>5, <1>6, <1>7 DEF Next, BridgeStep

LEMMA FlagStep == TypeInv /\ [Next]_vars => FlagsOK'
<1> SUFFICES ASSUME TypeInv, [Next]_vars PROVE FlagsOK'
  OBVIOUS
<1>0. FlagsOK
  BY TypeParts DEF TypeInv
<1> USE DEF Next, ServerStep, Accept, Greet, SeeChange, Push, PassOn, ReadEnd, ReadCommand,
        BridgeStep, Connect, ReadState, TakeCommand, WriteCommand, NoticeEnd, TaskDies,
        Execute, Crash, Death, ForgetState, Change, Start, Issue, Offer, Quit, vars, process,
        tasks, serving, tui
<1>1. up' = up \/ up' = TRUE \/ up' = FALSE
  OBVIOUS
<1>2. taskAlive' = taskAlive \/ taskAlive' = TRUE \/ taskAlive' = FALSE
  OBVIOUS
<1>3. unseen' = unseen \/ unseen' = TRUE \/ unseen' = FALSE \/ unseen' = (state > born)
  OBVIOUS
<1>4. available' = available \/ available' = TRUE \/ available' = FALSE
  OBVIOUS
<1>5. quiet' = quiet \/ quiet' = FALSE
  OBVIOUS
<1>6. (state > born) \in BOOLEAN
  OBVIOUS
<1> QED
  BY <1>0, <1>1, <1>2, <1>3, <1>4, <1>5, <1>6 DEF FlagsOK

LEMMA InitTypes == Init => TypeInv
<1> SUFFICES ASSUME Init PROVE TypeInv
  OBVIOUS
<1>0. /\ <<>> \in Seq(Ids) /\ <<>> \in Seq(1..1) /\ Len(<<>>) = 0
      /\ QueueSize \in Nat /\ ScreenSize \in Nat /\ PipeSize \in Nat /\ MaxCommands \in Nat
  BY IpcSizes
<1> USE DEF Init, Nothing
<1>1. CommandSeqs /\ SizesOK
  BY <1>0 DEF CommandSeqs, SizesOK
<1>2. StatesOK
  BY <1>0 DEF StatesOK
<1>3. OthersOK
  BY <1>0 DEF OthersOK
<1>4. FlagsOK
  BY DEF FlagsOK
<1> QED
  BY <1>1, <1>2, <1>3, <1>4, TypeParts DEF TypeInv, HandsOK

LEMMA TypeStep == TypeInv /\ [Next]_vars => TypeInv'
<1>1. TypeOK' <=> CommandSeqs' /\ SizesOK' /\ StatesOK' /\ OthersOK' /\ FlagsOK'
  BY DEF TypeOK, CommandSeqs, SizesOK, StatesOK, OthersOK, FlagsOK
<1> QED
  BY <1>1, CommandSeqStep, DownStep, StateStep, OtherStep, FlagStep DEF TypeInv, SizesOK

LEMMA TypeInvariance == Spec => []TypeInv
BY InitTypes, TypeStep, PTL DEF Spec

\* Queues and pipes stay within their sizes, whoever waits.
THEOREM IpcTypeCorrectness == Spec => []TypeOK
<1>1. TypeInv => TypeOK
  BY DEF TypeInv
<1> QED
  BY <1>1, TypeInvariance, PTL
-----------------------------------------------------------------------------
(* Commands *)

\* The commands of the pipeline are among those issued.
CommandsInv ==
    /\ RestIsRead /\ LossIsKnown
    /\ link \in {"none", "dead"} => wire = <<>>
    /\ CommandsInOrder /\ Pipeline \in Seq(1..issued)

\* Concatenation of sequences of commands, kept closed in the proofs.
Line == Seq(Nat)
Cat(a, b) == a \o b

LEMMA OnLine == \A m : Seq(1..m) \subseteq Line
<1> SUFFICES ASSUME NEW m, NEW q \in Seq(1..m) PROVE q \in Line
  OBVIOUS
<1>1. 1..m \subseteq Nat
  OBVIOUS
<1> QED
  BY <1>1, SeqMonotonic DEF Line

LEMMA Assoc ==
    ASSUME NEW a \in Line, NEW b \in Line, NEW c \in Line
    PROVE  Cat(Cat(a, b), c) = Cat(a, Cat(b, c))
BY DEF Line, Cat

LEMMA Unit ==
    /\ <<>> \in Line
    /\ \A a \in Line : Cat(a, <<>>) = a /\ Cat(<<>>, a) = a
<1>1. <<>> \in Line
  BY DEF Line
<1>2. ASSUME NEW a \in Line PROVE Cat(a, <<>>) = a /\ Cat(<<>>, a) = a
  BY DEF Line, Cat
<1> QED
  BY <1>1, <1>2

LEMMA Joined ==
    ASSUME NEW a \in Line, NEW b \in Line PROVE Cat(a, b) \in Line
BY DEF Line, Cat

LEMMA One == ASSUME NEW x \in Nat PROVE <<x>> \in Line
BY DEF Line

LEMMA Split ==
    ASSUME NEW q \in Line, q # <<>>
    PROVE  /\ Head(q) \in Nat /\ Tail(q) \in Line /\ <<Head(q)>> \in Line
           /\ q = Cat(<<Head(q)>>, Tail(q))
BY DEF Line, Cat

LEMMA Appended ==
    ASSUME NEW q \in Line, NEW x \in Nat PROVE Append(q, x) = Cat(q, <<x>>)
BY DEF Line, Cat

\* A part taken out leaves the rest in order.
LEMMA Thinned ==
    ASSUME NEW a \in Seq(Nat), NEW b \in Seq(Nat), NEW c \in Seq(Nat), NEW n \in Nat,
           Ascending((a \o b) \o c), (a \o b) \o c \in Seq(1..n)
    PROVE  Ascending(a \o c) /\ a \o c \in Seq(1..n)
<1> DEFINE p == (a \o b) \o c
           r == a \o c
<1>1. /\ Len(p) = Len(a) + Len(b) + Len(c) /\ Len(r) = Len(a) + Len(c)
      /\ p \in Seq(Nat) /\ r \in Seq(Nat)
      /\ Len(a) \in Nat /\ Len(b) \in Nat /\ Len(c) \in Nat
  OBVIOUS
<1> DEFINE At(i) == IF i <= Len(a) THEN i ELSE i + Len(b)
<1>2. \A i \in DOMAIN r : At(i) \in DOMAIN p /\ r[i] = p[At(i)]
  BY <1>1
<1>3. \A i, j \in DOMAIN r : i < j => At(i) < At(j)
  BY <1>1
<1>4. \A i \in DOMAIN p : p[i] \in 1..n
  OBVIOUS
<1> HIDE DEF p, At
<1>5. Ascending(r)
  <2> SUFFICES ASSUME NEW i \in DOMAIN r, NEW j \in DOMAIN r, i < j PROVE r[i] < r[j]
    BY DEF Ascending
  <2>1. Ascending(p)
    BY DEF p
  <2> QED
    BY <1>2, <1>3, <2>1 DEF Ascending
<1>6. r \in Seq(1..n)
  <2>1. \A i \in DOMAIN r : r[i] \in 1..n
    BY <1>2, <1>4
  <2> QED
    BY <1>1, <2>1
<1> QED
  BY <1>5, <1>6

LEMMA PartLost ==
    ASSUME NEW a \in Line, NEW b \in Line, NEW c \in Line, NEW n \in Nat,
           Ascending(Cat(Cat(a, b), c)), Cat(Cat(a, b), c) \in Seq(1..n)
    PROVE  Ascending(Cat(a, c)) /\ Cat(a, c) \in Seq(1..n)
BY Thinned DEF Line, Cat

\* The first of a part joins the part before it.
LEMMA MovesOn ==
    ASSUME NEW a \in Line, NEW q \in Line, q # <<>>
    PROVE  Cat(Cat(a, <<Head(q)>>), Tail(q)) = Cat(a, q)
<1>1. <<Head(q)>> \in Line /\ Tail(q) \in Line
  BY Split
<1> QED
  BY <1>1, Split, Assoc

LEMMA Regroup ==
    ASSUME NEW a \in Line, NEW b \in Line, NEW c \in Line, NEW d \in Line
    PROVE  Cat(Cat(Cat(a, b), c), d) = Cat(a, Cat(Cat(b, c), d))
<1>1. Cat(b, c) \in Line
  BY Joined
<1>2. Cat(Cat(a, b), c) = Cat(a, Cat(b, c))
  BY Assoc
<1>3. Cat(Cat(a, Cat(b, c)), d) = Cat(a, Cat(Cat(b, c), d))
  BY <1>1, Assoc
<1> QED
  BY <1>2, <1>3

\* What a step does to the pipeline as a whole.
Kept == Pipeline' = Pipeline /\ issued' = issued
Grown == Pipeline' = Cat(Pipeline, <<issued + 1>>) /\ issued' = issued + 1
Lost == /\ ~quiet' /\ issued' \in {issued, issued + 1}
        /\ \E a, b, c \in Line : Pipeline = Cat(Cat(a, b), c) /\ Pipeline' = Cat(a, c)

LEMMA PipelineStep ==
    TypeInv /\ CommandsInv /\ [Next]_vars => Kept \/ Grown \/ Lost
<1> SUFFICES ASSUME TypeInv, CommandsInv, [Next]_vars PROVE Kept \/ Grown \/ Lost
  OBVIOUS
<1> DEFINE hands == InHand(hand, server = "enqueue")
           carries == InHand(carry, bridge = "write")
<1>0. /\ executed \in Line /\ queue \in Line /\ rest \in Line
      /\ wire \in Line /\ screenq \in Line
      /\ server = "enqueue" => hand \in Nat
      /\ bridge = "write" => carry \in Nat
      /\ issued \in Nat
  <2>1. CommandSeqs /\ HandsOK /\ issued \in Nat
    BY TypeParts, IpcSizes DEF TypeInv, OthersOK
  <2>2. Seq(Ids) \subseteq Line /\ Ids \subseteq Nat
    BY OnLine DEF Ids
  <2> QED
    BY <2>1, <2>2, Zenon DEF CommandSeqs, HandsOK
<1>1. hands \in Line /\ carries \in Line /\ <<>> \in Line
  BY One, Unit, <1>0 DEF InHand
<1>2. Pipeline = Cat(Cat(Cat(Cat(Cat(Cat(executed, queue), hands), rest), wire), carries), screenq)
  BY DEF Pipeline, Cat
<1>3. Pipeline' = Cat(Cat(Cat(Cat(Cat(Cat(executed', queue'), hands'), rest'), wire'), carries'), screenq')
  BY DEF Pipeline, Cat
<1>4. /\ Cat(executed, queue) \in Line /\ Cat(Cat(executed, queue), hands) \in Line
      /\ Cat(Cat(Cat(executed, queue), hands), rest) \in Line
      /\ Cat(Cat(Cat(Cat(executed, queue), hands), rest), wire) \in Line
      /\ Cat(Cat(Cat(Cat(Cat(executed, queue), hands), rest), wire), carries) \in Line
      /\ Pipeline \in Line
  BY <1>0, <1>1, <1>2, Joined
<1>5. /\ RestIsRead /\ LossIsKnown /\ (link \in {"none", "dead"} => wire = <<>>)
  BY DEF CommandsInv
<1> HIDE DEF hands, carries
<1>6. CASE /\ UNCHANGED <<queue, executed, rest, wire, screenq, issued>>
           /\ hands' = hands /\ carries' = carries
  BY <1>2, <1>3, <1>6 DEF Kept
<1>7. CASE \/ Accept \/ Greet \/ SeeChange \/ ReadEnd \/ Connect \/ ReadState \/ NoticeEnd
           \/ ForgetState \/ Change \/ Start \/ UNCHANGED vars
  <2>1. UNCHANGED <<queue, executed, rest, wire, screenq, issued>>
    BY <1>7
       DEF Accept, Greet, SeeChange, ReadEnd, Connect, ReadState, NoticeEnd, ForgetState,
           Change, Start, vars, tasks, serving, pipes, screens
  <2>2. hands' = hands
    BY <1>7
       DEF Accept, Greet, SeeChange, ReadEnd, Connect, ReadState, NoticeEnd, ForgetState,
           Change, Start, vars, serving, hands, InHand
  <2>3. carries' = carries
    BY <1>7
       DEF Accept, Greet, SeeChange, ReadEnd, Connect, ReadState, NoticeEnd, ForgetState,
           Change, Start, vars, tui, carries, InHand
  <2> QED
    BY <1>6, <2>1, <2>2, <2>3
<1>8. CASE Push
  <2>1. /\ UNCHANGED <<queue, executed, wire, screenq, issued, quiet>>
        /\ hands' = hands /\ hands = <<>> /\ carries' = carries
        /\ rest' = rest \/ rest' = <<>>
    BY <1>8 DEF Push, tasks, screens, tui, hands, carries, InHand
  <2>2. CASE rest' = rest
    BY <1>6, <2>1, <2>2
  <2>3. CASE rest' = <<>> /\ rest # <<>>
    <3> DEFINE a == Cat(Cat(executed, queue), hands)
               c == Cat(Cat(wire, carries), screenq)
    <3>1. /\ a \in Line /\ Cat(a, rest) \in Line /\ c \in Line /\ Cat(a, <<>>) = a
      BY <1>0, <1>1, <1>4, Joined, Unit
    <3>2. Pipeline = Cat(Cat(a, rest), c) /\ Pipeline' = Cat(a, c)
      BY <1>0, <1>1, <1>2, <1>3, <2>1, <2>3, <3>1, Regroup
    <3>3. ~quiet'
      BY <1>5, <2>1, <2>3 DEF LossIsKnown
    <3> QED
      BY <1>0, <2>1, <3>1, <3>2, <3>3 DEF Lost
  <2> QED
    BY <2>1, <2>2, <2>3
<1>9. CASE ReadCommand
  <2>1. /\ UNCHANGED <<queue, executed, screenq, issued>>
        /\ hands = <<>> /\ hands' = <<hand'>> /\ carries' = carries
    BY <1>9 DEF ReadCommand, tasks, screens, tui, hands, carries, InHand
  <2> DEFINE a == Cat(executed, queue)
  <2>2. a \in Line /\ Cat(a, <<>>) = a
    BY <1>4, Unit
  <2>3. CASE Served
    <3>1. /\ rest = <<>> /\ rest' = <<>> /\ wire # <<>>
          /\ hand' = Head(wire) /\ wire' = Tail(wire)
      BY <1>5, <1>9, <2>3 DEF ReadCommand, RestIsRead
    <3>2. Cat(a, <<Head(wire)>>) \in Line
      BY <1>0, <2>2, <3>1, Split, Joined
    <3>3. Cat(Cat(Cat(a, <<>>), <<>>), wire) = Cat(Cat(Cat(a, <<Head(wire)>>), <<>>), Tail(wire))
      BY <1>0, <2>2, <3>1, <3>2, MovesOn, Unit
    <3> QED
      BY <1>2, <1>3, <2>1, <3>1, <3>3 DEF Kept
  <2>4. CASE ~Served
    <3>1. /\ rest # <<>> /\ hand' = Head(rest) /\ rest' = Tail(rest) /\ wire' = wire
      BY <1>9, <2>4 DEF ReadCommand
    <3>2. Cat(Cat(a, <<>>), rest) = Cat(Cat(a, <<Head(rest)>>), Tail(rest))
      BY <1>0, <2>2, <3>1, MovesOn
    <3> QED
      BY <1>2, <1>3, <2>1, <3>1, <3>2 DEF Kept
  <2> QED
    BY <2>3, <2>4
<1>10. CASE PassOn
  <2>1. /\ UNCHANGED <<executed, rest, wire, screenq, issued, quiet>>
        /\ hands = <<hand>> /\ hands' = <<>> /\ carries' = carries /\ hand \in Nat
    BY <1>0, <1>10 DEF PassOn, pipes, screens, tui, hands, carries, InHand
  <2> DEFINE a == Cat(executed, queue)
  <2>2. CASE queue' = Append(queue, hand)
    <3>1. <<hand>> \in Line /\ queue' = Cat(queue, <<hand>>)
      BY <1>0, <2>1, <2>2, Appended, One
    <3>2. Cat(Cat(executed, queue'), <<>>) = Cat(a, <<hand>>)
      <4>1. Cat(executed, queue') = Cat(a, <<hand>>)
        BY <1>0, <3>1, Assoc
      <4>2. Cat(a, <<hand>>) \in Line
        BY <1>4, <3>1, Joined
      <4> QED
        BY <4>1, <4>2, Unit
    <3> QED
      BY <1>2, <1>3, <2>1, <3>2 DEF Kept
  <2>3. CASE ~taskAlive /\ queue' = queue
    <3> DEFINE b == Cat(Cat(rest, wire), carries)
               c == Cat(b, screenq)
    <3>1. /\ a \in Line /\ Cat(a, hands) \in Line /\ b \in Line /\ c \in Line
          /\ Cat(a, <<>>) = a
      BY <1>0, <1>1, <1>4, Joined, Unit
    <3>2. \A x \in Line :
             Cat(Cat(Cat(Cat(x, rest), wire), carries), screenq) = Cat(x, c)
      BY <1>0, <1>1, <3>1, Regroup, Assoc
    <3>3. Pipeline = Cat(Cat(a, hands), c) /\ Pipeline' = Cat(a, c)
      BY <1>2, <1>3, <2>1, <2>3, <3>1, <3>2
    <3>4. ~quiet'
      BY <1>5, <2>1, <2>3 DEF LossIsKnown
    <3> QED
      BY <1>1, <2>1, <3>1, <3>3, <3>4 DEF Lost
  <2> QED
    BY <1>10, <2>2, <2>3 DEF PassOn, Enqueue
<1>11. CASE TakeCommand
  <2>1. /\ UNCHANGED <<executed, queue, rest, wire, issued>>
        /\ hands' = hands /\ carries = <<>> /\ carries' = <<Head(screenq)>>
        /\ screenq # <<>> /\ screenq' = Tail(screenq)
    BY <1>11 DEF TakeCommand, tasks, serving, pipes, hands, carries, InHand
  <2> DEFINE a == Cat(Cat(Cat(Cat(executed, queue), hands), rest), wire)
  <2>2. Cat(Cat(a, <<>>), screenq) = Cat(Cat(a, <<Head(screenq)>>), Tail(screenq))
    BY <1>0, <1>4, <2>1, MovesOn, Unit
  <2> QED
    BY <1>2, <1>3, <2>1, <2>2 DEF Kept
<1>12. CASE WriteCommand
  <2>1. /\ UNCHANGED <<executed, queue, rest, screenq, issued, quiet>>
        /\ hands' = hands /\ carries = <<carry>> /\ carry \in Nat /\ carries' = <<>>
    BY <1>0, <1>12 DEF WriteCommand, tasks, serving, screens, hands, carries, InHand
  <2> DEFINE a == Cat(Cat(Cat(executed, queue), hands), rest)
  <2>2. CASE wire' = Append(wire, carry)
    <3>1. <<carry>> \in Line /\ wire' = Cat(wire, <<carry>>)
      BY <1>0, <2>1, <2>2, Appended, One
    <3>2. Cat(Cat(a, wire'), <<>>) = Cat(Cat(a, wire), <<carry>>)
      <4>1. Cat(a, wire') = Cat(Cat(a, wire), <<carry>>)
        BY <1>0, <1>4, <3>1, Assoc
      <4>2. Cat(Cat(a, wire), <<carry>>) \in Line
        BY <1>4, <3>1, Joined
      <4> QED
        BY <4>1, <4>2, Unit
    <3> QED
      BY <1>2, <1>3, <2>1, <3>2 DEF Kept
  <2>3. CASE link = "dead" /\ wire' = wire
    <3>1. Cat(Cat(a, wire), <<>>) = Cat(a, wire)
      BY <1>4, Unit
    <3>2. Pipeline = Cat(Cat(Cat(a, wire), carries), screenq) /\ Pipeline' = Cat(Cat(a, wire), screenq)
      BY <1>2, <1>3, <2>1, <2>3, <3>1
    <3>3. ~quiet'
      BY <1>5, <2>1, <2>3 DEF LossIsKnown
    <3> QED
      BY <1>0, <1>1, <1>4, <2>1, <3>2, <3>3 DEF Lost
  <2> QED
    BY <1>12, <2>2, <2>3 DEF WriteCommand
<1>13. CASE Issue
  <2>1. /\ UNCHANGED <<executed, queue, rest, wire>> /\ issued' = issued + 1
        /\ hands' = hands /\ carries' = carries
    BY <1>13 DEF Issue, tasks, serving, pipes, tui, hands, carries, InHand
  <2>2. CASE screenq' = Append(screenq, issued + 1)
    <3>1. screenq' = Cat(screenq, <<issued + 1>>) /\ <<issued + 1>> \in Line
      BY <1>0, <2>2, Appended, One
    <3> QED
      BY <1>0, <1>2, <1>3, <1>4, <2>1, <3>1, Assoc DEF Grown
  <2>3. CASE screenq' = screenq /\ quiet' = FALSE
    <3>1. Pipeline' = Pipeline
      BY <1>2, <1>3, <2>1, <2>3
    <3>2. Pipeline = Cat(Cat(Pipeline, <<>>), <<>>) /\ Pipeline' = Cat(Pipeline, <<>>)
      BY <1>4, <3>1, Unit
    <3> QED
      BY <1>1, <1>4, <2>1, <2>3, <3>2 DEF Lost
  <2> QED
    BY <1>13, <2>1, <2>2, <2>3 DEF Issue, Offer
<1>14. CASE TaskDies
  <2>1. /\ UNCHANGED <<executed, rest, wire, screenq, issued>> /\ queue' = <<>>
        /\ hands' = hands /\ carries' = carries /\ ~quiet'
    BY <1>14 DEF TaskDies, serving, pipes, screens, tui, hands, carries, InHand
  <2> DEFINE b == Cat(Cat(Cat(hands, rest), wire), carries)
             c == Cat(b, screenq)
  <2>2. b \in Line /\ c \in Line /\ Cat(executed, <<>>) = executed
    BY <1>0, <1>1, Joined, Unit
  <2>3. \A x \in Line :
           Cat(Cat(Cat(Cat(Cat(x, hands), rest), wire), carries), screenq) = Cat(x, c)
    <3> TAKE x \in Line
    <3>1. Cat(Cat(Cat(x, hands), rest), wire) = Cat(x, Cat(Cat(hands, rest), wire))
      BY <1>0, <1>1, Regroup
    <3>2. Cat(Cat(hands, rest), wire) \in Line
      BY <1>0, <1>1, Joined
    <3> QED
      BY <1>0, <1>1, <3>1, <3>2, Regroup
  <2>4. Pipeline = Cat(Cat(executed, queue), c) /\ Pipeline' = Cat(executed, c)
    BY <1>0, <1>2, <1>3, <1>4, <2>1, <2>2, <2>3
  <2> QED
    BY <1>0, <2>1, <2>2, <2>4 DEF Lost
<1>15. ASSUME Death, NEW e \in Line, executed' = e,
              \E q \in Line : Cat(executed, queue) = Cat(e, q)
       PROVE  Lost
  <2>1. /\ UNCHANGED <<screenq, issued>> /\ queue' = <<>> /\ rest' = <<>> /\ wire' = <<>>
        /\ hands' = <<>> /\ carries' = carries /\ ~quiet'
    BY <1>15 DEF Death, screens, tui, hands, carries, InHand
  <2>2. PICK q \in Line : Cat(executed, queue) = Cat(e, q)
    BY <1>15
  <2> DEFINE b == Cat(Cat(Cat(q, hands), rest), wire)
             c == Cat(carries, screenq)
  <2>3. b \in Line /\ c \in Line /\ Cat(e, <<>>) = e
    <3>1. Cat(q, hands) \in Line
      BY <1>1, Joined
    <3>2. Cat(Cat(q, hands), rest) \in Line
      BY <1>0, <3>1, Joined
    <3> QED
      BY <1>0, <1>1, <3>2, Joined, Unit, <1>15
  <2>4. Cat(Cat(Cat(Cat(e, q), hands), rest), wire) = Cat(e, b)
    <3>1. Cat(Cat(Cat(e, q), hands), rest) = Cat(e, Cat(Cat(q, hands), rest))
      BY <1>0, <1>1, Regroup
    <3>3. Cat(q, hands) \in Line
      BY <1>1, Joined
    <3>2. Cat(Cat(q, hands), rest) \in Line
      BY <1>0, <3>3, Joined
    <3> QED
      BY <1>0, <3>1, <3>2, Assoc
  <2>5. Pipeline = Cat(Cat(e, b), c)
    <3>1. Cat(e, b) \in Line
      BY <1>15, <2>3, Joined
    <3> QED
      BY <1>0, <1>1, <1>2, <2>2, <2>4, <3>1, Assoc
  <2>6. Pipeline' = Cat(e, c)
    <3>1. Pipeline' = Cat(Cat(e, carries), screenq)
      BY <1>3, <1>15, <2>1, <2>3
    <3> QED
      BY <1>0, <1>1, <1>15, <3>1, Assoc
  <2> QED
    BY <1>15, <2>1, <2>3, <2>5, <2>6 DEF Lost
<1>16. CASE Crash
  BY <1>0, <1>15, <1>16 DEF Crash
<1>17. CASE Execute
  <2>1. /\ queue # <<>> /\ executed' = Cat(executed, <<Head(queue)>>)
        /\ executed' \in Line /\ Tail(queue) \in Line
        /\ Cat(executed', Tail(queue)) = Cat(executed, queue)
    <3>1. queue # <<>> /\ executed' = Append(executed, Head(queue))
      BY <1>17 DEF Execute
    <3>2. Head(queue) \in Nat /\ Tail(queue) \in Line /\ <<Head(queue)>> \in Line
      BY <1>0, <3>1, Split
    <3>3. executed' = Cat(executed, <<Head(queue)>>)
      BY <1>0, <3>1, <3>2, Appended
    <3>4. executed' \in Line
      BY <1>0, <3>2, <3>3, Joined
    <3>5. Cat(Cat(executed, <<Head(queue)>>), Tail(queue)) = Cat(executed, queue)
      BY <1>0, <3>1, MovesOn
    <3> QED
      BY <3>1, <3>2, <3>3, <3>4, <3>5
  <2>2. CASE Death
    BY <1>15, <2>1, <2>2
  <2>3. CASE ~Death
    <3>1. /\ queue' = Tail(queue) /\ UNCHANGED <<rest, wire, screenq, issued>>
          /\ hands' = hands /\ carries' = carries
      BY <1>17, <2>3 DEF Execute, serving, pipes, screens, tui, hands, carries, InHand
    <3> QED
      BY <1>2, <1>3, <2>1, <3>1 DEF Kept
  <2> QED
    BY <2>2, <2>3
<1>18. CASE Quit
  <2>1. /\ UNCHANGED <<executed, queue, issued>> /\ rest' = wire /\ wire' = <<>>
        /\ screenq' = <<>> /\ hands' = hands /\ carries' = <<>> /\ ~quiet'
        /\ link \in {"none", "served"}
    BY <1>18 DEF Quit, tasks, hands, carries, InHand
  <2> DEFINE a == Cat(Cat(executed, queue), hands)
             d == Cat(a, wire)
  <2>2. /\ a \in Line /\ d \in Line /\ Cat(a, <<>>) = a /\ Cat(d, <<>>) = d
        /\ Cat(carries, screenq) \in Line
    BY <1>0, <1>1, <1>4, Joined, Unit
  <2>3. Pipeline' = d
    BY <1>3, <2>1, <2>2
  <2>4. CASE link = "served"
    <3>1. rest = <<>>
      BY <1>5, <2>4 DEF RestIsRead, Served
    <3>2. Pipeline = Cat(Cat(d, Cat(carries, screenq)), <<>>)
      <4>1. Pipeline = Cat(Cat(d, carries), screenq)
        BY <1>2, <2>2, <3>1
      <4>2. Pipeline = Cat(d, Cat(carries, screenq))
        BY <1>0, <1>1, <2>2, <4>1, Assoc
      <4> QED
        BY <1>4, <4>2, Unit
    <3> QED
      BY <1>1, <2>1, <2>2, <2>3, <3>2 DEF Lost
  <2>5. CASE link = "none"
    <3>1. wire = <<>>
      BY <1>5, <2>5
    <3> DEFINE b == Cat(Cat(Cat(rest, wire), carries), screenq)
    <3>2. b \in Line /\ Cat(rest, wire) \in Line
      BY <1>0, <1>1, Joined
    <3>3. Pipeline = Cat(Cat(a, b), <<>>)
      <4>1. Cat(Cat(a, rest), wire) = Cat(a, Cat(rest, wire))
        BY <1>0, <2>2, Assoc
      <4>2. Pipeline = Cat(a, b)
        BY <1>0, <1>1, <1>2, <2>2, <3>2, <4>1, Regroup
      <4> QED
        BY <1>4, <4>2, Unit
    <3> QED
      BY <1>1, <2>1, <2>2, <2>3, <3>1, <3>2, <3>3 DEF Lost
  <2> QED
    BY <2>1, <2>4, <2>5
<1> QED
  BY <1>7, <1>8, <1>9, <1>10, <1>11, <1>12, <1>13, <1>14, <1>16, <1>17, <1>18
     DEF Next, ServerStep, BridgeStep

\* One more command, issued after all the others.
LEMMA NextIssued ==
    ASSUME NEW n \in Nat, NEW p \in Seq(1..n), Ascending(p)
    PROVE  /\ Ascending(Append(p, n + 1)) /\ Append(p, n + 1) \in Seq(1..(n + 1))
           /\ p = [i \in 1..n |-> i] => Append(p, n + 1) = [i \in 1..(n + 1) |-> i]
<1> DEFINE r == Append(p, n + 1)
<1>1. /\ Len(p) \in Nat /\ \A i \in 1..Len(p) : p[i] \in 1..n
      /\ DOMAIN p = 1..Len(p) /\ DOMAIN r = 1..(Len(p) + 1)
      /\ \A i \in 1..Len(p) : r[i] = p[i]
      /\ r[Len(p) + 1] = n + 1
  OBVIOUS
<1> HIDE DEF r
<1>2. Ascending(r)
  BY <1>1 DEF Ascending
<1>3. r \in Seq(1..(n + 1))
  <2>1. p \in Seq(1..(n + 1))
    BY SeqGrows
  <2> QED
    BY <2>1 DEF r
<1>4. ASSUME p = [i \in 1..n |-> i] PROVE r = [i \in 1..(n + 1) |-> i]
  <2>1. Len(p) = n
    BY <1>4
  <2>2. r = [i \in 1..(n + 1) |-> r[i]]
    BY <1>1, <1>3, <2>1
  <2>3. \A i \in 1..(n + 1) : r[i] = i
    BY <1>1, <1>4, <2>1
  <2> QED
    BY <2>2, <2>3
<1> QED
  BY <1>2, <1>3, <1>4 DEF r

LEMMA OrderStep ==
    TypeInv /\ CommandsInv /\ [Next]_vars =>
        CommandsInOrder' /\ Pipeline' \in Seq(1..issued')
<1> SUFFICES ASSUME TypeInv, CommandsInv, [Next]_vars
             PROVE  CommandsInOrder' /\ Pipeline' \in Seq(1..issued')
  OBVIOUS
<1>1. /\ Ascending(Pipeline) /\ Pipeline \in Seq(1..issued) /\ issued \in Nat
      /\ Pipeline \in Line
      /\ quiet => Pipeline = [i \in 1..issued |-> i]
  BY TypeParts, IpcSizes, OnLine DEF TypeInv, OthersOK, CommandsInv, CommandsInOrder
<1>2. quiet' => quiet
  BY DEF Next, ServerStep, Accept, Greet, SeeChange, Push, PassOn, ReadEnd, ReadCommand,
         BridgeStep, Connect, ReadState, TakeCommand, WriteCommand, NoticeEnd, TaskDies,
         Execute, Crash, Death, ForgetState, Change, Start, Issue, Offer, Quit, vars
<1> USE DEF CommandsInOrder
<1>3. CASE Kept
  <2>1. Pipeline' = Pipeline /\ issued' = issued
    BY <1>3 DEF Kept
  <2>2. Ascending(Pipeline')
    BY <1>1, <2>1
  <2> QED
    BY <1>1, <1>2, <2>1, <2>2
<1>4. CASE Grown
  <2>1. Pipeline' = Append(Pipeline, issued + 1) /\ issued' = issued + 1
    BY <1>1, <1>4, Appended DEF Grown
  <2> QED
    BY <1>1, <1>2, <2>1, NextIssued
<1>5. CASE Lost
  <2>1. PICK a, b, c \in Line : Pipeline = Cat(Cat(a, b), c) /\ Pipeline' = Cat(a, c)
    BY <1>5 DEF Lost
  <2>2. Ascending(Pipeline') /\ Pipeline' \in Seq(1..issued)
    BY <1>1, <2>1, PartLost
  <2>3. issued' \in Nat /\ issued <= issued' /\ ~quiet'
    BY <1>1, <1>5 DEF Lost
  <2>4. Pipeline' \in Seq(1..issued')
    BY <1>1, <2>2, <2>3, SeqGrows
  <2> QED
    BY <2>2, <2>3, <2>4
<1> QED
  BY <1>3, <1>4, <1>5, PipelineStep

\* A new connection starts with nothing left of the last, and what is lost with
\* a connection or a task is not forgotten.
Leftovers == RestIsRead /\ LossIsKnown /\ (link \in {"none", "dead"} => wire = <<>>)

LEMMA LeftoversStep == TypeInv /\ Leftovers /\ [Next]_vars => Leftovers'
<1> SUFFICES ASSUME TypeInv, Leftovers, [Next]_vars PROVE Leftovers'
  OBVIOUS
<1>0. /\ link \in {"none", "waiting", "served", "dead"}
      /\ quiet \in BOOLEAN /\ taskAlive \in BOOLEAN
  BY DEF TypeInv, TypeOK
<1> USE DEF Leftovers, RestIsRead, LossIsKnown, Served
<1>1. CASE Change \/ Start \/ TaskDies \/ Issue \/ UNCHANGED vars
  BY <1>0, <1>1
     DEF Change, Start, TaskDies, Issue, Offer, vars, process, tasks, serving, pipes, tui
<1>2. CASE Accept \/ Greet \/ SeeChange \/ PassOn
  BY <1>0, <1>2 DEF Accept, Greet, SeeChange, PassOn, process, tasks, pipes
<1>3. CASE Push \/ ReadEnd \/ ReadCommand
  BY <1>0, <1>3 DEF Push, ReadEnd, ReadCommand, process, tasks, pipes
<1>4. CASE Connect \/ ReadState \/ TakeCommand \/ ForgetState
  BY <1>0, <1>4
     DEF Connect, ReadState, TakeCommand, ForgetState, process, tasks, serving, pipes
<1>5. CASE WriteCommand \/ NoticeEnd
  BY <1>0, <1>5 DEF WriteCommand, NoticeEnd, process, tasks, serving
<1>6. CASE Quit
  BY <1>0, <1>6 DEF Quit, process, tasks
<1>7. CASE Crash \/ Execute
  BY <1>0, <1>7 DEF Crash, Execute, Death, process, serving, pipes
<1> QED
  BY <1>1, <1>2, <1>3, <1>4, <1>5, <1>6, <1>7 DEF Next, ServerStep, BridgeStep

LEMMA InitCommands == Init => CommandsInv
<1> SUFFICES ASSUME Init PROVE CommandsInv
  OBVIOUS
<1>1. Pipeline = <<>> /\ issued = 0
  BY DEF Init, Pipeline, InHand
<1>2. <<>> \in Seq(1..0) /\ Ascending(<<>>) /\ <<>> = [i \in 1..0 |-> i]
  BY DEF Ascending
<1>3. RestIsRead /\ LossIsKnown /\ wire = <<>>
  BY DEF Init, RestIsRead, LossIsKnown, Served
<1> QED
  BY <1>1, <1>2, <1>3 DEF CommandsInv, CommandsInOrder

LEMMA CommandsInvariance == Spec => [](TypeInv /\ CommandsInv)
<1>1. Init => TypeInv /\ CommandsInv
  BY InitTypes, InitCommands
<1>2. TypeInv /\ CommandsInv /\ [Next]_vars => (TypeInv /\ CommandsInv)'
  BY TypeStep, OrderStep, LeftoversStep DEF CommandsInv, Leftovers
<1> QED
  BY <1>1, <1>2, PTL DEF Spec

\* Across reconnects and restarts the BLE task gets each command at most once, in
\* the order the screens issued them, and all of them unless a process, a task or
\* a full queue let one down (handle_connection, ipc_bridge).
THEOREM CommandsKeepTheirOrder == Spec => []CommandsInOrder
<1>1. CommandsInv => CommandsInOrder
  BY DEF CommandsInv
<1> QED
  BY <1>1, CommandsInvariance, PTL

-----------------------------------------------------------------------------
(* States *)

\* The server is writing a state to the connection.
Writing == Served /\ server \in {"greet", "push"}
Current(x) == x = Nothing \/ x >= linkBorn

\* What StatesInOrder says of the screens, of the pipe and of the hand.
FlowInv ==
    /\ \A i \in DOMAIN down : view <= down[i]
    /\ \A i, j \in DOMAIN down : i < j => down[i] <= down[j]
    /\ Writing => view <= hand /\ \A i \in DOMAIN down : down[i] <= hand
    /\ bridge \in {"select", "write"} =>
          /\ Current(view) /\ \A i \in DOMAIN down : Current(down[i])
          /\ Writing => Current(hand)

LEMMA FlowImplies == TypeInv /\ FlowInv => StatesInOrder
<1> SUFFICES ASSUME TypeInv, FlowInv PROVE StatesInOrder
  OBVIOUS
<1>1. /\ down \in Seq(Nat) /\ view \in Nat /\ hand \in Nat
      /\ Len(down) \in Nat /\ DOMAIN down = 1..Len(down)
      /\ \A i \in DOMAIN down : down[i] \in Nat
  <2>1. down \in Seq(1..state) /\ view \in Nat /\ hand \in Nat
    BY TypeParts DEF TypeInv, StatesOK
  <2>2. down \in Seq(Nat)
    BY <2>1, OnLine DEF Line
  <2> QED
    BY <2>1, <2>2
<1> DEFINE last == InHand(hand, Served /\ server \in {"greet", "push"})
           flow == (<<view>> \o down) \o last
<1>2. /\ last \in Seq(Nat) /\ Len(last) \in {0, 1}
      /\ Len(last) = 1 => Writing /\ last[1] = hand
  <2>1. CASE Writing
    BY <1>1, <2>1 DEF Writing, InHand
  <2>2. CASE ~Writing
    <3>1. last = <<>>
      BY <2>2 DEF Writing, InHand
    <3>2. last \in Seq(Nat) /\ Len(last) = 0
      BY <3>1, EmptySeq
    <3> QED
      BY <3>2
  <2> QED
    BY <2>1, <2>2
<1> HIDE DEF last
<1>3. /\ DOMAIN flow = 1..(1 + Len(down) + Len(last))
      /\ flow[1] = view
      /\ \A i \in 2..(1 + Len(down)) : flow[i] = down[i - 1]
      /\ Len(last) = 1 => flow[2 + Len(down)] = hand
  BY <1>1, <1>2
<1> HIDE DEF flow
<1>4. \A i \in DOMAIN flow :
         \/ i = 1 /\ flow[i] = view
         \/ i - 1 \in DOMAIN down /\ flow[i] = down[i - 1]
         \/ i = 2 + Len(down) /\ Writing /\ flow[i] = hand
  <2> SUFFICES ASSUME NEW i \in DOMAIN flow
               PROVE  \/ i = 1 /\ flow[i] = view
                      \/ i - 1 \in DOMAIN down /\ flow[i] = down[i - 1]
                      \/ i = 2 + Len(down) /\ Writing /\ flow[i] = hand
    OBVIOUS
  <2>1. CASE Len(last) = 0
    BY <1>1, <1>3, <2>1
  <2>2. CASE Len(last) = 1
    BY <1>1, <1>2, <1>3, <2>2
  <2> QED
    BY <1>2, <2>1, <2>2
<1>5. \A i, j \in DOMAIN flow : i < j => flow[i] <= flow[j]
  <2> SUFFICES ASSUME NEW i \in DOMAIN flow, NEW j \in DOMAIN flow, i < j
               PROVE  flow[i] <= flow[j]
    OBVIOUS
  <2>1. i \in 1..(2 + Len(down)) /\ j \in 1..(2 + Len(down))
    <3>1. \A k \in 1..(1 + Len(down) + Len(last)) : k \in 1..(2 + Len(down))
      <4>1. CASE Len(last) = 0
        BY <1>1, <4>1
      <4>2. CASE Len(last) = 1
        BY <1>1, <4>2
      <4> QED
        BY <1>2, <4>1, <4>2
    <3> QED
      BY <1>3, <3>1
  <2>2. CASE i = 1 /\ flow[i] = view
    BY <1>1, <1>4, <2>1, <2>2 DEF FlowInv
  <2>3. CASE i - 1 \in DOMAIN down /\ flow[i] = down[i - 1]
    <3>1. CASE j - 1 \in DOMAIN down /\ flow[j] = down[j - 1]
      BY <1>1, <2>1, <2>3, <3>1 DEF FlowInv
    <3>2. CASE Writing /\ flow[j] = hand
      BY <1>1, <2>1, <2>3, <3>2 DEF FlowInv
    <3> QED
      BY <1>4, <2>1, <3>1, <3>2
  <2>4. CASE i = 2 + Len(down)
    BY <1>1, <2>1, <2>4
  <2> QED
    BY <1>4, <2>2, <2>3, <2>4
<1>6. ASSUME bridge \in {"select", "write"}, NEW i \in DOMAIN flow
      PROVE  flow[i] = Nothing \/ flow[i] >= linkBorn
  BY <1>4, <1>6 DEF FlowInv, Current
<1> QED
  BY <1>5, <1>6 DEF StatesInOrder, flow, last

LEMMA LinkStep == TypeInv /\ LinkIsCurrent /\ [Next]_vars => LinkIsCurrent'
<1> SUFFICES ASSUME TypeInv, LinkIsCurrent, [Next]_vars PROVE LinkIsCurrent'
  OBVIOUS
<1>0. /\ link \in {"none", "waiting", "served", "dead"} /\ up \in BOOLEAN
      /\ bridge \in {"start", "select", "write", "lost", "sleep"}
  BY DEF TypeInv, TypeOK
<1> USE DEF LinkIsCurrent, Served
<1>1. CASE Change \/ Start \/ TaskDies \/ Issue \/ UNCHANGED vars
  BY <1>0, <1>1
     DEF Change, Start, TaskDies, Issue, vars, process, serving, pipes, tui
<1>2. CASE Accept \/ SeeChange \/ PassOn \/ ReadEnd \/ ReadCommand
  BY <1>0, <1>2
     DEF Accept, SeeChange, PassOn, ReadEnd, ReadCommand, process, pipes, tui
<1>3. CASE Push \/ Greet
  BY <1>0, <1>3 DEF Push, Greet, Deliver, process, tui
<1>4. CASE Connect \/ ReadState \/ TakeCommand \/ ForgetState
  BY <1>0, <1>4
     DEF Connect, ReadState, TakeCommand, ForgetState, process, serving, pipes
<1>5. CASE WriteCommand \/ NoticeEnd \/ Quit
  BY <1>0, <1>5 DEF WriteCommand, NoticeEnd, Quit, process, serving
<1>6. CASE Crash \/ Execute
  BY <1>0, <1>6 DEF Crash, Execute, Death, process, pipes, tui
<1> QED
  BY <1>1, <1>2, <1>3, <1>4, <1>5, <1>6 DEF Next, ServerStep, BridgeStep

LEMMA FlowStep == TypeInv /\ LinkIsCurrent /\ FlowInv /\ [Next]_vars => FlowInv'
<1> SUFFICES ASSUME TypeInv, LinkIsCurrent, FlowInv, [Next]_vars PROVE FlowInv'
  OBVIOUS
<1>0. /\ state \in Nat /\ view \in 0..state /\ linkBorn \in 0..state /\ hand \in Nat
      /\ down \in Seq(1..state)
      /\ Len(down) \in Nat /\ DOMAIN down = 1..Len(down)
      /\ \A i \in DOMAIN down : down[i] \in 1..state
  <2>1. StatesOK
    BY TypeParts DEF TypeInv
  <2> QED
    BY <2>1 DEF StatesOK
<1> USE DEF FlowInv, Writing, Current, Served
<1>1. CASE /\ UNCHANGED <<view, down, linkBorn>>
           /\ Writing' => Writing /\ hand' = hand
           /\ bridge' \in {"select", "write"} => bridge \in {"select", "write"}
  BY <1>1
<1>2. CASE /\ UNCHANGED <<view, down, linkBorn, bridge>> /\ hand' = state
  BY <1>0, <1>2
<1>3. CASE /\ UNCHANGED <<view, linkBorn, bridge>> /\ ~Writing'
           /\ Writing /\ down' = Append(down, hand)
  <2>1. /\ DOMAIN down' = 1..(Len(down) + 1)
        /\ \A i \in DOMAIN down : down'[i] = down[i]
        /\ down'[Len(down) + 1] = hand
    BY <1>0, <1>3
  <2> QED
    BY <1>0, <1>3, <2>1
<1>4. CASE ReadState
  <2>1. /\ down # <<>> /\ view' = Head(down) /\ down' = Tail(down)
        /\ UNCHANGED <<linkBorn, bridge, hand>> /\ Writing' = Writing
    BY <1>4 DEF ReadState, serving
  <2>2. Len(down) > 0 /\ view' = down[1]
    BY <1>0, <2>1
  <2>3. DOMAIN down' = 1..(Len(down) - 1) /\ \A i \in DOMAIN down' : down'[i] = down[i + 1]
    BY <1>0, <2>1, <2>2
  <2>4. \A i \in DOMAIN down' : i + 1 \in DOMAIN down /\ 1 < i + 1 /\ 1 \in DOMAIN down
    BY <1>0, <2>2, <2>3
  <2>5. /\ \A i \in DOMAIN down' : view' <= down'[i]
        /\ \A i, j \in DOMAIN down' : i < j => down'[i] <= down'[j]
    <3>1. \A i, j \in DOMAIN down' : i < j => i + 1 < j + 1
      BY <1>0, <2>3
    <3> QED
      BY <2>2, <2>3, <2>4, <3>1
  <2>6. Writing' => view' <= hand' /\ \A i \in DOMAIN down' : down'[i] <= hand'
    BY <1>0, <2>1, <2>2, <2>3, <2>4
  <2>7. bridge' \in {"select", "write"} =>
           /\ Current(view)' /\ \A i \in DOMAIN down' : Current(down[i])'
           /\ Writing' => Current(hand)'
    BY <1>0, <2>1, <2>2, <2>3, <2>4
  <2> QED
    BY <2>5, <2>6, <2>7
<1>5. CASE down' = <<>> /\ ~Writing' /\ (bridge' \in {"select", "write"} => Current(view)' )
  BY <1>5
<1>6. CASE \/ Change \/ Start \/ TaskDies \/ Issue \/ UNCHANGED vars
           \/ PassOn \/ ReadEnd \/ ReadCommand \/ TakeCommand
  BY <1>1, <1>6
     DEF Change, Start, TaskDies, Issue, PassOn, ReadEnd, ReadCommand, TakeCommand,
         vars, serving, pipes, tui
<1>7. CASE Accept \/ SeeChange
  BY <1>2, <1>7 DEF Accept, SeeChange, pipes, tui
<1>8. CASE Greet \/ Push
  <2>1. CASE Served
    BY <1>3, <1>8, <2>1 DEF Greet, Push, Deliver, tui
  <2>2. CASE ~Served
    BY <1>1, <1>8, <2>2 DEF Greet, Push, tui
  <2> QED
    BY <2>1, <2>2
<1>9. CASE WriteCommand
  BY <1>1, <1>5, <1>9 DEF WriteCommand, serving
<1>10. CASE NoticeEnd \/ Quit
  BY <1>5, <1>10 DEF NoticeEnd, Quit
<1>11. CASE Connect \/ ForgetState
  BY <1>5, <1>11 DEF Connect, ForgetState, LinkIsCurrent, pipes
<1>12. ASSUME Death PROVE FlowInv'
  <2>1. ~Writing' /\ UNCHANGED <<view, linkBorn, bridge>> /\ down' \in {down, <<>>}
    BY <1>12 DEF Death, tui
  <2> QED
    BY <1>1, <1>5, <2>1
<1>13. CASE Crash \/ Execute
  <2>1. CASE ~Death
    BY <1>1, <1>13, <2>1 DEF Crash, Execute, serving, pipes, tui
  <2> QED
    BY <1>12, <2>1
<1> QED
  BY <1>4, <1>6, <1>7, <1>8, <1>9, <1>10, <1>11, <1>13 DEF Next, ServerStep, BridgeStep

\* The screens never see the states of the service out of order, nor one of an
\* earlier service through a connection to a later one (handle_connection pushes
\* the newest state, ipc_bridge publishes the default one on a loss).
THEOREM StatesKeepTheirOrder == Spec => []StatesInOrder
<1>1. Init => TypeInv /\ LinkIsCurrent /\ FlowInv
  <2>1. Init => LinkIsCurrent /\ FlowInv
    BY DEF Init, LinkIsCurrent, FlowInv, Served, Writing, Current
  <2> QED
    BY <2>1, InitTypes
<1>2. TypeInv /\ LinkIsCurrent /\ FlowInv /\ [Next]_vars =>
         (TypeInv /\ LinkIsCurrent /\ FlowInv)'
  BY TypeStep, LinkStep, FlowStep
<1> QED
  BY <1>1, <1>2, FlowImplies, PTL DEF Spec

-----------------------------------------------------------------------------
(* What the screens rely on *)

LEMMA AvailableStep == TypeInv /\ AvailableOK /\ [Next]_vars => AvailableOK'
<1> SUFFICES ASSUME TypeInv, AvailableOK, [Next]_vars PROVE AvailableOK'
  OBVIOUS
<1> USE DEF AvailableOK
<1>1. CASE BridgeStep \/ Quit
  BY <1>1
     DEF BridgeStep, Connect, ReadState, TakeCommand, WriteCommand, NoticeEnd, ForgetState, Quit
<1>2. CASE UNCHANGED tui
  BY <1>2 DEF tui
<1> QED
  BY <1>1, <1>2
     DEF Next, ServerStep, Accept, Greet, SeeChange, Push, ReadCommand, ReadEnd, PassOn,
         Execute, Death, Change, Crash, Start, TaskDies, Issue, vars

LEMMA BridgeAbstractStep ==
    TypeInv /\ LinkIsCurrent /\ AvailableOK /\ [Next]_vars
        => [Bridge!BridgeNext]_(Bridge!bridgeVars)
<1> SUFFICES ASSUME TypeInv, LinkIsCurrent, AvailableOK, [Next]_vars
             PROVE  Bridge!BridgeNext \/ UNCHANGED (Bridge!bridgeVars)
  OBVIOUS
<1> USE DEF Bridge!BridgeNext, Bridge!bridgeVars
<1>0. down \in Seq(1..state) /\ state \in Nat
  BY DEF TypeInv, TypeOK
<1>1. CASE Connect
  <2>1. view = Nothing /\ (bridge = "start" => available = TRUE)
    BY <1>1 DEF Connect, LinkIsCurrent, AvailableOK, TypeInv, TypeOK
  <2> QED
    BY <1>1, <2>1 DEF Connect, Bridge!Find
<1>2. CASE ReadState
  <2>1. view' \in Nat
    BY <1>0, <1>2 DEF ReadState
  <2> QED
    BY <1>2, <2>1 DEF ReadState, Bridge!Push
<1>3. CASE TakeCommand
  BY <1>3 DEF TakeCommand
<1>4. CASE WriteCommand
  BY <1>4 DEF WriteCommand, Bridge!Lose
<1>5. CASE NoticeEnd
  BY <1>5 DEF NoticeEnd, Bridge!Lose
<1>6. CASE ForgetState
  BY <1>6 DEF ForgetState, Bridge!Reset
<1>7. CASE Quit
  BY <1>7 DEF Quit, Bridge!Restart
<1>8. CASE UNCHANGED tui
  BY <1>8 DEF tui
<1> QED
  BY <1>1, <1>2, <1>3, <1>4, <1>5, <1>6, <1>7, <1>8
     DEF Next, BridgeStep, ServerStep, Accept, Greet, SeeChange, Push, ReadCommand, ReadEnd,
         PassOn, Execute, Death, Change, Crash, Start, TaskDies, Issue, vars

\* However services and TUIs end and start, the bridge publishes availability
\* and AppState in the order the screens are built on.
THEOREM BridgeRefinement == Spec => ImplementsBridge
<1>1. Init => TypeInv /\ LinkIsCurrent /\ AvailableOK
  BY InitTypes DEF Init, LinkIsCurrent, AvailableOK
<1>2. Init => Bridge!BridgeInit
  BY DEF Init, Bridge!BridgeInit
<1> QED
  BY <1>1, <1>2, TypeStep, LinkStep, AvailableStep, BridgeAbstractStep, PTL
     DEF Spec, ImplementsBridge, Bridge!BridgeSpec
=============================================================================
