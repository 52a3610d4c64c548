---------------------------- MODULE TuiNavProofs ----------------------------
(***************************************************************************)
(* Proofs about TuiNav: types, the home screen at the bottom of the stack, *)
(* and no screen on the stack that waits.  The two invariants on the stack *)
(* need the types only; each action moves the screens in one of four ways  *)
(* (none, one screen back, one screen opened, the current one replaced),   *)
(* and the lemmas say what each way keeps.                                 *)
(***************************************************************************)
EXTENDS TuiNav, SequenceTheorems, TLAPS

\* The part of the types that the stack's invariants use.
ScreensOK == current \in ScreenType /\ stack \in Seq(ScreenType) /\ exit \in BOOLEAN

Shape == HomeAtBottom /\ StackNeverWaits

\* One screen back: the one underneath comes to light, or the program ends.
LEMMA BackKeeps ==
    ASSUME ScreensOK, Shape, Back
    PROVE  ScreensOK' /\ Shape'
<1>1. CASE stack = <<>>
  BY <1>1 DEF Back, ScreensOK, Shape, HomeAtBottom, StackNeverWaits
<1>2. CASE stack # <<>>
  <2>1. /\ Len(stack) \in Nat /\ Len(stack) > 0
        /\ current' = stack[Len(stack)]
        /\ stack' = SubSeq(stack, 1, Len(stack) - 1)
        /\ exit' = exit
    BY <1>2 DEF Back, ScreensOK
  <2>2. /\ stack' \in Seq(ScreenType) /\ Len(stack') = Len(stack) - 1
        /\ \A i \in 1..(Len(stack) - 1) : stack'[i] = stack[i]
    <3> DEFINE n == Len(stack) - 1
    <3>1. n \in Int /\ 1 \in Int /\ \A i \in 1..n : stack[i] \in ScreenType
      BY <2>1, LenProperties DEF ScreensOK
    <3>2. /\ SubSeq(stack, 1, n) \in Seq(ScreenType)
          /\ Len(SubSeq(stack, 1, n)) = IF 1 <= n THEN n - 1 + 1 ELSE 0
          /\ \A i \in 1..(n - 1 + 1) : SubSeq(stack, 1, n)[i] = stack[1 + i - 1]
      <4> HIDE DEF n
      <4> QED BY <3>1, SubSeqProperties
    <3>3. Len(SubSeq(stack, 1, n)) = n
      <4> DEFINE len == Len(stack)
      <4>0. len \in Nat /\ len > 0 /\ n = len - 1
        BY <2>1
      <4>1. n \in Nat /\ (~(1 <= n) => n = 0)
        <5> HIDE DEF len, n
        <5> QED BY <4>0
      <4>2. Len(SubSeq(stack, 1, n)) = IF 1 <= n THEN n - 1 + 1 ELSE 0
        BY <3>2
      <4> HIDE DEF n
      <4> QED BY <4>1, <4>2
    <3> QED BY <2>1, <3>2, <3>3
  <2>3. ScreensOK'
    BY <2>1, <2>2 DEF ScreensOK
  <2>4. /\ DOMAIN stack = 1..Len(stack) /\ DOMAIN stack' = 1..(Len(stack) - 1)
        /\ stack' = <<>> <=> Len(stack) = 1
    <3>1. DOMAIN stack = 1..Len(stack) /\ DOMAIN stack' = 1..Len(stack')
      BY <2>2, LenProperties DEF ScreensOK
    <3>2. stack' = <<>> <=> Len(stack') = 0
      BY <2>2, EmptySeq
    <3> QED BY <2>1, <2>2, <3>1, <3>2
  <2>5. HomeAtBottom'
    BY <2>1, <2>2, <2>4 DEF ScreensOK, Shape, HomeAtBottom
  <2>6. StackNeverWaits'
    <3>1. current'.kind # "PairingInput"
      BY <2>1, <2>4 DEF Shape, StackNeverWaits
    <3>2. \A i \in DOMAIN stack' : stack'[i].kind # "Connected"
      BY <2>1, <2>2, <2>4 DEF Shape, StackNeverWaits
    <3> QED BY <2>2, <2>4, <3>1, <3>2 DEF Shape, StackNeverWaits
  <2> QED BY <2>3, <2>5, <2>6 DEF Shape
<1> QED BY <1>1, <1>2

\* A screen opened over s, which takes the place of the current one: s may not
\* wait, and is the connected screen just when the new one asks for a key.
LEMMA PushKeeps ==
    ASSUME NEW s \in ScreenType, NEW t \in ScreenType, ScreensOK, Shape,
           current.kind # "PairingInput",
           s.kind = "Home" <=> current.kind = "Home",
           s.kind \in {"Home", "DeviceList", "Connected"}, ~s.connecting,
           s.kind = "Connected" <=> t.kind = "PairingInput",
           t.kind # "Home",
           current' = t, stack' = Append(stack, s), exit' = exit
    PROVE  ScreensOK' /\ Shape'
<1>1. /\ Len(stack) \in Nat /\ DOMAIN stack = 1..Len(stack)
      /\ stack' \in Seq(ScreenType) /\ Len(stack') = Len(stack) + 1
      /\ \A i \in 1..Len(stack) : stack'[i] = stack[i]
      /\ stack'[Len(stack) + 1] = s
      /\ DOMAIN stack' = 1..(Len(stack) + 1)
      /\ stack' # <<>>
  BY DEF ScreensOK
<1>2. ScreensOK'
  BY <1>1 DEF ScreensOK
<1>3. stack = <<>> <=> Len(stack) = 0
  BY DEF ScreensOK
<1>4. HomeAtBottom'
  BY <1>1, <1>3 DEF Shape, HomeAtBottom
<1>5. StackNeverWaits'
  <2>1. \A i \in 1..Len(stack) : stack'[i].kind # "Connected"
    BY <1>1 DEF Shape, StackNeverWaits
  <2> QED BY <1>1, <2>1 DEF Shape, StackNeverWaits
<1> QED BY <1>2, <1>4, <1>5 DEF Shape

\* The current screen gives way to another one over the same stack.
LEMMA ReplaceKeeps ==
    ASSUME NEW t \in ScreenType, ScreensOK, Shape,
           t.kind = "Home" <=> current.kind = "Home",
           t.kind = "PairingInput" <=> current.kind = "PairingInput",
           current' = t, stack' = stack, exit' = exit
    PROVE  ScreensOK' /\ Shape'
BY DEF ScreensOK, Shape, HomeAtBottom, StackNeverWaits

LEMMA StayKeeps ==
    ASSUME ScreensOK, Shape, UNCHANGED screens
    PROVE  ScreensOK' /\ Shape'
BY DEF ScreensOK, Shape, HomeAtBottom, StackNeverWaits, screens

\* A lost service clears the screens.
LEMMA HomeKeeps ==
    ASSUME ScreensOK, Shape, LostService, UNCHANGED exit
    PROVE  ScreensOK' /\ Shape'
<1>1. CASE UNCHANGED <<current, stack>>
  BY <1>1, StayKeeps DEF screens
<1>2. CASE current' = Screen("Home") /\ stack' = <<>>
  BY <1>2 DEF Screen, ScreenType, Kinds, ScreensOK, Shape, HomeAtBottom, StackNeverWaits
<1> QED BY <1>1, <1>2 DEF LostService

\* What a pushed state turns a screen into.
LEMMA AdvanceFacts ==
    ASSUME current \in ScreenType
    PROVE  /\ Advance(current) \in ScreenType
           /\ Advance(current).kind = "Home" <=> current.kind = "Home"
           /\ Advance(current).kind = "PairingInput" <=> current.kind = "PairingInput"
           /\ Advance(current).kind = "Connected" =>
                 Advance(current) \in {current, Screen("Connected")}
BY DEF Advance, Screen, ScreenType, Kinds

\* Only a device list is ever connecting; only a pairing screen holds text.
OnlyListsConnect ==
    current.connecting => current.kind = "DeviceList"

LEMMA ScreenStep ==
    ASSUME TypeOK, Shape, OnlyListsConnect, [Next]_vars
    PROVE  ScreensOK' /\ Shape' /\ OnlyListsConnect'
<1> USE DEF ScreenType, Kinds
<1>0. ScreensOK
  BY DEF TypeOK, ScreensOK
<1>a. ASSUME Back PROVE ScreensOK' /\ Shape' /\ OnlyListsConnect'
  <2>1. CASE stack = <<>>
    BY <1>0, <1>a, <2>1, BackKeeps DEF Back, OnlyListsConnect
  <2>2. CASE stack # <<>>
    <3>1. Len(stack) \in DOMAIN stack
      BY <1>0, <2>2 DEF ScreensOK
    <3> QED BY <1>0, <1>a, <2>2, <3>1, BackKeeps DEF Back, Shape, StackNeverWaits, OnlyListsConnect
  <2> QED BY <2>1, <2>2
<1>b. ASSUME UNCHANGED screens PROVE ScreensOK' /\ Shape' /\ OnlyListsConnect'
  BY <1>0, <1>b, StayKeeps DEF screens, OnlyListsConnect
<1>1. CASE SyncAvailable
  <2>1. LostService /\ UNCHANGED exit
    BY <1>1 DEF SyncAvailable
  <2> QED BY <1>0, <2>1, HomeKeeps DEF LostService, Screen, OnlyListsConnect
<1>2. CASE SyncState
  <2> DEFINE next == Advance(current)
  <2>1. exit' = exit
    BY <1>2 DEF SyncState
  <2>2. CASE UNCHANGED <<current, stack>>
    BY <2>1, <2>2, <1>b DEF screens
  <2>3. CASE AsksForKey(next) /\ current' = Screen("PairingInput") /\ stack' = Append(stack, next)
    <3>1. next \in ScreenType /\ next.kind = "Connected" /\ ~next.connecting
          /\ current.kind # "PairingInput" /\ current.kind # "Home"
      BY <1>0, <2>3, AdvanceFacts DEF AsksForKey, ScreensOK, OnlyListsConnect, Screen
    <3>2. Screen("PairingInput") \in ScreenType /\ Screen("PairingInput").kind = "PairingInput"
          /\ ~Screen("PairingInput").connecting
      BY DEF Screen
    <3> HIDE DEF next
    <3>3. ScreensOK' /\ Shape'
      BY <1>0, <2>1, <2>3, <3>1, <3>2, PushKeeps
    <3> QED BY <2>3, <3>2, <3>3 DEF OnlyListsConnect
  <2>4. CASE current' = next /\ stack' = stack
    <3>1. ScreensOK' /\ Shape'
      BY <1>0, <2>1, <2>4, AdvanceFacts, ReplaceKeeps DEF ScreensOK
    <3> QED BY <1>0, <2>4, <3>1 DEF ScreensOK, Advance, Screen, OnlyListsConnect
  <2> QED BY <1>2, <2>2, <2>3, <2>4 DEF SyncState
<1>3. CASE Backspace
  <2>1. CASE current.kind = "PairingInput" /\ current.typed > 0
    <3> DEFINE t == [current EXCEPT !.typed = @ - 1]
    <3>1. current' = t /\ stack' = stack /\ exit' = exit
      BY <1>3, <2>1 DEF Backspace, EraseOrBack
    <3>2. t \in ScreenType /\ t.kind = "PairingInput" /\ t.connecting = current.connecting
      BY <1>0, <2>1 DEF ScreensOK
    <3> HIDE DEF t
    <3> QED BY <1>0, <2>1, <3>1, <3>2, ReplaceKeeps DEF OnlyListsConnect
  <2> QED BY <1>3, <2>1, <1>a DEF Backspace, EraseOrBack
<1>4. CASE Escape
  BY <1>4, <1>a, <1>b DEF Escape, Stay
<1>5. CASE OtherKey \/ HomeKill
  BY <1>5, <1>b DEF OtherKey, HomeKill, Stay
<1>6. CASE HomeScan \/ Rescan \/ PairSelected
  <2> PICK k \in {"Scanning", "PairingInput"} :
        /\ current' = Screen(k) /\ stack' = Append(stack, current) /\ exit' = exit
        /\ current.kind \in {"Home", "DeviceList", "Connected"}
        /\ current.kind = "Connected" <=> k = "PairingInput"
        /\ ~current.connecting
    BY <1>6 DEF HomeScan, Rescan, PairSelected, Open, OnlyListsConnect
  <2>1. Screen(k) \in ScreenType /\ Screen(k).kind = k /\ ~Screen(k).connecting
    BY DEF Screen
  <2>2. ScreensOK' /\ Shape'
    BY <1>0, <2>1, PushKeeps DEF ScreensOK
  <2> QED BY <2>1, <2>2 DEF OnlyListsConnect
<1>7. CASE ConnectSelected
  <2> DEFINE t == [current EXCEPT !.connecting = TRUE]
  <2>1. current' = t /\ stack' = stack /\ exit' = exit /\ current.kind = "DeviceList"
    BY <1>7 DEF ConnectSelected
  <2>2. t \in ScreenType /\ t.kind = "DeviceList"
    BY <1>0, <2>1 DEF ScreensOK
  <2> HIDE DEF t
  <2> QED BY <1>0, <2>1, <2>2, ReplaceKeeps DEF OnlyListsConnect
<1>8. CASE Disconnect \/ Submit
  BY <1>8, <1>a DEF Disconnect, Submit
<1>9. CASE Type
  <2> DEFINE t == [current EXCEPT !.typed = @ + 1]
  <2>1. current' = t /\ stack' = stack /\ exit' = exit /\ current.kind = "PairingInput"
    BY <1>9 DEF Type
  <2>2. t \in ScreenType /\ t.kind = "PairingInput" /\ t.connecting = current.connecting
    BY <1>0, <2>1 DEF ScreensOK
  <2> HIDE DEF t
  <2> QED BY <1>0, <2>1, <2>2, ReplaceKeeps DEF OnlyListsConnect
<1>10. CASE Bridge \/ Leave \/ UNCHANGED vars
  BY <1>10, <1>b DEF Bridge, Leave, vars, PushState, LoseService, ResetState, FindService
<1> QED BY <1>1, <1>2, <1>3, <1>4, <1>5, <1>6, <1>7, <1>8, <1>9, <1>10 DEF Next, Sync, Key

\* The types that are not about screens.
LEMMA TypeStep ==
    ASSUME TypeOK, ScreensOK', [Next]_vars
    PROVE  TypeOK'
<1> USE DEF TypeOK, ScreensOK
<1>1. CASE Sync
  BY <1>1 DEF Sync, SyncAvailable, SyncState, world
<1>2. CASE Key
  <2>1. sent' \in Commands
    BY <1>2 DEF Key, Backspace, Escape, OtherKey, HomeScan, HomeKill, Rescan,
                ConnectSelected, Disconnect, PairSelected, Type, Submit, Send, Commands
  <2>2. at' = "available" /\ UNCHANGED <<shown, channels, world, leaving>>
    BY <1>2 DEF Key, Backspace, Escape, OtherKey, HomeScan, HomeKill, Rescan,
                ConnectSelected, Disconnect, PairSelected, Type, Submit, Pressed
  <2> QED BY <2>1, <2>2 DEF channels, world
<1>3. CASE Bridge
  <2>1. state' \in States
    <3>1. DefaultState \in States
      BY DEF DefaultState, States, Links
    <3> HIDE DEF ScreensOK
    <3> QED
      BY <1>3, <3>1
         DEF Bridge, PushState, LoseService, ResetState, FindService,
             Published!Push, Published!Lose, Published!Reset, Published!Find
  <2>2. /\ bridge' \in {"up", "lost", "down"} /\ pushes' \in Nat
        /\ available' \in BOOLEAN /\ availableNew' \in BOOLEAN /\ stateNew' \in BOOLEAN
        /\ UNCHANGED <<shown, at, sent, leaving>>
    <3>1. CASE PushState
      BY <3>1 DEF PushState, Published!Push
    <3>2. CASE LoseService
      BY <3>2 DEF LoseService, Published!Lose
    <3>3. CASE ResetState
      BY <3>3 DEF ResetState, Published!Reset
    <3>4. CASE FindService
      BY <3>4 DEF FindService, Published!Find
    <3> QED BY <1>3, <3>1, <3>2, <3>3, <3>4 DEF Bridge
  <2> QED BY <2>1, <2>2
<1>4. CASE Leave \/ UNCHANGED vars
  BY <1>4 DEF Leave, vars, channels, world
<1> QED BY <1>1, <1>2, <1>3, <1>4 DEF Next

NavInv == TypeOK /\ Shape /\ OnlyListsConnect

LEMMA NavInvariance == Spec => []NavInv
<1>1. Init => NavInv
  <2> SUFFICES ASSUME Init PROVE NavInv
    OBVIOUS
  <2>1. /\ stack \in Seq(ScreenType) /\ DOMAIN stack = {} /\ stack = <<>>
        /\ current.kind = "Home" /\ ~current.connecting
    BY DEF Init, Screen
  <2>2. TypeOK
    BY <2>1
       DEF Init, Published!BridgeInit, TypeOK, Screen, ScreenType, Kinds, Commands, States,
           DefaultState, Links
  <2>3. Shape /\ OnlyListsConnect
    BY <2>1 DEF Shape, HomeAtBottom, StackNeverWaits, OnlyListsConnect
  <2> QED BY <2>2, <2>3 DEF NavInv
<1>2. NavInv /\ [Next]_vars => NavInv'
  BY ScreenStep, TypeStep DEF NavInv
<1> QED BY <1>1, <1>2, PTL DEF Spec

\* Whatever keys and pushes cross, every screen keeps its type.
THEOREM NavTypeCorrectness == Spec => []TypeOK
BY NavInvariance, PTL DEF NavInv

\* Only Back on the home screen quits, with any number of rescans and pushes.
THEOREM HomeStaysAtBottom == Spec => []HomeAtBottom
BY NavInvariance, PTL DEF NavInv, Shape

\* Back never leads to a screen that waits, however deep the stack.
THEOREM NothingWaitsBelow == Spec => []StackNeverWaits
BY NavInvariance, PTL DEF NavInv, Shape

-----------------------------------------------------------------------------
(* The bridge within *)

\* Keys, the loop and the flags of the channels add to the bridge no step of
\* their own: the screens are composed with what Ipc is shown to publish.
THEOREM ScreensRunBridge == Spec => Published!BridgeSpec
<1>1. Init => Published!BridgeInit
  BY DEF Init
<1>2. [Next]_vars => [Published!BridgeNext]_(Published!bridgeVars)
  <2> SUFFICES ASSUME [Next]_vars
               PROVE  Published!BridgeNext \/ UNCHANGED (Published!bridgeVars)
    OBVIOUS
  <2> USE DEF Published!BridgeNext, Published!bridgeVars
  <2>1. CASE Bridge
    BY <2>1 DEF Bridge, PushState, LoseService, ResetState, FindService
  <2>2. CASE Key
    BY <2>2
       DEF Key, Backspace, Escape, OtherKey, HomeScan, HomeKill, Rescan, ConnectSelected,
           Disconnect, PairSelected, Type, Submit, Pressed, channels, world
  <2>3. CASE Sync \/ Leave \/ UNCHANGED vars
    BY <2>3 DEF Sync, SyncAvailable, SyncState, Leave, vars, channels, world
  <2> QED
    BY <2>1, <2>2, <2>3 DEF Next
<1> QED
  BY <1>1, <1>2, PTL DEF Spec, Published!BridgeSpec
=============================================================================
