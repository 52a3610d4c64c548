-------------------------- MODULE KeyCaptureProofs --------------------------
(***************************************************************************)
(* Proofs about KeyCapture for every keyboard, set of buttons and queue    *)
(* capacity, and about Packets for every text and packet size.             *)
(***************************************************************************)
EXTENDS KeyCapture, FiniteSetTheorems, SequenceTheorems, TLAPS

\* The published flags, and the flags the toggles amount to, are flags.
FlagInv == /\ flags \in [Flags -> BOOLEAN]
           /\ current \in [Flags -> BOOLEAN]
           /\ flags = wanted

LEMMA FlagStep == FlagInv /\ [Next]_vars => FlagInv'
<1> SUFFICES ASSUME FlagInv, [Next]_vars PROVE FlagInv'
  OBVIOUS
<1> USE DEF FlagInv
<1>1. ASSUME NEW k \in Keys, KeyPress(k) PROVE FlagInv'
  <2>1. current' = flags
    BY <1>1 DEF KeyPress, Refreshed
  <2>2. CASE IsToggle(k, pressed')
    <3>1. FlagOf[k] \in Flags
      BY <2>2 DEF IsToggle, FlagOf, Flags
    <3>2. /\ flags' = [flags EXCEPT ![FlagOf[k]] = ~@]
          /\ wanted' = [wanted EXCEPT ![FlagOf[k]] = ~@]
      BY <1>1, <2>1, <2>2 DEF KeyPress, Toggle
    <3> QED
      BY <2>1, <3>1, <3>2
  <2>3. CASE ~IsToggle(k, pressed')
    BY <1>1, <2>1, <2>3 DEF KeyPress, Toggle
  <2> QED
    BY <2>2, <2>3
<1>2. ASSUME NEW k \in Keys, KeyRelease(k) PROVE FlagInv'
  BY <1>2 DEF KeyRelease, Refreshed, user
<1>3. ASSUME NEW b \in Buttons, ButtonPress(b) \/ ButtonRelease(b) PROVE FlagInv'
  BY <1>3 DEF ButtonPress, ButtonRelease, Click, Refreshed
<1>4. CASE MouseMove
  BY <1>4 DEF MouseMove, Refreshed, user
<1>5. CASE TakeEvent
  BY <1>5 DEF TakeEvent
<1>6. CASE UNCHANGED vars
  BY <1>6 DEF vars, user
<1> QED
  BY <1>1, <1>2, <1>3, <1>4, <1>5, <1>6 DEF Next, HookStep

\* Each flag is what its own toggles amount to, because a toggle starts from a
\* copy taken in the same event.
THEOREM TogglesAreIndependent == Spec => []FlagsFollowToggles
<1>1. Init => FlagInv
  BY DEF Init, FlagInv, AllOff
<1>2. FlagInv => FlagsFollowToggles
  BY DEF FlagInv, FlagsFollowToggles
<1> QED
  BY <1>1, <1>2, FlagStep, PTL DEF Spec

-----------------------------------------------------------------------------
(* The queue *)

\* A button's item names a button, not a key of the same name.
Items == {x \in [type : ItemTypes, of : Keys \cup Buttons \cup {"delta"},
                 mods : SUBSET {"ctrl", "alt", "shift"}] :
             x.type \in {"ButtonPress", "ButtonRelease"} => x.of \in Buttons}
KeyTypes   == {"KeyPress", "Keycode", "Clipboard"}
MouseTypes == {"ButtonPress", "ButtonRelease", "MouseMove"}
KeyItemSet == {x \in Items : x.type \in KeyTypes}

\* At most one item of a key has been added at the end.
Takes(q, after) == after = q \/ \E x \in KeyItemSet : after = Append(q, x)

LEMMA OfferTakes ==
    ASSUME NEW q \in Seq(Items), Len(q) <= MaxQueue,
           NEW items, items = <<>> \/ \E x \in KeyItemSet : items = <<x>>
    PROVE  /\ Takes(q, Offer(q, items))
           /\ Offer(q, items) \in Seq(Items) /\ Len(Offer(q, items)) <= MaxQueue
<1>1. CASE items = <<>>
  <2>1. q \o items = q
    BY <1>1
  <2> QED
    BY <2>1 DEF Offer, Takes
<1>2. ASSUME NEW x \in KeyItemSet, items = <<x>>
      PROVE  /\ Takes(q, Offer(q, items))
             /\ Offer(q, items) \in Seq(Items) /\ Len(Offer(q, items)) <= MaxQueue
  <2>1. x \in Items
    BY <1>2 DEF KeyItemSet
  <2>2. q \o items = Append(q, x) /\ Append(q, x) \in Seq(Items)
    BY <1>2, <2>1, AppendIsConcat, AppendProperties
  <2> QED
    BY <1>2, <2>2 DEF Offer, Takes
<1> QED
  BY <1>1, <1>2

LEMMA KeyItemsAre ==
    ASSUME NEW k \in Keys, NEW p
    PROVE  KeyItems(k, p) = <<>> \/ \E x \in KeyItemSet : KeyItems(k, p) = <<x>>
<1>1. Modifiers(p) \in SUBSET {"ctrl", "alt", "shift"}
  BY DEF Modifiers
<1>2. Item("Keycode", k, Modifiers(p)) \in KeyItemSet /\ Item("KeyPress", k, {}) \in KeyItemSet
  BY <1>1 DEF Item, Items, KeyItemSet, ItemTypes, KeyTypes
<1> QED
  BY <1>2 DEF KeyItems, HidReport

QueueOK == queue \in Seq(Items) /\ Len(queue) <= MaxQueue

\* A press adds at most the clipboard and the key.
LEMMA PressQueues ==
    ASSUME NEW k \in Keys, KeyPress(k), QueueOK
    PROVE  QueueOK' /\ \E q \in Seq(Items) : Takes(queue, q) /\ Takes(q, queue')
<1> DEFINE typed == IF current'["key"] THEN KeyItems(k, pressed') ELSE <<>>
<1>1. typed = <<>> \/ \E x \in KeyItemSet : typed = <<x>>
  BY KeyItemsAre
<1>2. \E x \in KeyItemSet : <<Item("Clipboard", k, {})>> = <<x>>
  BY DEF Item, Items, KeyItemSet, ItemTypes, KeyTypes
<1>3. \/ queue' = Offer(queue, typed)
      \/ queue' = Offer(Offer(queue, <<Item("Clipboard", k, {})>>), typed)
      \/ queue' = queue
  BY DEF KeyPress
<1> HIDE DEF typed
<1>4. PICK q : q = Offer(queue, <<Item("Clipboard", k, {})>>)
  OBVIOUS
<1>5. q \in Seq(Items) /\ Len(q) <= MaxQueue /\ Takes(queue, q)
  BY <1>2, <1>4, OfferTakes DEF QueueOK
<1>6. CASE queue' = Offer(queue, typed)
  BY <1>1, <1>6, OfferTakes DEF QueueOK, Takes
<1>7. CASE queue' = Offer(q, typed)
  BY <1>1, <1>5, <1>7, OfferTakes DEF QueueOK
<1>8. CASE queue' = queue
  BY <1>8 DEF QueueOK, Takes
<1> QED
  BY <1>3, <1>4, <1>6, <1>7, <1>8

\* An event of the mouse adds its item or nothing.
LEMMA MouseQueues ==
    ASSUME NEW x \in Items, QueueOK, queue' = queue \/ queue' = Offer(queue, <<x>>)
    PROVE  QueueOK' /\ (queue' = queue \/ queue' = Append(queue, x))
<1>1. queue \o <<x>> = Append(queue, x) /\ Append(queue, x) \in Seq(Items)
  BY AppendIsConcat, AppendProperties DEF QueueOK
<1>2. queue' = queue \/ (queue' = Append(queue, x) /\ Len(queue') <= MaxQueue)
  BY <1>1 DEF Offer
<1> QED
  BY <1>1, <1>2 DEF QueueOK

LEMMA ClickQueues ==
    ASSUME NEW b \in Buttons, NEW type \in {"ButtonPress", "ButtonRelease"},
           Click(type, b), QueueOK
    PROVE  QueueOK' /\ (queue' = queue \/ queue' = Append(queue, Item(type, b, {})))
<1>1. Item(type, b, {}) \in Items
  BY DEF Item, Items, ItemTypes
<1>2. queue' = queue \/ queue' = Offer(queue, <<Item(type, b, {})>>)
  BY DEF Click
<1> QED
  BY <1>1, <1>2, MouseQueues

LEMMA MoveQueues ==
    ASSUME MouseMove, QueueOK
    PROVE  /\ QueueOK'
           /\ queue' = queue \/ queue' = Append(queue, Item("MouseMove", "delta", {}))
<1>1. Item("MouseMove", "delta", {}) \in Items
  BY DEF Item, Items, ItemTypes
<1>2. queue' = Offer(queue, <<Item("MouseMove", "delta", {})>>)
  BY DEF MouseMove
<1> QED
  BY <1>1, <1>2, MouseQueues

LEMMA TakeQueues ==
    ASSUME TakeEvent, QueueOK
    PROVE  /\ QueueOK' /\ Head(queue) \in Items /\ queue # <<>>
           /\ Len(queue) \in Nat /\ Len(queue) > 0 /\ Len(queue') = Len(queue) - 1
           /\ \A i \in 1..Len(queue') : queue'[i] = queue[i + 1]
<1>1. queue # <<>> /\ queue' = Tail(queue)
  BY DEF TakeEvent
<1>2. /\ Head(queue) \in Items /\ Tail(queue) \in Seq(Items)
      /\ Len(Tail(queue)) = Len(queue) - 1
      /\ \A i \in 1..Len(Tail(queue)) : Tail(queue)[i] = queue[i + 1]
  BY <1>1, HeadTailProperties DEF QueueOK
<1>3. Len(queue) \in Nat /\ Len(queue) > 0
  BY <1>1, EmptySeq DEF QueueOK
<1> QED
  BY <1>1, <1>2, <1>3, QueueAssumption DEF QueueOK

-----------------------------------------------------------------------------
(* Types *)

LEMMA QueueStep == QueueOK /\ [Next]_vars => QueueOK'
<1> SUFFICES ASSUME QueueOK, [Next]_vars PROVE QueueOK'
  OBVIOUS
<1>1. ASSUME NEW k \in Keys, KeyPress(k) PROVE QueueOK'
  BY <1>1, PressQueues
<1>2. ASSUME NEW k \in Keys, KeyRelease(k) PROVE QueueOK'
  BY <1>2 DEF KeyRelease, QueueOK
<1>3. ASSUME NEW b \in Buttons, ButtonPress(b) \/ ButtonRelease(b) PROVE QueueOK'
  BY <1>3, ClickQueues DEF ButtonPress, ButtonRelease
<1>4. CASE MouseMove
  BY <1>4, MoveQueues
<1>5. CASE TakeEvent
  BY <1>5, TakeQueues
<1>6. CASE UNCHANGED vars
  BY <1>6 DEF vars, QueueOK
<1> QED
  BY <1>1, <1>2, <1>3, <1>4, <1>5, <1>6 DEF Next, HookStep

\* Everything else of TypeOK.
PlainInv == /\ FlagInv /\ hook \in {"listening", "dead"} /\ pressed \subseteq Keys
            /\ buttons \subseteq Buttons /\ held \subseteq Buttons /\ lost \subseteq Buttons

LEMMA PlainStep == PlainInv /\ QueueOK /\ [Next]_vars => PlainInv'
<1> SUFFICES ASSUME PlainInv, QueueOK, [Next]_vars PROVE PlainInv'
  OBVIOUS
<1>0. FlagInv'
  BY FlagStep DEF PlainInv
<1> USE DEF PlainInv
<1>1. ASSUME NEW k \in Keys, KeyPress(k) \/ KeyRelease(k) PROVE PlainInv'
  BY <1>0, <1>1 DEF KeyPress, KeyRelease, user
<1>3. ASSUME NEW b \in Buttons, ButtonPress(b) \/ ButtonRelease(b) PROVE PlainInv'
  <2>1. /\ hook' = hook /\ pressed' = pressed /\ buttons' = buttons
        /\ held' = held \cup {b} \/ held' = held \ {b}
    BY <1>3 DEF ButtonPress, ButtonRelease, Click
  <2>2. lost' \subseteq Buttons
    BY <1>3 DEF ButtonPress, ButtonRelease
  <2> QED
    BY <1>0, <2>1, <2>2
<1>4. CASE MouseMove \/ UNCHANGED vars
  BY <1>0, <1>4 DEF MouseMove, vars, user
<1>5. CASE TakeEvent
  <2>1. Head(queue) \in Items
    BY <1>5, TakeQueues
  <2>2. ButtonsOf(Head(queue)) \subseteq Buttons
    BY <2>1 DEF ButtonsOf, Items
  <2>3. Forgets(Head(queue)) \subseteq Buttons
    BY <2>1 DEF Forgets, Items
  <2> QED
    BY <1>0, <1>5, <2>2, <2>3 DEF TakeEvent
<1> QED
  BY <1>1, <1>3, <1>4, <1>5 DEF Next, HookStep

LEMMA QueueInit == Init => PlainInv /\ QueueOK
<1> SUFFICES ASSUME Init PROVE PlainInv /\ QueueOK
  OBVIOUS
<1>1. PlainInv
  BY DEF Init, PlainInv, FlagInv, AllOff
<1>2. queue \in Seq(Items) /\ Len(queue) = 0
  BY EmptySeq DEF Init
<1> QED
  BY <1>1, <1>2, QueueAssumption DEF QueueOK

\* The queue of events takes no more than its capacity, and what waits in it are
\* events of this keyboard and mouse (try_send).
THEOREM CaptureTypeCorrectness == Spec => []TypeOK
<1>1. PlainInv /\ QueueOK => TypeOK
  <2> SUFFICES ASSUME PlainInv, QueueOK PROVE TypeOK
    OBVIOUS
  <2>1. queue \in Seq([type : ItemTypes, of : Keys \cup Buttons \cup {"delta"},
                       mods : SUBSET {"ctrl", "alt", "shift"}])
    <3>1. Items \subseteq [type : ItemTypes, of : Keys \cup Buttons \cup {"delta"},
                           mods : SUBSET {"ctrl", "alt", "shift"}]
      BY DEF Items
    <3> QED
      BY <3>1, SeqMonotonic DEF QueueOK
  <2> QED
    BY <2>1 DEF TypeOK, PlainInv, FlagInv, QueueOK
<1> QED
  BY <1>1, QueueInit, QueueStep, PlainStep, PTL DEF Spec

-----------------------------------------------------------------------------
(* Buttons *)

\* The buttons that are down on the device (0) or by an item of the queue.
Says(i) == IF i = 0 THEN buttons ELSE ButtonsOf(queue[i])

IsReleaseOf(j, b) == queue[j].type = "ButtonRelease" /\ queue[j].of = b

\* A button that is down for the device or for an item of the queue is held, or
\* its release waits further behind, or that release was lost.
ReleasesFollow ==
    \A i \in 0..Len(queue) : \A b \in Says(i) :
        b \in held \cup lost \/ \E j \in 1..Len(queue) : i < j /\ IsReleaseOf(j, b)

\* A key adds items of keys, which say nothing of buttons.
LEMMA KeysAreSilent ==
    ASSUME NEW q \in Seq(Items), NEW after, Takes(q, after)
    PROVE  /\ \A i \in 1..Len(q) : i \in 1..Len(after) /\ after[i] = q[i]
           /\ \A i \in 1..Len(after) : i \in 1..Len(q) \/ after[i].type \notin MouseTypes
           /\ after \in Seq(Items)
<1>1. CASE after = q
  BY <1>1
<1>2. ASSUME NEW x \in KeyItemSet, after = Append(q, x)
      PROVE  /\ \A i \in 1..Len(q) : i \in 1..Len(after) /\ after[i] = q[i]
             /\ \A i \in 1..Len(after) : i \in 1..Len(q) \/ after[i].type \notin MouseTypes
             /\ after \in Seq(Items)
  <2>1. x \in Items /\ x.type \notin MouseTypes
    BY DEF KeyItemSet, KeyTypes, MouseTypes
  <2>2. /\ Len(after) = Len(q) + 1 /\ after[Len(q) + 1] = x /\ after \in Seq(Items)
        /\ \A i \in 1..Len(q) : after[i] = q[i]
    BY <1>2, <2>1, AppendProperties
  <2>3. Len(q) \in Nat
    BY LenProperties
  <2> QED
    BY <2>1, <2>2, <2>3
<1> QED
  BY <1>1, <1>2 DEF Takes

\* The queue grows at its end, by items that say nothing of buttons but those
\* held; what was excused so far stays so, or by a release just added.
LEMMA Grows ==
    ASSUME ReleasesFollow, QueueOK, QueueOK', buttons' = buttons,
           \A i \in 1..Len(queue) : i \in 1..Len(queue') /\ queue'[i] = queue[i],
           \A i \in 1..Len(queue') :
              i \in 1..Len(queue) \/ ButtonsOf(queue'[i]) \subseteq held',
           \A b \in held \cup lost :
              \/ b \in held' \cup lost'
              \/ \E j \in 1..Len(queue') : Len(queue) < j /\ IsReleaseOf(j, b)'
    PROVE  ReleasesFollow'
<1>1. Len(queue) \in Nat /\ Len(queue') \in Nat
  BY LenProperties DEF QueueOK
<1>2. SUFFICES ASSUME NEW i \in 0..Len(queue'), NEW b \in Says(i)'
               PROVE  \/ b \in held' \cup lost'
                      \/ \E j \in 1..Len(queue') : i < j /\ IsReleaseOf(j, b)'
  BY DEF ReleasesFollow
<1>3. CASE i \in 0..Len(queue)
  <2>1. b \in Says(i)
    BY <1>1, <1>2, <1>3 DEF Says
  <2>2. CASE b \in held \cup lost
    BY <1>1, <1>3, <2>2
  <2>3. ASSUME NEW j \in 1..Len(queue), i < j, IsReleaseOf(j, b)
        PROVE  j \in 1..Len(queue') /\ IsReleaseOf(j, b)'
    BY <2>3 DEF IsReleaseOf
  <2> QED
    BY <1>3, <2>1, <2>2, <2>3 DEF ReleasesFollow
<1>4. CASE i \notin 0..Len(queue)
  <2>1. i \in 1..Len(queue') /\ i \notin 1..Len(queue) /\ i # 0
    BY <1>1, <1>4
  <2>2. b \in ButtonsOf(queue'[i])
    BY <1>2, <2>1 DEF Says
  <2> QED
    BY <2>1, <2>2
<1> QED
  BY <1>3, <1>4

\* Above all when nothing is added, or items of keys.
LEMMA Undisturbed ==
    ASSUME ReleasesFollow, QueueOK, QueueOK', UNCHANGED <<buttons, held, lost>>,
           \A i \in 1..Len(queue) : i \in 1..Len(queue') /\ queue'[i] = queue[i],
           \A i \in 1..Len(queue') :
              i \in 1..Len(queue) \/ ButtonsOf(queue'[i]) = {}
    PROVE  ReleasesFollow'
BY Grows

\* Or the item of a click, or of a move.
LEMMA MouseGrows ==
    ASSUME ReleasesFollow, QueueOK, QueueOK', buttons' = buttons, NEW x \in Items,
           queue' = Append(queue, x), ButtonsOf(x) \subseteq held',
           \A b \in held \cup lost :
              b \in held' \cup lost' \/ (x.type = "ButtonRelease" /\ x.of = b)
    PROVE  ReleasesFollow'
<1>1. PICK m : m = Len(queue) + 1
  OBVIOUS
<1>2. /\ m \in Nat /\ m > 0 /\ Len(queue) \in Nat /\ Len(queue) < m
      /\ Len(queue') = m /\ queue'[m] = x
      /\ \A i \in 1..Len(queue) : queue'[i] = queue[i]
  BY <1>1, AppendProperties, LenProperties DEF QueueOK
<1>3. \A i \in 1..Len(queue') : i \in 1..Len(queue) \/ i = m
  BY <1>1, <1>2
<1>4. \A i \in 1..Len(queue) : i \in 1..Len(queue') /\ queue'[i] = queue[i]
  BY <1>2
<1>5. ASSUME NEW b \in held \cup lost
      PROVE  \/ b \in held' \cup lost'
             \/ \E j \in 1..Len(queue') : Len(queue) < j /\ IsReleaseOf(j, b)'
  <2>1. m \in 1..Len(queue')
    BY <1>2
  <2>2. CASE x.type = "ButtonRelease" /\ x.of = b
    BY <1>2, <2>1, <2>2 DEF IsReleaseOf
  <2> QED
    BY <1>5, <2>2
<1>6. \A i \in 1..Len(queue') :
         i \in 1..Len(queue) \/ ButtonsOf(queue'[i]) \subseteq held'
  BY <1>2, <1>3
<1> QED
  BY <1>4, <1>5, <1>6, Grows

LEMMA TakeFollows ==
    ASSUME QueueOK, ReleasesFollow, TakeEvent PROVE ReleasesFollow'
<1> DEFINE n == Len(queue)
<1>1. /\ n \in Nat /\ n > 0 /\ Len(queue') = n - 1
      /\ \A i \in 1..(n - 1) : queue'[i] = queue[i + 1]
  BY TakeQueues
<1>2. queue[1] = Head(queue)
  <2>1. queue \in Seq(Items)
    BY DEF QueueOK
  <2> HIDE DEF Items
  <2> QED
    BY <1>1, <2>1
<1> HIDE DEF n
<1>3. held' = held /\ lost \subseteq lost'
  BY DEF TakeEvent
\* What the device has in the end, the queue said of it before.
<1>4. ASSUME NEW b \in buttons'
      PROVE  \/ b \in ButtonsOf(queue[1])
             \/ b \in buttons /\ (IsReleaseOf(1, b) => b \in held \cup lost')
  BY <1>2, <1>4 DEF TakeEvent, Forgets, IsReleaseOf
<1>5. ASSUME NEW i \in 0..n, NEW b, i >= 1 \/ (IsReleaseOf(1, b) => b \in held \cup lost'),
             b \in held \cup lost \/ \E j \in 1..n : i < j /\ IsReleaseOf(j, b)
      PROVE  \/ b \in held' \cup lost'
             \/ \E j \in 1..(n - 1) : i - 1 < j /\ IsReleaseOf(j, b)'
  <2>1. CASE b \in held \cup lost
    BY <1>3, <2>1
  <2>2. ASSUME NEW j \in 1..n, i < j, IsReleaseOf(j, b)
        PROVE  \/ b \in held' \cup lost'
               \/ \E k \in 1..(n - 1) : i - 1 < k /\ IsReleaseOf(k, b)'
    <3>1. CASE j = 1
      BY <1>1, <1>3, <1>5, <2>2, <3>1
    <3>2. CASE j # 1
      <4>1. j - 1 \in 1..(n - 1) /\ i - 1 < j - 1 /\ (j - 1) + 1 = j
        BY <1>1, <2>2, <3>2
      <4>2. IsReleaseOf(j - 1, b)'
        BY <1>1, <2>2, <4>1 DEF IsReleaseOf
      <4> QED
        BY <4>1, <4>2
    <3> QED
      BY <3>1, <3>2
  <2> QED
    BY <1>5, <2>1, <2>2
<1>6. ASSUME NEW i \in 0..(n - 1), NEW b \in Says(i)'
      PROVE  \/ b \in held' \cup lost'
             \/ \E j \in 1..(n - 1) : i < j /\ IsReleaseOf(j, b)'
  <2>1. CASE i # 0 \/ b \in ButtonsOf(queue[1])
    <3>1. i + 1 \in 0..n /\ i + 1 >= 1 /\ (i + 1) - 1 = i /\ b \in Says(i + 1)
      BY <1>1, <1>6, <2>1 DEF Says
    <3>2. b \in held \cup lost \/ \E j \in 1..n : i + 1 < j /\ IsReleaseOf(j, b)
      BY <3>1 DEF ReleasesFollow, n
    <3> QED
      BY <1>5, <3>1, <3>2
  <2>2. CASE i = 0 /\ b \notin ButtonsOf(queue[1])
    <3>1. b \in buttons /\ (IsReleaseOf(1, b) => b \in held \cup lost')
      BY <1>4, <1>6, <2>2 DEF Says
    <3>2. b \in held \cup lost \/ \E j \in 1..n : 0 < j /\ IsReleaseOf(j, b)
      <4>1. 0 \in 0..Len(queue) /\ b \in Says(0)
        BY <1>1, <3>1 DEF Says, n
      <4> QED
        BY <4>1 DEF ReleasesFollow, n
    <3>3. \/ b \in held' \cup lost'
          \/ \E j \in 1..(n - 1) : 0 - 1 < j /\ IsReleaseOf(j, b)'
      <4>1. 0 \in 0..n
        BY <1>1
      <4> QED
        BY <1>5, <3>1, <3>2, <4>1
    <3> QED
      BY <2>2, <3>3
  <2> QED
    BY <2>1, <2>2
<1> QED
  BY <1>1, <1>6 DEF ReleasesFollow

LEMMA FollowStep == QueueOK /\ ReleasesFollow /\ [Next]_vars => ReleasesFollow'
<1> SUFFICES ASSUME QueueOK, ReleasesFollow, [Next]_vars PROVE ReleasesFollow'
  OBVIOUS
<1>0. QueueOK'
  BY QueueStep
<1>1. ASSUME NEW k \in Keys, KeyPress(k) PROVE ReleasesFollow'
  <2>1. PICK q \in Seq(Items) : Takes(queue, q) /\ Takes(q, queue')
    BY <1>1, PressQueues
  <2>2. /\ \A i \in 1..Len(queue) : i \in 1..Len(q) /\ q[i] = queue[i]
        /\ \A i \in 1..Len(q) : i \in 1..Len(queue) \/ q[i].type \notin MouseTypes
    BY <2>1, KeysAreSilent DEF QueueOK
  <2>3. /\ \A i \in 1..Len(q) : i \in 1..Len(queue') /\ queue'[i] = q[i]
        /\ \A i \in 1..Len(queue') : i \in 1..Len(q) \/ queue'[i].type \notin MouseTypes
    BY <2>1, KeysAreSilent
  <2>4. UNCHANGED <<buttons, held, lost>>
    BY <1>1 DEF KeyPress
  <2>5. \A x : x.type \notin MouseTypes => ButtonsOf(x) = {}
    BY DEF MouseTypes, ButtonsOf
  <2> QED
    BY <1>0, <2>2, <2>3, <2>4, <2>5, Undisturbed
<1>2. ASSUME UNCHANGED <<queue, buttons>>, held \cup lost \subseteq held' \cup lost'
      PROVE  ReleasesFollow'
  BY <1>0, <1>2, Grows
<1>3. ASSUME NEW k \in Keys, KeyRelease(k) PROVE ReleasesFollow'
  BY <1>2, <1>3 DEF KeyRelease, user
<1>4. ASSUME NEW b \in Buttons, ButtonPress(b) PROVE ReleasesFollow'
  <2>1. held' = held \cup {b} /\ lost' = lost \ {b} /\ buttons' = buttons
    BY <1>4 DEF ButtonPress, Click
  <2>2. queue' = queue \/ queue' = Append(queue, Item("ButtonPress", b, {}))
    BY <1>4, ClickQueues DEF ButtonPress
  <2>3. /\ Item("ButtonPress", b, {}) \in Items
        /\ ButtonsOf(Item("ButtonPress", b, {})) \subseteq held'
    BY <2>1 DEF ButtonsOf, Item, Items, ItemTypes
  <2> QED
    BY <1>0, <1>2, <2>1, <2>2, <2>3, MouseGrows
<1>5. ASSUME NEW b \in Buttons, ButtonRelease(b) PROVE ReleasesFollow'
  <2>1. held' = held \ {b} /\ buttons' = buttons /\ lost \subseteq lost'
    BY <1>5 DEF ButtonRelease, Click
  <2>2. queue' = queue \/ queue' = Append(queue, Item("ButtonRelease", b, {}))
    BY <1>5, ClickQueues DEF ButtonRelease
  <2>3. CASE queue' = queue
    <3>1. lost' = lost \cup {b}
      BY <1>5, <2>3 DEF ButtonRelease
    <3> QED
      BY <1>2, <2>1, <2>3, <3>1
  <2>4. CASE queue' = Append(queue, Item("ButtonRelease", b, {}))
    <3>1. /\ Item("ButtonRelease", b, {}) \in Items
          /\ ButtonsOf(Item("ButtonRelease", b, {})) = {}
          /\ Item("ButtonRelease", b, {}).type = "ButtonRelease"
          /\ Item("ButtonRelease", b, {}).of = b
      BY DEF ButtonsOf, Item, Items, ItemTypes
    <3> QED
      BY <1>0, <2>1, <2>4, <3>1, MouseGrows
  <2> QED
    BY <2>2, <2>3, <2>4
<1>6. CASE MouseMove
  <2>1. UNCHANGED <<buttons, held, lost>>
    BY <1>6 DEF MouseMove, user
  <2>2. queue' = queue \/ queue' = Append(queue, Item("MouseMove", "delta", {}))
    BY <1>6, MoveQueues
  <2>3. /\ Item("MouseMove", "delta", {}) \in Items
        /\ ButtonsOf(Item("MouseMove", "delta", {})) = {}
    BY DEF ButtonsOf, Item, Items, ItemTypes
  <2> QED
    BY <1>0, <1>2, <2>1, <2>2, <2>3, MouseGrows
<1>7. CASE TakeEvent
  BY <1>7, TakeFollows
<1>8. CASE UNCHANGED vars
  BY <1>2, <1>8 DEF vars, user
<1> QED
  BY <1>1, <1>3, <1>4, <1>5, <1>6, <1>7, <1>8 DEF Next, HookStep

\* Once the queue is empty, no button stays down on the device that the user has
\* let go of, but for those whose own last release was lost.
THEOREM ButtonsComeUp == Spec => []NoButtonSticks
<1>1. Init => ReleasesFollow
  BY DEF Init, ReleasesFollow, Says
<1>2. QueueOK /\ ReleasesFollow => NoButtonSticks
  BY DEF ReleasesFollow, NoButtonSticks, Says
<1> QED
  BY <1>1, <1>2, QueueInit, QueueStep, FollowStep, PTL DEF Spec

-----------------------------------------------------------------------------
(* What enters the queue *)

\* Behind q, which stays as it is, come only items whose flag is published.
Extends(q, after) ==
    /\ after \in Seq(Items) /\ DOMAIN q \subseteq DOMAIN after
    /\ \A i \in DOMAIN q : after[i] = q[i]
    /\ \A i \in DOMAIN after \ DOMAIN q : flags[FlagFor(after[i])]

LEMMA OfferExtends ==
    ASSUME NEW q \in Seq(Items), NEW items,
           \/ items = <<>>
           \/ \E x \in Items : items = <<x>> /\ flags[FlagFor(x)]
    PROVE  Extends(q, Offer(q, items))
<1>1. Extends(q, q)
  BY DEF Extends
<1>2. CASE items = <<>>
  <2>1. q \o items = q
    BY <1>2
  <2> QED
    BY <1>1, <2>1 DEF Offer
<1>3. ASSUME NEW x \in Items, items = <<x>>, flags[FlagFor(x)]
      PROVE  Extends(q, Offer(q, items))
  <2>1. q \o items = Append(q, x)
    BY <1>3, AppendIsConcat
  <2>2. /\ Append(q, x) \in Seq(Items) /\ Len(q) \in Nat
        /\ Len(Append(q, x)) = Len(q) + 1
        /\ \A i \in 1..Len(q) : Append(q, x)[i] = q[i]
        /\ Append(q, x)[Len(q) + 1] = x
    BY <1>3, AppendProperties
  <2>3. DOMAIN q = 1..Len(q) /\ DOMAIN Append(q, x) = 1..(Len(q) + 1)
    BY <2>2, LenProperties
  <2>4. \A i \in 1..(Len(q) + 1) : i \notin 1..Len(q) => i = Len(q) + 1
    BY <2>2
  <2>5. Extends(q, Append(q, x))
    BY <1>3, <2>2, <2>3, <2>4 DEF Extends
  <2> QED
    BY <1>1, <2>1, <2>5 DEF Offer
<1> QED
  BY <1>2, <1>3

LEMMA ExtendsTwice ==
    ASSUME NEW q, NEW r, NEW s, Extends(q, r), Extends(r, s) PROVE Extends(q, s)
<1>1. ASSUME NEW i \in DOMAIN s \ DOMAIN q PROVE flags[FlagFor(s[i])]
  <2>1. CASE i \in DOMAIN r
    BY <1>1, <2>1 DEF Extends
  <2>2. CASE i \notin DOMAIN r
    BY <1>1, <2>2 DEF Extends
  <2> QED
    BY <2>1, <2>2
<1> QED
  BY <1>1 DEF Extends

\* A key adds the clipboard, if that flag is on, and then itself, if its own is.
LEMMA PressExtends ==
    ASSUME NEW k \in Keys, KeyPress(k), QueueOK PROVE Extends(queue, queue')
<1> DEFINE typed == IF current'["key"] THEN KeyItems(k, pressed') ELSE <<>>
           pasted == <<Item("Clipboard", k, {})>>
<1>1. current' = flags
  BY DEF KeyPress, Refreshed
<1>2. typed = <<>> \/ \E x \in Items : typed = <<x>> /\ flags[FlagFor(x)]
  <2>1. Modifiers(pressed') \in SUBSET {"ctrl", "alt", "shift"}
    BY DEF Modifiers
  <2>2. /\ Item("Keycode", k, Modifiers(pressed')) \in Items
        /\ Item("KeyPress", k, {}) \in Items
        /\ FlagFor(Item("Keycode", k, Modifiers(pressed'))) = "key"
        /\ FlagFor(Item("KeyPress", k, {})) = "key"
    BY <2>1 DEF Item, Items, ItemTypes, FlagFor
  <2> QED
    BY <1>1, <2>2 DEF KeyItems, HidReport
<1>3. Item("Clipboard", k, {}) \in Items /\ FlagFor(Item("Clipboard", k, {})) = "clipboard"
  BY DEF Item, Items, ItemTypes, FlagFor
<1>4. \/ queue' = Offer(queue, typed)
      \/ flags["clipboard"] /\ queue' = Offer(Offer(queue, pasted), typed)
      \/ flags["clipboard"] /\ queue' = queue
  BY <1>1 DEF KeyPress, Pastes
<1> HIDE DEF typed, pasted
<1>5. CASE queue' = Offer(queue, typed)
  BY <1>2, <1>5, OfferExtends DEF QueueOK
<1>6. CASE flags["clipboard"] /\ queue' = Offer(Offer(queue, pasted), typed)
  <2>1. \E x \in Items : pasted = <<x>> /\ flags[FlagFor(x)]
    BY <1>3, <1>6 DEF pasted
  <2>2. Extends(queue, Offer(queue, pasted))
    BY <2>1, OfferExtends DEF QueueOK
  <2>3. Offer(queue, pasted) \in Seq(Items)
    BY <2>2 DEF Extends
  <2>4. Extends(Offer(queue, pasted), queue')
    BY <1>2, <1>6, <2>3, OfferExtends
  <2> QED
    BY <2>2, <2>4, ExtendsTwice
<1>7. CASE queue' = queue
  BY <1>7 DEF Extends, QueueOK
<1> QED
  BY <1>4, <1>5, <1>6, <1>7

\* An event of the mouse adds itself if the flag of the mouse is on.
LEMMA MouseExtends ==
    ASSUME QueueOK, NEW x \in Items, x.type \in MouseTypes,
           queue' = queue \/ (flags["mouse"] /\ queue' = Offer(queue, <<x>>))
    PROVE  Extends(queue, queue')
<1>1. FlagFor(x) = "mouse"
  BY DEF FlagFor, MouseTypes
<1>2. CASE queue' = queue
  BY <1>2 DEF Extends, QueueOK
<1>3. CASE flags["mouse"] /\ queue' = Offer(queue, <<x>>)
  BY <1>1, <1>3, OfferExtends DEF QueueOK
<1> QED
  BY <1>2, <1>3

\* What is not captured never enters the queue, and what waits there stays in
\* order, for every keyboard and capacity (handle_event, try_send).
THEOREM NothingElseIsQueued == Spec => OnlyCapturedIsQueued
<1> DEFINE Right == \/ queue # <<>> /\ queue' = Tail(queue)
                    \/ /\ \A i \in DOMAIN queue : queue'[i] = queue[i]
                       /\ \A i \in DOMAIN queue' \ DOMAIN queue :
                             flags[FlagFor(queue'[i])]
<1>1. ASSUME QueueOK, Next PROVE Right
  <2>1. Extends(queue, queue') => Right
    BY DEF Extends
  <2> HIDE DEF Right
  <2>2. ASSUME NEW k \in Keys, KeyPress(k) PROVE Right
    BY <1>1, <2>1, <2>2, PressExtends
  <2>3. ASSUME NEW k \in Keys, KeyRelease(k) PROVE Right
    <3>1. Extends(queue, queue')
      BY <1>1, <2>3 DEF KeyRelease, Extends, QueueOK
    <3> QED
      BY <2>1, <3>1
  <2>4. ASSUME NEW b \in Buttons, NEW type \in {"ButtonPress", "ButtonRelease"},
               Click(type, b)
        PROVE  Right
    <3>1. Item(type, b, {}) \in Items /\ Item(type, b, {}).type \in MouseTypes
      BY <2>4 DEF Item, Items, ItemTypes, MouseTypes
    <3>2. queue' = queue \/ (flags["mouse"] /\ queue' = Offer(queue, <<Item(type, b, {})>>))
      BY <2>4 DEF Click, Refreshed
    <3> QED
      BY <1>1, <2>1, <3>1, <3>2, MouseExtends
  <2>5. CASE MouseMove
    <3> DEFINE x == Item("MouseMove", "delta", {})
    <3>1. x \in Items /\ x.type \in MouseTypes
      BY DEF Item, Items, ItemTypes, MouseTypes
    <3>2. flags["mouse"] /\ queue' = Offer(queue, <<x>>)
      BY <2>5 DEF MouseMove, Refreshed
    <3> HIDE DEF x
    <3> QED
      BY <1>1, <2>1, <3>1, <3>2, MouseExtends
  <2>6. CASE TakeEvent
    BY <2>6 DEF TakeEvent, Right
  <2> QED
    BY <1>1, <2>2, <2>3, <2>4, <2>5, <2>6
    DEF Next, HookStep, ButtonPress, ButtonRelease
<1>2. QueueOK /\ [Next]_vars => [Right]_vars
  <2> HIDE DEF Right
  <2> QED
    BY <1>1
<1> QED
  BY <1>2, QueueInit, QueueStep, PTL DEF Spec, OnlyCapturedIsQueued

-----------------------------------------------------------------------------
(* The packets of a text *)

LEMMA MinOfTwo ==
    ASSUME NEW a \in Int, NEW b \in Int
    PROVE  Sets!Min({a, b}) = IF a <= b THEN a ELSE b
<1>1. \A x \in {a, b} : (\A y \in {a, b} : x =< y) => x = IF a <= b THEN a ELSE b
  OBVIOUS
<1>2. \E x \in {a, b} : \A y \in {a, b} : x =< y
  OBVIOUS
<1> QED
  BY <1>1, <1>2 DEF Sets!Min

LEMMA Division ==
    ASSUME NEW n \in Nat, NEW c \in Nat \ {0}
    PROVE  n \div c \in Nat /\ c * (n \div c) <= n /\ n < c * (n \div c) + c
<1>1. n \div c \in Nat
  BY Z3
<1>2. c * (n \div c) <= n
  BY Z3
<1>3. n < c * (n \div c) + c
  BY Z3
<1> QED
  BY <1>1, <1>2, <1>3

\* A product with the packet size grows with the other factor.
LEMMA Times ==
    ASSUME NEW a \in Int, NEW b \in Int, NEW c \in Nat \ {0}
    PROVE  /\ a <= b => a * c <= b * c
           /\ (a + 1) * c = a * c + c /\ (a - 1) * c = a * c - c
           /\ a * c \in Int /\ a * c = c * a
BY Z3

LEMMA Slice ==
    ASSUME NEW T, NEW text \in Seq(T), NEW b \in Nat, NEW m \in Nat, b < m, m <= Len(text)
    PROVE  /\ Len(SubSeq(text, b + 1, m)) = m - b
           /\ DOMAIN SubSeq(text, b + 1, m) = 1..(m - b)
           /\ \A j \in 1..(m - b) : SubSeq(text, b + 1, m)[j] = text[b + j]
<1>1. SubSeq(text, b + 1, m) = [j \in 1..(1 + m - (b + 1)) |-> text[b + 1 + j - 1]]
  OBVIOUS
<1>2. 1 + m - (b + 1) = m - b
  OBVIOUS
<1>3. \A j \in 1..(m - b) : b + 1 + j - 1 = b + j
  OBVIOUS
<1> QED
  BY <1>1, <1>2, <1>3

\* Some family of sets of positions has one that none of the others is within.
LEMMA SmallestSet ==
    ASSUME NEW D, IsFiniteSet(D), NEW F, F # {}, \A X \in F : X \in SUBSET D
    PROVE  \E X \in F : \A Y \in F : Y \subseteq X => Y = X
<1> DEFINE R == StrictSubsetOrdering(D)
<1>1. IsWellFoundedOn(R, SUBSET D)
  BY FS_FiniteSubsetsOfFinite, FS_StrictSubsetOrderingWellFounded
<1>2. F \subseteq SUBSET D
  OBVIOUS
<1> HIDE DEF R
<1>3. \E X \in F : \A Y \in F : ~ (<<Y, X>> \in R)
  BY <1>1, <1>2, WFMin, Zenon
<1>4. ASSUME NEW X \in F, NEW Y \in F, Y \subseteq X, Y # X
      PROVE  <<Y, X>> \in R
  BY <1>2, <1>4 DEF R, StrictSubsetOrdering
<1> QED
  BY <1>3, <1>4

\* The first and the last of some positions.
LEMMA FirstOf ==
    ASSUME NEW n \in Nat, NEW S \in SUBSET (1..n), S # {}
    PROVE  Sets!Min(S) \in S /\ \A y \in S : Sets!Min(S) <= y
<1> DEFINE F == {1..x : x \in S}
<1>1. F # {} /\ \A X \in F : X \in SUBSET (1..n)
  <2>1. \A x \in S : 1..x \in SUBSET (1..n)
    OBVIOUS
  <2> QED
    BY <2>1
<1>2. IsFiniteSet(1..n)
  BY FS_Interval
<1> HIDE DEF F
<1>3. PICK X \in F : \A Y \in F : Y \subseteq X => Y = X
  BY <1>1, <1>2, SmallestSet
<1>4. PICK x \in S : X = 1..x
  BY DEF F
<1>5. ASSUME NEW y \in S PROVE x <= y
  <2>1. 1..y \in F /\ x \in Int /\ y \in Int /\ 1 <= x
    BY DEF F
  <2>2. y < x => 1..y \subseteq X /\ x \in X /\ x \notin 1..y
    BY <1>4, <2>1
  <2>3. ~ (y < x)
    BY <1>3, <2>1, <2>2
  <2> QED
    BY <2>1, <2>3
<1> QED
  BY <1>5 DEF Sets!Min

LEMMA LastOf ==
    ASSUME NEW n \in Nat, NEW S \in SUBSET (1..n), S # {}
    PROVE  Sets!Max(S) \in S /\ \A y \in S : y <= Sets!Max(S)
<1> DEFINE F == {x..n : x \in S}
<1>1. F # {} /\ \A X \in F : X \in SUBSET (1..n)
  <2>1. \A x \in S : x..n \in SUBSET (1..n)
    OBVIOUS
  <2> QED
    BY <2>1
<1>2. IsFiniteSet(1..n)
  BY FS_Interval
<1> HIDE DEF F
<1>3. PICK X \in F : \A Y \in F : Y \subseteq X => Y = X
  BY <1>1, <1>2, SmallestSet
<1>4. PICK x \in S : X = x..n
  BY DEF F
<1>5. ASSUME NEW y \in S PROVE y <= x
  <2>1. y..n \in F /\ x \in Int /\ y \in Int /\ x <= n
    BY DEF F
  <2>2. x < y => y..n \subseteq X /\ x \in X /\ x \notin y..n
    BY <1>4, <2>1
  <2>3. ~ (x < y)
    BY <1>3, <2>1, <2>2
  <2> QED
    BY <2>1, <2>3
<1> QED
  BY <1>5 DEF Sets!Max

\* Whatever the text: trimming cuts blanks off its ends and nothing else, and leaves
\* no blank at either end (interface.rs, InputEvent::Clipboard).
THEOREM TrimKeepsTheInk ==
    ASSUME NEW T, NEW text \in Seq(T)
    PROVE  LET rest == Trimmed(text)
           IN  \E cut \in Nat :
                   /\ rest \in Seq(T) /\ cut + Len(rest) <= Len(text)
                   /\ \A j \in DOMAIN rest : rest[j] = text[cut + j]
                   /\ \A n \in DOMAIN text :
                         ~ (cut < n /\ n <= cut + Len(rest)) => text[n] \in Blank
                   /\ rest # <<>> => {rest[1], rest[Len(rest)]} \cap Blank = {}
<1> DEFINE ink == {i \in DOMAIN text : text[i] \notin Blank}
           rest == Trimmed(text)
<1>0. Len(text) \in Nat /\ DOMAIN text = 1..Len(text)
  BY LenProperties
<1>1. CASE ink = {}
  <2>1. rest = <<>>
    BY <1>1 DEF Trimmed
  <2>2. \A n \in DOMAIN text : text[n] \in Blank
    BY <1>1
  <2>3. Len(rest) = 0 /\ DOMAIN rest = {} /\ rest \in Seq(T)
    BY <2>1
  <2> HIDE DEF rest
  <2>4. /\ 0 + Len(rest) <= Len(text)
        /\ \A j \in DOMAIN rest : rest[j] = text[0 + j]
    BY <1>0, <2>3
  <2> QED
    BY <2>1, <2>2, <2>3, <2>4 DEF rest
<1>2. CASE ink # {}
  <2>0. ink \in SUBSET (1..Len(text))
    BY <1>0
  <2> DEFINE first == Sets!Min(ink)
             last == Sets!Max(ink)
  <2>1. rest = SubSeq(text, first, last)
    BY <1>2 DEF Trimmed
  <2>2. first \in ink /\ \A y \in ink : first <= y
    BY <1>0, <1>2, <2>0, FirstOf
  <2>3. last \in ink /\ \A y \in ink : y <= last
    BY <1>0, <1>2, <2>0, LastOf
  <2>4. /\ first \in 1..Len(text) /\ last \in 1..Len(text) /\ first <= last
        /\ text[first] \notin Blank /\ text[last] \notin Blank
    BY <1>0, <2>2, <2>3
  <2>5. ASSUME NEW n \in DOMAIN text, n < first \/ last < n PROVE text[n] \in Blank
    <3>1. n \in ink => first <= n /\ n <= last
      BY <2>2, <2>3
    <3>2. n \notin ink
      <4> HIDE DEF first, last, ink
      <4> QED
        BY <1>0, <2>4, <2>5, <3>1
    <3> QED
      BY <3>2
  <2> HIDE DEF first, last, ink, rest
  <2>6. PICK cut \in Nat : cut + 1 = first /\ cut < last /\ last <= Len(text)
    <3>1. first - 1 \in Nat /\ first - 1 + 1 = first
      BY <2>4
    <3> QED
      BY <1>0, <2>4, <3>1
  <2>7. /\ Len(rest) = last - cut
        /\ DOMAIN rest = 1..(last - cut)
        /\ \A j \in 1..(last - cut) : rest[j] = text[cut + j]
    BY <1>0, <2>1, <2>4, <2>6, Slice
  <2>8. rest \in Seq(T)
    BY <1>0, <2>1, <2>4, SubSeqProperties
  <2>9. cut + Len(rest) = last /\ last \in Nat
    BY <2>4, <2>6, <2>7
  <2>10. rest[1] = text[first] /\ rest[Len(rest)] = text[last]
    BY <2>4, <2>6, <2>7
  <2>11. \A n \in DOMAIN text : ~ (cut < n /\ n <= cut + Len(rest)) => text[n] \in Blank
    BY <1>0, <2>4, <2>5, <2>6, <2>9
  <2>12. /\ cut + Len(rest) <= Len(text)
         /\ \A j \in DOMAIN rest : rest[j] = text[cut + j]
         /\ {rest[1], rest[Len(rest)]} \cap Blank = {}
    BY <2>4, <2>6, <2>7, <2>9, <2>10
  <2> QED
    BY <2>8, <2>11, <2>12 DEF rest
<1> QED
  BY <1>1, <1>2

\* A packet has the place in the text that its number says.
LEMMA ChunkBounds ==
    ASSUME NEW T, NEW text \in Seq(T), NEW i \in DOMAIN Chunks(text)
    PROVE  /\ i \in Nat \ {0} /\ (i - 1) * ChunkSize \in Nat /\ i * ChunkSize \in Nat
           /\ (i - 1) * ChunkSize < Len(text) /\ i * ChunkSize = (i - 1) * ChunkSize + ChunkSize
           /\ (i < Len(Chunks(text))) => i * ChunkSize < Len(text)
           /\ \E m \in Nat :
                 /\ Chunks(text)[i] = SubSeq(text, (i - 1) * ChunkSize + 1, m)
                 /\ m = IF i * ChunkSize <= Len(text) THEN i * ChunkSize ELSE Len(text)
<1> DEFINE l == Len(text)
           q == (l + ChunkSize - 1) \div ChunkSize
<1>0. l \in Nat /\ ChunkSize \in Nat \ {0}
  BY PacketSizes, LenProperties
<1>1. q \in Nat /\ ChunkSize * q <= l + ChunkSize - 1
  BY <1>0, Division
<1>2. DOMAIN Chunks(text) = 1..q /\ Len(Chunks(text)) = q
  BY <1>1 DEF Chunks
<1> HIDE DEF l, q
<1>3. i \in 1..q
  BY <1>2
<1>4. (i - 1) * ChunkSize \in Nat /\ i * ChunkSize \in Nat
      /\ i * ChunkSize = (i - 1) * ChunkSize + ChunkSize
  <2>1. 0 * ChunkSize = 0 /\ 0 * ChunkSize <= (i - 1) * ChunkSize
    BY <1>0, <1>1, <1>3, Times
  <2> QED
    BY <1>0, <1>1, <1>3, <2>1, Times
<1>5. i * ChunkSize <= q * ChunkSize /\ (i < q => i * ChunkSize + ChunkSize <= q * ChunkSize)
  <2>1. i < q => (i + 1) * ChunkSize <= q * ChunkSize
    BY <1>0, <1>1, <1>3, Times
  <2> QED
    BY <1>0, <1>1, <1>3, <2>1, Times
<1>6. q * ChunkSize <= l + ChunkSize - 1
  BY <1>0, <1>1, Times
<1>7. Chunks(text)[i] = SubSeq(text, (i - 1) * ChunkSize + 1, Sets!Min({i * ChunkSize, l}))
  BY <1>2, <1>3 DEF Chunks, l, q
<1>8. Sets!Min({i * ChunkSize, l}) = IF i * ChunkSize <= l THEN i * ChunkSize ELSE l
  BY <1>0, <1>4, MinOfTwo
<1>9. (i - 1) * ChunkSize < l /\ (i < q => i * ChunkSize < l)
  <2>1. q * ChunkSize \in Int
    BY <1>0, <1>1, Times
  <2> QED
    BY <1>0, <1>1, <1>3, <1>4, <1>5, <1>6, <2>1
<1>10. PICK m : m = IF i * ChunkSize <= l THEN i * ChunkSize ELSE l
  OBVIOUS
<1>11. m \in Nat /\ Chunks(text)[i] = SubSeq(text, (i - 1) * ChunkSize + 1, m)
  BY <1>0, <1>4, <1>7, <1>8, <1>10
<1>12. i \in Nat \ {0}
  BY <1>1, <1>3
<1> QED
  BY <1>2, <1>4, <1>9, <1>10, <1>11, <1>12 DEF l

\* Whatever the text and the packet size: no packet is empty or too long, only the
\* last is short, and the packets one after the other are the text, no character
\* lost, repeated or moved (packets.rs, create_keyboard_stream).
THEOREM ChunksAreTheText ==
    ASSUME NEW T, NEW text \in Seq(T)
    PROVE  LET packets == Chunks(text)
           IN  /\ \A i \in DOMAIN packets :
                     /\ Len(packets[i]) \in 1..ChunkSize
                     /\ i < Len(packets) => Len(packets[i]) = ChunkSize
               /\ \A n \in DOMAIN text : \E i \in DOMAIN packets : \E j \in DOMAIN packets[i] :
                     n = Place(i, j)
               /\ \A i \in DOMAIN packets : \A j \in DOMAIN packets[i] :
                     \E n \in DOMAIN text : n = Place(i, j) /\ packets[i][j] = text[n]
<1> DEFINE l == Len(text)
           packets == Chunks(text)
<1>0. l \in Nat /\ ChunkSize \in Nat \ {0} /\ DOMAIN text = 1..l
  BY PacketSizes, LenProperties
<1>1. ASSUME NEW i \in DOMAIN packets
      PROVE  \E m \in Nat :
                /\ i \in Nat \ {0} /\ (i - 1) * ChunkSize \in Nat /\ (i - 1) * ChunkSize < m
                /\ m <= l /\ m <= (i - 1) * ChunkSize + ChunkSize
                /\ m = l \/ m = (i - 1) * ChunkSize + ChunkSize
                /\ i < Len(packets) => m = (i - 1) * ChunkSize + ChunkSize
                /\ packets[i] = SubSeq(text, (i - 1) * ChunkSize + 1, m)
                /\ Len(packets[i]) = m - (i - 1) * ChunkSize
                /\ DOMAIN packets[i] = 1..(m - (i - 1) * ChunkSize)
                /\ \A j \in DOMAIN packets[i] : packets[i][j] = text[(i - 1) * ChunkSize + j]
  <2>1. PICK m \in Nat :
           /\ i \in Nat \ {0} /\ (i - 1) * ChunkSize \in Nat /\ i * ChunkSize \in Nat
           /\ (i - 1) * ChunkSize < l /\ i * ChunkSize = (i - 1) * ChunkSize + ChunkSize
           /\ (i < Len(packets)) => i * ChunkSize < l
           /\ packets[i] = SubSeq(text, (i - 1) * ChunkSize + 1, m)
           /\ m = IF i * ChunkSize <= l THEN i * ChunkSize ELSE l
    BY ChunkBounds
  <2>2. PICK b \in Nat, e \in Nat : b = (i - 1) * ChunkSize /\ e = i * ChunkSize
    BY <2>1
  <2>3. /\ b < l /\ e = b + ChunkSize /\ m = IF e <= l THEN e ELSE l
        /\ packets[i] = SubSeq(text, b + 1, m)
    BY <2>1, <2>2
  <2> HIDE DEF packets, l
  <2>4. /\ b < m /\ m <= l /\ m <= b + ChunkSize /\ (m = l \/ m = b + ChunkSize)
        /\ e < l => m = b + ChunkSize
    BY <1>0, <2>3
  <2>5. /\ Len(SubSeq(text, b + 1, m)) = m - b
        /\ DOMAIN SubSeq(text, b + 1, m) = 1..(m - b)
        /\ \A j \in 1..(m - b) : SubSeq(text, b + 1, m)[j] = text[b + j]
    BY <2>4, Slice DEF l
  <2> QED
    BY <2>1, <2>2, <2>3, <2>4, <2>5
<1> HIDE DEF packets, l
<1>2. ASSUME NEW i \in DOMAIN packets
      PROVE  /\ Len(packets[i]) \in 1..ChunkSize
             /\ i < Len(packets) => Len(packets[i]) = ChunkSize
  <2>1. PICK b \in Nat, m \in Nat :
           /\ b < m /\ m <= b + ChunkSize
           /\ i < Len(packets) => m = b + ChunkSize
           /\ Len(packets[i]) = m - b
    BY <1>1
  <2> QED
    BY <1>0, <2>1
<1>3. ASSUME NEW i \in DOMAIN packets, NEW j \in DOMAIN packets[i]
      PROVE  \E n \in DOMAIN text : n = Place(i, j) /\ packets[i][j] = text[n]
  <2>1. PICK b \in Nat, m \in Nat :
           /\ b = (i - 1) * ChunkSize /\ m <= l
           /\ DOMAIN packets[i] = 1..(m - b)
           /\ \A k \in DOMAIN packets[i] : packets[i][k] = text[b + k]
    BY <1>1
  <2>2. b + j \in DOMAIN text /\ packets[i][j] = text[b + j]
    BY <1>0, <2>1
  <2> QED
    BY <2>1, <2>2 DEF Place
<1>4. ASSUME NEW n \in DOMAIN text
      PROVE  \E i \in DOMAIN packets : \E j \in DOMAIN packets[i] : n = Place(i, j)
  <2> DEFINE k == (n - 1) \div ChunkSize
             q == (l + ChunkSize - 1) \div ChunkSize
  <2>1. k \in Nat /\ ChunkSize * k <= n - 1 /\ n - 1 < ChunkSize * k + ChunkSize
    <3>1. n - 1 \in Nat
      BY <1>0
    <3> QED
      BY <1>0, <3>1, Division
  <2>2. q \in Nat /\ l + ChunkSize - 1 < ChunkSize * q + ChunkSize
    <3>1. l + ChunkSize - 1 \in Nat
      BY <1>0
    <3> QED
      BY <1>0, <3>1, Division
  <2>3. DOMAIN packets = 1..q /\ Len(packets) = q
    BY <2>2 DEF packets, Chunks, l
  <2> HIDE DEF k, q
  <2>4. ChunkSize * k = k * ChunkSize /\ ChunkSize * q = q * ChunkSize /\ k * ChunkSize \in Int
        /\ q * ChunkSize \in Int /\ (q <= k => q * ChunkSize <= k * ChunkSize)
    BY <1>0, <2>1, <2>2, Times
  <2>5. k < q
    BY <1>0, <2>1, <2>2, <2>4
  <2>6. k + 1 \in DOMAIN packets /\ (k + 1) - 1 = k
    BY <2>1, <2>2, <2>3, <2>5
  <2>7. PICK m \in Nat :
           /\ m <= l
           /\ m = l \/ m = k * ChunkSize + ChunkSize
           /\ DOMAIN packets[k + 1] = 1..(m - k * ChunkSize)
    BY <1>1, <2>6
  <2>8. n - k * ChunkSize \in DOMAIN packets[k + 1]
    BY <1>0, <2>1, <2>4, <2>7
  <2>9. n = Place(k + 1, n - k * ChunkSize)
    BY <1>0, <2>1, <2>4, <2>6 DEF Place
  <2> QED
    BY <2>6, <2>8, <2>9
<1> QED
  BY <1>2, <1>3, <1>4 DEF packets

\* Counting up from 0 reaches each number up to n.
LEMMA CountUp ==
    ASSUME NEW n \in Nat, NEW S, 0 \in S,
           \A k \in 0..n : k \in S /\ k < n => k + 1 \in S
    PROVE  \A k \in 0..n : k \in S
<1> DEFINE Missing == {k \in 1..n : k \notin S}
<1>1. SUFFICES ASSUME Missing # {} PROVE FALSE
  <2>1. \A k \in 1..n : k \in S
    BY <1>1
  <2> QED
    BY <2>1
<1>2. PICK k \in Missing : \A m \in Missing : k <= m
  <2>1. Missing \in SUBSET (1..n)
    OBVIOUS
  <2> HIDE DEF Missing
  <2> QED
    BY <1>1, <2>1, FirstOf
<1>3. k \in 1..n /\ k \notin S
  OBVIOUS
<1>4. k - 1 \notin Missing
  BY <1>2, <1>3
<1>5. k - 1 \in S /\ k - 1 \in 0..n /\ k - 1 < n /\ (k - 1) + 1 = k
  <2>1. k - 1 \in 1..n => k - 1 \in S
    BY <1>4
  <2> HIDE DEF Missing
  <2> QED
    BY <1>3, <2>1
<1> QED
  BY <1>3, <1>5

\* There is a function as the filter defines it.
LEMMA FilterUnfolds ==
    ASSUME NEW text, Len(text) \in Nat
    PROVE  Filtered(text) =
              [n \in 0..Len(text) |->
                  IF n = 0 THEN <<>>
                  ELSE IF Typed(text[n]) THEN Append(Filtered(text)[n - 1], text[n])
                  ELSE Filtered(text)[n - 1]]
<1> DEFINE Step(f, n) == IF n = 0 THEN <<>>
                          ELSE IF Typed(text[n]) THEN Append(f[n - 1], text[n])
                          ELSE f[n - 1]
           Is(f, m) == f = [n \in 0..m |-> Step(f, n)]
           S == {m \in 0..Len(text) : \E f : Is(f, m)}
<1>1. 0 \in S
  <2> DEFINE z == [n \in 0..0 |-> <<>>]
  <2>1. \A n \in 0..0 : <<>> = Step(z, n)
    OBVIOUS
  <2>2. Is(z, 0)
    <3> HIDE DEF Step
    <3> QED
      BY <2>1
  <2> HIDE DEF Is, z
  <2> QED
    BY <2>2
<1>2. ASSUME NEW m \in 0..Len(text), m \in S, m < Len(text) PROVE m + 1 \in S
  <2>1. PICK f : Is(f, m)
    BY <1>2
  <2> DEFINE g == [n \in 0..(m + 1) |-> IF n = m + 1 THEN Step(f, n) ELSE f[n]]
  <2>2. \A n \in 0..m : f[n] = Step(f, n) /\ g[n] = f[n]
    <3> HIDE DEF Step
    <3>1. \A n \in 0..m : n \in 0..(m + 1) /\ n # m + 1
      OBVIOUS
    <3>2. \A n \in 0..m : f[n] = Step(f, n)
      BY <2>1
    <3> QED
      BY <3>1, <3>2
  <2>3. \A n \in 0..(m + 1) : g[n] = Step(g, n)
    <3> SUFFICES ASSUME NEW n \in 0..(m + 1) PROVE g[n] = Step(g, n)
      OBVIOUS
    <3>1. n # 0 => n - 1 \in 0..m
      OBVIOUS
    <3>2. n # 0 => g[n - 1] = f[n - 1]
      BY <2>2, <3>1
    <3>3. Step(g, n) = Step(f, n)
      <4> HIDE DEF g
      <4> QED
        BY <3>2
    <3>4. CASE n = m + 1
      BY <3>3, <3>4
    <3>5. CASE n # m + 1
      <4>1. n \in 0..m
        BY <3>5
      <4> HIDE DEF g, Step
      <4> QED
        BY <2>2, <3>3, <4>1
    <3> QED
      BY <3>4, <3>5
  <2>4. Is(g, m + 1)
    <3>1. g = [n \in 0..(m + 1) |-> g[n]]
      OBVIOUS
    <3> HIDE DEF g, Step
    <3> QED
      BY <2>3, <3>1
  <2>5. m + 1 \in 0..Len(text)
    BY <1>2
  <2> HIDE DEF Is, g
  <2> QED
    BY <2>4, <2>5
<1>3. \E f : Is(f, Len(text))
  <2> HIDE DEF S
  <2>1. \A m \in 0..Len(text) : m \in S
    BY <1>1, <1>2, CountUp
  <2>2. Len(text) \in S
    BY <2>1
  <2> QED
    BY <2>2 DEF S
<1>4. Filtered(text) = CHOOSE f : Is(f, Len(text))
  BY DEF Filtered
<1>5. Is(Filtered(text), Len(text))
  <2> HIDE DEF Is
  <2> QED
    BY <1>3, <1>4
<1> QED
  BY <1>5

\* What is left of the first n characters is those to be typed, in order: as many
\* as there are, and each at its rank.
LEMMA FilterKeepsOrder ==
    ASSUME NEW T, NEW text \in Seq(T), NEW n \in 0..Len(text)
    PROVE  LET Kept(m) == {i \in 1..m : Typed(text[i])}
           IN  /\ Filtered(text)[n] \in Seq(T)
               /\ Len(Filtered(text)[n]) = Cardinality(Kept(n))
               /\ \A i \in Kept(n) : /\ Cardinality(Kept(i)) \in 1..Cardinality(Kept(n))
                                     /\ Filtered(text)[n][Cardinality(Kept(i))] = text[i]
<1> DEFINE Kept(m) == {i \in 1..m : Typed(text[i])}
           f == Filtered(text)
           Right(m) == /\ f[m] \in Seq(T)
                       /\ Len(f[m]) = Cardinality(Kept(m))
                       /\ \A i \in Kept(m) : /\ Cardinality(Kept(i)) \in 1..Cardinality(Kept(m))
                                             /\ f[m][Cardinality(Kept(i))] = text[i]
           S == {m \in 0..Len(text) : Right(m)}
<1>0. Len(text) \in Nat /\ DOMAIN text = 1..Len(text) /\ \A m \in 1..Len(text) : text[m] \in T
  BY LenProperties, ElementOfSeq
<1>1. \A m \in 0..Len(text) :
          f[m] = IF m = 0 THEN <<>>
                 ELSE IF Typed(text[m]) THEN Append(f[m - 1], text[m]) ELSE f[m - 1]
  BY <1>0, FilterUnfolds
<1>2. \A m \in Nat : IsFiniteSet(Kept(m)) /\ Cardinality(Kept(m)) \in Nat
  <2> SUFFICES ASSUME NEW m \in Nat
               PROVE  IsFiniteSet(Kept(m)) /\ Cardinality(Kept(m)) \in Nat
    OBVIOUS
  <2>1. IsFiniteSet(1..m) /\ Kept(m) \in SUBSET (1..m)
    BY FS_Interval
  <2> HIDE DEF Kept
  <2> QED
    BY <2>1, FS_Subset, FS_CardinalityType
<1> HIDE DEF f
<1>3. 0 \in S
  <2>1. Kept(0) = {}
    OBVIOUS
  <2>2. Cardinality(Kept(0)) = 0
    BY <2>1, FS_EmptySet
  <2>3. f[0] = <<>> /\ 0 \in 0..Len(text)
    BY <1>0, <1>1
  <2>4. f[0] \in Seq(T) /\ Len(f[0]) = 0
    BY <2>3
  <2> HIDE DEF Kept
  <2>5. Right(0)
    BY <2>1, <2>2, <2>4
  <2> QED
    BY <2>3, <2>5
<1>4. ASSUME NEW m \in 0..Len(text), m \in S, m < Len(text) PROVE m + 1 \in S
  <2>0. m \in Nat /\ m + 1 \in 0..Len(text) /\ m + 1 \in 1..Len(text) /\ (m + 1) - 1 = m
    BY <1>0, <1>4
  <2>1. Right(m)
    BY <1>4
  <2>2. CASE Typed(text[m + 1])
    <3>1. f[m + 1] = Append(f[m], text[m + 1])
      <4>1. f[m + 1] = Append(f[(m + 1) - 1], text[m + 1])
        <5>1. m + 1 # 0
          BY <2>0
        <5> QED
          BY <1>1, <2>0, <2>2, <5>1, Zenon
      <4> QED
        BY <2>0, <4>1
    <3>2. Kept(m + 1) = Kept(m) \cup {m + 1} /\ m + 1 \notin Kept(m)
      BY <2>0, <2>2
    <3> HIDE DEF Kept
    <3>3. Cardinality(Kept(m + 1)) = Cardinality(Kept(m)) + 1
      BY <1>2, <2>0, <3>2, FS_AddElement
    <3>4. text[m + 1] \in T /\ f[m] \in Seq(T)
      BY <1>0, <2>0, <2>1
    <3>5. /\ f[m + 1] \in Seq(T) /\ Len(f[m + 1]) = Len(f[m]) + 1
          /\ \A k \in 1..Len(f[m]) : f[m + 1][k] = f[m][k]
          /\ f[m + 1][Len(f[m]) + 1] = text[m + 1]
      BY <3>1, <3>4, AppendProperties
    <3>6. Len(f[m + 1]) = Cardinality(Kept(m + 1))
      BY <2>1, <3>3, <3>5
    <3>7. ASSUME NEW i \in Kept(m + 1)
          PROVE  /\ Cardinality(Kept(i)) \in 1..Cardinality(Kept(m + 1))
                 /\ f[m + 1][Cardinality(Kept(i))] = text[i]
      <4> DEFINE c == Cardinality(Kept(m))
      <4>1. c \in Nat /\ Len(f[m]) = c /\ Cardinality(Kept(m + 1)) = c + 1
        BY <1>2, <2>0, <2>1, <3>3
      <4>2. CASE i = m + 1
        BY <3>5, <4>1, <4>2
      <4>3. CASE i \in Kept(m)
        <5>1. Cardinality(Kept(i)) \in 1..c /\ f[m][Cardinality(Kept(i))] = text[i]
          BY <2>1, <4>3
        <5> HIDE DEF c
        <5> QED
          BY <3>5, <4>1, <5>1
      <4> QED
        BY <3>2, <4>2, <4>3
    <3> QED
      BY <2>0, <3>5, <3>6, <3>7
  <2>3. CASE ~ Typed(text[m + 1])
    <3>1. f[m + 1] = f[m]
      BY <1>1, <2>0, <2>3
    <3>2. Kept(m + 1) = Kept(m)
      BY <2>0, <2>3
    <3> HIDE DEF Kept
    <3> QED
      BY <2>0, <2>1, <3>1, <3>2
  <2> QED
    BY <2>2, <2>3
<1>5. n \in S
  <2> HIDE DEF S
  <2> QED
    BY <1>0, <1>3, <1>4, CountUp
<1> QED
  BY <1>5 DEF f

\* Moving some positions on changes neither their number nor their ranks.
LEMMA Shifted ==
    ASSUME NEW c \in Nat, NEW S \in SUBSET Nat, IsFiniteSet(S)
    PROVE  Cardinality({c + x : x \in S}) = Cardinality(S)
<1> DEFINE R == {c + x : x \in S}
           f == [x \in S |-> c + x]
<1>1. f \in [S -> R] /\ \A y \in R : \E x \in S : f[x] = y
  OBVIOUS
<1>2. \A x, y \in S : f[x] = f[y] => x = y
  OBVIOUS
<1>3. f \in Bijection(S, R)
  <2> HIDE DEF f, R
  <2> QED
    BY <1>1, <1>2 DEF Bijection, Injection, Surjection, IsInjective
<1>4. ExistsBijection(S, R)
  BY <1>3 DEF ExistsBijection
<1> HIDE DEF R
<1>5. Cardinality(R) = Cardinality(S)
  BY <1>4, FS_Bijection
<1> QED
  BY <1>5 DEF R

\* Typed of what trimming leaves is what there is to be typed of the text.
LEMMA SanitizedIsWanted ==
    ASSUME NEW T, NEW text \in Seq(T)
    PROVE  LET typed == Sanitized(text)
               due == Wanted(text)
           IN  /\ typed \in Seq(T) /\ Len(typed) = Cardinality(due)
               /\ \A n \in due : /\ Rank(due, n) \in 1..Len(typed)
                                    /\ typed[Rank(due, n)] = text[n]
<1> DEFINE rest == Trimmed(text)
           due == Wanted(text)
           l == Len(rest)
           Kept(m) == {i \in 1..m : Typed(rest[i])}
<1>0. Len(text) \in Nat /\ DOMAIN text = 1..Len(text)
  BY LenProperties
<1>1. PICK cut \in Nat :
         /\ rest \in Seq(T) /\ cut + Len(rest) <= Len(text)
         /\ \A j \in DOMAIN rest : rest[j] = text[cut + j]
         /\ \A n \in DOMAIN text : ~ (cut < n /\ n <= cut + Len(rest)) => text[n] \in Blank
         /\ rest # <<>> => {rest[1], rest[Len(rest)]} \cap Blank = {}
  BY TrimKeepsTheInk
<1>2. Sanitized(text) = Filtered(rest)[l]
  BY DEF Sanitized
<1> HIDE DEF rest
<1>3. l \in Nat /\ DOMAIN rest = 1..l /\ (l # 0 => rest # <<>>) /\ l \in 0..l
  BY <1>1, LenProperties, EmptySeq
<1>4. /\ Sanitized(text) \in Seq(T)
      /\ Len(Sanitized(text)) = Cardinality(Kept(l))
      /\ \A i \in Kept(l) : /\ Cardinality(Kept(i)) \in 1..Cardinality(Kept(l))
                            /\ Sanitized(text)[Cardinality(Kept(i))] = rest[i]
  <2>1. rest \in Seq(T) /\ l \in 0..Len(rest)
    BY <1>1, <1>3
  <2> HIDE DEF l
  <2>2. /\ Filtered(rest)[l] \in Seq(T)
        /\ Len(Filtered(rest)[l]) = Cardinality(Kept(l))
        /\ \A i \in Kept(l) : /\ Cardinality(Kept(i)) \in 1..Cardinality(Kept(l))
                              /\ Filtered(rest)[l][Cardinality(Kept(i))] = rest[i]
    BY <2>1, FilterKeepsOrder
  <2> QED
    BY <1>2, <2>2
<1> HIDE DEF l
<1>5. \A i \in 1..l : rest[i] = text[cut + i] /\ cut + i \in DOMAIN text
  BY <1>0, <1>1, <1>3 DEF l
<1>6. ASSUME NEW n \in due
      PROVE  n \in Nat /\ \E i \in Kept(l) : n = cut + i
  <2>1. /\ n \in DOMAIN text /\ Typed(text[n])
        /\ \/ text[n] \notin Blank
           \/ \E j, k \in DOMAIN text :
                 j < n /\ n < k /\ {text[j], text[k]} \cap Blank = {}
    BY Characters DEF Wanted, Typed
  <2>2. cut < n /\ n <= cut + l
    <3>1. CASE text[n] \notin Blank
      BY <1>1, <2>1, <3>1 DEF l
    <3>2. ASSUME NEW j \in DOMAIN text, NEW k \in DOMAIN text, j < n, n < k,
                 {text[j], text[k]} \cap Blank = {}
          PROVE  cut < n /\ n <= cut + l
      <4>1. text[j] \notin Blank /\ text[k] \notin Blank
        BY <3>2
      <4>2. cut < j /\ k <= cut + l
        BY <1>1, <4>1 DEF l
      <4> QED
        BY <1>0, <1>3, <2>1, <3>2, <4>2
    <3> QED
      BY <2>1, <3>1, <3>2
  <2>3. n - cut \in 1..l /\ cut + (n - cut) = n /\ n \in Nat
    BY <1>0, <1>3, <2>1, <2>2
  <2>4. n - cut \in Kept(l)
    BY <1>5, <2>1, <2>3
  <2> QED
    BY <2>3, <2>4
<1>7. ASSUME NEW i \in Kept(l) PROVE cut + i \in due /\ i \in Nat
  <2>1. i \in 1..l /\ Typed(rest[i]) /\ rest[i] = text[cut + i] /\ cut + i \in DOMAIN text
    BY <1>5
  <2>2. CASE text[cut + i] \in Graphic
    BY <2>1, <2>2 DEF Wanted
  <2>3. CASE text[cut + i] = Gap
    <3>1. 1 \in 1..l /\ l \in 1..l /\ rest # <<>>
      BY <1>3, <2>1
    <3>2. rest[1] \notin Blank /\ rest[l] \notin Blank
      BY <1>1, <3>1 DEF l
    <3>3. i # 1 /\ i # l
      BY <2>1, <2>3, <3>2, Characters
    <3>4. 1 < i /\ i < l
      BY <1>3, <2>1, <3>3
    <3>5. cut + 1 < cut + i /\ cut + i < cut + l
      BY <1>3, <2>1, <3>4
    <3>6. /\ cut + 1 \in DOMAIN text /\ cut + l \in DOMAIN text
          /\ {text[cut + 1], text[cut + l]} \cap Blank = {}
      BY <1>5, <3>1, <3>2
    <3> QED
      BY <2>1, <2>3, <3>5, <3>6 DEF Wanted
  <2> QED
    BY <2>1, <2>2, <2>3 DEF Typed
<1> HIDE DEF due
<1>8. IsFiniteSet(Kept(l)) /\ Kept(l) \in SUBSET Nat
  <2>1. IsFiniteSet(1..l) /\ Kept(l) \in SUBSET (1..l)
    BY <1>3, FS_Interval
  <2>2. Kept(l) \in SUBSET Nat
    OBVIOUS
  <2> HIDE DEF Kept
  <2> QED
    BY <2>1, <2>2, FS_Subset
<1>9. Cardinality(due) = Cardinality(Kept(l))
  <2> HIDE DEF Kept
  <2>1. due = {cut + i : i \in Kept(l)}
    BY <1>6, <1>7
  <2> QED
    BY <1>8, <2>1, Shifted
<1>10. ASSUME NEW i \in Kept(l) PROVE Rank(due, cut + i) = Cardinality(Kept(i))
  <2>1. {m \in due : m <= cut + i} = {cut + k : k \in Kept(i)}
    <3>1. ASSUME NEW m \in due, m <= cut + i PROVE \E k \in Kept(i) : m = cut + k
      <4>1. PICK k \in Kept(l) : m = cut + k
        BY <1>6
      <4>2. k \in 1..i
        BY <1>3, <3>1, <4>1
      <4> QED
        BY <4>1, <4>2
    <3>2. ASSUME NEW k \in Kept(i) PROVE cut + k \in due /\ cut + k <= cut + i
      <4>1. k \in Kept(l) /\ k <= i
        BY <1>3
      <4> HIDE DEF Kept
      <4> QED
        BY <1>7, <4>1
    <3> HIDE DEF Kept
    <3> QED
      BY <3>1, <3>2
  <2>2. IsFiniteSet(Kept(i)) /\ Kept(i) \in SUBSET Nat
    <3>1. Kept(i) \in SUBSET Kept(l)
      BY <1>3
    <3> HIDE DEF Kept
    <3> QED
      BY <1>8, <3>1, FS_Subset
  <2> HIDE DEF Kept
  <2>3. Cardinality({cut + k : k \in Kept(i)}) = Cardinality(Kept(i))
    BY <2>2, Shifted
  <2> QED
    BY <2>1, <2>3 DEF Rank
<1>11. ASSUME NEW n \in due
       PROVE  /\ Rank(due, n) \in 1..Len(Sanitized(text))
              /\ Sanitized(text)[Rank(due, n)] = text[n]
  <2>1. PICK i \in Kept(l) : n = cut + i
    BY <1>6
  <2>2. rest[i] = text[n]
    BY <1>5, <2>1
  <2> HIDE DEF Kept
  <2> QED
    BY <1>4, <1>10, <2>1, <2>2
<1> QED
  BY <1>4, <1>9, <1>11 DEF due

\* Whatever the text: what there is to be typed of it is typed, in order, whole.
THEOREM EveryPasteIsWhole ==
    ASSUME NEW T, NEW text \in Seq(T)
    PROVE  PastesWhole(text)
<1> DEFINE typed == Sanitized(text)
           packets == PastePackets(text)
           due == Wanted(text)
<1>1. /\ typed \in Seq(T) /\ Len(typed) = Cardinality(due)
      /\ \A n \in due : Rank(due, n) \in 1..Len(typed) /\ typed[Rank(due, n)] = text[n]
  BY SanitizedIsWanted
<1>2. Len(typed) \in Nat /\ DOMAIN typed = 1..Len(typed)
  BY <1>1, LenProperties
<1>3. packets = IF typed = <<>> THEN <<>> ELSE Chunks(typed)
  BY DEF PastePackets
<1> HIDE DEF typed, packets, due
<1>4. CASE typed = <<>>
  <2>1. packets = <<>> /\ Len(typed) = 0
    BY <1>3, <1>4
  <2>2. DOMAIN packets = {}
    BY <2>1
  <2>3. \A n \in due : FALSE
    BY <1>1, <2>1
  <2> QED
    BY <2>2, <2>3 DEF PastesWhole, packets, due
<1>5. CASE typed # <<>>
  <2>1. /\ \A i \in DOMAIN packets :
              /\ Len(packets[i]) \in 1..ChunkSize
              /\ i < Len(packets) => Len(packets[i]) = ChunkSize
        /\ \A n \in DOMAIN typed : \E i \in DOMAIN packets : \E j \in DOMAIN packets[i] :
              n = Place(i, j)
        /\ \A i \in DOMAIN packets : \A j \in DOMAIN packets[i] :
              \E n \in DOMAIN typed : n = Place(i, j) /\ packets[i][j] = typed[n]
    <3>1. packets = Chunks(typed)
      BY <1>3, <1>5
    <3>2. typed \in Seq(T)
      BY <1>1
    <3>3. /\ \A i \in DOMAIN Chunks(typed) :
                /\ Len(Chunks(typed)[i]) \in 1..ChunkSize
                /\ i < Len(Chunks(typed)) => Len(Chunks(typed)[i]) = ChunkSize
          /\ \A n \in DOMAIN typed :
                \E i \in DOMAIN Chunks(typed) : \E j \in DOMAIN Chunks(typed)[i] :
                   n = Place(i, j)
          /\ \A i \in DOMAIN Chunks(typed) : \A j \in DOMAIN Chunks(typed)[i] :
                \E n \in DOMAIN typed : n = Place(i, j) /\ Chunks(typed)[i][j] = typed[n]
      BY <3>2, ChunksAreTheText
    <3> QED
      BY <3>1, <3>3
  <2>2. ASSUME NEW n \in due
        PROVE  \E i \in DOMAIN packets : \E j \in DOMAIN packets[i] :
                  Place(i, j) = Rank(due, n) /\ packets[i][j] = text[n]
    <3>1. Rank(due, n) \in DOMAIN typed /\ typed[Rank(due, n)] = text[n]
      BY <1>1, <1>2
    <3>2. PICK i \in DOMAIN packets : \E j \in DOMAIN packets[i] : Rank(due, n) = Place(i, j)
      BY <2>1, <3>1
    <3>3. PICK j \in DOMAIN packets[i] : Rank(due, n) = Place(i, j)
      BY <3>2
    <3>4. packets[i][j] = typed[Rank(due, n)]
      BY <2>1, <3>3
    <3> QED
      BY <3>1, <3>3, <3>4
  <2>3. \A i \in DOMAIN packets : \A j \in DOMAIN packets[i] :
            Place(i, j) \in 1..Cardinality(due)
    BY <1>1, <1>2, <2>1
  <2> QED
    BY <2>1, <2>2, <2>3 DEF PastesWhole, packets, due
<1> QED
  BY <1>4, <1>5

\* Of whatever is copied and however the queue fills, a clipboard item leads to
\* all of its text being typed.
THEOREM ClipboardStaysTyped == Spec => []ClipboardIsTyped
<1>1. EveryTextIsTyped
  BY CopiedTexts, EveryPasteIsWhole DEF EveryTextIsTyped
<1>2. ClipboardIsTyped
  BY <1>1 DEF ClipboardIsTyped
<1> QED
  BY <1>2, PTL
=============================================================================
