------------------------------ MODULE Packets ------------------------------
(***************************************************************************)
(* What becomes of a clipboard text on its way to the device: run strips   *)
(* it of what a keyboard cannot type (ble/interface.rs) and                *)
(* create_keyboard_stream cuts the rest into packets (packets.rs).         *)
(***************************************************************************)
EXTENDS Integers, Sequences, FiniteSets

Sets == INSTANCE FiniteSetsExt

CONSTANTS
    Graphic,    \* ASCII characters with a glyph
    Blank,      \* white space: Gap, line ends and the like
    Gap,        \* the space, the only blank that is typed
    Foreign,    \* every other character
    ChunkSize,  \* characters of a packet (100)
    Texts       \* what is copied

ASSUME PacketSizes == ChunkSize \in Nat \ {0}
ASSUME Characters == Gap \in Blank /\ Graphic \cap Blank = {}
ASSUME CopiedTexts == Texts \subseteq Seq(Graphic \cup Blank \cup Foreign)

-----------------------------------------------------------------------------

Trimmed(text) ==
    LET ink == {i \in DOMAIN text : text[i] \notin Blank}
    IN  IF ink = {} THEN <<>> ELSE SubSeq(text, Sets!Min(ink), Sets!Max(ink))

Typed(ch) == ch \in Graphic \cup {Gap}

\* The filter: what is left of the first n characters.
Filtered(text) ==
    LET left[n \in 0..Len(text)] ==
            IF n = 0 THEN <<>>
            ELSE IF Typed(text[n]) THEN Append(left[n - 1], text[n])
            ELSE left[n - 1]
    IN  left

\* Only the ends are trimmed; a blank next to a foreign character survives it.
Sanitized(text) == LET rest == Trimmed(text) IN Filtered(rest)[Len(rest)]

\* Faulty: only full packets.
FullChunks(text) ==
    [i \in 1..(Len(text) \div ChunkSize) |->
        SubSeq(text, (i - 1) * ChunkSize + 1, i * ChunkSize)]

\* chunks(100): all are full, but for the last.
Chunks(text) ==
    [i \in 1..((Len(text) + ChunkSize - 1) \div ChunkSize) |->
        SubSeq(text, (i - 1) * ChunkSize + 1, Sets!Min({i * ChunkSize, Len(text)}))]

\* The packets of a clipboard text; one with nothing to type has none.
PastePackets(text) ==
    LET typed == Sanitized(text) IN IF typed = <<>> THEN <<>> ELSE Chunks(typed)

-----------------------------------------------------------------------------

\* The characters to be typed: every glyph, and of the blanks only the space
\* between glyphs or foreign characters.
Wanted(text) ==
    {n \in DOMAIN text :
        \/ text[n] \in Graphic
        \/ /\ text[n] = Gap
           /\ \E j, k \in DOMAIN text :
                 j < n /\ n < k /\ {text[j], text[k]} \cap Blank = {}}

\* Character j of packet i is number Place(i, j) of what is typed, and position n
\* of the text is number Rank(S, n) of the positions S.
Place(i, j) == (i - 1) * ChunkSize + j
Rank(S, n) == Cardinality({m \in S : m <= n})

\* What the device types of a copied text is what there is to be typed of it, in
\* order and nothing else; no packet is empty or too long, and only the last is
\* short (run, InputEvent::Clipboard; create_keyboard_stream).
PastesWhole(text) ==
    LET packets == PastePackets(text)
    IN  /\ \A n \in Wanted(text) : \E i \in DOMAIN packets : \E j \in DOMAIN packets[i] :
              Place(i, j) = Rank(Wanted(text), n) /\ packets[i][j] = text[n]
        /\ \A i \in DOMAIN packets : \A j \in DOMAIN packets[i] :
              Place(i, j) \in 1..Cardinality(Wanted(text))
        /\ \A i \in DOMAIN packets :
              /\ Len(packets[i]) \in 1..ChunkSize
              /\ i < Len(packets) => Len(packets[i]) = ChunkSize

EveryTextIsTyped == \A text \in Texts : PastesWhole(text)
=============================================================================
