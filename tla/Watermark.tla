----------------------------- MODULE Watermark ------------------------------
(***************************************************************************)
(* The invisible layers of oversight_core/watermark.py: frames of          *)
(* zero-width characters (L1) and trailing whitespace (L2), and the fusion *)
(* of what is recovered from them and from the wording (L3).               *)
(*                                                                         *)
(* A text is a sequence of characters.  Told apart are the three zero-     *)
(* width characters, space, tab, newline; the others are visible.  A mark  *)
(* is a sequence of bytes.                                                 *)
(***************************************************************************)
EXTENDS Integers, SequencesExt

CONSTANTS
  ByteBits,    \* bits of a byte (8)
  MarkBytes,   \* mark_len_bytes (8)
  Density,     \* density of embed_zw (40)
  NoMark,      \* None
  Letters      \* the visible characters

ASSUME WatermarkAssumption == {ByteBits, MarkBytes, Density} \subseteq Nat \ {0}

ZeroWidth == {"zs", "zn", "zj"}
Blank == {"sp", "tab", "nl"}
Chars == Letters \cup Blank \cup ZeroWidth

ASSUME LettersAssumption == Letters \cap (Blank \cup ZeroWidth) = {}

\* 1 << n
Pow2(n) == LET pow[i \in 0..n] == IF i = 0 THEN 1 ELSE 2 * pow[i - 1] IN pow[n]

MarkBits == MarkBytes * ByteBits
MarkIds == [1..MarkBytes -> 0..(Pow2(ByteBits) - 1)]

\* _bits_of: the bits of each byte, the highest first.
BitsOf(data) ==
  [i \in 1..(Len(data) * ByteBits) |->
    (data[(i - 1) \div ByteBits + 1] \div Pow2(ByteBits - 1 - ((i - 1) % ByteBits))) % 2]

\* _bytes_from_bits: whole bytes only.
BytesFromBits(bits) ==
  [n \in 1..(Len(bits) \div ByteBits) |->
    LET byte[j \in 0..ByteBits] ==
          IF j = 0 THEN 0 ELSE 2 * byte[j - 1] + bits[(n - 1) * ByteBits + j]
    IN  byte[ByteBits]]

\* What is left of s without the members of S.
Without(s, S) ==
  LET rest[i \in 0..Len(s)] ==
        IF i = 0 THEN << >>
        ELSE IF s[i] \in S THEN rest[i - 1] ELSE Append(rest[i - 1], s[i])
  IN  rest[Len(s)]
-----------------------------------------------------------------------------
\* L1.

Frame(mark) ==
  LET bits == BitsOf(mark)
  IN  <<"zj">> \o [i \in DOMAIN bits |-> IF bits[i] = 0 THEN "zs" ELSE "zn"] \o <<"zj">>

\* Mutant: the closing joiner is left out.
EmbedZwOpen(text, mark) ==
  FlattenSeq([i \in DOMAIN text |->
    IF i > 1 /\ (i - 1) % Density = 0 THEN <<text[i]>> \o Front(Frame(mark)) ELSE <<text[i]>>])

\* A short text gets one frame at its end, any other a frame after every
\* Density-th character except the first.
EmbedZw(text, mark) ==
  IF Len(text) < Density THEN text \o Frame(mark)
  ELSE FlattenSeq([i \in DOMAIN text |->
         IF i > 1 /\ (i - 1) % Density = 0 THEN <<text[i]>> \o Frame(mark) ELSE <<text[i]>>])

\* The first position from i on that holds no bit.
BitsEnd(text, i) ==
  Min({j \in i..(Len(text) + 1) : j > Len(text) \/ text[j] \notin {"zs", "zn"}})

\* The mark between the joiners at i and j, if there is one.
MarkIn(text, i, j) ==
  IF j <= Len(text) /\ text[j] = "zj" /\ j - i - 1 = MarkBits
  THEN <<BytesFromBits([n \in 1..MarkBits |-> IF text[i + n] = "zs" THEN 0 ELSE 1])>>
  ELSE << >>

\* After a joiner all bits are read; the character they end at is consumed
\* whether it closes a frame or not.
ExtractZw(text) ==
  LET read[i \in 1..(Len(text) + 2)] ==
        IF i > Len(text) THEN << >>
        ELSE IF text[i] # "zj" THEN read[i + 1]
        ELSE MarkIn(text, i, BitsEnd(text, i + 1)) \o read[BitsEnd(text, i + 1) + 1]
  IN  read[1]

\* _strip_zw
StripZw(text) == Without(text, ZeroWidth)
-----------------------------------------------------------------------------
\* L2.

\* str.split("\n"), and "\n".join.
Lines(text) ==
  LET lines[i \in 0..Len(text)] ==
        IF i = 0 THEN << << >> >>
        ELSE LET ls == lines[i - 1]
             IN  IF text[i] = "nl" THEN Append(ls, << >>)
                 ELSE [ls EXCEPT ![Len(ls)] = Append(@, text[i])]
  IN  lines[Len(text)]

JoinLines(ls) ==
  Tail(FlattenSeq([n \in DOMAIN ls |-> <<"nl">> \o ls[n]]))

EndsIn(line, chars) == line # << >> /\ Last(line) \in chars

\* One bit on each line that does not end in whitespace yet, while bits last.
EmbedWs(text, mark) ==
  LET ls == Lines(text)
      bits == BitsOf(mark)
      Free(n) == {k \in 1..n : ~ EndsIn(ls[k], Blank)}
      MarkLine(n) ==
        LET bi == Cardinality(Free(n))
        IN  IF n \in Free(n) /\ bi <= Len(bits)
            THEN Append(ls[n], IF bits[bi] = 0 THEN "sp" ELSE "tab")
            ELSE ls[n]
  IN  JoinLines([n \in DOMAIN ls |-> MarkLine(n)])

\* Mutant: a line without whitespace at its end counts as a zero.
WsBitsOfAll(text) ==
  LET ls == Lines(text)
      found == IF Len(ls) < MarkBits THEN Len(ls) ELSE MarkBits
  IN  [n \in 1..found |-> IF EndsIn(ls[n], {"tab"}) THEN 1 ELSE 0]

\* The first MarkBits lines that end in a space or a tab.
WsBits(text) ==
  LET ls == Lines(text)
      bits[n \in 0..Len(ls)] ==
        IF n = 0 THEN << >>
        ELSE IF Len(bits[n - 1]) < MarkBits /\ EndsIn(ls[n], {"sp", "tab"})
        THEN Append(bits[n - 1], IF Last(ls[n]) = "sp" THEN 0 ELSE 1)
        ELSE bits[n - 1]
  IN  bits[Len(ls)]

ExtractWs(text) ==
  IF Len(WsBits(text)) < MarkBits THEN NoMark ELSE BytesFromBits(WsBits(text))

\* Missing bits are filled with zeros; bits/MarkBits is the confidence.
ExtractWsPartial(text) ==
  LET bits == WsBits(text)
  IN  [bits |-> Len(bits),
       mark |-> IF bits = << >> THEN NoMark
                ELSE BytesFromBits(bits \o [n \in 1..(MarkBits - Len(bits)) |-> 0])]
-----------------------------------------------------------------------------
\* Fusion.

\* Mutant: a partial L2 candidate counts as an exact one.
FuseL2AsExact(l1, l2, l3) ==
  {[mark |-> m, num |-> IF m \in l1 THEN 2 ELSE 1, den |-> 20] : m \in l1 \cup {l2.mark}}

\* _fuse_candidates.  The score of a candidate is 1 - num/den: the product
\* of 1 - s over its layers, where s is 0.95 for L1, 0.90 * confidence for
\* L2 from half of the bits on, 0.85 * hits/total for L3.  l3 is a set of
\* records [mark, hits, total].
FuseCandidates(l1, l2, l3) ==
  LET useL2 == l2.mark # NoMark /\ 2 * l2.bits >= MarkBits
      Scored(m) ==
        LET hit == {h \in l3 : h.mark = m}
            one == [num |-> IF m \in l1 THEN 1 ELSE 20, den |-> 20]
            two == IF useL2 /\ l2.mark = m
                   THEN [num |-> one.num * (10 * MarkBits - 9 * l2.bits),
                         den |-> one.den * 10 * MarkBits]
                   ELSE one
            three == IF hit = {} THEN two
                     ELSE LET h == CHOOSE h \in hit : TRUE
                          IN  [num |-> two.num * (20 * h.total - 17 * h.hits),
                               den |-> two.den * 20 * h.total]
        IN  [mark |-> m, num |-> three.num, den |-> three.den]
  IN  {Scored(m) : m \in l1 \cup {h.mark : h \in l3} \cup IF useL2 THEN {l2.mark} ELSE {}}

\* The candidates with the highest score: the first of the sorted list is
\* one of these.
BestOf(candidates) ==
  {c \in candidates : \A d \in candidates : c.num * d.den <= d.num * c.den}
=============================================================================
