------------------------------ MODULE Semantic ------------------------------
(***************************************************************************)
(* The wording layer (L3): oversight_core/semantic.py with the dictionary  *)
(* of synonyms_v2.py, and the policy of l3_policy.py that decides where it *)
(* is applied.                                                             *)
(*                                                                         *)
(* A text is a sequence of pieces: words, or parts of words where one form *)
(* occurs inside another ("program" in "programme"), and marks of style.   *)
(* piece.w is the piece, piece.cap says whether it is capitalised.  A URL, *)
(* an address, a path or a code span (_SKIP_PATTERNS) is a piece by itself *)
(* and not in the dictionary.                                              *)
(*                                                                         *)
(* verify_synonyms_v2 takes the zero-width characters out of the text      *)
(* first; the readers of the other styles do not, and a frame of L1 inside *)
(* a word hides it from them.                                              *)
(***************************************************************************)
EXTENDS Watermark

CONSTANTS
  Classes,       \* ALL_CLASSES: the variants of each synonym class, in order
  MultiWord,     \* variants with a space in them
  Hyphenated,    \* variants with a hyphen in them
  Spellings,     \* SPELLING_VARIANTS: pairs <<American, British>> of piece sequences
  Contractions,  \* CONTRACTIONS: pairs <<contracted, expanded>> of piece sequences
  WordParts,     \* pieces that continue a word
  VariantOf,     \* for each mark the expansion of SHA-256(mark || counter), byte by byte
  MinInstances,  \* min_instances (8)
  Margin         \* lines at either end that count as boilerplate (6)

Forms == Seq(STRING) \ {<< >>}

ASSUME DictionaryAssumption == {Spellings, Contractions} \subseteq Seq(Forms \X Forms)

SubjectPieces(text) == [i \in DOMAIN text |-> text[i].w]

\* re.sub of a literal, from left to right, keeping the case of the match.
Substitute(text, old, new) ==
  LET sub[i \in 1..(Len(text) + 1)] ==
        IF i > Len(text) THEN << >>
        ELSE IF /\ i + Len(old) - 1 <= Len(text)
                /\ SubSeq(SubjectPieces(text), i, i + Len(old) - 1) = old
        THEN [k \in DOMAIN new |-> [w |-> new[k], cap |-> k = 1 /\ text[i].cap]]
             \o sub[i + Len(old)]
        ELSE <<text[i]>> \o sub[i + 1]
  IN  sub[1]

Occurs(old, text) ==
  \E i \in 1..(Len(text) - Len(old) + 1) :
    SubSeq(SubjectPieces(text), i, i + Len(old) - 1) = old

\* _bit_for
BitFor(mark, n) == (mark[(n % Len(mark)) + 1] \div Pow2(n % ByteBits)) % 2
-----------------------------------------------------------------------------
\* Synonyms.

\* _LOOKUP: the first class that has the word; multi-word variants are not
\* in the table.
Entries(w) ==
  {e \in (DOMAIN Classes) \X (1..3) : e[2] <= Len(Classes[e[1]]) /\ Classes[e[1]][e[2]] = w}

Lookup(w) == CHOOSE e \in Entries(w) : \A d \in Entries(w) : e[1] <= d[1]

\* iter_matchable_words: the positions of words in the table.  A capitalised
\* word counts only where the text starts with it, and a hyphenated one is
\* read as its halves, which are not in the table.
Matchable(text, fromStart) ==
  {i \in DOMAIN text :
    /\ Entries(text[i].w) # {} /\ text[i].w \notin MultiWord \cup Hyphenated
    /\ text[i].cap => fromStart /\ i = 1}

Variant(mark, n, class) == VariantOf[mark][n] % Len(class)


\* The variant the n-th word gets: the next one when it is multi-word.
TargetVariant(mark, n, class) ==
  LET At(k) == class[((Variant(mark, n, class) + k) % Len(class)) + 1]
      single == {k \in 0..2 : At(k) \notin MultiWord}
  IN  IF single = {} THEN NoMark ELSE At(Min(single))

\* embed_synonyms_v2
EmbedSynonyms(text, mark, min, fromStart) ==
  LET at == Matchable(text, fromStart)
      Rewrite(i) ==
        LET class == Classes[Lookup(text[i].w)[1]]
            to == TargetVariant(mark, Cardinality({j \in at : j <= i}), class)
        IN  IF to = NoMark THEN text[i] ELSE [text[i] EXCEPT !.w = to]
  IN  IF Cardinality(at) < min THEN text
      ELSE [i \in DOMAIN text |-> IF i \in at THEN Rewrite(i) ELSE text[i]]

\* verify_synonyms_v2: how many words are the variant the mark asks for.  A
\* multi-word variant counts as a hit whatever is there.
VerifySynonyms(text, mark) ==
  LET at == Matchable(text, TRUE)
      Hit(i) ==
        LET e == Lookup(text[i].w)
            v == Variant(mark, Cardinality({j \in at : j <= i}), Classes[e[1]]) + 1
        IN  Classes[e[1]][v] \in MultiWord \/ v = e[2]
  IN  [total |-> Cardinality(at), hits |-> Cardinality({i \in at : Hit(i)})]
-----------------------------------------------------------------------------
\* Style: punctuation, spelling, contractions, numbers.

\* The two forms of each style, the form of bit 0 first.
Punctuation == << <<"a, b and c", "a, b, and c">>, <<"--", "em dash">>, <<"straight", "curly">> >>
Numbers == << <<"1000", "1,000">>, <<"50%", "50 percent">> >>

SetForm(text, forms, bit) ==
  Substitute(text, <<forms[2 - bit]>>, <<forms[bit + 1]>>)

\* embed_punctuation: straight quotes are made curly, never the reverse.
EmbedPunctuation(text, mark) ==
  LET t0 == SetForm(text, Punctuation[1], BitFor(mark, 0))
      t1 == SetForm(t0, Punctuation[2], BitFor(mark, 1))
  IN  IF BitFor(mark, 2) = 1 THEN SetForm(t1, Punctuation[3], 1) ELSE t1

\* extract_punctuation_bits: a style that does not occur leaves no bit, and
\* the bits of those behind it move up.
PunctuationBits(text) ==
  LET Count(form) == Cardinality({i \in DOMAIN text : text[i].w = form})
      present == {n \in 1..3 : Count(Punctuation[n][1]) + Count(Punctuation[n][2]) > 0}
  IN  {<<Cardinality({k \in present : k < n}),
         IF Count(Punctuation[n][2]) > Count(Punctuation[n][1]) THEN 1 ELSE 0>> : n \in present}

\* The forms of all pairs are set one after the other, wherever they occur.
SetForms(text, pairs, mark, first) ==
  LET set[n \in 0..Len(pairs)] ==
        IF n = 0 THEN text
        ELSE LET b == BitFor(mark, n - 1 + first)
             IN  Substitute(set[n - 1], pairs[n][2 - b], pairs[n][b + 1])
  IN  set[Len(pairs)]

EmbedSpelling(text, mark) == SetForms(text, Spellings, mark, 8)

EmbedContractions(text, mark) == SetForms(text, Contractions, mark, 40)

EmbedNumberFormat(text, mark) ==
  SetForm(SetForm(text, Numbers[1], BitFor(mark, 72)), Numbers[2], BitFor(mark, 73))

\* extract_spelling_bits: whole words; one bit for every occurrence.
SpellingBits(text) ==
  LET WordAt(i) ==
        LET rest == {j \in (i + 1)..(Len(text) + 1) :
                       j > Len(text) \/ text[j].w \notin WordParts}
        IN  SubSeq(SubjectPieces(text), i, Min(rest) - 1)
  IN  {b \in (DOMAIN text) \X (DOMAIN Spellings) \X {0, 1} : WordAt(b[1]) = Spellings[b[2]][b[3] + 1]}

\* extract_contraction_bits: one bit for a pair of which one form occurs.
ContractionBits(text) ==
  {b \in (DOMAIN Contractions) \X {0, 1} :
     Occurs(Contractions[b[1]][b[2] + 1], text) /\ ~ Occurs(Contractions[b[1]][2 - b[2]], text)}

ApplySemantic(text, mark) ==
  EmbedNumberFormat(
    EmbedContractions(
      EmbedSpelling(
        EmbedPunctuation(EmbedSynonyms(text, mark, MinInstances, TRUE), mark), mark), mark), mark)

\* The pieces that a style reader looks for.
StylePieces ==
  UNION {ToSet(Punctuation[n]) : n \in DOMAIN Punctuation} \cup
  UNION {ToSet(pair[1]) \cup ToSet(pair[2]) : pair \in ToSet(Spellings) \cup ToSet(Contractions)}

\* How a text can look that has zero-width characters in it: a piece with a
\* frame in it, or between it and the one before, is no longer that piece.
\* (Where the frames are depends on the characters, which are not modelled; a
\* frame in any other piece makes no difference.)
Unstripped(text) ==
  {[i \in DOMAIN text |-> IF i \in cut THEN [text[i] EXCEPT !.w = ""] ELSE text[i]] :
     cut \in SUBSET {i \in DOMAIN text : text[i].w \in StylePieces}}

\* The bits read of each style, and how many of them are the mark's.
StyleScores(seen, mark) ==
  << [total |-> Cardinality(PunctuationBits(seen)),
      hits  |-> Cardinality({b \in PunctuationBits(seen) : b[2] = BitFor(mark, b[1])})],
     [total |-> Cardinality(SpellingBits(seen)),
      hits  |-> Cardinality({b \in SpellingBits(seen) : b[3] = BitFor(mark, b[2] - 1 + 8)})],
     [total |-> Cardinality(ContractionBits(seen)),
      hits  |-> Cardinality({b \in ContractionBits(seen) : b[2] = BitFor(mark, b[1] - 1 + 40)})] >>

\* verify_semantic of a text whose unstripped form is seen: the weighted mean
\* of the scores of the styles that occur (synonyms always count) is at least
\* 0.65.
OverallMatch(text, seen, mark) ==
  LET syn    == VerifySynonyms(text, mark)
      styles == StyleScores(seen, mark)
      Score(k)  == IF k = 1 THEN syn ELSE styles[k - 1]
      Weight(k) == IF k = 1 \/ Score(k).total > 0 THEN <<5, 1, 2, 2>>[k] ELSE 0
      Den(k) == IF Score(k).total = 0 THEN 1 ELSE Score(k).total
      all    == Den(1) * Den(2) * Den(3) * Den(4)
      Part(k) == Weight(k) * Score(k).hits * (all \div Den(k))
  IN  20 * (Part(1) + Part(2) + Part(3) + Part(4))
        >= 13 * all * (Weight(1) + Weight(2) + Weight(3) + Weight(4))
-----------------------------------------------------------------------------
\* Policy.  A document is a sequence of lines; line.kind is "fence" for a
\* line that opens or closes a code block, "guarded" for one that matches
\* _line_is_protected, "notice" for one with a boilerplate word, "prose"
\* otherwise.  line.parts alternates unquoted and quoted text.

LineText(line) == FlattenSeq(line.parts)
DocText(doc) == FlattenSeq([n \in DOMAIN doc |-> LineText(doc[n])])

\* classify_document: a declared class, then the file name, the content
\* type, the text; hints[i] is what the i-th of these says, "none" if nothing.
ClassifyDocument(declared, hints) ==
  IF declared # "auto" THEN declared
  ELSE LET said == SelectSeq(hints, LAMBDA h : h # "none")
       IN  IF said = << >> THEN "prose" ELSE said[1]

WordingSensitive ==
  {"legal", "regulatory", "technical_spec", "source_code", "sql", "log", "structured_data"}

\* decide_l3: the mode, "off" when L3 is not applied.
DecideL3(class, requested) ==
  IF requested # "auto" THEN requested
  ELSE IF class \in WordingSensitive THEN "off" ELSE "full"

\* _apply_l3_to_unquoted_segments: every part starts the sequence of
\* variants again.
ApplyToUnquoted(line, mark) ==
  [line EXCEPT !.parts = [i \in DOMAIN @ |->
     IF i % 2 = 0 THEN @[i]
     ELSE EmbedContractions(
            EmbedSpelling(EmbedSynonyms(@[i], mark, 1, i = 1), mark), mark)]]

ApplyL3Safe(doc, mark, mode) ==
  LET fences(n) == Cardinality({k \in 1..n : doc[k].kind = "fence"})
      Boilerplate(n) == n <= Margin \/ n > Len(doc) - Margin \/ doc[n].kind = "notice"
      Open(n) ==
        /\ doc[n].kind \notin {"fence", "guarded"} /\ fences(n) % 2 = 0
        /\ mode = "boilerplate" => Boilerplate(n)
  IN  IF mode = "off" THEN doc
      ELSE [n \in DOMAIN doc |-> IF Open(n) THEN ApplyToUnquoted(doc[n], mark) ELSE doc[n]]
=============================================================================
