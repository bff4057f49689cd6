---------------------------- MODULE Attribution -----------------------------
(***************************************************************************)
(* From sealing a marked copy to naming the recipient who leaked it: the   *)
(* marking part of cmd_seal, the registration of the marks, what can       *)
(* happen to a leaked text, `oversight attribute` and the Flywheel matcher.*)
(*                                                                         *)
(* A document has two views: its layout, the characters that carry L1 and  *)
(* L2, and its wording, which carries L3.  They are edited together.  The  *)
(* synonyms of L3 are read from text without zero-width characters, its    *)
(* other styles from the text as it is: any piece of style can be hidden   *)
(* by a frame as long as the layout has zero-width characters.             *)
(* The other recipient's copy of the same document is sealed and           *)
(* registered before.                                                      *)
(***************************************************************************)
EXTENDS Fingerprint

CONSTANTS
  Sources,            \* documents with the options they are sealed with
  MaxLines,           \* bound on the lines an excerpt is taken from
  Marks,              \* marks secrets.token_bytes can draw
  Leaker, Bystander   \* the two recipients

Documents ==
  Seq([kind : STRING, parts : Seq(Seq([w : STRING, cap : BOOLEAN]))])

ASSUME AttributionAssumption ==
  /\ Marks \subseteq MarkIds /\ NoMark \notin MarkIds
  /\ Leaker # Bystander
  /\ \A src \in Sources :
       /\ src.layout \in Seq(Chars) /\ src.doc \in Documents
       /\ src.requested \in {"auto", "off", "full", "boilerplate"}
       /\ src.carrier \in {"text", "pdf", "docx"}
       /\ src.keywords \in [words : BOOLEAN, tag : MarkIds \cup {NoMark}]

VARIABLES
  phase,    \* "sealing", "leaking", "reported", "refused"
  source,   \* the document and the options of seal
  other,    \* the bystander's copy
  copy,     \* the leaker's copy
  rows,     \* the watermarks table of the registry: [mark, layer, recipient]
  leak,     \* the text that was found
  edits,    \* what was done to it
  report    \* what attribution says

vars == <<phase, source, other, copy, rows, leak, edits, report>>

\* formats/pdf.py keeps the mark under a metadata key of its own.  docx.py
\* adds a tag to the keywords unless there is one, and reads only a tag the
\* keywords start with.
DocxEmbed(keywords, mark) ==
  IF keywords.tag = NoMark THEN [keywords EXCEPT !.tag = mark] ELSE keywords

DocxExtract(keywords) == IF keywords.words THEN NoMark ELSE keywords.tag

EmbedMetadata(src, mark) ==
  CASE src.carrier = "text" -> src.keywords
    [] src.carrier = "pdf"  -> [words |-> FALSE, tag |-> mark]
    [] src.carrier = "docx" -> DocxEmbed(src.keywords, mark)

\* Marks of one text, most visible layer first: cmd_seal after the options
\* are read.
MarkCopy(src, mark) ==
  LET mode == DecideL3(ClassifyDocument(src.declared, src.hints), src.requested)
  IN  [mark |-> mark, mode |-> mode,
       layout |-> EmbedZw(EmbedWs(src.layout, mark), mark),
       doc |-> ApplyL3Safe(src.doc, mark, mode),
       keywords |-> EmbedMetadata(src, mark)]

Layers(c) ==
  {"L1_zero_width", "L2_whitespace"} \cup
  CASE c.mode = "off" -> {}
    [] c.mode = "full" -> {"L3_semantic_full"}
    [] c.mode = "boilerplate" -> {"L3_semantic_boilerplate"}

RowsOf(c, recipient) ==
  {[mark |-> c.mark, layer |-> l, recipient |-> recipient] : l \in Layers(c)}

NoKeywords == [words |-> FALSE, tag |-> NoMark]
NoLeak == [layout |-> << >>, doc |-> << >>, keywords |-> NoKeywords]
NoCopy == NoLeak @@ [mark |-> NoMark, mode |-> "off"]
NoReport == [by |-> "none", named |-> {}, best |-> {}, alike |-> {}]

Init ==
  /\ phase = "sealing"
  /\ source \in Sources
  /\ \E m \in Marks : other = MarkCopy(source, m)
  /\ copy = NoCopy
  /\ rows = RowsOf(other, Bystander)
  /\ leak = NoLeak
  /\ edits = {}
  /\ report = NoReport
-----------------------------------------------------------------------------
\* The copy is sealed and, with --register, registered; a registration that
\* fails is reported on the terminal and nothing is taken back.
Seal(mark, registered) ==
  /\ phase = "sealing"
  /\ registered => source.register
  /\ mark # other.mark
  /\ MarkCopy(source, mark).mode # "off" => source.ack
  /\ copy' = MarkCopy(source, mark)
  /\ rows' = IF registered THEN rows \cup RowsOf(copy', Leaker) ELSE rows
  /\ leak' = [layout |-> copy'.layout, doc |-> copy'.doc, keywords |-> copy'.keywords]
  /\ phase' = "leaking"
  /\ UNCHANGED <<source, other, edits, report>>

\* L3 changes visible text: without an acknowledgement seal exits.
SealRefused ==
  /\ phase = "sealing" /\ ~ source.ack
  /\ DecideL3(ClassifyDocument(source.declared, source.hints), source.requested) # "off"
  /\ phase' = "refused"
  /\ UNCHANGED <<source, other, copy, rows, leak, edits, report>>

\* The leaked text is retyped, reformatted or quoted in part.
DropInvisible ==
  /\ phase = "leaking"
  /\ leak' = [leak EXCEPT !.layout = StripZw(@)]
  /\ edits' = edits \cup {"zw"}
  /\ UNCHANGED <<phase, source, other, copy, rows, report>>

DropMetadata ==
  /\ phase = "leaking" /\ leak.keywords # NoKeywords
  /\ leak' = [leak EXCEPT !.keywords = NoKeywords]
  /\ UNCHANGED <<phase, source, other, copy, rows, edits, report>>

RStrip(line) ==
  SubSeq(line, 1, Max({0} \cup {i \in DOMAIN line : line[i] \notin Blank}))

DropTrailing ==
  /\ phase = "leaking"
  /\ leak' = [leak EXCEPT !.layout =
       LET ls == Lines(@) IN JoinLines([n \in DOMAIN ls |-> RStrip(ls[n])])]
  /\ edits' = edits \cup {"ws"}
  /\ UNCHANGED <<phase, source, other, copy, rows, report>>

Some(lines, first, last) == SubSeq(lines, first, Min({last, Len(lines)}))

\* Whole lines of it.
Excerpt(first, last) ==
  /\ phase = "leaking" /\ "cut" \notin edits
  /\ leak' = [layout |-> LET ls == Some(Lines(leak.layout), first, last)
                         IN  IF ls = << >> THEN << >> ELSE JoinLines(ls),
              doc |-> Some(leak.doc, first, last),
              keywords |-> leak.keywords]
  /\ edits' = edits \cup {"cut"}
  /\ UNCHANGED <<phase, source, other, copy, rows, report>>
-----------------------------------------------------------------------------
\* POST /attribute with a mark and a layer.
Attribute(mark, layer) == {r.recipient : r \in {q \in rows : q.mark = mark /\ q.layer = layer}}

Plain(text) == \A i \in DOMAIN text : text[i] \notin ZeroWidth

\* The wording of the leaked text as the style readers may see it.
Seen == IF Plain(leak.layout) THEN {DocText(leak.doc)} ELSE Unstripped(DocText(leak.doc))

\* verify_l3
VerifyL3(text, seen, candidates) ==
  {[mark |-> m, hits |-> VerifySynonyms(text, m).hits, total |-> VerifySynonyms(text, m).total] :
     m \in {c \in candidates : OverallMatch(text, seen, c)}}

\* Phases 1 to 4 of cmd_attribute; GET /marks is not served, so only marks
\* read from the text are candidates.
DirectCandidates ==
  LET l2 == ExtractWsPartial(leak.layout)
  IN  ToSet(ExtractZw(leak.layout)) \cup
      IF l2.mark # NoMark /\ 2 * l2.bits >= MarkBits THEN {l2.mark} ELSE {}

RecoverMarksV2(seen, candidates) ==
  FuseCandidates(ToSet(ExtractZw(leak.layout)), ExtractWsPartial(leak.layout),
                 VerifyL3(DocText(leak.doc), seen, candidates))

\* Phase 5: the sidecars in the order the directory lists them; the first of
\* the most similar ones is kept, if it reaches 0.3.
FingerprintMatch(listed) ==
  LET leaked == FromText(leak.doc)
      Of(r) == Similarity(leaked, FromText(IF r = Leaker THEN copy.doc ELSE other.doc))
      best == SelectInSeq(listed, LAMBDA r : \A q \in ToSet(listed) : ~ Above(Of(q), Of(r)))
  IN  IF 10 * Of(listed[best]).num >= 3 * Of(listed[best]).den THEN {listed[best]} ELSE {}

\* A lookup that fails is reported and attribution goes on.
CmdAttribute(online, listed, seen) ==
  /\ phase = "leaking"
  /\ report' = [by |-> "cli",
                named |-> IF online THEN UNION {Attribute(m, "L1_zero_width") : m \in DirectCandidates}
                          ELSE {},
                best |-> {c.mark : c \in BestOf(RecoverMarksV2(seen, DirectCandidates))},
                alike |-> FingerprintMatch(listed)]
  /\ phase' = "reported"
  /\ UNCHANGED <<source, other, copy, rows, leak, edits>>

\* GET /candidates/semantic
CandidatesSemantic == {r.mark : r \in {q \in rows : q.layer = "L3_semantic"}}

\* Mutant: a partial whitespace mark is looked up as well.
CheckTextPartial(seen) ==
  (UNION {Attribute(m, "L1_zero_width") : m \in ToSet(ExtractZw(leak.layout))})
  \cup Attribute(ExtractWsPartial(leak.layout).mark, "L2_whitespace")

\* _check_text of the Flywheel matcher.
CheckText(seen) ==
  LET l2 == ExtractWs(leak.layout)
  IN  (UNION {Attribute(m, "L1_zero_width") : m \in ToSet(ExtractZw(leak.layout))})
      \cup (IF l2 = NoMark THEN {} ELSE Attribute(l2, "L2_whitespace"))
      \cup UNION {Attribute(h.mark, "L3_semantic") :
                    h \in VerifyL3(DocText(leak.doc), seen, CandidatesSemantic)}

\* A scraped text, or an attachment: its metadata is looked up under any
\* layer, and an error while its body is read or checked is swallowed.
HandleScraped(readable, seen) ==
  /\ phase = "leaking"
  /\ ~ readable => source.carrier # "text"
  /\ LET meta == DocxExtract(leak.keywords)
         tagged == {r.recipient : r \in {q \in rows : q.mark = meta}}
     IN  report' = [NoReport EXCEPT !.by = "flywheel",
                      !.named = (IF source.carrier = "text" THEN {} ELSE tagged)
                                \cup (IF readable THEN CheckText(seen) ELSE {})]
  /\ phase' = "reported"
  /\ UNCHANGED <<source, other, copy, rows, leak, edits>>

\* A request that fails raises out of the job: what was found is lost.
JobFails ==
  /\ phase = "leaking"
  /\ report' = [NoReport EXCEPT !.by = "failed"]
  /\ phase' = "reported"
  /\ UNCHANGED <<source, other, copy, rows, leak, edits>>

Next ==
  \/ \E m \in Marks, registered \in BOOLEAN : Seal(m, registered)
  \/ SealRefused
  \/ DropInvisible \/ DropTrailing \/ DropMetadata
  \/ \E i, j \in 1..MaxLines : i <= j /\ Excerpt(i, j)
  \/ \E online \in BOOLEAN, listed \in {<<Leaker, Bystander>>, <<Bystander, Leaker>>}, seen \in Seen :
       CmdAttribute(online, listed, seen)
  \/ \E readable \in BOOLEAN, seen \in Seen : HandleScraped(readable, seen)
  \/ JobFails

Spec == Init /\ [][Next]_vars
-----------------------------------------------------------------------------
NoBits(text) == \A i \in DOMAIN text : text[i] \notin {"zs", "zn"}

NoTrailing(text) == \A n \in DOMAIN Lines(text) : ~ EndsIn(Lines(text)[n], Blank)

(***************************************************************************)
(* L1: every frame read from a leaked text holds the leaker's mark, if the *)
(* document held no zero-width bits before.  embed_zw marks every plain    *)
(* text except one of exactly Density characters, and dropping the         *)
(* trailing whitespace costs no frame.                                     *)
(***************************************************************************)
FramesReadBack ==
  /\ NoBits(source.layout) => ToSet(ExtractZw(leak.layout)) \subseteq {copy.mark}
  /\ phase = "leaking" /\ edits \subseteq {"ws"} /\ Plain(source.layout) =>
       \/ Len(EmbedWs(source.layout, copy.mark)) = Density
       \/ ExtractZw(leak.layout) # << >>

(***************************************************************************)
(* L2: for a text without trailing whitespace of its own, the exact        *)
(* reading of any leaked part is the leaker's mark or nothing, whatever    *)
(* was dropped from it; an L1 frame behind a marked line hides a bit but   *)
(* never turns the mark into another.                                      *)
(***************************************************************************)
WhitespaceReadsExactly ==
  NoTrailing(StripZw(source.layout)) => ExtractWs(leak.layout) \in {NoMark, copy.mark}

(***************************************************************************)
(* Fusion: while a frame survives, the best candidate of oversight         *)
(* attribute is the leaker's mark, however the whitespace and the wording  *)
(* are misread - unless both of them agree on another mark, and at least   *)
(* 20/27 of its bits are in the whitespace (1 - (1 - 0.90)(1 - 0.85)       *)
(* exceeds the 0.95 of a frame).                                           *)
(***************************************************************************)
FramesDecide ==
  report.by = "cli" /\ NoBits(source.layout) /\ ExtractZw(leak.layout) # << >> =>
    \/ report.best = {copy.mark}
    \/ LET l2 == ExtractWsPartial(leak.layout)
       IN  /\ l2.mark # copy.mark /\ 27 * l2.bits >= 20 * MarkBits
           /\ \E seen \in Seen :
                l2.mark \in {h.mark : h \in VerifyL3(DocText(leak.doc), seen, DirectCandidates)}

\* A word whose class verify_synonyms_v2 can rely on: none of its variants
\* belongs to an earlier class, has a hyphen, or has two spellings.
Reliable(w) ==
  \A v \in ToSet(Classes[Lookup(w)[1]]) :
    /\ Lookup(v)[1] = Lookup(w)[1] /\ v \notin Hyphenated
    /\ \A n \in DOMAIN Spellings : Spellings[n] \notin {<< <<v>>, Spellings[n][2]>>, <<Spellings[n][1], <<v>> >>}

Words(text) == {text[i].w : i \in Matchable(text, TRUE)}

\* The styles of which some bit is read wrong.
Misread(seen, mark) ==
  LET styles == StyleScores(seen, mark)
  IN  {k \in 1..3 : styles[k].hits < styles[k].total}


(***************************************************************************)
(* Winnowing: an excerpt of at least K + Window - 1 characters shares a    *)
(* fingerprint with the copy it was taken from.                            *)
(***************************************************************************)
ExcerptsShareHashes ==
  Len(NormalizeText(DocText(leak.doc))) >= K + Window - 1 =>
    Winnow(DocText(leak.doc)) \cap Winnow(DocText(copy.doc)) # {}

(***************************************************************************)
(* The Flywheel matcher names nobody but the leaker of a text that had no  *)
(* zero-width bits, trailing whitespace or tag of its own, and it does     *)
(* name the leaker when the copy was registered and its body is read and   *)
(* holds a frame, or its metadata survives and had no keywords before.     *)
(***************************************************************************)
MatcherNamesLeaker ==
  /\ report.by = "flywheel" /\ NoBits(source.layout)
  /\ NoTrailing(StripZw(source.layout)) /\ source.keywords.tag = NoMark
  => /\ report.named \subseteq {Leaker}
     /\ /\ RowsOf(copy, Leaker) \subseteq rows
        /\ \/ source.carrier = "text" /\ ExtractZw(leak.layout) # << >>
           \/ source.carrier # "text" /\ leak.keywords = [words |-> FALSE, tag |-> copy.mark]
        => Leaker \in report.named
=============================================================================
