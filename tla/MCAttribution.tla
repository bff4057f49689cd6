--------------------------- MODULE MCAttribution ----------------------------
(***************************************************************************)
(* Attribution for TLC: every short layout under one wording, and every    *)
(* short wording under one layout.  The dictionary is a part of the real   *)
(* one: a class with a multi-word variant, one with a hyphenated variant,  *)
(* two classes that share a word, a class with a word of two spellings.    *)
(***************************************************************************)
EXTENDS Attribution

DictClasses ==
  << <<"find", "locate", "identify">>, <<"know", "understand", "recognize">>,
     <<"make", "create", "produce">>, <<"create", "generate", "build">>,
     <<"establish", "set up", "institute">>, <<"report", "document", "write-up">> >>

DictSpellings == << << <<"recognize">>, <<"recognise">> >>, << <<"program">>, <<"program", "me">> >> >>

DictContractions ==
  << << <<"is", "n't">>, <<"is", "not">> >>, << <<"it", "'s">>, <<"it", "is">> >> >>

Vocabulary ==
  <<"find", "locate", "identify", "know", "understand", "recognize", "recognise", "make",
    "create", "produce", "generate", "build", "establish", "institute", "program", "me",
    "is", "not", "n't", "it", "'s", "a, b and c", "a, b, and c", "--", "em dash",
    "straight", "curly", "report", "document", "write-up">>

Expansion == [m \in MarkIds |-> IF m[1] % 2 = 0 THEN <<2, 0, 1, 1, 2, 0, 1>> ELSE <<1, 2, 0, 2, 1, 1, 0>>]

\* A hash with collisions.
Code(w) == SelectInSeq(Vocabulary, LAMBDA v : v = w)
Hash(gram) == (7 * Code(gram[1]) + 3 * Code(gram[2])) % 11

Piece(w) == [w |-> w, cap |-> FALSE]
Text(ws) == [i \in DOMAIN ws |-> Piece(ws[i])]
Line(kind, parts) == [kind |-> kind, parts |-> parts]

Source(layout, doc, requested, register) ==
  [layout |-> layout, doc |-> doc, declared |-> "auto", hints |-> <<"none", "none", "none">>,
   requested |-> requested, ack |-> TRUE, register |-> register,
   carrier |-> "text", keywords |-> NoKeywords]

SomeDoc == << Line("prose", <<Text(<<"find", "make", "establish">>)>>) >>
Layouts ==
  {Source(l, SomeDoc, "full", TRUE) :
     l \in BoundedSeq({"x", "sp", "nl", "zj"}, 3) \cup TupleOf({"x", "sp", "nl"}, 4)}

SomeLayout == <<"x">>
Capitalised(text) == [i \in DOMAIN text |-> [text[i] EXCEPT !.cap = i = 1]]
Segments(ws, n) == {Text(s) : s \in BoundedSeq(ws, n)}

OneSegment ==
  {Source(SomeLayout, << Line("prose", <<s>>) >>, "auto", FALSE) :
     s \in Segments({"find", "know", "generate", "report"}, 3)
           \cup Segments({"find", "establish", "program", "--", "straight"}, 3)
           \cup {Text(<<"find", "establish", "program", "--">>)}
           \cup {t \in Segments({"find", "program", "me", "it", "is", "not"}, 3) :
                   \A i \in DOMAIN t : t[i].w = "me" => i > 1 /\ t[i - 1].w = "program"}}

\* Quotes, capitals, code blocks, boilerplate, documents of two lines.
Structured ==
  {Source(SomeLayout, d, mode, FALSE) : mode \in {"full", "boilerplate", "off"},
     d \in {<<Line("prose", <<Capitalised(Text(<<"find", "make">>)), Text(<<"find">>), Text(<<"make">>)>>),
              Line("prose", <<Capitalised(Text(<<"find">>))>>)>>,
            <<Line("fence", <<<<>>>>), Line("prose", <<Text(<<"find">>)>>), Line("fence", <<<<>>>>),
              Line("notice", <<Text(<<"make">>)>>), Line("guarded", <<Text(<<"find">>)>>),
              Line("prose", <<Text(<<"find", "establish", "make">>)>>)>>}}

TwoLines ==
  {Source(<<"x", "nl">>, <<Line("prose", <<Text(<<w>>)>>), Line("prose", <<Text(s)>>)>>, "full", FALSE) :
     w \in {"find", "program"}, s \in TupleOf({"find", "generate", "not"}, 3)}

Declared(class, hint, ack) ==
  [Source(SomeLayout, SomeDoc, "auto", TRUE) EXCEPT !.declared = class, !.hints[2] = hint, !.ack = ack]

Options == {Declared("auto", "legal", TRUE), Declared("auto", "none", FALSE), Declared("prose", "sql", FALSE)}

Attached ==
  {[Source(<<"x", "nl", "x">>, SomeDoc, "off", TRUE) EXCEPT !.carrier = c, !.keywords = k] :
     c \in {"pdf", "docx"}, k \in [words : BOOLEAN, tag : {NoMark, <<2>>}]}

\* The author's trailing whitespace and wording happen to spell one mark.
Misleading == Source(<<"x", "sp", "nl", "x", "sp">>,
                     << Line("prose", <<Text(<<"identify", "know", "create">>)>>) >>, "off", TRUE)

\* A document that already holds a frame.
Framed == Source(<<"x", "zj", "zs", "zn", "zj", "x">>, SomeDoc, "off", TRUE)

TwoMarks == {<<1>>, <<2>>}

MCSources == Layouts \cup OneSegment \cup Structured \cup TwoLines \cup Options \cup Attached \cup {Misleading, Framed}
=============================================================================
