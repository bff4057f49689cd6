---------------------------- MODULE Fingerprint -----------------------------
(***************************************************************************)
(* oversight_core/fingerprint.py: winnowing and sentence hashes, computed  *)
(* when a file is sealed and compared with the hashes of a leaked text.    *)
(***************************************************************************)
EXTENDS Semantic

CONSTANTS
  K,            \* length of a k-gram (10)
  Window,       \* winnowing window (4)
  GramHash(_),  \* the MD5 prefix of a k-gram
  Unspoken,     \* pieces without letters or digits
  ShortWords,   \* words of one or two letters
  MinWords      \* words a sentence needs to be hashed (3)

ASSUME WinnowAssumption == {K, Window} \subseteq Nat \ {0}

\* _normalize_text: neither case nor invisible characters nor punctuation.
NormalizeText(text) == Without(SubjectPieces(text), Unspoken)

\* Mutant: steps from one window to the one behind it.
WinnowApart(text) ==
  LET norm == NormalizeText(text)
      hashes == [i \in 1..(Len(norm) - K + 1) |-> GramHash(SubSeq(norm, i, i + K - 1))]
  IN  IF Len(norm) < K + Window - 1 THEN {}
      ELSE {Min({hashes[j] : j \in i..(i + Window - 1)}) :
         i \in {j \in 1..(Len(hashes) - Window + 1) : j % Window = 1}}

\* The hashes of the k-grams that are the least of a window; all of them
\* when there is not even one window.
Winnow(text) ==
  LET norm == NormalizeText(text)
      hashes == [i \in 1..(Len(norm) - K + 1) |-> GramHash(SubSeq(norm, i, i + K - 1))]
  IN  IF Len(norm) < K THEN {}
      ELSE IF Len(hashes) < Window THEN ToSet(hashes)
      ELSE {Min({hashes[j] : j \in i..(i + Window - 1)}) : i \in 1..(Len(hashes) - Window + 1)}

\* _sentence_hash: the longer words in no particular order.  Every line of a
\* document is a sentence.
SentenceHash(text) == ToBag(Without(NormalizeText(text), ShortWords))

SentenceFingerprint(doc) ==
  LET long == SelectSeq(doc, LAMBDA l : Len(LineText(l)) >= MinWords)
  IN  [n \in DOMAIN long |-> SentenceHash(LineText(long[n]))]

FromText(doc) == [winnow |-> Winnow(DocText(doc)), sentences |-> SentenceFingerprint(doc)]

\* similarity(self, other): 0.4 of the Jaccard similarity of the hashes and
\* 0.6 of the share of the other's sentences that occur here, as [num, den].
Similarity(self, other) ==
  LET w == IF self.winnow = {} \/ other.winnow = {} THEN <<0, 1>>
           ELSE <<Cardinality(self.winnow \cap other.winnow),
                  Cardinality(self.winnow \cup other.winnow)>>
      s == IF self.sentences = << >> \/ other.sentences = << >> THEN <<0, 1>>
           ELSE <<Cardinality({n \in DOMAIN other.sentences :
                                 other.sentences[n] \in ToSet(self.sentences)}),
                  Len(other.sentences)>>
  IN  [num |-> 2 * w[1] * s[2] + 3 * s[1] * w[2], den |-> 5 * w[2] * s[2]]

Above(s, t) == s.num * t.den > t.num * s.den
=============================================================================
