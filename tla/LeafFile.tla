------------------------------ MODULE LeafFile ------------------------------
(***************************************************************************)
(* The file leaves.jsonl that backs a transparency log, as both            *)
(* oversight_core/tlog.py and oversight-tlog/src/lib.rs write and read it. *)
(*                                                                         *)
(* One line per leaf, a JSON object that carries its own index and the     *)
(* leaf's bytes.  A file is a sequence of lines and a flag that says       *)
(* whether the last line is terminated by a newline.  A line is either a   *)
(* record [index, data] that the parsers accept at that index, or Torn:    *)
(* bytes that are not one JSON object (a record cut short, or two records  *)
(* run together because the newline between them is missing).              *)
(*                                                                         *)
(* Hashes are collision free, so a leaf stands for its hash and the check  *)
(* leaf_hash = H(0x00 || leaf_data) holds of every whole record.           *)
(***************************************************************************)
EXTENDS Naturals, Sequences

CONSTANTS
  Data,     \* the leaves that can be appended
  Torn      \* a line that does not parse

ASSUME TornAssumption == Torn \notin [index : Nat, data : Data]

Record(i, d) == [index |-> i, data |-> d]

Line == [index : Nat, data : Data] \cup {Torn}

File == [lines : Seq(Line), ended : BOOLEAN]

EmptyFile == [lines |-> << >>, ended |-> TRUE]

(***************************************************************************)
(* Opening the file in append mode and writing "record\n".  When the last  *)
(* line has no newline the new record joins it, and that line is no longer *)
(* one JSON object.                                                        *)
(***************************************************************************)
WriteLine(f, line) ==
  [lines |-> IF f.ended THEN Append(f.lines, line)
                        ELSE [f.lines EXCEPT ![Len(f.lines)] = Torn],
   ended |-> TRUE]

(***************************************************************************)
(* What a write of one record may leave behind when it does not complete   *)
(* (an error of write or fsync, or a crash before fsync returned).  The    *)
(* bytes arrive in order, so what is left is a prefix of "record\n":       *)
(* nothing, a fragment, the record without its newline, or all of it.      *)
(***************************************************************************)
Remains == {"nothing", "fragment", "unterminated", "whole"}

PartialWrite(f, line, left) ==
  IF left = "nothing" THEN f
  ELSE [lines |-> WriteLine(f, IF left = "fragment" THEN Torn ELSE line).lines,
        ended |-> left = "whole"]

\* _parse_leaf_record / parse_leaf_record accept line number i (from 1).
ParsesAt(f, i) == f.lines[i] # Torn /\ f.lines[i].index = i - 1

(***************************************************************************)
(* The loop of _load / open_with_signer: every line must parse at its own  *)
(* position, else the constructor raises and the registry does not start.  *)
(* The newline of the last line is not needed.                             *)
(***************************************************************************)
Loadable(f) == \A i \in 1..Len(f.lines) : ParsesAt(f, i)

LoadedLeaves(f) == [i \in 1..Len(f.lines) |-> f.lines[i].data]

(***************************************************************************)
(* range_records: reads the first end lines, end capped by the number of   *)
(* leaves in memory; raises when one does not parse or is missing.         *)
(***************************************************************************)
RangeFails == "ValueError"

MinOf(a, b) == IF a <= b THEN a ELSE b

\* Mutant: the last record of the range is left out.
RangeRecordsShort(f, size, start, limit) ==
  LET end == MinOf(start + limit, size)
  IN  IF limit = 0 \/ start >= size THEN << >>
      ELSE SubSeq(f.lines, start + 1, end - 1)

RangeRecords(f, size, start, limit) ==
  LET end == MinOf(start + limit, size)
  IN  IF limit = 0 \/ start >= size THEN << >>
      ELSE IF /\ end <= Len(f.lines)
              /\ \A i \in 1..end : ParsesAt(f, i)
           THEN SubSeq(f.lines, start + 1, end)
           ELSE RangeFails
=============================================================================
