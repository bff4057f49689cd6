--------------------------- MODULE RustTlogProofs ---------------------------
(***************************************************************************)
(* Theorems about RustTlog, for every set of threads and leaves and every  *)
(* bound, under failed writes and crashes that leave any prefix of a line. *)
(*                                                                         *)
(* The Rust log has two Mutexes, so the cached root is not always the tree *)
(* in memory: between the push of a leaf and the invalidation it lags one  *)
(* leaf behind, and root() may answer with it.  That is harmless because   *)
(* whoever calls root() read its size or path from a tree that the cache   *)
(* already covered (CallOK).                                               *)
(***************************************************************************)
EXTENDS RustTlog, TLAPS

(***************************************************************************)
(* The file: types, and what writes do to it.                              *)
(***************************************************************************)

\* A file whose last line is unterminated has a last line.
WellFormed(f) == f \in File /\ (~ f.ended => Len(f.lines) > 0)

\* Appending a line to leaves.jsonl yields a file again.
LEMMA WriteLineType ==
  ASSUME NEW f, WellFormed(f), NEW line \in Line
  PROVE  /\ WellFormed(WriteLine(f, line))
         /\ WriteLine(f, line).ended
         /\ Len(WriteLine(f, line).lines) > 0
  BY DEF WellFormed, WriteLine, File, Line

\* So does a write that stopped part way.
LEMMA PartialWriteType ==
  ASSUME NEW f, WellFormed(f), NEW line \in Line, NEW left \in Remains
  PROVE  WellFormed(PartialWrite(f, line, left))
<1>1. CASE left = "nothing"
  BY <1>1 DEF PartialWrite
<1>2. CASE left # "nothing"
  <2> DEFINE w == WriteLine(f, IF left = "fragment" THEN Torn ELSE line)
  <2>1. WellFormed(w) /\ Len(w.lines) > 0
    BY WriteLineType DEF Line
  <2>2. PartialWrite(f, line, left) = [lines |-> w.lines, ended |-> left = "whole"]
    BY <1>2 DEF PartialWrite
  <2> HIDE DEF w
  <2> QED
    BY <2>1, <2>2 DEF WellFormed, File
<1> QED
  BY <1>1, <1>2

\* A write adds its line at the end or ruins the last one; if the result
\* loads, the line is the next one and all the others are untouched.
LEMMA WriteKeepsUnloadable ==
  ASSUME NEW f, WellFormed(f), NEW line \in Line, Loadable(WriteLine(f, line))
  PROVE  /\ Loadable(f)
         /\ line # Torn
         /\ line.index = Len(f.lines)
         /\ WriteLine(f, line).lines = Append(f.lines, line)
<1>1. f.ended
  BY DEF WellFormed, WriteLine, File, Line, Loadable, ParsesAt
<1>2. WriteLine(f, line).lines = Append(f.lines, line)
  BY <1>1 DEF WriteLine
<1>3. Loadable(f)
  BY <1>2 DEF WellFormed, File, Loadable, ParsesAt
<1>4. ParsesAt(WriteLine(f, line), Len(f.lines) + 1)
  BY <1>2 DEF WellFormed, File, Loadable
<1>5. WriteLine(f, line).lines[Len(f.lines) + 1] = line
  BY <1>2 DEF WellFormed, File
<1>6. line # Torn /\ line.index = Len(f.lines) + 1 - 1
  BY <1>4, <1>5 DEF ParsesAt
<1> QED
  BY <1>2, <1>3, <1>6 DEF WellFormed, File

\* A partial write never makes a refused file loadable, nor does it change
\* the lines of a file that still loads.
LEMMA PartialWriteKeepsUnloadable ==
  ASSUME NEW f, WellFormed(f), NEW line \in Line, NEW left \in Remains,
         Loadable(PartialWrite(f, line, left))
  PROVE  /\ Loadable(f)
         /\ Len(f.lines) <= Len(PartialWrite(f, line, left).lines)
         /\ \A i \in 1..Len(f.lines) : PartialWrite(f, line, left).lines[i] = f.lines[i]
<1> DEFINE p == PartialWrite(f, line, left)
           w == WriteLine(f, line)
           v == WriteLine(f, Torn)
<1>1. CASE left = "nothing"
  BY <1>1 DEF PartialWrite, WellFormed, File
<1>2. CASE left = "fragment"
  <2>1. p.lines = v.lines
    BY <1>2 DEF PartialWrite, WriteLine
  <2>2. Loadable(v)
    BY <2>1 DEF Loadable, ParsesAt
  <2> QED
    BY <2>2, WriteKeepsUnloadable DEF Line
<1>3. CASE left \in {"unterminated", "whole"}
  <2>1. p.lines = w.lines
    BY <1>3 DEF PartialWrite, WriteLine
  <2>2. Loadable(w)
    BY <2>1 DEF Loadable, ParsesAt
  <2>3. Loadable(f) /\ w.lines = Append(f.lines, line)
    BY <2>2, WriteKeepsUnloadable
  <2> QED
    BY <2>1, <2>3 DEF WellFormed, File
<1> QED
  BY <1>1, <1>2, <1>3 DEF Remains

\* The leaves a constructor reads from a file that loads: one per line.
LEMMA LoadedLeavesType ==
  ASSUME NEW f, WellFormed(f), Loadable(f)
  PROVE  /\ LoadedLeaves(f) \in Seq(Data)
         /\ Len(LoadedLeaves(f)) = Len(f.lines)
         /\ \A i \in 1..Len(f.lines) : LoadedLeaves(f)[i] = f.lines[i].data
  BY DEF WellFormed, File, Line, Loadable, ParsesAt, LoadedLeaves
-----------------------------------------------------------------------------
\* Who holds which Mutex, and that only a running log has calls.
LockOK(t) ==
  /\ pc[t] # "idle" => status = "up"
  /\ leavesLock = t <=> pc[t] \in {"invalidate", "write"}
  /\ cachedLock = t <=> pc[t] = "root_leaves"
  /\ pc[t] \in {"invalidate", "write"} => leaves # << >>

\* The cache is the tree, or an append has not invalidated it yet.
CacheOK ==
  cached # NoRoot => cached = leaves \/ \E t \in Threads : pc[t] = "invalidate"

\* What a call read before root() lies within the given tree.
Within(f, tree) ==
  /\ f.call = "head" => f.size <= Len(tree)
  /\ f.call = "proof" => /\ f.index < f.size /\ f.size = Len(f.path)
                         /\ IsPrefix(f.path, tree)

CallOK(t) ==
  pc[t] \in {"root", "root_leaves"} =>
    /\ Within(frame[t], leaves)
    /\ cached # NoRoot => Within(frame[t], cached)

\* What was acknowledged is in the file at its index, or the file is refused.
AckOK ==
  Loadable(file) =>
    \A r \in acked : r.index < Len(file.lines) /\ file.lines[r.index + 1] = r

RustInv ==
  /\ TypeOK
  /\ WellFormed(file)
  /\ \A t \in Threads : LockOK(t)
  /\ CacheOK
  /\ \A t \in Threads : CallOK(t)
  /\ AckOK /\ AckedInTree
  /\ HeadNotAhead /\ ProofOrder
-----------------------------------------------------------------------------
\* A prefix of the Vec is a prefix of the Vec with one more leaf.
LEMMA PrefixOfPush ==
  ASSUME NEW s \in Seq(Data), NEW t \in Seq(Data), NEW d \in Data, IsPrefix(s, t)
  PROVE  IsPrefix(s, Append(t, d))
  BY DEF IsPrefix

\* What lies within the tree lies within a larger one.
LEMMA WithinPush ==
  ASSUME NEW f \in Frame, NEW tree \in Seq(Data), NEW d \in Data, Within(f, tree)
  PROVE  Within(f, Append(tree, d))
<1>1. f.size \in Nat /\ f.path \in Seq(Data)
  BY DEF Frame
<1>2. Len(Append(tree, d)) = Len(tree) + 1 /\ Len(tree) \in Nat
  OBVIOUS
<1> QED
  BY <1>1, <1>2, PrefixOfPush DEF Within

\* Initially there is no leaf, no call and no answer.
LEMMA RustInit == Init => RustInv
<1> SUFFICES ASSUME Init PROVE RustInv
  OBVIOUS
<1> USE ConstantsAssumption DEF Init
<1>1. TypeOK /\ WellFormed(file)
  BY DEF TypeOK, WellFormed, EmptyFile, File, Line, PC, NoFrame, Frame
<1>2. (\A t \in Threads : LockOK(t)) /\ CacheOK /\ (\A t \in Threads : CallOK(t))
  BY DEF LockOK, CacheOK, CallOK
<1>3. AckOK /\ AckedInTree /\ HeadNotAhead /\ ProofOrder
  BY DEF AckOK, AckedInTree, HeadNotAhead, ProofOrder
<1> QED
  BY <1>1, <1>2, <1>3 DEF RustInv

\* The record the holder of the leaves lock writes is the last leaf.
LEMMA PendingIsLine ==
  ASSUME RustInv, NEW t \in Threads, pc[t] = "write"
  PROVE  /\ Pending \in [index : Nat, data : Data] /\ Pending \in Line
         /\ Pending.index < Len(leaves)
         /\ leaves[Pending.index + 1] = Pending.data
<1>1. leaves \in Seq(Data) /\ leaves # << >>
  BY DEF RustInv, TypeOK, LockOK
<1>2. Len(leaves) \in Nat /\ Len(leaves) > 0
  BY <1>1
<1>3. leaves[Len(leaves)] \in Data /\ Len(leaves) - 1 \in Nat
  BY <1>1, <1>2
<1>4. Pending.index = Len(leaves) - 1 /\ Pending.data = leaves[Len(leaves)]
  BY DEF Pending, Record
<1>5. Pending \in [index : Nat, data : Data]
  BY <1>3 DEF Pending, Record
<1> QED
  BY <1>2, <1>4, <1>5 DEF Line

\* open_with_signer(): the leaves come from a file whose lines are in place.
LEMMA OpenStep == ASSUME RustInv, Open PROVE RustInv'
<1> USE DEF RustInv
<1>1. /\ \A t \in Threads : pc[t] = "idle" /\ leavesLock # t /\ cachedLock # t
      /\ leavesLock = NoThread /\ cachedLock = NoThread
  BY DEF Open, LockOK, TypeOK
<1>2. /\ UNCHANGED <<file, leavesLock, cachedLock, pc, frame, acked, heads, proofs>>
      /\ cached' = NoRoot
  BY DEF Open, locks, seen
<1>3. leaves' \in Seq(Data)
  BY LoadedLeavesType DEF Open, TypeOK
<1>4. TypeOK' /\ WellFormed(file')
  BY <1>2, <1>3 DEF Open, TypeOK
<1>5. (\A t \in Threads : LockOK(t)') /\ CacheOK' /\ (\A t \in Threads : CallOK(t)')
  BY <1>1, <1>2 DEF LockOK, CacheOK, CallOK
<1>6. AckedInTree'
  <2> SUFFICES ASSUME status' = "up", NEW r \in acked
               PROVE  r.index < Len(leaves') /\ leaves'[r.index + 1] = r.data
    BY <1>2 DEF AckedInTree
  <2>1. Loadable(file) /\ leaves' = LoadedLeaves(file)
    BY DEF Open
  <2>2. r.index \in Nat /\ r.index < Len(file.lines) /\ file.lines[r.index + 1] = r
    BY <2>1 DEF AckOK, TypeOK
  <2>3. Len(file.lines) \in Nat
    BY DEF WellFormed, File
  <2>4. r.index + 1 \in 1..Len(file.lines)
    BY <2>2, <2>3
  <2> QED
    BY <2>1, <2>2, <2>4, LoadedLeavesType
<1> QED
  BY <1>2, <1>4, <1>5, <1>6 DEF AckOK, HeadNotAhead, ProofOrder

\* append() pushes the leaf: the cache may now lag, which the lock records.
LEMMA AppendPushStep ==
  ASSUME RustInv, NEW t \in Threads, NEW d \in Data, AppendPush(t, d)
  PROVE  RustInv'
<1> USE DEF RustInv
<1>0. /\ leaves \in Seq(Data) /\ Len(leaves) \in Nat
      /\ pc \in [Threads -> PC] /\ frame \in [Threads -> Frame]
  BY DEF TypeOK
<1>1. /\ UNCHANGED <<status, cached, file, cachedLock, frame, acked, heads, proofs>>
      /\ leavesLock = NoThread /\ leavesLock' = t /\ pc[t] = "idle" /\ pc'[t] = "invalidate"
      /\ status = "up" /\ leaves' = Append(leaves, d)
      /\ \A u \in Threads \ {t} : pc'[u] = pc[u]
  BY <1>0 DEF AppendPush, Goto, seen
<1>2. leaves' \in Seq(Data) /\ leaves' # << >> /\ Len(leaves') = Len(leaves) + 1
  BY <1>0, <1>1
<1>3. TypeOK' /\ WellFormed(file')
  BY <1>0, <1>1, <1>2 DEF AppendPush, Goto, TypeOK, PC
<1>4. \A u \in Threads : LockOK(u)'
  BY <1>1, <1>2, ConstantsAssumption DEF LockOK
<1>5. CacheOK'
  BY <1>1 DEF CacheOK
<1>6. \A u \in Threads : CallOK(u)'
  <2> SUFFICES ASSUME NEW u \in Threads, u # t PROVE CallOK(u)'
    BY <1>1 DEF CallOK
  <2>1. frame[u] \in Frame
    BY <1>0
  <2> QED
    BY <1>0, <1>1, <2>1, WithinPush DEF CallOK
<1>7. AckedInTree'
  BY <1>0, <1>1 DEF AckedInTree, TypeOK
<1> QED
  BY <1>1, <1>3, <1>4, <1>5, <1>6, <1>7 DEF AckOK, HeadNotAhead, ProofOrder

\* append() drops the cache.
LEMMA AppendInvalidateStep ==
  ASSUME RustInv, NEW t \in Threads, AppendInvalidate(t)
  PROVE  RustInv'
<1> USE DEF RustInv
<1>0. pc \in [Threads -> PC]
  BY DEF TypeOK
<1>1. /\ UNCHANGED <<status, leaves, file, leavesLock, cachedLock, frame, acked, heads, proofs>>
      /\ pc[t] = "invalidate" /\ pc'[t] = "write" /\ cached' = NoRoot
      /\ \A u \in Threads \ {t} : pc'[u] = pc[u]
  BY <1>0 DEF AppendInvalidate, Goto, locks, seen
<1>2. TypeOK' /\ WellFormed(file')
  BY <1>0, <1>1 DEF AppendInvalidate, Goto, TypeOK, PC
<1>3. (\A u \in Threads : LockOK(u)') /\ CacheOK' /\ (\A u \in Threads : CallOK(u)')
  BY <1>1 DEF LockOK, CacheOK, CallOK
<1> QED
  BY <1>1, <1>2, <1>3 DEF AckOK, AckedInTree, HeadNotAhead, ProofOrder

\* The end of append(), Ok or Err: the lock is released, the tree stays.
LEMMA AppendEnds ==
  ASSUME RustInv, NEW t \in Threads, pc[t] = "write", leavesLock' = NoThread, Return(t),
         UNCHANGED <<status, leaves, cached, cachedLock, heads, proofs>>
  PROVE  /\ frame' \in [Threads -> Frame] /\ pc' \in [Threads -> PC]
         /\ \A u \in Threads : LockOK(u)' /\ CallOK(u)'
         /\ CacheOK' /\ HeadNotAhead' /\ ProofOrder'
<1> USE DEF RustInv
<1>0. pc \in [Threads -> PC] /\ frame \in [Threads -> Frame] /\ leavesLock = t
  BY DEF TypeOK, LockOK
<1>1. /\ pc'[t] = "idle"
      /\ \A u \in Threads \ {t} : pc'[u] = pc[u] /\ frame'[u] = frame[u]
      /\ frame' \in [Threads -> Frame] /\ pc' \in [Threads -> PC]
  BY <1>0 DEF Return, Goto, NoFrame, Frame, PC
<1>2. \A u \in Threads : LockOK(u)'
  BY <1>0, <1>1, ConstantsAssumption DEF LockOK
<1>3. \A u \in Threads : CallOK(u)'
  BY <1>1 DEF CallOK
<1>4. CacheOK'
  BY <1>1 DEF CacheOK
<1> QED
  BY <1>1, <1>2, <1>3, <1>4 DEF HeadNotAhead, ProofOrder

\* append() returned Ok: if the file loads, the new line is at its index.
LEMMA AppendOkStep ==
  ASSUME RustInv, NEW t \in Threads, AppendOk(t)
  PROVE  RustInv'
<1> USE DEF RustInv
<1>1. /\ Pending \in [index : Nat, data : Data] /\ Pending \in Line
      /\ Pending.index < Len(leaves) /\ leaves[Pending.index + 1] = Pending.data
  BY PendingIsLine DEF AppendOk
<1>2. /\ file' = WriteLine(file, Pending) /\ WellFormed(file')
      /\ acked' = acked \cup {Pending} /\ UNCHANGED <<status, leaves, cached, cachedLock>>
  BY <1>1, WriteLineType DEF AppendOk
<1>3. /\ frame' \in [Threads -> Frame] /\ pc' \in [Threads -> PC]
      /\ (\A u \in Threads : LockOK(u)' /\ CallOK(u)')
      /\ CacheOK' /\ HeadNotAhead' /\ ProofOrder'
  BY AppendEnds DEF AppendOk
<1>4. TypeOK'
  BY <1>1, <1>2, <1>3 DEF AppendOk, TypeOK, WellFormed
<1>5. AckOK'
  <2> SUFFICES ASSUME Loadable(file'), NEW r \in acked'
               PROVE  r.index < Len(file'.lines) /\ file'.lines[r.index + 1] = r
    BY DEF AckOK
  <2>1. /\ Loadable(file) /\ Pending.index = Len(file.lines)
        /\ file'.lines = Append(file.lines, Pending)
    BY <1>1, <1>2, WriteKeepsUnloadable
  <2>2. r \in [index : Nat, data : Data]
    BY <1>4 DEF TypeOK
  <2>3. CASE r \in acked
    BY <2>1, <2>2, <2>3 DEF AckOK, WellFormed, File
  <2>4. CASE r = Pending
    BY <2>1, <2>4 DEF WellFormed, File
  <2> QED
    BY <1>2, <2>3, <2>4
<1>6. AckedInTree'
  BY <1>1, <1>2 DEF AckedInTree
<1> QED
  BY <1>2, <1>3, <1>4, <1>5, <1>6

\* A file that holds some prefix of a further line and still loads has every
\* acknowledged line where it was.
LEMMA PartialWriteKeepsAcked ==
  ASSUME RustInv, NEW t \in Threads, pc[t] = "write", NEW left \in Remains,
         file' = PartialWrite(file, Pending, left), acked' = acked
  PROVE  WellFormed(file') /\ AckOK'
<1>1. Pending \in Line /\ WellFormed(file)
  BY PendingIsLine DEF RustInv
<1>2. WellFormed(file')
  BY <1>1, PartialWriteType
<1>3. AckOK'
  <2> SUFFICES ASSUME Loadable(file'), NEW r \in acked
               PROVE  r.index < Len(file'.lines) /\ file'.lines[r.index + 1] = r
    BY DEF AckOK
  <2>1. /\ Loadable(file) /\ Len(file.lines) <= Len(file'.lines)
        /\ \A i \in 1..Len(file.lines) : file'.lines[i] = file.lines[i]
    BY <1>1, PartialWriteKeepsUnloadable
  <2>2. r.index \in Nat /\ r.index < Len(file.lines) /\ file.lines[r.index + 1] = r
    BY <2>1 DEF RustInv, AckOK, TypeOK
  <2>3. Len(file.lines) \in Nat /\ Len(file'.lines) \in Nat
    BY <1>1, <1>2 DEF WellFormed, File
  <2>4. r.index + 1 \in 1..Len(file.lines)
    BY <2>2, <2>3
  <2> QED
    BY <2>1, <2>2, <2>3, <2>4
<1> QED
  BY <1>2, <1>3

\* append() returned Err.
LEMMA AppendErrStep ==
  ASSUME RustInv, NEW t \in Threads, AppendErr(t)
  PROVE  RustInv'
<1> USE DEF RustInv
<1>1. UNCHANGED <<status, leaves, cached, cachedLock, acked, heads, proofs>>
  BY DEF AppendErr, seen
<1>2. WellFormed(file') /\ AckOK'
  <2>1. PICK left \in Remains : file' = PartialWrite(file, Pending, left)
    BY DEF AppendErr
  <2> QED
    BY <1>1, <2>1, PartialWriteKeepsAcked DEF AppendErr
<1>3. /\ frame' \in [Threads -> Frame] /\ pc' \in [Threads -> PC]
      /\ (\A u \in Threads : LockOK(u)' /\ CallOK(u)')
      /\ CacheOK' /\ HeadNotAhead' /\ ProofOrder'
  BY <1>1, AppendEnds DEF AppendErr
<1>4. TypeOK'
  BY <1>1, <1>2, <1>3 DEF AppendErr, TypeOK, WellFormed
<1> QED
  BY <1>1, <1>2, <1>3, <1>4 DEF AckedInTree

\* The process dies.
LEMMA CrashStep == ASSUME RustInv, Crash PROVE RustInv'
<1> USE DEF RustInv
<1>1. /\ UNCHANGED <<acked, heads, proofs>> /\ status' = "down"
      /\ leaves' = << >> /\ cached' = NoRoot
      /\ leavesLock' = NoThread /\ cachedLock' = NoThread
      /\ \A t \in Threads : pc'[t] = "idle"
      /\ pc' \in [Threads -> PC] /\ frame' \in [Threads -> Frame]
  BY DEF Crash, seen, PC, Frame, NoFrame
<1>2. WellFormed(file') /\ AckOK'
  <2>1. CASE \E t \in Threads : pc[t] = "write"
    <3>1. PICK left \in Remains : file' = PartialWrite(file, Pending, left)
      BY <2>1 DEF Crash
    <3> QED
      BY <1>1, <2>1, <3>1, PartialWriteKeepsAcked
  <2>2. CASE ~ \E t \in Threads : pc[t] = "write"
    <3>1. file' = file
      BY <2>2 DEF Crash
    <3> QED
      BY <1>1, <3>1 DEF AckOK
  <2> QED
    BY <2>1, <2>2
<1>3. TypeOK'
  BY <1>1, <1>2 DEF TypeOK, WellFormed
<1>4. (\A t \in Threads : LockOK(t)') /\ CacheOK' /\ (\A t \in Threads : CallOK(t)')
  BY <1>1, ConstantsAssumption DEF LockOK, CacheOK, CallOK
<1> QED
  BY <1>1, <1>2, <1>3, <1>4 DEF AckedInTree, HeadNotAhead, ProofOrder

\* signed_head() and inclusion_proof() read under the leaves lock, so the
\* cache is not lagging: what they hold lies within it.
LEMMA CallBegins ==
  ASSUME RustInv, NEW t \in Threads,
         HeadSize(t) \/ \E i \in 0..MaxLeaves : ProofPath(t, i)
  PROVE  RustInv'
<1> USE DEF RustInv
<1>0. /\ leaves \in Seq(Data) /\ Len(leaves) \in Nat
      /\ pc \in [Threads -> PC] /\ frame \in [Threads -> Frame]
  BY DEF TypeOK
<1>1. /\ UNCHANGED <<status, leaves, cached, file, leavesLock, cachedLock, acked, heads, proofs>>
      /\ pc[t] = "idle" /\ pc'[t] = "root" /\ status = "up" /\ leavesLock = NoThread
      /\ \A u \in Threads \ {t} : pc'[u] = pc[u] /\ frame'[u] = frame[u]
      /\ pc' \in [Threads -> PC]
  BY <1>0 DEF HeadSize, ProofPath, Goto, locks, seen, PC
<1>2. frame'[t] \in Frame /\ Within(frame'[t], leaves)
  <2>1. CASE HeadSize(t)
    <3>1. frame'[t] = [call |-> "head", index |-> 0, size |-> Len(leaves), path |-> << >>]
      BY <1>0, <2>1 DEF HeadSize, NoFrame
    <3> QED
      BY <1>0, <3>1 DEF Frame, Within
  <2>2. ASSUME NEW i \in 0..MaxLeaves, ProofPath(t, i)
        PROVE  frame'[t] \in Frame /\ Within(frame'[t], leaves)
    <3>1. frame'[t] = [call |-> "proof", index |-> i, size |-> Len(leaves), path |-> leaves]
      BY <1>0, <2>2 DEF ProofPath
    <3>2. IsPrefix(leaves, leaves) /\ i \in Nat /\ i < Len(leaves)
      BY <1>0, <2>2, ConstantsAssumption DEF IsPrefix, ProofPath
    <3> QED
      BY <1>0, <3>1, <3>2 DEF Frame, Within
  <2> QED
    BY <2>1, <2>2
<1>3. cached # NoRoot => cached = leaves
  BY <1>1, ConstantsAssumption DEF CacheOK, LockOK
<1>4. frame' \in [Threads -> Frame]
  BY <1>0, <1>1, <1>2 DEF HeadSize, ProofPath
<1>5. TypeOK' /\ WellFormed(file')
  BY <1>1, <1>4 DEF TypeOK
<1>6. \A u \in Threads : LockOK(u)'
  BY <1>1 DEF LockOK
<1>7. CacheOK'
  BY <1>1, <1>3 DEF CacheOK
<1>8. \A u \in Threads : CallOK(u)'
  BY <1>1, <1>2, <1>3 DEF CallOK
<1> QED
  BY <1>1, <1>5, <1>6, <1>7, <1>8 DEF AckOK, AckedInTree, HeadNotAhead, ProofOrder

\* An answer made with a root that covers what the call read is in order.
LEMMA AnswerOK ==
  ASSUME RustInv, NEW t \in Threads, NEW r \in Seq(Data), Within(frame[t], r), Answer(t, r)
  PROVE  /\ HeadNotAhead' /\ ProofOrder' /\ acked' = acked
         /\ heads' \subseteq [size : Nat, root : Seq(Data)]
         /\ pc'[t] = "idle" /\ pc' \in [Threads -> PC] /\ frame' \in [Threads -> Frame]
         /\ \A u \in Threads \ {t} : pc'[u] = pc[u] /\ frame'[u] = frame[u]
<1>0. /\ HeadNotAhead /\ ProofOrder /\ heads \subseteq [size : Nat, root : Seq(Data)]
      /\ pc \in [Threads -> PC] /\ frame \in [Threads -> Frame] /\ frame[t] \in Frame
  BY DEF RustInv, TypeOK
<1>1. /\ acked' = acked /\ pc'[t] = "idle" /\ pc' \in [Threads -> PC]
      /\ frame' \in [Threads -> Frame]
      /\ \A u \in Threads \ {t} : pc'[u] = pc[u] /\ frame'[u] = frame[u]
  BY <1>0 DEF Answer, Return, Goto, PC, NoFrame, Frame
<1>2. CASE frame[t].call = "head"
  <2>1. heads' = heads \cup {[size |-> frame[t].size, root |-> r]} /\ proofs' = proofs
    BY <1>2 DEF Answer
  <2>2. frame[t].size \in Nat /\ frame[t].size <= Len(r)
    BY <1>0, <1>2 DEF Within, Frame
  <2> QED
    BY <1>0, <1>1, <2>1, <2>2 DEF HeadNotAhead, ProofOrder
<1>3. CASE frame[t].call = "proof"
  <2>1. /\ proofs' = proofs \cup {[index |-> frame[t].index, path |-> frame[t].path,
                                   root |-> r, tree_size |-> frame[t].size]}
        /\ heads' = heads
    BY <1>3 DEF Answer
  <2>2. /\ frame[t].index < frame[t].size /\ frame[t].size = Len(frame[t].path)
        /\ IsPrefix(frame[t].path, r)
    BY <1>3 DEF Within
  <2> QED
    BY <1>0, <1>1, <2>1, <2>2 DEF HeadNotAhead, ProofOrder
<1> QED
  BY <1>1, <1>2, <1>3 DEF Answer

\* root() finds a cached root, which may lag behind the tree.
LEMMA RootHitStep ==
  ASSUME RustInv, NEW t \in Threads, RootHit(t)
  PROVE  RustInv'
<1> USE DEF RustInv
<1>1. /\ UNCHANGED <<status, leaves, cached, file, leavesLock, cachedLock>>
      /\ pc[t] = "root" /\ cached \in Seq(Data) /\ Within(frame[t], cached) /\ Answer(t, cached)
  BY DEF RootHit, locks, TypeOK, CallOK
<1>2. /\ HeadNotAhead' /\ ProofOrder' /\ acked' = acked
      /\ heads' \subseteq [size : Nat, root : Seq(Data)]
      /\ pc'[t] = "idle" /\ pc' \in [Threads -> PC] /\ frame' \in [Threads -> Frame]
      /\ \A u \in Threads \ {t} : pc'[u] = pc[u] /\ frame'[u] = frame[u]
  BY <1>1, AnswerOK
<1>3. TypeOK' /\ WellFormed(file')
  BY <1>1, <1>2 DEF TypeOK
<1>4. (\A u \in Threads : LockOK(u)') /\ CacheOK' /\ (\A u \in Threads : CallOK(u)')
  BY <1>1, <1>2 DEF LockOK, CacheOK, CallOK
<1> QED
  BY <1>1, <1>2, <1>3, <1>4 DEF AckOK, AckedInTree

\* root() finds none and keeps the cache locked.
LEMMA RootMissStep ==
  ASSUME RustInv, NEW t \in Threads, RootMiss(t)
  PROVE  RustInv'
<1> USE DEF RustInv
<1>0. pc \in [Threads -> PC]
  BY DEF TypeOK
<1>1. /\ UNCHANGED <<status, leaves, cached, file, leavesLock, frame, acked, heads, proofs>>
      /\ pc[t] = "root" /\ pc'[t] = "root_leaves" /\ pc' \in [Threads -> PC]
      /\ cachedLock = NoThread /\ cachedLock' = t
      /\ \A u \in Threads \ {t} : pc'[u] = pc[u]
  BY <1>0 DEF RootMiss, Goto, seen, PC
<1>2. TypeOK' /\ WellFormed(file')
  BY <1>1 DEF TypeOK
<1>3. \A u \in Threads : LockOK(u)'
  BY <1>1, ConstantsAssumption DEF LockOK
<1>4. CacheOK' /\ \A u \in Threads : CallOK(u)'
  BY <1>1 DEF CacheOK, CallOK
<1> QED
  BY <1>1, <1>2, <1>3, <1>4 DEF AckOK, AckedInTree, HeadNotAhead, ProofOrder

\* root() computes the root under both locks.
LEMMA RootComputeStep ==
  ASSUME RustInv, NEW t \in Threads, RootCompute(t)
  PROVE  RustInv'
<1> USE DEF RustInv
<1>1. /\ UNCHANGED <<status, leaves, file, leavesLock>> /\ cached' = leaves
      /\ pc[t] = "root_leaves" /\ leaves \in Seq(Data) /\ Within(frame[t], leaves)
      /\ Answer(t, leaves) /\ cachedLock' = NoThread /\ cachedLock = t
  BY DEF RootCompute, TypeOK, CallOK, LockOK
<1>2. /\ HeadNotAhead' /\ ProofOrder' /\ acked' = acked
      /\ heads' \subseteq [size : Nat, root : Seq(Data)]
      /\ pc'[t] = "idle" /\ pc' \in [Threads -> PC] /\ frame' \in [Threads -> Frame]
      /\ \A u \in Threads \ {t} : pc'[u] = pc[u] /\ frame'[u] = frame[u]
  BY <1>1, AnswerOK
<1>3. TypeOK' /\ WellFormed(file')
  BY <1>1, <1>2 DEF TypeOK
<1>4. \A u \in Threads : LockOK(u)'
  BY <1>1, <1>2, ConstantsAssumption DEF LockOK
<1>5. CacheOK' /\ \A u \in Threads : CallOK(u)'
  BY <1>1, <1>2 DEF CacheOK, CallOK
<1> QED
  BY <1>1, <1>2, <1>3, <1>4, <1>5 DEF AckOK, AckedInTree

\* Every step of the Rust log keeps the invariant.
LEMMA RustNext == RustInv /\ [Next]_vars => RustInv'
<1> SUFFICES ASSUME RustInv, [Next]_vars PROVE RustInv'
  OBVIOUS
<1>1. CASE Open \/ Crash
  BY <1>1, OpenStep, CrashStep
<1>2. ASSUME NEW t \in Threads,
             \/ \E d \in Data : AppendPush(t, d)
             \/ AppendInvalidate(t) \/ AppendOk(t) \/ AppendErr(t)
      PROVE  RustInv'
  BY <1>2, AppendPushStep, AppendInvalidateStep, AppendOkStep, AppendErrStep
<1>3. ASSUME NEW t \in Threads,
             \/ HeadSize(t) \/ (\E i \in 0..MaxLeaves : ProofPath(t, i))
             \/ RootHit(t) \/ RootMiss(t) \/ RootCompute(t)
      PROVE  RustInv'
  BY <1>3, CallBegins, RootHitStep, RootMissStep, RootComputeStep
<1>4. CASE UNCHANGED vars
  BY <1>4 DEF RustInv, TypeOK, LockOK, CacheOK, CallOK, AckOK, AckedInTree,
              HeadNotAhead, ProofOrder, vars, locks, seen
<1> QED
  BY <1>1, <1>2, <1>3, <1>4 DEF Next

(***************************************************************************)
(* Fail closed: a Rust log that opens has every leaf append() returned Ok  *)
(* for, at the index it returned, after any errors, crashes and restarts.  *)
(***************************************************************************)
THEOREM RustFailClosed == Spec => []AckedInTree
<1>1. RustInv => AckedInTree
  BY DEF RustInv
<1> QED
  BY <1>1, RustInit, RustNext, PTL DEF Spec

(***************************************************************************)
(* Although root() may answer with a cache that lags behind the Vec, no    *)
(* tree head claims more leaves than its root commits to.                  *)
(***************************************************************************)
THEOREM RustHeadsNotAhead == Spec => []HeadNotAhead
<1>1. RustInv => HeadNotAhead
  BY DEF RustInv
<1> QED
  BY <1>1, RustInit, RustNext, PTL DEF Spec

(***************************************************************************)
(* In every inclusion proof the path's tree has tree_size leaves and is    *)
(* part of the tree of the root.                                           *)
(***************************************************************************)
THEOREM RustProofsInOrder == Spec => []ProofOrder
<1>1. RustInv => ProofOrder
  BY DEF RustInv
<1> QED
  BY <1>1, RustInit, RustNext, PTL DEF Spec
=============================================================================
