----------------------- MODULE TransparencyLogProofs ------------------------
(***************************************************************************)
(* Theorems about TransparencyLog, for every set of threads and leaves and *)
(* every bound.                                                            *)
(*                                                                         *)
(* FailClosed holds under every fault of the model: failed writes, crashes *)
(* that leave any prefix of a line, restarts.  Its inductive invariant is  *)
(* built on one fact about the file: no write ever repairs a file that     *)
(* _load refuses (WriteKeepsUnloadable), so what was acknowledged is on    *)
(* disk at its index as long as the file loads.                            *)
(***************************************************************************)
EXTENDS TransparencyLog, TLAPS

(***************************************************************************)
(* The file: types, and what writes do to it.                              *)
(***************************************************************************)

\* A file whose last line is unterminated has a last line.
WellFormed(f) == f \in File /\ (~ f.ended => Len(f.lines) > 0)

\* Appending a line to leaves.jsonl yields a file again.
LEMMA WriteLineType ==
  ASSUME NEW f, WellFormed(f), NEW line \in Line
  PROVE  /\ WellFormed(WriteLine(f, line))
         /\ WriteLine(f, line).ended
         /\ Len(WriteLine(f, line).lines) > 0
  BY DEF WellFormed, WriteLine, File, Line

\* So does a write that stopped part way.
LEMMA PartialWriteType ==
  ASSUME NEW f, WellFormed(f), NEW line \in Line, NEW left \in Remains
  PROVE  WellFormed(PartialWrite(f, line, left))
<1>1. CASE left = "nothing"
  BY <1>1 DEF PartialWrite
<1>2. CASE left # "nothing"
  <2> DEFINE w == WriteLine(f, IF left = "fragment" THEN Torn ELSE line)
  <2>1. WellFormed(w) /\ Len(w.lines) > 0
    BY WriteLineType DEF Line
  <2>2. PartialWrite(f, line, left) = [lines |-> w.lines, ended |-> left = "whole"]
    BY <1>2 DEF PartialWrite
  <2> HIDE DEF w
  <2> QED
    BY <2>1, <2>2 DEF WellFormed, File
<1> QED
  BY <1>1, <1>2

\* A write adds its line at the end or ruins the last one; if the result
\* loads, the line is the next one and all the others are untouched.
LEMMA WriteKeepsUnloadable ==
  ASSUME NEW f, WellFormed(f), NEW line \in Line, Loadable(WriteLine(f, line))
  PROVE  /\ Loadable(f)
         /\ line # Torn
         /\ line.index = Len(f.lines)
         /\ WriteLine(f, line).lines = Append(f.lines, line)
<1>1. f.ended
  BY DEF WellFormed, WriteLine, File, Line, Loadable, ParsesAt
<1>2. WriteLine(f, line).lines = Append(f.lines, line)
  BY <1>1 DEF WriteLine
<1>3. Loadable(f)
  BY <1>2 DEF WellFormed, File, Loadable, ParsesAt
<1>4. ParsesAt(WriteLine(f, line), Len(f.lines) + 1)
  BY <1>2 DEF WellFormed, File, Loadable
<1>5. WriteLine(f, line).lines[Len(f.lines) + 1] = line
  BY <1>2 DEF WellFormed, File
<1>6. line # Torn /\ line.index = Len(f.lines) + 1 - 1
  BY <1>4, <1>5 DEF ParsesAt
<1> QED
  BY <1>2, <1>3, <1>6 DEF WellFormed, File

\* A partial write never makes a refused file loadable, nor does it change
\* the lines of a file that still loads.
LEMMA PartialWriteKeepsUnloadable ==
  ASSUME NEW f, WellFormed(f), NEW line \in Line, NEW left \in Remains,
         Loadable(PartialWrite(f, line, left))
  PROVE  /\ Loadable(f)
         /\ Len(f.lines) <= Len(PartialWrite(f, line, left).lines)
         /\ \A i \in 1..Len(f.lines) : PartialWrite(f, line, left).lines[i] = f.lines[i]
<1> DEFINE p == PartialWrite(f, line, left)
           w == WriteLine(f, line)
           v == WriteLine(f, Torn)
<1>1. CASE left = "nothing"
  BY <1>1 DEF PartialWrite, WellFormed, File
<1>2. CASE left = "fragment"
  <2>1. p.lines = v.lines
    BY <1>2 DEF PartialWrite, WriteLine
  <2>2. Loadable(v)
    BY <2>1 DEF Loadable, ParsesAt
  <2> QED
    BY <2>2, WriteKeepsUnloadable DEF Line
<1>3. CASE left \in {"unterminated", "whole"}
  <2>1. p.lines = w.lines
    BY <1>3 DEF PartialWrite, WriteLine
  <2>2. Loadable(w)
    BY <2>1 DEF Loadable, ParsesAt
  <2>3. Loadable(f) /\ w.lines = Append(f.lines, line)
    BY <2>2, WriteKeepsUnloadable
  <2> QED
    BY <2>1, <2>3 DEF WellFormed, File
<1> QED
  BY <1>1, <1>2, <1>3 DEF Remains
-----------------------------------------------------------------------------
(***************************************************************************)
(* The inductive invariant of FailClosed.                                  *)
(***************************************************************************)

\* Where a thread is in append() fixes who holds the lock and what the file
\* holds beyond its durable part.
CallOK(t) ==
  /\ pc[t] # "idle" => status = "up"
  /\ lock = t <=> pc[t] \in {"write", "sync"}
  /\ pc[t] \in {"write", "sync"} => frame[t].index + 1 = Len(leaves)
  /\ pc[t] = "write" => file = durable
  /\ pc[t] = "sync" => file = WriteLine(durable, Pending(t))

DiskOK ==
  /\ WellFormed(file) /\ WellFormed(durable)
  /\ lock = NoThread => file = durable

\* What was acknowledged is on disk at its index, or the file will be refused.
AckOK ==
  Loadable(durable) =>
    \A r \in acked : r.index < Len(durable.lines) /\ durable.lines[r.index + 1] = r

FailClosedInv ==
  /\ TypeOK
  /\ DiskOK
  /\ \A t \in Threads : CallOK(t)
  /\ AckOK
  /\ AckedInTree

\* Initially nothing is in memory, on disk or acknowledged.
LEMMA FailClosedInit == Init => FailClosedInv
<1> SUFFICES ASSUME Init PROVE FailClosedInv
  OBVIOUS
<1> USE ConstantsAssumption DEF Init
<1>1. TypeOK
  BY DEF TypeOK, EmptyFile, File, Line, PC, NoFrame, Frame
<1>2. DiskOK
  BY DEF DiskOK, WellFormed, EmptyFile, File
<1>3. \A t \in Threads : CallOK(t)
  BY DEF CallOK
<1>4. AckOK /\ AckedInTree
  BY DEF AckOK, AckedInTree
<1> QED
  BY <1>1, <1>2, <1>3, <1>4 DEF FailClosedInv

\* The record append() is about to write or has written is a line.
LEMMA PendingIsLine ==
  ASSUME FailClosedInv, NEW t \in Threads, pc[t] \in {"write", "sync"}
  PROVE  /\ Pending(t) \in [index : Nat, data : Data]
         /\ Pending(t) \in Line
         /\ Pending(t).index < Len(leaves)
         /\ leaves[Pending(t).index + 1] = Pending(t).data
<1>1. /\ leaves \in Seq(Data) /\ frame[t].index \in Nat
      /\ frame[t].index + 1 = Len(leaves)
  BY DEF FailClosedInv, TypeOK, CallOK, Frame
<1>2. leaves[frame[t].index + 1] \in Data
  BY <1>1
<1>3. /\ Pending(t).index = frame[t].index
      /\ Pending(t).data = leaves[frame[t].index + 1]
      /\ Pending(t) \in [index : Nat, data : Data]
  BY <1>1, <1>2 DEF Pending, Record
<1> QED
  BY <1>1, <1>3 DEF Line

\* Setting one local of a call leaves every frame well typed.
LEMMA FrameUpdate ==
  ASSUME NEW f \in [Threads -> Frame], NEW t \in Threads, NEW n \in Nat,
         NEW s \in Seq(Data)
  PROVE  /\ [f EXCEPT ![t].index = n] \in [Threads -> Frame]
         /\ [f EXCEPT ![t].size = n] \in [Threads -> Frame]
         /\ [f EXCEPT ![t].root = s] \in [Threads -> Frame]
         /\ [f EXCEPT ![t].index = n, ![t].path = s] \in [Threads -> Frame]
         /\ [f EXCEPT ![t] = NoFrame] \in [Threads -> Frame]
<1>1. [f EXCEPT ![t].index = n] \in [Threads -> Frame]
  BY DEF Frame
<1>2. [f EXCEPT ![t].size = n] \in [Threads -> Frame]
  BY DEF Frame
<1>3. [f EXCEPT ![t].root = s] \in [Threads -> Frame]
  BY DEF Frame
<1>4. [f EXCEPT ![t].index = n, ![t].path = s] \in [Threads -> Frame]
  BY DEF Frame
<1>5. [f EXCEPT ![t] = NoFrame] \in [Threads -> Frame]
  BY DEF Frame, NoFrame
<1> QED
  BY <1>1, <1>2, <1>3, <1>4, <1>5

\* _load: the leaves come from a file whose lines are all in place.
LEMMA LoadStep == FailClosedInv /\ Load => FailClosedInv'
<1> SUFFICES ASSUME FailClosedInv, Load PROVE FailClosedInv'
  OBVIOUS
<1> USE DEF FailClosedInv, disk, calls, seen
<1>1. lock = NoThread /\ file = durable
  BY ConstantsAssumption DEF Load, DiskOK, CallOK, TypeOK
<1>2. Loadable(file) => LoadedLeaves(file) \in Seq(Data)
  BY DEF TypeOK, File, Line, Loadable, ParsesAt, LoadedLeaves
<1>3. TypeOK'
  BY <1>2 DEF Load, TypeOK
<1>4. DiskOK'
  BY DEF Load, DiskOK
<1>5. \A t \in Threads : CallOK(t)'
  BY <1>1, ConstantsAssumption DEF Load, CallOK, TypeOK
<1>6. AckOK'
  BY DEF Load, AckOK
<1>7. AckedInTree'
  BY <1>1 DEF Load, AckOK, AckedInTree, LoadedLeaves, TypeOK, File
<1> QED
  BY <1>3, <1>4, <1>5, <1>6, <1>7

\* append() puts the leaf in memory: what was acknowledged stays in place.
LEMMA AppendBeginStep ==
  ASSUME FailClosedInv, NEW t \in Threads, NEW d \in Data, AppendBegin(t, d)
  PROVE  FailClosedInv'
<1> USE DEF FailClosedInv, disk, seen
<1>1. TypeOK'
  <2>1. leaves \in Seq(Data) /\ Len(leaves) \in Nat /\ frame \in [Threads -> Frame]
    BY DEF TypeOK
  <2>2. frame' \in [Threads -> Frame]
    BY <2>1, FrameUpdate DEF AppendBegin
  <2>3. leaves' \in Seq(Data)
    BY <2>1 DEF AppendBegin
  <2> QED
    BY <2>2, <2>3 DEF AppendBegin, TypeOK, PC
<1>2. DiskOK'
  BY ConstantsAssumption DEF AppendBegin, DiskOK
<1>3. \A u \in Threads : CallOK(u)'
  BY ConstantsAssumption, SMTT(30) DEF AppendBegin, DiskOK, CallOK, TypeOK, Frame
<1>4. AckOK'
  BY DEF AppendBegin, AckOK
<1>5. AckedInTree'
  BY DEF AppendBegin, AckedInTree, TypeOK
<1> QED
  BY <1>1, <1>2, <1>3, <1>4, <1>5

\* The write reaches the file, not yet the disk.
LEMMA AppendWriteStep ==
  ASSUME FailClosedInv, NEW t \in Threads, AppendWrite(t)
  PROVE  FailClosedInv'
<1> USE DEF FailClosedInv, seen
<1>1. Pending(t) \in Line /\ file = durable /\ lock = t
  BY PendingIsLine DEF AppendWrite, CallOK
<1>2. WellFormed(file')
  BY <1>1, WriteLineType DEF AppendWrite, DiskOK
<1>3. TypeOK'
  BY <1>2 DEF AppendWrite, TypeOK, PC, WellFormed
<1>4. DiskOK'
  BY <1>1, <1>2, ConstantsAssumption DEF AppendWrite, DiskOK
<1>5. \A u \in Threads : CallOK(u)'
  BY <1>1 DEF AppendWrite, CallOK, TypeOK, Pending
<1>6. AckOK' /\ AckedInTree'
  BY DEF AppendWrite, AckOK, AckedInTree
<1> QED
  BY <1>3, <1>4, <1>5, <1>6

\* fsync returned: the new line is on disk, at its index if the file loads.
LEMMA AppendReturnStep ==
  ASSUME FailClosedInv, NEW t \in Threads, AppendReturn(t)
  PROVE  FailClosedInv'
<1> USE DEF FailClosedInv
<1>1. /\ Pending(t) \in [index : Nat, data : Data] /\ Pending(t) \in Line
      /\ Pending(t).index < Len(leaves)
      /\ leaves[Pending(t).index + 1] = Pending(t).data
  BY PendingIsLine DEF AppendReturn
<1>2. durable' = WriteLine(durable, Pending(t)) /\ lock = t /\ WellFormed(durable)
  BY DEF AppendReturn, CallOK, DiskOK
<1>3. TypeOK'
  BY <1>1, SMTT(30) DEF AppendReturn, Return, TypeOK, PC, Frame, NoFrame
<1>4. DiskOK'
  BY DEF AppendReturn, DiskOK
<1>5. \A u \in Threads : CallOK(u)'
  BY <1>2, ConstantsAssumption DEF AppendReturn, Return, CallOK, TypeOK
<1>6. AckOK'
  <2> SUFFICES ASSUME Loadable(durable'), NEW r \in acked'
               PROVE  r.index < Len(durable'.lines) /\ durable'.lines[r.index + 1] = r
    BY DEF AckOK
  <2>1. /\ Loadable(durable)
        /\ Pending(t).index = Len(durable.lines)
        /\ durable'.lines = Append(durable.lines, Pending(t))
    BY <1>1, <1>2, WriteKeepsUnloadable
  <2>2. r \in [index : Nat, data : Data]
    BY <1>3 DEF TypeOK
  <2>3. CASE r \in acked
    BY <1>2, <2>1, <2>2, <2>3 DEF AckOK, WellFormed, File
  <2>4. CASE r = Pending(t)
    BY <1>2, <2>1, <2>4 DEF WellFormed, File
  <2> QED
    BY <2>3, <2>4 DEF AppendReturn
<1>7. AckedInTree'
  BY <1>1 DEF AppendReturn, AckedInTree
<1> QED
  BY <1>3, <1>4, <1>5, <1>6, <1>7

\* The write failed: the file holds some prefix of the line, and a file that
\* still loads has every line it had.
LEMMA AppendRaiseStep ==
  ASSUME FailClosedInv, NEW t \in Threads, AppendRaise(t)
  PROVE  FailClosedInv'
<1> USE DEF FailClosedInv
<1>1. PICK left \in Remains : file' = PartialWrite(durable, Pending(t), left)
  BY DEF AppendRaise
<1>2. Pending(t) \in Line /\ lock = t /\ WellFormed(durable)
  BY PendingIsLine DEF AppendRaise, CallOK, DiskOK
<1>3. WellFormed(file') /\ durable' = file'
  BY <1>1, <1>2, PartialWriteType DEF AppendRaise
<1>4. TypeOK'
  <2>1. frame' \in [Threads -> Frame]
    BY FrameUpdate DEF AppendRaise, Return, TypeOK
  <2>2. errors' \in 0..MaxErrors
    BY ConstantsAssumption DEF AppendRaise, TypeOK
  <2> QED
    BY <1>3, <2>1, <2>2 DEF AppendRaise, Return, TypeOK, PC, WellFormed, seen
<1>5. DiskOK'
  BY <1>3 DEF DiskOK
<1>6. \A u \in Threads : CallOK(u)'
  BY <1>2, ConstantsAssumption DEF AppendRaise, Return, CallOK, TypeOK
<1>7. AckOK'
  <2> SUFFICES ASSUME Loadable(durable'), NEW r \in acked
               PROVE  r.index < Len(durable'.lines) /\ durable'.lines[r.index + 1] = r
    BY DEF AckOK, AppendRaise, seen
  <2>1. /\ Loadable(durable)
        /\ Len(durable.lines) <= Len(durable'.lines)
        /\ \A i \in 1..Len(durable.lines) : durable'.lines[i] = durable.lines[i]
    BY <1>1, <1>2, <1>3, PartialWriteKeepsUnloadable
  <2>2. r.index \in Nat /\ r.index < Len(durable.lines) /\ durable.lines[r.index + 1] = r
    BY <2>1 DEF AckOK, TypeOK
  <2>3. Len(durable.lines) \in Nat /\ Len(durable'.lines) \in Nat
    BY <1>2, <1>3 DEF WellFormed, File
  <2>4. r.index + 1 \in 1..Len(durable.lines)
    BY <2>2, <2>3
  <2> QED
    BY <2>1, <2>2, <2>3, <2>4
<1>8. AckedInTree'
  BY DEF AppendRaise, AckedInTree, seen
<1> QED
  BY <1>4, <1>5, <1>6, <1>7, <1>8

\* A crash loses the memory and leaves some prefix of the line being written.
LEMMA CrashStep == FailClosedInv /\ Crash => FailClosedInv'
<1> SUFFICES ASSUME FailClosedInv, Crash PROVE FailClosedInv'
  OBVIOUS
<1> USE DEF FailClosedInv
<1>1. /\ WellFormed(file') /\ durable' = file'
      /\ Loadable(durable') =>
           /\ Loadable(durable)
           /\ Len(durable.lines) <= Len(durable'.lines)
           /\ \A i \in 1..Len(durable.lines) : durable'.lines[i] = durable.lines[i]
  <2>1. CASE lock = NoThread
    BY <2>1 DEF Crash, DiskOK, WellFormed, File
  <2>2. CASE lock # NoThread
    <3>1. PICK left \in Remains : file' = PartialWrite(durable, Pending(lock), left)
      BY <2>2, ConstantsAssumption DEF Crash
    <3>2. lock \in Threads /\ pc[lock] \in {"write", "sync"}
      BY <2>2 DEF TypeOK, CallOK
    <3>3. Pending(lock) \in Line /\ WellFormed(durable)
      BY <3>2, PendingIsLine DEF DiskOK
    <3>4. durable' = file'
      BY DEF Crash
    <3>5. WellFormed(file')
      BY <3>1, <3>3, PartialWriteType
    <3> QED
      BY <3>1, <3>3, <3>4, <3>5, PartialWriteKeepsUnloadable
  <2> QED
    BY <2>1, <2>2
<1>2. TypeOK'
  <2>1. frame' \in [Threads -> Frame]
    BY DEF Crash, Frame, NoFrame
  <2>2. crashes' \in 0..MaxCrashes
    BY ConstantsAssumption DEF Crash, TypeOK
  <2>3. pc' \in [Threads -> PC] /\ leaves' \in Seq(Data)
    BY DEF Crash, PC
  <2> QED
    BY <1>1, <2>1, <2>2, <2>3 DEF Crash, TypeOK, WellFormed, seen
<1>3. DiskOK'
  BY <1>1 DEF DiskOK
<1>4. \A u \in Threads : CallOK(u)'
  BY ConstantsAssumption DEF Crash, CallOK
<1>5. AckOK'
  BY <1>1, SMTT(30) DEF Crash, AckOK, TypeOK, File, seen
<1>6. AckedInTree'
  BY DEF Crash, AckedInTree
<1> QED
  BY <1>2, <1>3, <1>4, <1>5, <1>6

\* root() returns leaves of the tree.
LEMMA RootType == FailClosedInv => Root \in Seq(Data)
  BY DEF FailClosedInv, TypeOK, Root

\* A call that neither appends nor takes part in an append leaves the others
\* where they are.
LEMMA ReaderKeepsCalls ==
  ASSUME FailClosedInv, NEW t \in Threads,
         UNCHANGED <<status, leaves, file, durable, lock>>,
         pc[t] \notin {"write", "sync"}, pc'[t] \notin {"write", "sync"},
         status = "up",
         \A u \in Threads \ {t} : pc'[u] = pc[u] /\ frame'[u] = frame[u]
  PROVE  \A u \in Threads : CallOK(u)'
<1> SUFFICES ASSUME NEW u \in Threads PROVE CallOK(u)'
  OBVIOUS
<1>1. CASE u = t
  BY <1>1 DEF FailClosedInv, CallOK
<1>2. CASE u # t
  BY <1>2 DEF FailClosedInv, CallOK, Pending
<1> QED
  BY <1>1, <1>2

\* signed_head() changes nothing but its own locals, the cache and its result.
LEMMA HeadStepKeeps ==
  ASSUME FailClosedInv, NEW t \in Threads, HeadStep(t)
  PROVE  FailClosedInv'
<1> USE DEF FailClosedInv
<1>1. CASE HeadSize(t)
  <2>1. TypeOK'
    <3>0. frame \in [Threads -> Frame] /\ leaves \in Seq(Data) /\ Len(leaves) \in Nat
      BY DEF TypeOK
    <3>1. frame' \in [Threads -> Frame]
      BY <1>1, <3>0, FrameUpdate DEF HeadSize
    <3> QED
      BY <1>1, <3>1 DEF HeadSize, TypeOK, PC, disk, seen
  <2>2. \A u \in Threads : CallOK(u)'
    <3>1. pc[t] \notin {"write", "sync"} /\ pc'[t] \notin {"write", "sync"} /\ status = "up"
      BY <1>1 DEF HeadSize, TypeOK, CallOK
    <3>2. \A u \in Threads \ {t} : pc'[u] = pc[u] /\ frame'[u] = frame[u]
      BY <1>1 DEF HeadSize, TypeOK
    <3>3. UNCHANGED <<status, leaves, file, durable, lock>>
      BY <1>1 DEF HeadSize, disk
    <3> QED
      BY <3>1, <3>2, <3>3, ReaderKeepsCalls
  <2>3. DiskOK' /\ AckOK' /\ AckedInTree'
    BY <1>1 DEF HeadSize, DiskOK, AckOK, AckedInTree, disk, seen
  <2> QED
    BY <2>1, <2>2, <2>3
<1>2. CASE HeadRoot(t)
  <2>1. TypeOK'
    <3>1. frame' \in [Threads -> Frame]
      BY <1>2, FrameUpdate DEF HeadRoot, Return, TypeOK
    <3>2. [size |-> frame[t].size, root |-> Root] \in TreeHead
      BY RootType DEF TypeOK, Frame, TreeHead
    <3> QED
      BY <1>2, <3>1, <3>2, RootType DEF HeadRoot, Return, TypeOK, PC, disk
  <2>2. \A u \in Threads : CallOK(u)'
    <3>1. pc[t] \notin {"write", "sync"} /\ pc'[t] \notin {"write", "sync"} /\ status = "up"
      BY <1>2 DEF HeadRoot, Return, TypeOK, CallOK
    <3>2. \A u \in Threads \ {t} : pc'[u] = pc[u] /\ frame'[u] = frame[u]
      BY <1>2 DEF HeadRoot, Return, TypeOK
    <3>3. UNCHANGED <<status, leaves, file, durable, lock>>
      BY <1>2 DEF HeadRoot, disk
    <3> QED
      BY <3>1, <3>2, <3>3, ReaderKeepsCalls
  <2>3. DiskOK' /\ AckOK' /\ AckedInTree'
    BY <1>2 DEF HeadRoot, DiskOK, AckOK, AckedInTree, disk
  <2> QED
    BY <2>1, <2>2, <2>3
<1> QED
  BY <1>1, <1>2 DEF HeadStep

\* So does inclusion_proof().
LEMMA ProofStepKeeps ==
  ASSUME FailClosedInv, NEW t \in Threads, ProofStep(t)
  PROVE  FailClosedInv'
<1> USE DEF FailClosedInv
<1>0. /\ frame \in [Threads -> Frame] /\ leaves \in Seq(Data)
      /\ Len(leaves) \in Nat /\ Root \in Seq(Data)
  BY RootType DEF TypeOK
<1>1. ASSUME NEW i \in 0..MaxLeaves, ProofPath(t, i) PROVE FailClosedInv'
  <2>1. TypeOK'
    <3>1. i \in Nat
      OBVIOUS
    <3>2. frame' \in [Threads -> Frame]
      BY <1>0, <1>1, <3>1, FrameUpdate DEF ProofPath
    <3> QED
      BY <1>1, <3>2 DEF ProofPath, TypeOK, PC, disk, seen
  <2>2. \A u \in Threads : CallOK(u)'
    <3>1. pc[t] \notin {"write", "sync"} /\ pc'[t] \notin {"write", "sync"} /\ status = "up"
      BY <1>1 DEF ProofPath, TypeOK, CallOK
    <3>2. \A u \in Threads \ {t} : pc'[u] = pc[u] /\ frame'[u] = frame[u]
      BY <1>1 DEF ProofPath, TypeOK
    <3>3. UNCHANGED <<status, leaves, file, durable, lock>>
      BY <1>1 DEF ProofPath, disk
    <3> QED
      BY <3>1, <3>2, <3>3, ReaderKeepsCalls
  <2>3. DiskOK' /\ AckOK' /\ AckedInTree'
    BY <1>1 DEF ProofPath, DiskOK, AckOK, AckedInTree, disk, seen
  <2> QED
    BY <2>1, <2>2, <2>3
<1>2. CASE ProofRoot(t)
  <2>1. TypeOK'
    <3>1. frame' \in [Threads -> Frame]
      BY <1>0, <1>2, FrameUpdate DEF ProofRoot
    <3> QED
      BY <1>0, <1>2, <3>1 DEF ProofRoot, TypeOK, PC, disk, seen
  <2>2. \A u \in Threads : CallOK(u)'
    <3>1. pc[t] \notin {"write", "sync"} /\ pc'[t] \notin {"write", "sync"} /\ status = "up"
      BY <1>2 DEF ProofRoot, TypeOK, CallOK
    <3>2. \A u \in Threads \ {t} : pc'[u] = pc[u] /\ frame'[u] = frame[u]
      BY <1>2 DEF ProofRoot, TypeOK
    <3>3. UNCHANGED <<status, leaves, file, durable, lock>>
      BY <1>2 DEF ProofRoot, disk
    <3> QED
      BY <3>1, <3>2, <3>3, ReaderKeepsCalls
  <2>3. DiskOK' /\ AckOK' /\ AckedInTree'
    BY <1>2 DEF ProofRoot, DiskOK, AckOK, AckedInTree, disk, seen
  <2> QED
    BY <2>1, <2>2, <2>3
<1>3. CASE ProofSize(t)
  <2>1. TypeOK'
    <3>1. frame' \in [Threads -> Frame]
      BY <1>0, <1>3, FrameUpdate DEF ProofSize, Return
    <3>2. [index |-> frame[t].index, path |-> frame[t].path,
           root |-> frame[t].root, tree_size |-> Len(leaves)] \in InclusionProof
      BY <1>0 DEF Frame, InclusionProof
    <3> QED
      BY <1>3, <3>1, <3>2 DEF ProofSize, Return, TypeOK, PC, disk
  <2>2. \A u \in Threads : CallOK(u)'
    <3>1. pc[t] \notin {"write", "sync"} /\ pc'[t] \notin {"write", "sync"} /\ status = "up"
      BY <1>3 DEF ProofSize, Return, TypeOK, CallOK
    <3>2. \A u \in Threads \ {t} : pc'[u] = pc[u] /\ frame'[u] = frame[u]
      BY <1>3 DEF ProofSize, Return, TypeOK
    <3>3. UNCHANGED <<status, leaves, file, durable, lock>>
      BY <1>3 DEF ProofSize, disk
    <3> QED
      BY <3>1, <3>2, <3>3, ReaderKeepsCalls
  <2>3. DiskOK' /\ AckOK' /\ AckedInTree'
    BY <1>3 DEF ProofSize, DiskOK, AckOK, AckedInTree, disk
  <2> QED
    BY <2>1, <2>2, <2>3
<1> QED
  BY <1>1, <1>2, <1>3 DEF ProofStep

\* Every step of the log keeps the invariant.
LEMMA FailClosedNext == FailClosedInv /\ [Next]_vars => FailClosedInv'
<1> SUFFICES ASSUME FailClosedInv, [Next]_vars PROVE FailClosedInv'
  OBVIOUS
<1>1. CASE Load
  BY <1>1, LoadStep
<1>2. CASE Crash
  BY <1>2, CrashStep
<1>3. ASSUME NEW t \in Threads, AppendStep(t) PROVE FailClosedInv'
  BY <1>3, AppendBeginStep, AppendWriteStep, AppendReturnStep, AppendRaiseStep
     DEF AppendStep
<1>4. ASSUME NEW t \in Threads, HeadStep(t) PROVE FailClosedInv'
  BY <1>4, HeadStepKeeps
<1>5. ASSUME NEW t \in Threads, ProofStep(t) PROVE FailClosedInv'
  BY <1>5, ProofStepKeeps
<1>6. CASE UNCHANGED vars
  BY <1>6 DEF FailClosedInv, TypeOK, DiskOK, CallOK, AckOK, AckedInTree, Pending,
              vars, disk, calls, seen
<1> QED
  BY <1>1, <1>2, <1>3, <1>4, <1>5, <1>6 DEF Next

(***************************************************************************)
(* Type correctness of the log, under every fault of the model.            *)
(***************************************************************************)
THEOREM TypeCorrect == Spec => []TypeOK
<1>1. FailClosedInv => TypeOK
  BY DEF FailClosedInv
<1> QED
  BY <1>1, FailClosedInit, FailClosedNext, PTL DEF Spec

(***************************************************************************)
(* A log that runs has every leaf whose append() returned, at the index it *)
(* returned, after any number of failed writes, crashes and restarts.      *)
(***************************************************************************)
THEOREM FailClosed == Spec => []AckedInTree
<1>1. FailClosedInv => AckedInTree
  BY DEF FailClosedInv
<1> QED
  BY <1>1, FailClosedInit, FailClosedNext, PTL DEF Spec
-----------------------------------------------------------------------------
(***************************************************************************)
(* What the readers hold between two steps of their call.  The cache, when *)
(* it is set, is the tree in memory; the tree only grows while the process *)
(* lives, so a size or a path that was read stays within it.               *)
(***************************************************************************)
CacheIsTree == cached # NoRoot => cached = leaves

ReaderOK(t) ==
  /\ pc[t] = "head_root" => frame[t].size <= Len(leaves)
  /\ pc[t] \in {"proof_root", "proof_size"} =>
       /\ frame[t].index < Len(frame[t].path)
       /\ IsPrefix(frame[t].path, leaves)
  /\ pc[t] = "proof_size" =>
       /\ IsPrefix(frame[t].path, frame[t].root)
       /\ Len(frame[t].root) <= Len(leaves)

ReaderInv ==
  /\ CacheIsTree
  /\ \A t \in Threads : ReaderOK(t)
  /\ HeadNotAhead
  /\ ProofOrder

\* A prefix of a list is a prefix of that list with one more element.
LEMMA PrefixOfAppend ==
  ASSUME NEW s \in Seq(Data), NEW t \in Seq(Data), NEW d \in Data, IsPrefix(s, t)
  PROVE  IsPrefix(s, Append(t, d))
  BY DEF IsPrefix

\* The whole log is a prefix of itself.
LEMMA PrefixOfItself ==
  ASSUME NEW s \in Seq(Data)
  PROVE  IsPrefix(s, s)
  BY DEF IsPrefix

\* What a waiting reader holds stays good when the tree is the same or has
\* one leaf more.
LEMMA ReaderWaits ==
  ASSUME TypeOK, NEW u \in Threads, ReaderOK(u), pc'[u] = pc[u], frame'[u] = frame[u],
         leaves' = leaves \/ \E d \in Data : leaves' = Append(leaves, d)
  PROVE  ReaderOK(u)'
<1>1. CASE leaves' = leaves
  BY <1>1 DEF ReaderOK
<1>2. ASSUME NEW d \in Data, leaves' = Append(leaves, d) PROVE ReaderOK(u)'
  <2>1. /\ leaves \in Seq(Data) /\ frame[u].path \in Seq(Data) /\ frame[u].root \in Seq(Data)
        /\ frame[u].size \in Nat
    BY DEF TypeOK, Frame
  <2>2. Len(leaves') = Len(leaves) + 1 /\ Len(leaves) \in Nat /\ Len(frame[u].root) \in Nat
    BY <1>2, <2>1
  <2>3. IsPrefix(frame[u].path, leaves) => IsPrefix(frame[u].path, leaves')
    BY <1>2, <2>1, PrefixOfAppend
  <2> QED
    BY <2>1, <2>2, <2>3 DEF ReaderOK
<1> QED
  BY <1>1, <1>2

\* root() answers with the tree in memory, cached or not.
LEMMA RootIsTree == CacheIsTree => Root = leaves
  BY DEF CacheIsTree, Root

\* Nobody has read anything yet.
LEMMA ReaderInit == Init => ReaderInv
  BY DEF Init, ReaderInv, CacheIsTree, ReaderOK, HeadNotAhead, ProofOrder

\* Starting and dying leave no call in progress.
LEMMA RestartKeepsReaders ==
  ASSUME FailClosedInv, ReaderInv, Load \/ Crash
  PROVE  ReaderInv'
<1>1. cached' = NoRoot /\ UNCHANGED <<heads, proofs>>
  BY DEF Load, Crash, seen
<1>2. \A t \in Threads : pc'[t] = "idle"
  BY DEF FailClosedInv, TypeOK, CallOK, Load, Crash, calls
<1> QED
  BY <1>1, <1>2 DEF ReaderInv, CacheIsTree, ReaderOK, HeadNotAhead, ProofOrder

\* append() drops the cache with its first step and only adds to the tree.
LEMMA AppendKeepsReaders ==
  ASSUME FailClosedInv, ReaderInv, NEW t \in Threads, AppendStep(t)
  PROVE  ReaderInv'
<1>0. TypeOK /\ pc \in [Threads -> PC] /\ frame \in [Threads -> Frame]
  BY DEF FailClosedInv, TypeOK
<1>1. /\ UNCHANGED <<heads, proofs>>
      /\ leaves' = leaves \/ \E d \in Data : leaves' = Append(leaves, d)
      /\ cached' = NoRoot \/ UNCHANGED <<cached, leaves>>
      /\ \A u \in Threads \ {t} : pc'[u] = pc[u] /\ frame'[u] = frame[u]
      /\ pc'[t] \in {"idle", "write", "sync"}
  BY <1>0 DEF AppendStep, AppendBegin, AppendWrite, AppendReturn, AppendRaise, Return, seen
<1>2. \A u \in Threads : ReaderOK(u)'
  <2> SUFFICES ASSUME NEW u \in Threads PROVE ReaderOK(u)'
    OBVIOUS
  <2>1. CASE u = t
    BY <1>1, <2>1 DEF ReaderOK
  <2>2. CASE u # t
    BY <1>0, <1>1, <2>2, ReaderWaits DEF ReaderInv
  <2> QED
    BY <2>1, <2>2
<1> QED
  BY <1>1, <1>2 DEF ReaderInv, CacheIsTree, HeadNotAhead, ProofOrder

\* signed_head(): the size was read no later than the root.
LEMMA HeadKeepsReaders ==
  ASSUME FailClosedInv, ReaderInv, NEW t \in Threads, HeadStep(t)
  PROVE  ReaderInv'
<1>0. /\ TypeOK /\ pc \in [Threads -> PC] /\ frame \in [Threads -> Frame]
      /\ leaves \in Seq(Data) /\ Len(leaves) \in Nat
      /\ CacheIsTree /\ Root = leaves /\ HeadNotAhead /\ ProofOrder
  BY RootIsTree DEF FailClosedInv, TypeOK, ReaderInv
<1>1. /\ UNCHANGED <<leaves, proofs>>
      /\ cached' = cached \/ cached' = leaves
      /\ \A u \in Threads \ {t} : pc'[u] = pc[u] /\ frame'[u] = frame[u]
      /\ pc'[t] = "idle" \/ (pc'[t] = "head_root" /\ frame'[t].size = Len(leaves))
  BY <1>0 DEF HeadStep, HeadSize, HeadRoot, Return, seen, Frame
<1>2. \A u \in Threads : ReaderOK(u)'
  <2> SUFFICES ASSUME NEW u \in Threads PROVE ReaderOK(u)'
    OBVIOUS
  <2>1. CASE u = t
    BY <1>0, <1>1, <2>1 DEF ReaderOK
  <2>2. CASE u # t
    BY <1>0, <1>1, <2>2, ReaderWaits DEF ReaderInv
  <2> QED
    BY <2>1, <2>2
<1>3. HeadNotAhead'
  <2>1. CASE HeadSize(t)
    BY <1>0, <2>1 DEF HeadSize, seen, HeadNotAhead
  <2>2. CASE HeadRoot(t)
    <3>1. frame[t].size <= Len(leaves)
      BY <2>2 DEF HeadRoot, ReaderInv, ReaderOK
    <3> QED
      BY <1>0, <2>2, <3>1 DEF HeadRoot, HeadNotAhead
  <2> QED
    BY <2>1, <2>2 DEF HeadStep
<1> QED
  BY <1>0, <1>1, <1>2, <1>3 DEF ReaderInv, CacheIsTree, ProofOrder

\* inclusion_proof(): path, root and size are read in this order.
LEMMA ProofKeepsReaders ==
  ASSUME FailClosedInv, ReaderInv, NEW t \in Threads, ProofStep(t)
  PROVE  ReaderInv'
<1>0. /\ TypeOK /\ pc \in [Threads -> PC] /\ frame \in [Threads -> Frame]
      /\ leaves \in Seq(Data) /\ Len(leaves) \in Nat
      /\ CacheIsTree /\ Root = leaves /\ HeadNotAhead /\ ProofOrder /\ ReaderOK(t)
  BY RootIsTree DEF FailClosedInv, TypeOK, ReaderInv
<1>1. /\ UNCHANGED <<leaves, heads>>
      /\ cached' = cached \/ cached' = leaves
      /\ \A u \in Threads \ {t} : pc'[u] = pc[u] /\ frame'[u] = frame[u]
  BY <1>0 DEF ProofStep, ProofPath, ProofRoot, ProofSize, Return, seen
<1>2. ReaderOK(t)' /\ ProofOrder'
  <2>1. ASSUME NEW i \in 0..MaxLeaves, ProofPath(t, i) PROVE ReaderOK(t)' /\ ProofOrder'
    <3>1. pc'[t] = "proof_root" /\ frame'[t].index = i /\ frame'[t].path = leaves
      BY <1>0, <2>1 DEF ProofPath, Frame
    <3>2. i < Len(leaves) /\ UNCHANGED <<leaves, proofs>>
      BY <2>1 DEF ProofPath, seen
    <3>3. IsPrefix(leaves, leaves)
      BY <1>0, PrefixOfItself
    <3> QED
      BY <1>0, <3>1, <3>2, <3>3 DEF ReaderOK, ProofOrder
  <2>2. CASE ProofRoot(t)
    <3>1. /\ pc'[t] = "proof_size" /\ frame'[t].root = leaves
          /\ frame'[t].path = frame[t].path /\ frame'[t].index = frame[t].index
      BY <1>0, <2>2 DEF ProofRoot, Frame
    <3>2. UNCHANGED <<leaves, proofs>>
      BY <2>2 DEF ProofRoot, seen
    <3> QED
      BY <1>0, <2>2, <3>1, <3>2 DEF ProofRoot, ReaderOK, ProofOrder
  <2>3. CASE ProofSize(t)
    BY <1>0, <2>3 DEF ProofSize, Return, ReaderOK, ProofOrder
  <2> QED
    BY <2>1, <2>2, <2>3 DEF ProofStep
<1>3. \A u \in Threads : ReaderOK(u)'
  <2> SUFFICES ASSUME NEW u \in Threads, u # t PROVE ReaderOK(u)'
    BY <1>2
  <2> QED
    BY <1>0, <1>1, ReaderWaits DEF ReaderInv
<1> QED
  BY <1>0, <1>1, <1>2, <1>3 DEF ReaderInv, CacheIsTree, HeadNotAhead

\* Every step keeps what the readers hold and returned.
LEMMA ReaderNext == FailClosedInv /\ ReaderInv /\ [Next]_vars => ReaderInv'
<1> SUFFICES ASSUME FailClosedInv, ReaderInv, [Next]_vars PROVE ReaderInv'
  OBVIOUS
<1>1. CASE Load \/ Crash
  BY <1>1, RestartKeepsReaders
<1>2. ASSUME NEW t \in Threads, AppendStep(t) \/ HeadStep(t) \/ ProofStep(t) PROVE ReaderInv'
  BY <1>2, AppendKeepsReaders, HeadKeepsReaders, ProofKeepsReaders
<1>3. CASE UNCHANGED vars
  BY <1>3 DEF ReaderInv, CacheIsTree, ReaderOK, HeadNotAhead, ProofOrder,
              vars, calls, seen
<1> QED
  BY <1>1, <1>2, <1>3 DEF Next

(***************************************************************************)
(* No tree head that signed_head() returned claims more leaves than its    *)
(* root commits to, whatever appends, errors, crashes and restarts come    *)
(* between the two reads.                                                  *)
(***************************************************************************)
THEOREM HeadsNotAhead == Spec => []HeadNotAhead
<1>1. ReaderInv => HeadNotAhead
  BY DEF ReaderInv
<1> QED
  BY <1>1, FailClosedInit, FailClosedNext, ReaderInit, ReaderNext, PTL DEF Spec

(***************************************************************************)
(* In every proof that inclusion_proof() returned the tree of the path is  *)
(* part of the tree of the root, and that one is no larger than tree_size. *)
(***************************************************************************)
THEOREM ProofsInOrder == Spec => []ProofOrder
<1>1. ReaderInv => ProofOrder
  BY DEF ReaderInv
<1> QED
  BY <1>1, FailClosedInit, FailClosedNext, ReaderInit, ReaderNext, PTL DEF Spec
-----------------------------------------------------------------------------
(***************************************************************************)
(* TransparencyLog implements AppendOnlyLog when no write fails and no     *)
(* crash leaves a record without its newline (CleanFaults): for any number *)
(* of threads, leaves, crashes and restarts, every index append() returned *)
(* stays good on disk and every signed head stays a prefix of the disk.    *)
(*                                                                         *)
(* The proof rests on FailClosedInv and on CleanInv: while the log runs,   *)
(* the tree in memory is what is on disk plus, if some append holds the    *)
(* lock, the one leaf it is writing.                                       *)
(***************************************************************************)
CleanFaults == MaxErrors = 0 /\ "unterminated" \notin CrashRemains

InStep ==
  status = "up" =>
    /\ durable.ended /\ Loadable(durable)
    /\ Len(leaves) = Len(durable.lines) + (IF lock = NoThread THEN 0 ELSE 1)
    /\ \A i \in 1..Len(durable.lines) : leaves[i] = durable.lines[i].data

CleanInv ==
  /\ FailClosedInv
  /\ InStep
  /\ \A i \in 1..WholeLines(durable) : ParsesAt(durable, i)
  /\ Loadable(durable) => durable.ended
  /\ cached # NoRoot => cached = leaves /\ (status = "up" => lock = NoThread)
  /\ AckedDurable
  /\ HeadsOnDisk

(***************************************************************************)
(* Facts about files.                                                      *)
(***************************************************************************)

\* WholeLines counts all lines but a torn last one.
LEMMA WholeLinesBound ==
  ASSUME NEW f, WellFormed(f)
  PROVE  /\ WholeLines(f) \in Nat /\ Len(f.lines) \in Nat
         /\ WholeLines(f) <= Len(f.lines)
         /\ Loadable(f) => WholeLines(f) = Len(f.lines)
  BY DEF WellFormed, File, WholeLines, Loadable, ParsesAt

\* The log of a file whose whole lines parse is a sequence of leaves.
LEMMA WholeLogType ==
  ASSUME NEW f, WellFormed(f), \A i \in 1..WholeLines(f) : ParsesAt(f, i)
  PROVE  /\ WholeLog(f) \in Seq(Data)
         /\ Len(WholeLog(f)) = WholeLines(f)
         /\ \A i \in 1..WholeLines(f) : WholeLog(f)[i] = f.lines[i].data
<1>1. \A i \in 1..WholeLines(f) : f.lines[i].data \in Data
  BY WholeLinesBound DEF WellFormed, File, Line, ParsesAt
<1> QED
  BY <1>1, WholeLinesBound DEF WholeLog

\* Writing the next record to a file that loads adds one leaf to its log.
LEMMA CleanWrite ==
  ASSUME NEW f, WellFormed(f), f.ended, Loadable(f),
         NEW r \in [index : Nat, data : Data], r.index = Len(f.lines)
  PROVE  LET w == WriteLine(f, r)
         IN  /\ w.lines = Append(f.lines, r)
             /\ Loadable(w) /\ w.ended
             /\ WholeLog(w) = Append(WholeLog(f), r.data)
<1> DEFINE w == WriteLine(f, r)
<1>0. Len(f.lines) \in Nat /\ f.lines \in Seq(Line) /\ r \in Line /\ r # Torn
  BY TornAssumption DEF WellFormed, File, Line
<1>1. w.lines = Append(f.lines, r) /\ w.ended
  BY DEF WriteLine
<1>2. Len(w.lines) = Len(f.lines) + 1 /\ w.lines[Len(f.lines) + 1] = r
  BY <1>0, <1>1
<1>3. \A i \in 1..Len(f.lines) : w.lines[i] = f.lines[i]
  BY <1>0, <1>1
<1>4. Loadable(w)
  BY <1>0, <1>2, <1>3, SMTT(30) DEF Loadable, ParsesAt
<1>5. WellFormed(w) /\ WholeLines(w) = Len(f.lines) + 1 /\ WholeLines(f) = Len(f.lines)
  BY <1>0, <1>2, <1>4, WriteLineType, WholeLinesBound
<1> HIDE DEF w
<1>6. /\ WholeLog(f) \in Seq(Data) /\ Len(WholeLog(f)) = Len(f.lines)
      /\ \A i \in 1..Len(f.lines) : WholeLog(f)[i] = f.lines[i].data
  BY <1>5, WholeLogType DEF Loadable
<1>7. /\ WholeLog(w) \in Seq(Data) /\ Len(WholeLog(w)) = Len(f.lines) + 1
      /\ \A i \in 1..(Len(f.lines) + 1) : WholeLog(w)[i] = w.lines[i].data
  BY <1>2, <1>4, <1>5, WholeLogType DEF Loadable
<1>8. Append(WholeLog(f), r.data) \in Seq(Data) /\ Len(Append(WholeLog(f), r.data)) = Len(f.lines) + 1
  BY <1>6
<1>9. \A i \in 1..(Len(f.lines) + 1) : WholeLog(w)[i] = Append(WholeLog(f), r.data)[i]
  BY <1>0, <1>2, <1>3, <1>6, <1>7
<1>10. WholeLog(w) = Append(WholeLog(f), r.data)
  BY <1>7, <1>8, <1>9
<1> QED
  BY <1>1, <1>4, <1>10 DEF w

\* A fragment at the end of the file is not in its log.
LEMMA FragmentAddsNothing ==
  ASSUME NEW f, WellFormed(f), f.ended, Loadable(f), NEW line \in Line
  PROVE  LET p == PartialWrite(f, line, "fragment")
         IN  /\ p.lines = Append(f.lines, Torn)
             /\ ~ Loadable(p)
             /\ WholeLines(p) = Len(f.lines)
             /\ WholeLog(p) = WholeLog(f)
<1> DEFINE p == PartialWrite(f, line, "fragment")
<1>0. Len(f.lines) \in Nat /\ f.lines \in Seq(Line) /\ Torn \in Line
  BY DEF WellFormed, File, Line
<1>1. p.lines = Append(f.lines, Torn)
  BY DEF PartialWrite, WriteLine
<1>2. /\ Len(p.lines) = Len(f.lines) + 1 /\ p.lines[Len(f.lines) + 1] = Torn
      /\ \A i \in 1..Len(f.lines) : p.lines[i] = f.lines[i]
  BY <1>0, <1>1
<1> HIDE DEF p
<1>3. ~ Loadable(p)
  BY <1>0, <1>2 DEF Loadable, ParsesAt
<1>4. WholeLines(p) = Len(f.lines) /\ WholeLines(f) = Len(f.lines)
  BY <1>0, <1>2, WholeLinesBound DEF WholeLines
<1>5. WholeLog(p) = WholeLog(f)
  BY <1>2, <1>4 DEF WholeLog
<1> QED
  BY <1>1, <1>3, <1>4, <1>5 DEF p
-----------------------------------------------------------------------------
(***************************************************************************)
(* The steps.  AbstractStep is what each has to be for the abstract log.   *)
(***************************************************************************)
AbstractStep == [Abstract!Next]_(Abstract!vars)

\* The parts of CleanInv that only read the disk and the published results.
OnDisk ==
  /\ \A i \in 1..WholeLines(durable) : ParsesAt(durable, i)
  /\ Loadable(durable) => durable.ended
  /\ AckedDurable
  /\ HeadsOnDisk

\* A step that touches none of them keeps them and is a stutter of the log.
LEMMA DiskUntouched ==
  ASSUME CleanInv, UNCHANGED <<durable, acked, heads>>
  PROVE  OnDisk' /\ AbstractStep
<1>1. OnDisk
  BY DEF CleanInv, OnDisk
<1>2. OnDisk'
  BY <1>1 DEF OnDisk, AckedDurable, HeadsOnDisk, DurableLog
<1>3. UNCHANGED Abstract!vars
  BY DEF Abstract!vars, DurableLog
<1> QED
  BY <1>2, <1>3 DEF AbstractStep

\* An empty file, nothing acknowledged and nothing published.
LEMMA CleanInit == Init => CleanInv /\ Abstract!Init
<1> SUFFICES ASSUME Init PROVE CleanInv /\ Abstract!Init
  OBVIOUS
<1>1. FailClosedInv
  BY FailClosedInit
<1>2. WholeLines(durable) = 0 /\ DurableLog = << >>
  BY DEF Init, EmptyFile, WholeLines, DurableLog, WholeLog
<1>3. InStep /\ AckedDurable /\ HeadsOnDisk
  BY DEF Init, InStep, AckedDurable, HeadsOnDisk
<1>4. Abstract!Init
  BY <1>2 DEF Init, Abstract!Init
<1> QED
  BY <1>1, <1>2, <1>3, <1>4 DEF Init, CleanInv, EmptyFile

\* _load: a file that loads is ended and gives the tree.
LEMMA LoadClean ==
  ASSUME CleanInv, Load, FailClosedInv'
  PROVE  CleanInv' /\ AbstractStep
<1>1. lock = NoThread /\ file = durable
  BY ConstantsAssumption DEF CleanInv, FailClosedInv, Load, DiskOK, CallOK, TypeOK
<1>2. OnDisk' /\ AbstractStep
  BY DiskUntouched DEF Load, disk, seen
<1>3. InStep'
  <2> SUFFICES ASSUME status' = "up" PROVE InStep'
    BY DEF InStep
  <2>1. Loadable(durable) /\ leaves' = LoadedLeaves(durable) /\ durable.ended
    BY <1>1 DEF Load, CleanInv
  <2>2. durable.lines \in Seq(Line) /\ Len(durable.lines) \in Nat
    BY DEF CleanInv, FailClosedInv, DiskOK, WellFormed, File
  <2>3. Len(leaves') = Len(durable.lines)
    BY <2>1, <2>2 DEF LoadedLeaves
  <2>4. \A i \in 1..Len(durable.lines) : leaves'[i] = durable.lines[i].data
    BY <2>1, <2>2 DEF LoadedLeaves
  <2>5. durable' = durable /\ lock' = lock
    BY DEF Load, disk, calls
  <2> QED
    BY <1>1, <2>1, <2>2, <2>3, <2>4, <2>5 DEF InStep
<1> QED
  BY <1>2, <1>3 DEF CleanInv, OnDisk, Load

\* The new leaf is ahead of the disk by one, with the lock taken.
LEMMA AppendBeginClean ==
  ASSUME CleanInv, NEW t \in Threads, NEW d \in Data, AppendBegin(t, d), FailClosedInv'
  PROVE  CleanInv' /\ AbstractStep
<1>1. OnDisk' /\ AbstractStep
  BY DiskUntouched DEF AppendBegin, disk, seen
<1>2. InStep'
  <2>1. /\ status = "up" /\ lock = NoThread /\ lock' = t /\ t # NoThread
        /\ leaves' = Append(leaves, d) /\ durable' = durable
    BY ConstantsAssumption DEF AppendBegin, disk
  <2>2. /\ leaves \in Seq(Data) /\ Len(durable.lines) \in Nat
        /\ Len(leaves) = Len(durable.lines) /\ durable.ended /\ Loadable(durable)
        /\ \A i \in 1..Len(durable.lines) : leaves[i] = durable.lines[i].data
    BY <2>1 DEF CleanInv, InStep, FailClosedInv, TypeOK, DiskOK, WellFormed, File
  <2> QED
    BY <2>1, <2>2 DEF InStep
<1> QED
  BY <1>1, <1>2 DEF CleanInv, OnDisk, AppendBegin

\* Nothing but the unsynced part of the file changes.
LEMMA AppendWriteClean ==
  ASSUME CleanInv, NEW t \in Threads, AppendWrite(t), FailClosedInv'
  PROVE  CleanInv' /\ AbstractStep
<1>1. OnDisk' /\ AbstractStep
  BY DiskUntouched DEF AppendWrite, seen
<1>2. InStep'
  BY DEF CleanInv, InStep, AppendWrite
<1> QED
  BY <1>1, <1>2 DEF CleanInv, OnDisk, AppendWrite

\* The record a thread is writing is the next line of the file.
LEMMA PendingIsNext ==
  ASSUME CleanInv, NEW t \in Threads, pc[t] \in {"write", "sync"}
  PROVE  /\ Pending(t) \in [index : Nat, data : Data]
         /\ Pending(t).index = Len(durable.lines)
         /\ Pending(t).data = leaves[Len(leaves)]
         /\ lock = t /\ status = "up" /\ t # NoThread
         /\ WellFormed(durable) /\ durable.ended /\ Loadable(durable)
<1>1. FailClosedInv /\ InStep
  BY DEF CleanInv
<1>2. lock = t /\ status = "up" /\ t # NoThread /\ frame[t].index + 1 = Len(leaves)
  BY <1>1, ConstantsAssumption DEF FailClosedInv, CallOK
<1>3. /\ WellFormed(durable) /\ durable.ended /\ Loadable(durable)
      /\ Len(leaves) = Len(durable.lines) + 1
  BY <1>1, <1>2 DEF InStep, FailClosedInv, DiskOK
<1>4. frame[t].index \in Nat /\ Len(durable.lines) \in Nat
  BY <1>1, <1>3 DEF FailClosedInv, TypeOK, Frame, WellFormed, File
<1>5. frame[t].index = Len(durable.lines)
  BY <1>2, <1>3, <1>4
<1>6. Pending(t).index = frame[t].index /\ Pending(t).data = leaves[frame[t].index + 1]
  BY DEF Pending, Record
<1> QED
  BY <1>1, <1>2, <1>3, <1>5, <1>6, PendingIsLine

\* The next record reaches the disk, acknowledged or not: one step of the log.
LEMMA DiskExtended ==
  ASSUME CleanInv, NEW r \in [index : Nat, data : Data], r.index = Len(durable.lines),
         Loadable(durable), durable.ended,
         durable'.lines = WriteLine(durable, r).lines, durable'.ended,
         acked' = acked \/ acked' = acked \cup {r}, heads' = heads
  PROVE  OnDisk' /\ AbstractStep /\ Loadable(durable')
<1>0. WellFormed(durable) /\ Len(durable.lines) \in Nat /\ durable.lines \in Seq(Line)
  BY DEF CleanInv, FailClosedInv, DiskOK, WellFormed, File
<1> DEFINE w == WriteLine(durable, r)
<1>1. /\ w.lines = Append(durable.lines, r) /\ Loadable(w) /\ w.ended
      /\ WholeLog(w) = Append(WholeLog(durable), r.data)
  BY <1>0, CleanWrite
<1>2. /\ durable'.lines = Append(durable.lines, r)
      /\ Loadable(durable')
      /\ WholeLines(durable') = WholeLines(w)
      /\ WholeLog(durable') = Append(WholeLog(durable), r.data)
  BY <1>1 DEF Loadable, ParsesAt, WholeLines, WholeLog
<1> HIDE DEF w
<1>3. /\ r \in Line /\ Len(durable'.lines) = Len(durable.lines) + 1
      /\ durable'.lines[Len(durable.lines) + 1] = r
      /\ \A i \in 1..Len(durable.lines) : durable'.lines[i] = durable.lines[i]
  BY <1>0, <1>2 DEF Line
<1>4. /\ \A i \in 1..Len(durable.lines) : ParsesAt(durable', i)
      /\ \A i \in 1..WholeLines(durable') : ParsesAt(durable', i)
  <2>1. WholeLines(durable') <= Len(durable'.lines)
    BY <1>0, <1>2, <1>3 DEF WholeLines
  <2>2. WholeLines(durable') \in Nat
    BY <1>0, <1>2, <1>3 DEF WholeLines
  <2> QED
    BY <1>0, <1>2, <1>3, <2>1, <2>2 DEF Loadable
<1>5. AckedDurable'
  <2> SUFFICES ASSUME NEW q \in acked'
               PROVE  /\ q.index < Len(durable'.lines)
                      /\ durable'.lines[q.index + 1] = q
                      /\ \A i \in 1..q.index : ParsesAt(durable', i)
    BY DEF AckedDurable
  <2>1. CASE q \in acked
    <3>1. q.index \in Nat /\ q.index < Len(durable.lines) /\ durable.lines[q.index + 1] = q
      BY <2>1 DEF CleanInv, AckedDurable, FailClosedInv, TypeOK
    <3>2. q.index + 1 \in 1..Len(durable.lines) /\ 1..q.index \subseteq 1..Len(durable.lines)
      BY <1>0, <3>1
    <3> QED
      BY <1>0, <1>3, <1>4, <3>1, <3>2
  <2>2. CASE q = r
    BY <1>0, <1>3, <1>4, <2>2
  <2> QED
    BY <2>1, <2>2
<1>6. DurableLog \in Seq(Data) /\ DurableLog' = Append(DurableLog, r.data) /\ r.data \in Data
  BY <1>0, <1>2, WholeLogType DEF CleanInv, DurableLog
<1>7. HeadsOnDisk'
  <2> SUFFICES ASSUME NEW h \in heads PROVE IsPrefix(h.root, DurableLog')
    BY DEF HeadsOnDisk
  <2>1. h.root \in Seq(Data) /\ IsPrefix(h.root, DurableLog)
    BY DEF CleanInv, HeadsOnDisk, FailClosedInv, TypeOK, TreeHead
  <2> QED
    BY <1>6, <2>1, PrefixOfAppend
<1>8. OnDisk'
  BY <1>2, <1>4, <1>5, <1>7 DEF OnDisk
<1>9. AbstractStep
  <2>1. {h.root : h \in heads'} = {h.root : h \in heads}
    OBVIOUS
  <2>2. CASE acked' = acked
    <3>1. Abstract!Extend(r.data)
      BY <1>6, <2>1, <2>2 DEF Abstract!Extend
    <3> QED
      BY <1>6, <3>1 DEF AbstractStep, Abstract!Next
  <2>3. CASE acked' = acked \cup {r}
    <3>1. Len(DurableLog) = Len(durable.lines)
      BY <1>0, WholeLogType, WholeLinesBound DEF CleanInv, DurableLog
    <3>2. r = [index |-> Len(DurableLog), data |-> r.data]
      BY <3>1
    <3>3. Abstract!ExtendAndAck(r.data)
      BY <1>6, <2>1, <2>3, <3>2 DEF Abstract!ExtendAndAck
    <3> QED
      BY <1>6, <3>3 DEF AbstractStep, Abstract!Next
  <2> QED
    BY <2>2, <2>3
<1> QED
  BY <1>2, <1>8, <1>9

\* fsync returned: disk and tree agree again and the lock is free.
LEMMA AppendReturnClean ==
  ASSUME CleanInv, NEW t \in Threads, AppendReturn(t), FailClosedInv'
  PROVE  CleanInv' /\ AbstractStep
<1>1. /\ Pending(t) \in [index : Nat, data : Data] /\ Pending(t).index = Len(durable.lines)
      /\ Pending(t).data = leaves[Len(leaves)] /\ lock = t /\ status = "up" /\ t # NoThread
      /\ WellFormed(durable) /\ durable.ended /\ Loadable(durable)
  BY PendingIsNext DEF AppendReturn
<1>2. durable' = WriteLine(durable, Pending(t)) /\ durable'.ended
  BY DEF AppendReturn, CleanInv, FailClosedInv, CallOK, WriteLine
<1>3. OnDisk' /\ AbstractStep /\ Loadable(durable')
  BY <1>1, <1>2, DiskExtended DEF AppendReturn
<1>4. InStep'
  <2>1. durable'.lines = Append(durable.lines, Pending(t)) /\ Pending(t) \in Line
    BY <1>1, <1>2, CleanWrite DEF Line
  <2>2. /\ leaves \in Seq(Data) /\ durable.lines \in Seq(Line) /\ Len(durable.lines) \in Nat
        /\ Len(leaves) = Len(durable.lines) + 1
        /\ \A i \in 1..Len(durable.lines) : leaves[i] = durable.lines[i].data
    BY <1>1 DEF CleanInv, InStep, FailClosedInv, TypeOK, WellFormed, File
  <2>3. leaves' = leaves /\ lock' = NoThread
    BY DEF AppendReturn
  <2>4. Len(durable'.lines) = Len(leaves)
    BY <2>1, <2>2
  <2>5. \A i \in 1..Len(leaves) : leaves[i] = durable'.lines[i].data
    BY <1>1, <2>1, <2>2
  <2> QED
    BY <1>2, <1>3, <2>2, <2>3, <2>4, <2>5 DEF InStep
<1> QED
  BY <1>1, <1>3, <1>4 DEF CleanInv, OnDisk, AppendReturn

\* A clean crash leaves nothing, a fragment or the whole of the last line.
LEMMA CrashClean ==
  ASSUME CleanFaults, CleanInv, Crash, FailClosedInv'
  PROVE  CleanInv' /\ AbstractStep
<1>1. OnDisk' /\ AbstractStep
  <2>1. CASE lock = NoThread
    BY <2>1, DiskUntouched DEF Crash, seen
  <2>2. CASE lock # NoThread
    <3>1. lock \in Threads /\ pc[lock] \in {"write", "sync"}
      BY <2>2 DEF CleanInv, FailClosedInv, TypeOK, CallOK
    <3>2. /\ Pending(lock) \in [index : Nat, data : Data]
          /\ Pending(lock).index = Len(durable.lines)
          /\ WellFormed(durable) /\ durable.ended /\ Loadable(durable)
      BY <3>1, PendingIsNext
    <3>3. PICK left \in CrashRemains : durable' = PartialWrite(durable, Pending(lock), left)
      BY <2>2 DEF Crash
    <3>4. left \in {"nothing", "fragment", "whole"} /\ acked' = acked /\ heads' = heads
      BY <3>3, ConstantsAssumption DEF CleanFaults, Remains, Crash, seen
    <3>5. CASE left = "nothing"
      BY <3>3, <3>4, <3>5, DiskUntouched DEF PartialWrite
    <3>6. CASE left = "whole"
      BY <3>2, <3>3, <3>4, <3>6, DiskExtended DEF PartialWrite
    <3>7. CASE left = "fragment"
      <4>1. Pending(lock) \in Line
        BY <3>2 DEF Line
      <4>2. /\ durable'.lines = Append(durable.lines, Torn)
            /\ ~ Loadable(durable')
            /\ WholeLines(durable') = Len(durable.lines)
            /\ DurableLog' = DurableLog
        BY <3>2, <3>3, <3>7, <4>1, FragmentAddsNothing DEF DurableLog
      <4>3. /\ durable.lines \in Seq(Line) /\ Len(durable.lines) \in Nat /\ Torn \in Line
        BY <3>2 DEF WellFormed, File, Line
      <4>4. /\ Len(durable'.lines) = Len(durable.lines) + 1
            /\ \A i \in 1..Len(durable.lines) : durable'.lines[i] = durable.lines[i]
        BY <4>2, <4>3
      <4>5. \A i \in 1..WholeLines(durable') : ParsesAt(durable', i)
        BY <3>2, <4>2, <4>4 DEF Loadable, ParsesAt
      <4>6. AckedDurable'
        <5> SUFFICES ASSUME NEW q \in acked
                     PROVE  /\ q.index < Len(durable'.lines)
                            /\ durable'.lines[q.index + 1] = q
                            /\ \A i \in 1..q.index : ParsesAt(durable', i)
          BY <3>4 DEF AckedDurable
        <5>1. q.index \in Nat /\ q.index < Len(durable.lines) /\ durable.lines[q.index + 1] = q
          BY DEF CleanInv, AckedDurable, FailClosedInv, TypeOK
        <5>2. q.index + 1 \in 1..Len(durable.lines) /\ 1..q.index \subseteq 1..Len(durable.lines)
          BY <4>3, <5>1
        <5> QED
          BY <4>2, <4>3, <4>4, <4>5, <5>1, <5>2
      <4>7. HeadsOnDisk'
        BY <3>4, <4>2 DEF CleanInv, HeadsOnDisk
      <4>8. AbstractStep
        BY <3>4, <4>2 DEF AbstractStep, Abstract!vars
      <4> QED
        BY <4>2, <4>5, <4>6, <4>7, <4>8 DEF OnDisk
    <3> QED
      BY <3>4, <3>5, <3>6, <3>7
  <2> QED
    BY <2>1, <2>2
<1>2. InStep'
  BY DEF Crash, InStep
<1> QED
  BY <1>1, <1>2 DEF CleanInv, OnDisk, Crash

\* With the lock free, root() commits to exactly what is on disk.
LEMMA RootIsDurable ==
  ASSUME CleanInv, status = "up", lock = NoThread
  PROVE  Root = leaves /\ leaves = DurableLog /\ leaves \in Seq(Data)
<1>1. Root = leaves
  BY DEF CleanInv, Root
<1>2. /\ WellFormed(durable) /\ Loadable(durable) /\ leaves \in Seq(Data)
      /\ Len(leaves) = Len(durable.lines) /\ Len(durable.lines) \in Nat
      /\ \A i \in 1..Len(durable.lines) : leaves[i] = durable.lines[i].data
  BY DEF CleanInv, InStep, FailClosedInv, TypeOK, DiskOK, WellFormed, File
<1>3. /\ DurableLog \in Seq(Data) /\ Len(DurableLog) = Len(durable.lines)
      /\ \A i \in 1..Len(durable.lines) : DurableLog[i] = durable.lines[i].data
  BY <1>2, WholeLogType, WholeLinesBound DEF CleanInv, DurableLog
<1> QED
  BY <1>1, <1>2, <1>3

\* A thread in the middle of a call is in a running process.
LEMMA CallsNeedProcess ==
  ASSUME CleanInv, NEW t \in Threads, pc[t] # "idle"
  PROVE  status = "up"
  BY DEF CleanInv, FailClosedInv, CallOK

\* signed_head() publishes what is on disk.
LEMMA HeadRootClean ==
  ASSUME CleanInv, NEW t \in Threads, HeadRoot(t), FailClosedInv'
  PROVE  CleanInv' /\ AbstractStep
<1>1. status = "up" /\ lock = NoThread
  BY CallsNeedProcess DEF HeadRoot
<1>2. Root = leaves /\ leaves = DurableLog /\ leaves \in Seq(Data)
  BY <1>1, RootIsDurable
<1> DEFINE g == [size |-> frame[t].size, root |-> Root]
<1>3. /\ UNCHANGED <<durable, acked, leaves, lock, status>> /\ cached' = leaves
      /\ heads' = heads \cup {g} /\ g.root = DurableLog
  BY <1>2 DEF HeadRoot, disk
<1>4. HeadsOnDisk'
  BY <1>2, <1>3, PrefixOfItself DEF HeadsOnDisk, CleanInv, DurableLog
<1>5. AbstractStep
  <2>1. {h.root : h \in heads'} = {h.root : h \in heads} \cup {DurableLog}
    BY <1>3
  <2>2. /\ Len(DurableLog) \in 0..Len(DurableLog)
        /\ SubSeq(DurableLog, 1, Len(DurableLog)) = DurableLog
    BY <1>2
  <2>3. DurableLog' = DurableLog /\ acked' = acked
    BY <1>3 DEF DurableLog
  <2> DEFINE n == Len(DurableLog)
  <2>4. /\ {h.root : h \in heads'} = {h.root : h \in heads} \cup {SubSeq(DurableLog, 1, n)}
        /\ UNCHANGED <<DurableLog, acked>> /\ n \in 0..Len(DurableLog)
    BY <2>1, <2>2, <2>3
  <2> HIDE DEF n
  <2>5. \E m \in 0..Len(DurableLog) : Abstract!Publish(m)
    BY <2>4, Zenon DEF Abstract!Publish
  <2>6. Abstract!Next
    BY <2>5, Zenon DEF Abstract!Next
  <2> QED
    BY <2>6, Zenon DEF AbstractStep
<1>6. InStep'
  BY <1>3 DEF CleanInv, InStep
<1>7. AckedDurable' /\ (Loadable(durable) => durable.ended)'
      /\ \A i \in 1..WholeLines(durable') : ParsesAt(durable', i)
  BY <1>3 DEF CleanInv, AckedDurable
<1> QED
  BY <1>1, <1>3, <1>4, <1>5, <1>6, <1>7 DEF CleanInv

\* The other steps of the readers touch neither the disk nor the heads.
LEMMA ReadersClean ==
  ASSUME CleanInv, NEW t \in Threads, HeadSize(t) \/ ProofStep(t), FailClosedInv'
  PROVE  CleanInv' /\ AbstractStep
<1>1. UNCHANGED <<durable, acked, heads, leaves, lock, status>>
  BY DEF HeadSize, ProofStep, ProofPath, ProofRoot, ProofSize, disk, seen
<1>2. OnDisk' /\ AbstractStep
  BY <1>1, DiskUntouched
<1>3. InStep'
  BY <1>1 DEF CleanInv, InStep
<1>4. cached' # NoRoot => cached' = leaves /\ (status = "up" => lock = NoThread)
  <2>1. CASE ProofRoot(t)
    <3>1. status = "up" /\ lock = NoThread
      BY <2>1, CallsNeedProcess DEF ProofRoot
    <3> QED
      BY <2>1, <3>1, RootIsDurable DEF ProofRoot
  <2>2. CASE ~ ProofRoot(t)
    <3>1. cached' = cached
      BY <2>2 DEF HeadSize, ProofStep, ProofPath, ProofSize
    <3> QED
      BY <3>1 DEF CleanInv
  <2> QED
    BY <2>1, <2>2
<1> QED
  BY <1>1, <1>2, <1>3, <1>4 DEF CleanInv, OnDisk

\* Every step keeps the invariant and is a step of the abstract log.
LEMMA CleanNext ==
  ASSUME CleanFaults, CleanInv, [Next]_vars
  PROVE  CleanInv' /\ AbstractStep
<1>0. FailClosedInv'
  BY FailClosedNext DEF CleanInv
<1>1. CASE Load
  BY <1>0, <1>1, LoadClean
<1>2. CASE Crash
  BY <1>0, <1>2, CrashClean
<1>3. ASSUME NEW t \in Threads, AppendStep(t) PROVE CleanInv' /\ AbstractStep
  <2>1. ~ AppendRaise(t)
    <3>1. errors = 0 /\ MaxErrors = 0
      BY DEF CleanFaults, CleanInv, FailClosedInv, TypeOK
    <3> QED
      BY <3>1 DEF AppendRaise
  <2> QED
    BY <1>0, <1>3, <2>1, AppendBeginClean, AppendWriteClean, AppendReturnClean DEF AppendStep
<1>4. ASSUME NEW t \in Threads, HeadStep(t) PROVE CleanInv' /\ AbstractStep
  BY <1>0, <1>4, HeadRootClean, ReadersClean DEF HeadStep
<1>5. ASSUME NEW t \in Threads, ProofStep(t) PROVE CleanInv' /\ AbstractStep
  BY <1>0, <1>5, ReadersClean
<1>6. CASE UNCHANGED vars
  <2>1. UNCHANGED <<durable, acked, heads, leaves, lock, status, cached>>
    BY <1>6 DEF vars, disk, calls, seen
  <2>2. OnDisk' /\ AbstractStep
    BY <2>1, DiskUntouched
  <2>3. InStep'
    BY <2>1 DEF CleanInv, InStep
  <2> QED
    BY <1>0, <2>1, <2>2, <2>3 DEF CleanInv, OnDisk
<1> QED
  BY <1>1, <1>2, <1>3, <1>4, <1>5, <1>6 DEF Next

(***************************************************************************)
(* Durability of append(): what was acknowledged can be read back from the *)
(* disk at its index, after any number of clean crashes and restarts.      *)
(***************************************************************************)
THEOREM AckedStaysDurable == ASSUME CleanFaults PROVE Spec => []AckedDurable
<1>1. CleanInv => AckedDurable
  BY DEF CleanInv
<1>2. CleanInv /\ [Next]_vars => CleanInv'
  BY CleanNext
<1> QED
  BY <1>1, <1>2, CleanInit, PTL DEF Spec

(***************************************************************************)
(* Every head signed_head() ever returned is a prefix of the log on disk.  *)
(***************************************************************************)
THEOREM HeadsStayOnDisk == ASSUME CleanFaults PROVE Spec => []HeadsOnDisk
<1>1. CleanInv => HeadsOnDisk
  BY DEF CleanInv
<1>2. CleanInv /\ [Next]_vars => CleanInv'
  BY CleanNext
<1> QED
  BY <1>1, <1>2, CleanInit, PTL DEF Spec

(***************************************************************************)
(* The log with its threads, file, crashes and restarts implements the     *)
(* abstract append-only log.                                               *)
(***************************************************************************)
THEOREM Refinement == ASSUME CleanFaults PROVE Spec => ImplementsAppendOnlyLog
<1>1. CleanInv /\ [Next]_vars => CleanInv' /\ AbstractStep
  BY CleanNext
<1> QED
  BY <1>1, CleanInit, PTL DEF Spec, ImplementsAppendOnlyLog, Abstract!Spec, AbstractStep

\* With the lock free, line i of the file is the record of leaf i - 1.
LEMMA FileIsTree ==
  ASSUME CleanInv, status = "up", lock = NoThread
  PROVE  /\ file.lines \in Seq(Line) /\ leaves \in Seq(Data)
         /\ Len(file.lines) = Len(leaves) /\ Len(leaves) \in Nat
         /\ \A i \in 1..Len(leaves) :
              ParsesAt(file, i) /\ file.lines[i] = Record(i - 1, leaves[i])
<1>1. /\ file = durable /\ Loadable(file) /\ WellFormed(file) /\ leaves \in Seq(Data)
      /\ Len(leaves) = Len(file.lines) + 0
      /\ \A i \in 1..Len(file.lines) : leaves[i] = file.lines[i].data
  BY DEF CleanInv, InStep, FailClosedInv, DiskOK, TypeOK
<1>2. file.lines \in Seq(Line) /\ Len(file.lines) \in Nat /\ Len(leaves) = Len(file.lines)
  BY <1>1 DEF WellFormed, File
<1>3. ASSUME NEW i \in 1..Len(leaves)
      PROVE  ParsesAt(file, i) /\ file.lines[i] = Record(i - 1, leaves[i])
  <2>1. ParsesAt(file, i)
    BY <1>1, <1>2 DEF Loadable
  <2>2. file.lines[i] \in [index : Nat, data : Data] /\ file.lines[i].index = i - 1
    BY <1>2, <2>1 DEF ParsesAt, Line
  <2>3. leaves[i] = file.lines[i].data
    BY <1>1, <1>2
  <2> QED
    BY <2>1, <2>2, <2>3 DEF Record
<1> QED
  BY <1>1, <1>2, <1>3

\* range_records() then finds every line it asks for.
LEMMA RangeFromTree == CleanInv => RangeServesTree
<1> SUFFICES ASSUME CleanInv, status = "up", lock = NoThread,
                    NEW start \in 0..MaxLeaves, NEW limit \in 0..MaxLeaves
             PROVE  RangeRecords(file, Len(leaves), start, limit) =
                      [i \in 1..(IF start >= Len(leaves) THEN 0
                                 ELSE MinOf(limit, Len(leaves) - start)) |->
                         Record(start + i - 1, leaves[start + i])]
  BY DEF RangeServesTree
<1> DEFINE n == Len(leaves)
           end == MinOf(start + limit, n)
<1>1. /\ file.lines \in Seq(Line) /\ leaves \in Seq(Data)
      /\ Len(file.lines) = n /\ n \in Nat
      /\ \A i \in 1..n : ParsesAt(file, i) /\ file.lines[i] = Record(i - 1, leaves[i])
  BY FileIsTree
<1>2. start \in Nat /\ limit \in Nat
  BY ConstantsAssumption
<1> HIDE DEF n
<1>3. CASE start >= n
  BY <1>1, <1>2, <1>3 DEF RangeRecords, n
<1>4. CASE start < n /\ limit = 0
  BY <1>1, <1>2, <1>4 DEF RangeRecords, MinOf, n
<1>5. CASE start < n /\ limit > 0
  <2>1. end \in Nat /\ end <= n /\ end - start = MinOf(limit, n - start) /\ start < end
    BY <1>1, <1>2, <1>5 DEF MinOf
  <2> HIDE DEF end
  <2>2. \A i \in 1..end : ParsesAt(file, i)
    BY <1>1, <2>1
  <2>3. RangeRecords(file, n, start, limit) = SubSeq(file.lines, start + 1, end)
    BY <1>1, <1>2, <1>5, <2>1, <2>2, SMTT(30) DEF RangeRecords, end
  <2>4. SubSeq(file.lines, start + 1, end)
          = [i \in 1..(end - start) |-> file.lines[start + i]]
    <3>1. SubSeq(file.lines, start + 1, end)
            = [i \in 1..(end - (start + 1) + 1) |-> file.lines[i + (start + 1) - 1]]
      BY <1>1, <1>2, <2>1
    <3>2. end - (start + 1) + 1 = end - start
      BY <1>2, <2>1
    <3>3. \A i \in 1..(end - start) : i + (start + 1) - 1 = start + i
      BY <1>2, <2>1
    <3> QED
      BY <3>1, <3>2, <3>3
  <2>5. \A i \in 1..(end - start) : file.lines[start + i] = Record(start + i - 1, leaves[start + i])
    BY <1>1, <1>2, <2>1, SMTT(30)
  <2>6. ~ (start >= n)
    BY <1>1, <1>2, <1>5
  <2> QED
    BY <2>1, <2>3, <2>4, <2>5, <2>6 DEF n
<1> QED
  BY <1>1, <1>2, <1>3, <1>4, <1>5

(***************************************************************************)
(* range_records() serves exactly the leaves of the tree whenever no       *)
(* append is in progress, after any number of clean crashes and restarts.  *)
(***************************************************************************)
THEOREM RangesServeTree == ASSUME CleanFaults PROVE Spec => []RangeServesTree
<1>1. CleanInv /\ [Next]_vars => CleanInv'
  BY CleanNext
<1> QED
  BY <1>1, RangeFromTree, CleanInit, PTL DEF Spec
=============================================================================
