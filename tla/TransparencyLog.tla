--------------------------- MODULE TransparencyLog --------------------------
(***************************************************************************)
(* The class TransparencyLog of oversight_core/tlog.py, called by the      *)
(* request threads of one registry process.                                *)
(*                                                                         *)
(* append() runs under _lock, but it is three steps to everybody else: the *)
(* leaf is put in memory, the line is written, the file is fsynced.        *)
(* signed_head() and inclusion_proof() take the lock for root() only, so   *)
(* each is two or three steps that an append of another thread can split.  *)
(* The process can die at any point and be started again, which re-reads   *)
(* the file; a write or fsync can fail, which raises out of append.        *)
(*                                                                         *)
(* A root is the sequence of leaves it commits to (hashes are collision    *)
(* free; module Merkle has the tree itself).                               *)
(***************************************************************************)
EXTENDS LeafFile, SequencesExt, FiniteSets

CONSTANTS
  Threads,         \* request threads of the registry
  NoThread,        \* the lock is free
  NoRoot,          \* _cached_root is None
  CrashRemains,    \* what a crash may leave of a line not yet fsynced
  MaxLeaves,       \* bound on the length of the log
  MaxCrashes,      \* bound on the number of crashes
  MaxErrors,       \* bound on the number of failed writes
  MaxHeads,        \* bound on the number of distinct tree heads
  MaxProofs        \* bound on the number of distinct inclusion proofs

ASSUME ConstantsAssumption ==
  /\ NoThread \notin Threads
  /\ NoRoot \notin Seq(Data)
  /\ CrashRemains \subseteq Remains
  /\ MaxLeaves \in Nat /\ MaxCrashes \in Nat /\ MaxErrors \in Nat
  /\ MaxHeads \in Nat /\ MaxProofs \in Nat

VARIABLES
  status,    \* "down", "up", or "refused" when _load raised
  leaves,    \* _leaves
  cached,    \* _cached_root
  file,      \* leaves.jsonl as the process reads it
  durable,   \* the part of it that an fsync has put on disk
  lock,      \* holder of _lock
  pc,        \* where each thread is in its call
  frame,     \* the locals of that call
  acked,     \* [index, data] that append returned
  heads,     \* [size, root] that signed_head returned
  proofs,    \* what inclusion_proof returned
  crashes,   \* number of crashes so far
  errors     \* number of failed writes so far

disk  == <<file, durable>>
calls == <<lock, pc, frame>>
seen  == <<acked, heads, proofs>>
vars  == <<status, leaves, cached, disk, calls, seen, crashes, errors>>

PC == {"idle", "write", "sync", "head_root", "proof_root", "proof_size"}

Frame == [index : Nat, size : Nat, path : Seq(Data), root : Seq(Data)]

NoFrame == [index |-> 0, size |-> 0, path |-> << >>, root |-> << >>]

TreeHead == [size : Nat, root : Seq(Data)]
InclusionProof == [index : Nat, path : Seq(Data), root : Seq(Data), tree_size : Nat]

Init ==
  /\ status = "down"
  /\ leaves = << >>
  /\ cached = NoRoot
  /\ file = EmptyFile
  /\ durable = EmptyFile
  /\ lock = NoThread
  /\ pc = [t \in Threads |-> "idle"]
  /\ frame = [t \in Threads |-> NoFrame]
  /\ acked = {} /\ heads = {} /\ proofs = {}
  /\ crashes = 0 /\ errors = 0
-----------------------------------------------------------------------------
(***************************************************************************)
(* Starting the process: __init__ and _load.                               *)
(***************************************************************************)
\* Mutant: starts with an empty tree.
LoadNothing ==
  /\ status = "down"
  /\ status' = "up" /\ leaves' = << >>
  /\ cached' = NoRoot
  /\ UNCHANGED <<disk, calls, seen, crashes, errors>>

Load ==
  /\ status = "down"
  /\ IF Loadable(file)
     THEN status' = "up" /\ leaves' = LoadedLeaves(file)
     ELSE status' = "refused" /\ UNCHANGED leaves
  /\ cached' = NoRoot
  /\ UNCHANGED <<disk, calls, seen, crashes, errors>>

(***************************************************************************)
(* append()                                                                *)
(***************************************************************************)
\* The record append() is writing for thread t: the leaf it put in memory.
Pending(t) == Record(frame[t].index, leaves[frame[t].index + 1])

Return(t) ==
  /\ pc' = [pc EXCEPT ![t] = "idle"]
  /\ frame' = [frame EXCEPT ![t] = NoFrame]

\* Mutant: the cached root is not dropped.
AppendBeginKeepsCache(t, d) ==
  /\ status = "up" /\ pc[t] = "idle" /\ lock = NoThread
  /\ Len(leaves) < MaxLeaves
  /\ lock' = t
  /\ pc' = [pc EXCEPT ![t] = "write"]
  /\ frame' = [frame EXCEPT ![t].index = Len(leaves)]
  /\ leaves' = Append(leaves, d)
  /\ UNCHANGED <<status, cached, disk, seen, crashes, errors>>

AppendBegin(t, d) ==
  /\ status = "up" /\ pc[t] = "idle" /\ lock = NoThread
  /\ Len(leaves) < MaxLeaves
  /\ lock' = t
  /\ pc' = [pc EXCEPT ![t] = "write"]
  /\ frame' = [frame EXCEPT ![t].index = Len(leaves)]
  /\ leaves' = Append(leaves, d)
  /\ cached' = NoRoot
  /\ UNCHANGED <<status, disk, seen, crashes, errors>>

AppendWrite(t) ==
  /\ pc[t] = "write"
  /\ file' = WriteLine(file, Pending(t))
  /\ pc' = [pc EXCEPT ![t] = "sync"]
  /\ UNCHANGED <<status, leaves, cached, durable, lock, frame, seen, crashes, errors>>

\* Mutant: no fsync before the return.
AppendReturnUnsynced(t) ==
  /\ pc[t] = "sync"
  /\ lock' = NoThread
  /\ acked' = acked \cup {Pending(t)}
  /\ Return(t)
  /\ UNCHANGED <<status, leaves, cached, disk, heads, proofs, crashes, errors>>

AppendReturn(t) ==
  /\ pc[t] = "sync"
  /\ durable' = file
  /\ lock' = NoThread
  /\ acked' = acked \cup {Pending(t)}
  /\ Return(t)
  /\ UNCHANGED <<status, leaves, cached, file, heads, proofs, crashes, errors>>

\* open, write, flush or fsync raises: the lock is released by the with
\* statement, the leaf stays in memory, and some prefix of the line is in
\* the file.
AppendRaise(t) ==
  /\ pc[t] \in {"write", "sync"}
  /\ errors < MaxErrors
  /\ \E left \in Remains : file' = PartialWrite(durable, Pending(t), left)
  /\ durable' = file'
  /\ lock' = NoThread
  /\ errors' = errors + 1
  /\ Return(t)
  /\ UNCHANGED <<status, leaves, cached, seen, crashes>>

(***************************************************************************)
(* root(), under the lock: the cached value if there is one.               *)
(***************************************************************************)
\* Mutant: a missing cache is returned as it is.
RootUncomputed == cached

Root == IF cached # NoRoot THEN cached ELSE leaves

(***************************************************************************)
(* signed_head(): size(), then root(), then the signature over both.       *)
(***************************************************************************)
HeadSize(t) ==
  /\ status = "up" /\ pc[t] = "idle"
  /\ Cardinality(heads) < MaxHeads
  /\ pc' = [pc EXCEPT ![t] = "head_root"]
  /\ frame' = [frame EXCEPT ![t].size = Len(leaves)]
  /\ UNCHANGED <<status, leaves, cached, disk, lock, seen, crashes, errors>>

\* Mutant: root() does not take the lock.
HeadRootUnlocked(t) ==
  /\ pc[t] = "head_root"
  /\ cached' = Root
  /\ heads' = heads \cup {[size |-> frame[t].size, root |-> Root]}
  /\ Return(t)
  /\ UNCHANGED <<status, leaves, disk, lock, acked, proofs, crashes, errors>>

HeadRoot(t) ==
  /\ pc[t] = "head_root" /\ lock = NoThread
  /\ cached' = Root
  /\ heads' = heads \cup {[size |-> frame[t].size, root |-> Root]}
  /\ Return(t)
  /\ UNCHANGED <<status, leaves, disk, lock, acked, proofs, crashes, errors>>

(***************************************************************************)
(* inclusion_proof(): the audit path is computed on a copy of the leaves,  *)
(* then root() is called, then the length is read again for tree_size.     *)
(***************************************************************************)
ProofPath(t, i) ==
  /\ status = "up" /\ pc[t] = "idle"
  /\ Cardinality(proofs) < MaxProofs
  /\ i < Len(leaves)
  /\ pc' = [pc EXCEPT ![t] = "proof_root"]
  /\ frame' = [frame EXCEPT ![t].index = i, ![t].path = leaves]
  /\ UNCHANGED <<status, leaves, cached, disk, lock, seen, crashes, errors>>

ProofRoot(t) ==
  /\ pc[t] = "proof_root" /\ lock = NoThread
  /\ cached' = Root
  /\ frame' = [frame EXCEPT ![t].root = Root]
  /\ pc' = [pc EXCEPT ![t] = "proof_size"]
  /\ UNCHANGED <<status, leaves, disk, lock, seen, crashes, errors>>

ProofSize(t) ==
  /\ pc[t] = "proof_size"
  /\ proofs' = proofs \cup {[index |-> frame[t].index, path |-> frame[t].path,
                             root |-> frame[t].root, tree_size |-> Len(leaves)]}
  /\ Return(t)
  /\ UNCHANGED <<status, leaves, cached, disk, lock, acked, heads, crashes, errors>>

(***************************************************************************)
(* The process or the machine dies.  Memory is lost; of the line that an   *)
(* append had not fsynced yet some prefix may be on disk.                  *)
(***************************************************************************)
Crash ==
  /\ status = "up" /\ crashes < MaxCrashes
  /\ IF lock = NoThread
     THEN file' = durable
     ELSE \E left \in CrashRemains : file' = PartialWrite(durable, Pending(lock), left)
  /\ durable' = file'
  /\ status' = "down"
  /\ leaves' = << >>
  /\ cached' = NoRoot
  /\ lock' = NoThread
  /\ pc' = [t \in Threads |-> "idle"]
  /\ frame' = [t \in Threads |-> NoFrame]
  /\ crashes' = crashes + 1
  /\ UNCHANGED <<seen, errors>>

AppendStep(t) ==
  \/ \E d \in Data : AppendBegin(t, d)
  \/ AppendWrite(t) \/ AppendReturn(t) \/ AppendRaise(t)

HeadStep(t) == HeadSize(t) \/ HeadRoot(t)

ProofStep(t) ==
  \/ \E i \in 0..MaxLeaves : ProofPath(t, i)
  \/ ProofRoot(t) \/ ProofSize(t)

Next ==
  \/ Load \/ Crash
  \/ \E t \in Threads : AppendStep(t) \/ HeadStep(t) \/ ProofStep(t)

Spec == Init /\ [][Next]_vars
-----------------------------------------------------------------------------
(***************************************************************************)
(* Every variable keeps its type: _leaves is a list of leaves, the file a  *)
(* sequence of lines, a thread is at one of the points of one call.        *)
(***************************************************************************)
TypeOK ==
  /\ status \in {"down", "up", "refused"}
  /\ leaves \in Seq(Data)
  /\ cached \in Seq(Data) \cup {NoRoot}
  /\ file \in File /\ durable \in File
  /\ lock \in Threads \cup {NoThread}
  /\ pc \in [Threads -> PC]
  /\ frame \in [Threads -> Frame]
  /\ acked \subseteq [index : Nat, data : Data]
  /\ heads \subseteq TreeHead
  /\ proofs \subseteq InclusionProof
  /\ crashes \in 0..MaxCrashes /\ errors \in 0..MaxErrors

\* The leaves on disk, less a line cut short at the end of the file.
WholeLines(f) ==
  IF Len(f.lines) > 0 /\ f.lines[Len(f.lines)] = Torn
  THEN Len(f.lines) - 1 ELSE Len(f.lines)

WholeLog(f) == [i \in 1..WholeLines(f) |-> f.lines[i].data]

DurableLog == WholeLog(durable)

(***************************************************************************)
(* Once append() has returned an index, the leaf can be read back from     *)
(* the disk at that index, whatever happens afterwards: the line and all   *)
(* those before it parse.  ("fsync on append so entries survive crashes")  *)
(***************************************************************************)
AckedDurable ==
  \A r \in acked :
    /\ r.index < Len(durable.lines)
    /\ durable.lines[r.index + 1] = r
    /\ \A i \in 1..r.index : ParsesAt(durable, i)

(***************************************************************************)
(* Fail closed: a log that runs has every acknowledged leaf in its tree at *)
(* the index that was returned.  Whatever a failed write or a crash left   *)
(* in the file, _load either finds them all or refuses to start.           *)
(***************************************************************************)
AckedInTree ==
  status = "up" =>
    \A r \in acked : r.index < Len(leaves) /\ leaves[r.index + 1] = r.data

(***************************************************************************)
(* Every tree head ever signed commits to a prefix of what is on disk now: *)
(* no crash can make the log fork from a head an auditor holds, although   *)
(* append() shows a leaf in memory before it writes it.                    *)
(***************************************************************************)
HeadsOnDisk == \A h \in heads : IsPrefix(h.root, DurableLog)

(***************************************************************************)
(* signed_head() reads the size before the root and never the other way    *)
(* round: a head never claims more leaves than its root commits to.        *)
(***************************************************************************)
HeadNotAhead == \A h \in heads : h.size <= Len(h.root)

(***************************************************************************)
(* inclusion_proof() reads path, root and size in this order from a log    *)
(* that only grows: the tree of the path is part of the tree of the root,  *)
(* which is no larger than tree_size, and the leaf is in all of them.      *)
(***************************************************************************)
ProofOrder ==
  \A p \in proofs :
    /\ p.index < Len(p.path)
    /\ IsPrefix(p.path, p.root)
    /\ Len(p.root) <= p.tree_size

(***************************************************************************)
(* With the lock free, range_records() serves exactly the leaves of the    *)
(* tree, in order, for every start and limit: it never raises.             *)
(***************************************************************************)
RangeServesTree ==
  status = "up" /\ lock = NoThread =>
    \A start \in 0..MaxLeaves, limit \in 0..MaxLeaves :
      RangeRecords(file, Len(leaves), start, limit) =
        [i \in 1..(IF start >= Len(leaves) THEN 0
                   ELSE MinOf(limit, Len(leaves) - start)) |->
           Record(start + i - 1, leaves[start + i])]

(***************************************************************************)
(* The class is an append-only log: with log mapped to the whole lines on  *)
(* disk, no interleaving, crash or restart is visible in it.               *)
(***************************************************************************)
Abstract == INSTANCE AppendOnlyLog
              WITH log <- DurableLog, roots <- {h.root : h \in heads}

ImplementsAppendOnlyLog == Abstract!Spec
=============================================================================
