------------------------------ MODULE RustTlog ------------------------------
(***************************************************************************)
(* struct TransparencyLog of oversight-rust/oversight-tlog/src/lib.rs, as  *)
(* the handlers of the Rust registry call it concurrently.                 *)
(*                                                                         *)
(* It differs from the Python class in its locks: the leaves and the       *)
(* cached root have a Mutex each.  append() locks the leaves, then the     *)
(* cache while it still holds the leaves; root() locks the cache, then the *)
(* leaves while it still holds the cache.  A step below is one critical    *)
(* section, or the part of one up to the next lock() call.                 *)
(***************************************************************************)
EXTENDS LeafFile, SequencesExt, FiniteSets

CONSTANTS
  Threads,        \* runtime threads that serve requests
  NoThread,       \* a Mutex is free
  NoRoot,         \* cached_root is None
  MaxLeaves,      \* bound on the length of the log
  MaxCrashes,     \* bound on the number of crashes
  MaxErrors,      \* bound on the number of failed writes
  MaxHeads,       \* bound on the number of distinct tree heads
  MaxProofs       \* bound on the number of distinct inclusion proofs

ASSUME ConstantsAssumption ==
  /\ NoThread \notin Threads
  /\ NoRoot \notin Seq(Data)
  /\ {MaxLeaves, MaxCrashes, MaxErrors, MaxHeads, MaxProofs} \subseteq Nat

VARIABLES
  status,       \* "down", "up", or "refused" when open_with_signer failed
  leaves,       \* the Vec behind the leaves Mutex
  cached,       \* the Option behind the cached_root Mutex
  file,         \* leaves.jsonl
  leavesLock,   \* holder of the leaves Mutex
  cachedLock,   \* holder of the cached_root Mutex
  pc,           \* where each thread is in its call
  frame,        \* the locals of that call
  acked,        \* [index, data] that append returned with Ok
  heads,        \* [size, root] that signed_head returned
  proofs,       \* what inclusion_proof returned
  crashes, errors

locks == <<leavesLock, cachedLock>>
seen  == <<acked, heads, proofs>>
vars  == <<status, leaves, cached, file, locks, pc, frame, seen, crashes, errors>>

PC == {"idle", "invalidate", "write", "root", "root_leaves"}

\* call says which function called root(); path is the copy inclusion_proof made
Frame == [call : {"none", "head", "proof"}, index : Nat, size : Nat, path : Seq(Data)]

NoFrame == [call |-> "none", index |-> 0, size |-> 0, path |-> << >>]

Init ==
  /\ status = "down"
  /\ leaves = << >> /\ cached = NoRoot
  /\ file = EmptyFile
  /\ leavesLock = NoThread /\ cachedLock = NoThread
  /\ pc = [t \in Threads |-> "idle"]
  /\ frame = [t \in Threads |-> NoFrame]
  /\ acked = {} /\ heads = {} /\ proofs = {}
  /\ crashes = 0 /\ errors = 0
-----------------------------------------------------------------------------
\* Mutant: starts with an empty Vec.
OpenEmpty ==
  /\ status = "down"
  /\ status' = "up" /\ leaves' = << >>
  /\ cached' = NoRoot
  /\ UNCHANGED <<file, locks, pc, frame, seen, crashes, errors>>

\* open_with_signer()
Open ==
  /\ status = "down"
  /\ IF Loadable(file)
     THEN status' = "up" /\ leaves' = LoadedLeaves(file)
     ELSE status' = "refused" /\ UNCHANGED leaves
  /\ cached' = NoRoot
  /\ UNCHANGED <<file, locks, pc, frame, seen, crashes, errors>>

Goto(t, label) == pc' = [pc EXCEPT ![t] = label]

Return(t) == Goto(t, "idle") /\ frame' = [frame EXCEPT ![t] = NoFrame]

(***************************************************************************)
(* append(): the leaves stay locked from the push to the return.           *)
(***************************************************************************)
AppendPush(t, d) ==
  /\ status = "up" /\ pc[t] = "idle" /\ leavesLock = NoThread
  /\ Len(leaves) < MaxLeaves
  /\ leavesLock' = t
  /\ leaves' = Append(leaves, d)
  /\ Goto(t, "invalidate")
  /\ UNCHANGED <<status, cached, file, cachedLock, frame, seen, crashes, errors>>

\* Mutant: the cached root survives the push.
AppendKeepsCache(t) ==
  /\ pc[t] = "invalidate" /\ cachedLock = NoThread
  /\ Goto(t, "write")
  /\ UNCHANGED <<status, leaves, cached, file, locks, frame, seen, crashes, errors>>

AppendInvalidate(t) ==
  /\ pc[t] = "invalidate" /\ cachedLock = NoThread
  /\ cached' = NoRoot
  /\ Goto(t, "write")
  /\ UNCHANGED <<status, leaves, file, locks, frame, seen, crashes, errors>>

\* The holder of leavesLock is writing the last leaf.
Pending == Record(Len(leaves) - 1, leaves[Len(leaves)])

AppendOk(t) ==
  /\ pc[t] = "write"
  /\ file' = WriteLine(file, Pending)
  /\ acked' = acked \cup {Pending}
  /\ leavesLock' = NoThread
  /\ Return(t)
  /\ UNCHANGED <<status, leaves, cached, cachedLock, heads, proofs, crashes, errors>>

\* "?" on open, write_all, flush or sync_data: the guard is dropped, the leaf
\* stays in the Vec.
AppendErr(t) ==
  /\ pc[t] = "write" /\ errors < MaxErrors
  /\ \E left \in Remains : file' = PartialWrite(file, Pending, left)
  /\ errors' = errors + 1
  /\ leavesLock' = NoThread
  /\ Return(t)
  /\ UNCHANGED <<status, leaves, cached, cachedLock, seen, crashes>>

(***************************************************************************)
(* signed_head() and inclusion_proof() up to their call of root().         *)
(***************************************************************************)
HeadSize(t) ==
  /\ status = "up" /\ pc[t] = "idle" /\ leavesLock = NoThread
  /\ Cardinality(heads) < MaxHeads
  /\ frame' = [frame EXCEPT ![t] = [NoFrame EXCEPT !.call = "head", !.size = Len(leaves)]]
  /\ Goto(t, "root")
  /\ UNCHANGED <<status, leaves, cached, file, locks, seen, crashes, errors>>

ProofPath(t, i) ==
  /\ status = "up" /\ pc[t] = "idle" /\ leavesLock = NoThread
  /\ Cardinality(proofs) < MaxProofs
  /\ i < Len(leaves)
  /\ frame' = [frame EXCEPT ![t] = [call |-> "proof", index |-> i,
                                    size |-> Len(leaves), path |-> leaves]]
  /\ Goto(t, "root")
  /\ UNCHANGED <<status, leaves, cached, file, locks, seen, crashes, errors>>

\* The caller of root() answers with root r.
Answer(t, r) ==
  /\ \/ /\ frame[t].call = "head"
        /\ heads' = heads \cup {[size |-> frame[t].size, root |-> r]}
        /\ UNCHANGED proofs
     \/ /\ frame[t].call = "proof"
        /\ proofs' = proofs \cup {[index |-> frame[t].index, path |-> frame[t].path,
                                   root |-> r, tree_size |-> frame[t].size]}
        /\ UNCHANGED heads
  /\ Return(t)
  /\ UNCHANGED acked

RootHit(t) ==
  /\ pc[t] = "root" /\ cachedLock = NoThread /\ cached # NoRoot
  /\ Answer(t, cached)
  /\ UNCHANGED <<status, leaves, cached, file, locks, crashes, errors>>

RootMiss(t) ==
  /\ pc[t] = "root" /\ cachedLock = NoThread /\ cached = NoRoot
  /\ cachedLock' = t
  /\ Goto(t, "root_leaves")
  /\ UNCHANGED <<status, leaves, cached, file, leavesLock, frame, seen, crashes, errors>>

RootCompute(t) ==
  /\ pc[t] = "root_leaves" /\ leavesLock = NoThread
  /\ cached' = leaves
  /\ cachedLock' = NoThread
  /\ Answer(t, leaves)
  /\ UNCHANGED <<status, leaves, file, leavesLock, crashes, errors>>

\* The process dies; any prefix of the line being written may be in the file.
Crash ==
  /\ status = "up" /\ crashes < MaxCrashes
  /\ IF \E t \in Threads : pc[t] = "write"
     THEN \E left \in Remains : file' = PartialWrite(file, Pending, left)
     ELSE UNCHANGED file
  /\ status' = "down"
  /\ leaves' = << >> /\ cached' = NoRoot
  /\ leavesLock' = NoThread /\ cachedLock' = NoThread
  /\ pc' = [t \in Threads |-> "idle"]
  /\ frame' = [t \in Threads |-> NoFrame]
  /\ crashes' = crashes + 1
  /\ UNCHANGED <<seen, errors>>

Next ==
  \/ Open \/ Crash
  \/ \E t \in Threads :
       \/ \E d \in Data : AppendPush(t, d)
       \/ AppendInvalidate(t) \/ AppendOk(t) \/ AppendErr(t)
       \/ HeadSize(t) \/ (\E i \in 0..MaxLeaves : ProofPath(t, i))
       \/ RootHit(t) \/ RootMiss(t) \/ RootCompute(t)

Spec == Init /\ [][Next]_vars
-----------------------------------------------------------------------------
(***************************************************************************)
(* The Vec, the cache, the file and the locks keep their types.            *)
(***************************************************************************)
TypeOK ==
  /\ status \in {"down", "up", "refused"}
  /\ leaves \in Seq(Data) /\ cached \in Seq(Data) \cup {NoRoot}
  /\ file \in File
  /\ {leavesLock, cachedLock} \subseteq Threads \cup {NoThread}
  /\ pc \in [Threads -> PC] /\ frame \in [Threads -> Frame]
  /\ acked \subseteq [index : Nat, data : Data]
  /\ heads \subseteq [size : Nat, root : Seq(Data)]

(***************************************************************************)
(* Fail closed: after errors and crashes that leave any prefix of a line,  *)
(* a log that opens has every leaf append() returned Ok for.               *)
(***************************************************************************)
AckedInTree ==
  status = "up" =>
    \A r \in acked : r.index < Len(leaves) /\ leaves[r.index + 1] = r.data

(***************************************************************************)
(* The cache is read without the leaves lock, between the push of a new    *)
(* leaf and the invalidation: still, no head claims more leaves than its   *)
(* root commits to.                                                        *)
(***************************************************************************)
HeadNotAhead == \A h \in heads : h.size <= Len(h.root)

(***************************************************************************)
(* inclusion_proof() takes path and tree_size in one critical section and  *)
(* the root in a later one: the root is never of an older tree.            *)
(***************************************************************************)
ProofOrder ==
  \A p \in proofs :
    p.index < p.tree_size /\ p.tree_size = Len(p.path) /\ IsPrefix(p.path, p.root)

(***************************************************************************)
(* No thread that holds one Mutex waits for a thread that holds the other  *)
(* and waits for the first.                                                *)
(***************************************************************************)
NoLockCycle ==
  \A t, u \in Threads :
    ~ (/\ pc[t] = "invalidate"  /\ cachedLock = u
       /\ pc[u] = "root_leaves" /\ leavesLock = t)
=============================================================================
