---------------------------- MODULE MerkleAudit -----------------------------
(***************************************************************************)
(* An auditor of a log: the log grows one leaf at a time and the auditor   *)
(* puts claims "the leaf with this hash is number index of a tree of this  *)
(* size and this root" to verify_inclusion_proof, with a path the log      *)
(* served.  The claim may pair a path with the wrong leaf, index, size or  *)
(* root: an audit of a stale or a mixed-up answer.                         *)
(***************************************************************************)
EXTENDS Merkle

CONSTANTS
  Data,      \* leaves
  NoClaim,   \* nothing asked yet
  MaxSize    \* bound on the size of the tree

ASSUME MaxSizeAssumption == MaxSize \in Nat \ {0}

VARIABLES
  leaves,    \* hashes of the leaves of the log
  claim      \* the claim the auditor examines

vars == <<leaves, claim>>

Init == leaves = << >> /\ claim = NoClaim

Grow(d) ==
  /\ Len(leaves) < MaxSize
  /\ leaves' = Append(leaves, LeafHash(d))
  /\ claim' = NoClaim

\* The path of leaf i, offered for leaf hash h at position m of a tree of
\* size n.
Claim(i, h, m, n) ==
  /\ claim = NoClaim
  /\ claim' = [path |-> AuditPath(leaves, i), of |-> i, hash |-> h,
               index |-> m, size |-> n]
  /\ UNCHANGED leaves

Next ==
  \/ \E d \in Data : Grow(d)
  \/ \E i \in 0..(Len(leaves) - 1), d \in Data, m \in 0..Len(leaves), n \in 0..Len(leaves) :
       Claim(i, LeafHash(d), m, n)

Spec == Init /\ [][Next]_vars

Accepts(c, root) == VerifyInclusionProof(c.hash, c.index, c.path, c.size, root)
-----------------------------------------------------------------------------
(***************************************************************************)
(* Completeness: the path _rfc6962_path serves for a leaf verifies against *)
(* the root of the same leaves, for every size up to the bound.            *)
(***************************************************************************)
ServedPathsVerify ==
  \A i \in 0..(Len(leaves) - 1) :
    VerifyInclusionProof(leaves[i + 1], i, AuditPath(leaves, i), Len(leaves), MerkleRoot(leaves))

(***************************************************************************)
(* Soundness: a claim that the root of the log accepts, whatever leaf,     *)
(* index and size the path is paired with, is about a leaf of the log; and *)
(* about the leaf at that very position when the claimed size is right.    *)
(***************************************************************************)
AcceptedOnlyIfPresent ==
  claim # NoClaim /\ Accepts(claim, MerkleRoot(leaves)) =>
    /\ \E i \in 1..Len(leaves) : leaves[i] = claim.hash
    /\ claim.size = Len(leaves) => leaves[claim.index + 1] = claim.hash

(***************************************************************************)
(* A root commits to its number of leaves: a path of the grown tree is     *)
(* never accepted against the root of an earlier, shorter tree, not even   *)
(* for a leaf that is in both and under any index and size.                *)
(***************************************************************************)
OldRootRejectsNewPath ==
  claim # NoClaim =>
    \A n \in 1..(Len(leaves) - 1) : ~ Accepts(claim, MerkleRoot(SubSeq(leaves, 1, n)))
=============================================================================
