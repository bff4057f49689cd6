------------------------------- MODULE Merkle -------------------------------
(***************************************************************************)
(* The RFC 6962 tree functions of oversight_core/tlog.py (the Rust crate   *)
(* oversight-tlog has the same three): the root of a list of leaf hashes,  *)
(* the audit path of one leaf and the verifier of a path.                  *)
(*                                                                         *)
(* SHA-256 is a free constructor: H(0x00 || d) is [leaf |-> d] and         *)
(* H(0x01 || l || r) is [left |-> l, right |-> r], so two hashes are equal *)
(* only when they were built the same way, and the domain prefixes keep    *)
(* leaves and inner nodes apart.  Slices of the list of leaves are given   *)
(* by an offset and a length.                                              *)
(***************************************************************************)
EXTENDS Naturals, Sequences

LeafHash(d) == [leaf |-> d]

\* Mutant: the two children are not ordered.
NodeHashUnordered(l, r) == [pair |-> {l, r}]

NodeHash(l, r) == [left |-> l, right |-> r]

\* The hash of the empty string, the root of an empty tree.
EmptyRoot == [empty |-> TRUE]

\* The loop "while k * 2 < n", from k = 1; for n >= 2.
LargestPowerOf2LessThan(n) ==
  LET loop[k \in Nat \ {0}] == IF k * 2 < n THEN loop[k * 2] ELSE k
  IN  loop[1]

\* _rfc6962_mth(leaves[o : o + n]) is Mth(leaves)[n][o].
Mth(leaves) ==
  LET mth[n \in 1..Len(leaves)] ==
        [o \in Nat |->
          IF n = 1 THEN leaves[o + 1]
          ELSE LET k == LargestPowerOf2LessThan(n)
               IN  NodeHash(mth[k][o], mth[n - k][o + k])]
  IN  mth

\* root()
MerkleRoot(leaves) ==
  IF leaves = << >> THEN EmptyRoot ELSE Mth(leaves)[Len(leaves)][0]

\* Mutant: the topmost sibling first.
PathsTopDown(leaves) ==
  LET path[n \in 1..Len(leaves)] ==
        [o \in Nat |-> [m \in Nat |->
          IF n = 1 THEN << >>
          ELSE LET k == LargestPowerOf2LessThan(n)
               IN  IF m < k THEN <<Mth(leaves)[n - k][o + k]>> \o path[k][o][m]
                            ELSE <<Mth(leaves)[k][o]>> \o path[n - k][o + k][m - k]]]
  IN  path

\* _rfc6962_path(leaves[o : o + n], m) is Paths(leaves)[n][o][m]: siblings,
\* the deepest first.
Paths(leaves) ==
  LET path[n \in 1..Len(leaves)] ==
        [o \in Nat |-> [m \in Nat |->
          IF n = 1 THEN << >>
          ELSE LET k == LargestPowerOf2LessThan(n)
               IN  IF m < k THEN Append(path[k][o][m], Mth(leaves)[n - k][o + k])
                            ELSE Append(path[n - k][o + k][m - k], Mth(leaves)[k][o])]]
  IN  path

AuditPath(leaves, index) == Paths(leaves)[Len(leaves)][0][index]

(***************************************************************************)
(* verify_inclusion_proof: rec of the code rebuilds the root of n leaves   *)
(* from the leaf hash h at position m and the first r siblings of proof,   *)
(* taken from the last to the first; Rejected stands for None.             *)
(***************************************************************************)
Rejected == [rejected |-> TRUE]

\* Mutant: siblings that are left over at the leaf are ignored.
RebuildIgnoresRest(h, proof, size) ==
  LET rec[n \in 1..size] ==
        [m \in Nat |-> [r \in Nat |->
          IF n = 1 THEN h
          ELSE IF r = 0 THEN Rejected
          ELSE LET k     == LargestPowerOf2LessThan(n)
                   inner == IF m < k THEN rec[k][m][r - 1] ELSE rec[n - k][m - k][r - 1]
               IN  IF inner = Rejected THEN Rejected
                   ELSE IF m < k THEN NodeHash(inner, proof[r])
                                 ELSE NodeHash(proof[r], inner)]]
  IN  rec

Rebuild(h, proof, size) ==
  LET rec[n \in 1..size] ==
        [m \in Nat |-> [r \in Nat |->
          IF n = 1 THEN (IF r = 0 THEN h ELSE Rejected)
          ELSE IF r = 0 THEN Rejected
          ELSE LET k     == LargestPowerOf2LessThan(n)
                   inner == IF m < k THEN rec[k][m][r - 1] ELSE rec[n - k][m - k][r - 1]
               IN  IF inner = Rejected THEN Rejected
                   ELSE IF m < k THEN NodeHash(inner, proof[r])
                                 ELSE NodeHash(proof[r], inner)]]
  IN  rec

VerifyInclusionProof(h, index, proof, size, root) ==
  /\ size >= 1
  /\ index < size
  /\ Rebuild(h, proof, size)[size][index][Len(proof)] = root
=============================================================================
