---------------------------- MODULE AuditProofs -----------------------------
(***************************************************************************)
(* Theorems about the RFC 6962 tree functions (Merkle) and the auditor who *)
(* uses them (MerkleAudit, EvidenceAudit), for every list of leaves.       *)
(*                                                                         *)
(* The tree functions recurse on the number of leaves.  Three inductions   *)
(* on it carry the results: a served path rebuilds the hash of every slice *)
(* it goes through (completeness), a proof that rebuilds the hash of a     *)
(* slice is about a leaf of it (soundness), and the path of a slice of n   *)
(* leaves only rebuilds hashes of n leaves.  They rest on MthInjective:    *)
(* equal hashes are hashes of equal slices, which needs hashing to be      *)
(* injective and the prefixes that keep leaves and nodes apart.            *)
(***************************************************************************)
EXTENDS EvidenceAudit, WellFoundedInduction, TLAPS

-----------------------------------------------------------------------------
(***************************************************************************)
(* Induction over naturals.  The theorems of the library take a predicate as*)
(* a parameter; over a set the principle follows from the least element.   *)
(***************************************************************************)
\* A non-empty set of naturals has a least element.
LEMMA LeastNat ==
  ASSUME NEW T \in SUBSET Nat, T # {}
  PROVE  \E x \in T : \A y \in T : x <= y
<1> DEFINE R == OpToRel(<, Nat)
<1>1. IsWellFoundedOn(R, Nat)
  BY NatLessThanWellFounded
<1>2. \A x, y \in Nat : y < x => <<y, x>> \in R
  BY DEF OpToRel
<1> HIDE DEF R
<1>3. PICK x \in T : \A y \in T : ~ (<<y, x>> \in R)
  BY <1>1, WFMin
<1>4. \A y \in T : ~ (y < x)
  BY <1>2, <1>3
<1> QED
  BY <1>4

\* Course-of-values induction, over a set instead of a predicate.
LEMMA NatSetInduction ==
  ASSUME NEW S, \A n \in Nat : (\A m \in Nat : m < n => m \in S) => n \in S
  PROVE  \A n \in Nat : n \in S
<1>1. SUFFICES ASSUME NEW k \in Nat, k \notin S PROVE FALSE
  OBVIOUS
<1> DEFINE T == {n \in Nat : n \notin S}
<1>2. T \in SUBSET Nat /\ T # {}
  BY <1>1
<1>3. PICK x \in T : \A y \in T : x <= y
  BY <1>2, LeastNat
<1> QED
  BY <1>3

\* Induction in steps of one.
LEMMA StepInduction ==
  ASSUME NEW S, 0 \in S, \A n \in Nat : n \in S => n + 1 \in S
  PROVE  \A n \in Nat : n \in S
<1>1. ASSUME NEW n \in Nat, \A m \in Nat : m < n => m \in S
      PROVE  n \in S
  <2>1. CASE n = 0
    BY <2>1
  <2>2. CASE n # 0
    <3>1. n - 1 \in Nat /\ n - 1 < n /\ (n - 1) + 1 = n
      BY <2>2
    <3> QED
      BY <3>1, <1>1
  <2> QED
    BY <2>1, <2>2
<1> QED
  BY <1>1, NatSetInduction

-----------------------------------------------------------------------------
(***************************************************************************)
(* The three recursions.  Each is a function over the sizes 1..n, and that its*)
(* definition has a solution is proved by induction on n.                  *)
(***************************************************************************)
\* The loop of _largest_power_of_2_less_than terminates: its recursive
\* definition has a solution.
LEMMA LoopDef ==
  ASSUME NEW n \in Nat
  PROVE  \E f : /\ LargestPowerOf2LessThan(n) = f[1]
                /\ f = [k \in Nat \ {0} |-> IF k * 2 < n THEN f[k * 2] ELSE k]
<1> DEFINE From(d) == {j \in Nat \ {0} : j + d >= n}
           P(g, d) == g = [k \in From(d) |-> IF k * 2 < n THEN g[k * 2] ELSE k]
           S == {d \in Nat : \E g : P(g, d)}
<1>1. 0 \in S
  <2> DEFINE g == [k \in From(0) |-> k]
  <2>1. P(g, 0)
    OBVIOUS
  <2> HIDE DEF g, P
  <2> QED
    BY <2>1
<1>2. ASSUME NEW d \in Nat, d \in S
      PROVE  d + 1 \in S
  <2>1. PICK g : P(g, d)
    BY <1>2
  <2> DEFINE h == [k \in From(d + 1) |-> IF k * 2 < n THEN g[k * 2] ELSE k]
  <2>2. \A k \in From(d) : h[k] = g[k]
    BY <2>1
  <2>3. \A k \in From(d + 1) : k * 2 \in From(d)
    OBVIOUS
  <2>4. P(h, d + 1)
    BY <2>2, <2>3
  <2> HIDE DEF h, P
  <2> QED
    BY <2>4
<1>3. n \in S
  <2> HIDE DEF S
  <2> QED
    BY <1>1, <1>2, StepInduction
<1>4. PICK g : P(g, n)
  BY <1>3
<1>5. From(n) = Nat \ {0}
  OBVIOUS
<1>6. g = [k \in Nat \ {0} |-> IF k * 2 < n THEN g[k * 2] ELSE k]
  BY <1>4, <1>5
<1> DEFINE f == CHOOSE f : f = [k \in Nat \ {0} |-> IF k * 2 < n THEN f[k * 2] ELSE k]
<1>7. f = [k \in Nat \ {0} |-> IF k * 2 < n THEN f[k * 2] ELSE k]
  BY <1>6
<1>8. LargestPowerOf2LessThan(n) = f[1]
  BY DEF LargestPowerOf2LessThan
<1> QED
  BY <1>7, <1>8

\* The loop splits n leaves into two parts that are not empty.
LEMMA SplitRange ==
  ASSUME NEW n \in Nat, n >= 2
  PROVE  LargestPowerOf2LessThan(n) \in 1..(n - 1)
<1>1. PICK f : /\ LargestPowerOf2LessThan(n) = f[1]
               /\ f = [k \in Nat \ {0} |-> IF k * 2 < n THEN f[k * 2] ELSE k]
  BY LoopDef
<1>2. \A k \in Nat \ {0} : f[k] = IF k * 2 < n THEN f[k * 2] ELSE k
  BY <1>1
<1> DEFINE S == {d \in Nat : \A k \in 1..(n - 1) : n <= k + d => f[k] \in 1..(n - 1)}
<1>3. 0 \in S
  OBVIOUS
<1>4. ASSUME NEW d \in Nat, d \in S
      PROVE  d + 1 \in S
  <2> SUFFICES ASSUME NEW k \in 1..(n - 1), n <= k + (d + 1)
               PROVE  f[k] \in 1..(n - 1)
    OBVIOUS
  <2>1. CASE k * 2 < n
    <3>1. k * 2 \in 1..(n - 1) /\ n <= k * 2 + d
      BY <2>1
    <3> QED
      BY <3>1, <1>2, <1>4, <2>1
  <2>2. CASE ~ (k * 2 < n)
    BY <2>2, <1>2
  <2> QED
    BY <2>1, <2>2
<1>5. n \in S
  <2> HIDE DEF S
  <2> QED
    BY <1>3, <1>4, StepInduction
<1> QED
  BY <1>1, <1>5

\* One step of the recursion, from the values g for smaller sizes.
MthStep(s, g, n) ==
  [o \in Nat |->
    IF n = 1 THEN s[o + 1]
    ELSE NodeHash(g[LargestPowerOf2LessThan(n)][o],
                  g[n - LargestPowerOf2LessThan(n)][o + LargestPowerOf2LessThan(n)])]

\* The recursion of _rfc6962_mth has a solution.
LEMMA MthExists ==
  ASSUME NEW s, NEW size \in Nat
  PROVE  \E g : g = [n \in 1..size |-> MthStep(s, g, n)]
<1> DEFINE P(g, d) == g = [n \in 1..d |-> MthStep(s, g, n)]
           S == {d \in Nat : \E g : P(g, d)}
<1>1. 0 \in S
  <2> DEFINE g == [n \in 1..0 |-> n]
  <2>1. P(g, 0)
    OBVIOUS
  <2> HIDE DEF g, P
  <2> QED
    BY <2>1
<1>2. ASSUME NEW d \in Nat, d \in S
      PROVE  d + 1 \in S
  <2>1. PICK g : P(g, d)
    BY <1>2
  <2> DEFINE h == [n \in 1..(d + 1) |-> MthStep(s, g, n)]
  <2>2. \A n \in 1..d : h[n] = g[n]
    BY <2>1
  <2>3. ASSUME NEW n \in 1..(d + 1) PROVE MthStep(s, h, n) = MthStep(s, g, n)
    <3>1. CASE n = 1
      BY <3>1 DEF MthStep
    <3>2. CASE n # 1
      <4>1. LargestPowerOf2LessThan(n) \in 1..d /\ n - LargestPowerOf2LessThan(n) \in 1..d
        BY <3>2, SplitRange
      <4> HIDE DEF h
      <4> QED
        BY <4>1, <2>2 DEF MthStep
    <3> QED
      BY <3>1, <3>2
  <2>4. P(h, d + 1)
    BY <2>3
  <2> HIDE DEF h, P
  <2> QED
    BY <2>4
<1>3. size \in S
  <2> HIDE DEF S
  <2> QED
    BY <1>1, <1>2, StepInduction
<1> QED
  BY <1>3

\* The hashes of leaves.
LeafHashes == {LeafHash(d) : d \in Data}

\* So Mth is one.
LEMMA MthDef ==
  ASSUME NEW s \in Seq(LeafHashes)
  PROVE  Mth(s) = [n \in 1..Len(s) |-> MthStep(s, Mth(s), n)]
<1> DEFINE P(g) == g = [n \in 1..Len(s) |-> MthStep(s, g, n)]
<1>1. \E g : P(g)
  <2>1. Len(s) \in Nat
    OBVIOUS
  <2> QED
    BY <2>1, MthExists, Zenon
<1>2. Mth(s) = CHOOSE g : P(g)
  BY DEF Mth, MthStep
<1> HIDE DEF P
<1>3. P(Mth(s))
  BY <1>1, <1>2, Zenon
<1> QED
  BY <1>3 DEF P

\* _rfc6962_mth, unfolded once.
LEMMA MthAt ==
  ASSUME NEW s \in Seq(LeafHashes), NEW n \in 1..Len(s), NEW o \in Nat
  PROVE  /\ n = 1 => Mth(s)[n][o] = s[o + 1]
         /\ n # 1 => LET k == LargestPowerOf2LessThan(n)
                     IN  Mth(s)[n][o] = NodeHash(Mth(s)[k][o], Mth(s)[n - k][o + k])
<1>1. Mth(s)[n] = MthStep(s, Mth(s), n)
  BY MthDef, Zenon
<1> QED
  BY <1>1 DEF MthStep

-----------------------------------------------------------------------------
(***************************************************************************)
(* Hashes commit to what they are made of.                                 *)
(***************************************************************************)
\* No two of the three kinds of values are equal.
LEMMA HashesDiffer ==
  ASSUME NEW h \in LeafHashes, NEW l, NEW r
  PROVE  /\ h # NodeHash(l, r)
         /\ h # Rejected
         /\ h # EmptyRoot
         /\ NodeHash(l, r) # Rejected
         /\ NodeHash(l, r) # EmptyRoot
  BY DEF LeafHashes, LeafHash, NodeHash, Rejected, EmptyRoot

\* An inner node determines its children.
LEMMA NodeHashInjective ==
  ASSUME NEW a, NEW b, NEW c, NEW d, NodeHash(a, b) = NodeHash(c, d)
  PROVE  a = c /\ b = d
  BY DEF NodeHash

\* The hash of a slice is neither None nor the empty root, and it is a leaf
\* hash only for a single leaf: the domain prefixes.
LEMMA MthNotRejected ==
  ASSUME NEW s \in Seq(LeafHashes), NEW n \in 1..Len(s), NEW o \in Nat, o + n <= Len(s)
  PROVE  /\ Mth(s)[n][o] # Rejected
         /\ Mth(s)[n][o] # EmptyRoot
         /\ Mth(s)[n][o] \in LeafHashes <=> n = 1
<1>1. CASE n = 1
  <2>1. s[o + 1] \in LeafHashes
    BY <1>1
  <2> QED
    BY <1>1, <2>1, MthAt, HashesDiffer
<1>2. CASE n # 1
  BY <1>2, MthAt, HashesDiffer
<1> QED
  BY <1>1, <1>2

\* Equal hashes are of slices with the same leaves.
LEMMA MthInjective ==
  ASSUME NEW s \in Seq(LeafHashes), NEW t \in Seq(LeafHashes)
  PROVE  \A n \in Nat : \A m \in 1..Len(t), o, p \in Nat :
           /\ n \in 1..Len(s) /\ o + n <= Len(s) /\ p + m <= Len(t)
           /\ Mth(s)[n][o] = Mth(t)[m][p]
           => m = n /\ \A j \in 1..n : s[o + j] = t[p + j]
<1> DEFINE Same(n) ==
             \A m \in 1..Len(t), o, p \in Nat :
               /\ n \in 1..Len(s) /\ o + n <= Len(s) /\ p + m <= Len(t)
               /\ Mth(s)[n][o] = Mth(t)[m][p]
               => m = n /\ \A j \in 1..n : s[o + j] = t[p + j]
           S == {n \in Nat : Same(n)}
<1>1. ASSUME NEW n \in Nat, \A i \in Nat : i < n => i \in S
      PROVE  n \in S
  <2> SUFFICES ASSUME NEW m \in 1..Len(t), NEW o \in Nat, NEW p \in Nat,
                      n \in 1..Len(s), o + n <= Len(s), p + m <= Len(t),
                      Mth(s)[n][o] = Mth(t)[m][p]
               PROVE  m = n /\ \A j \in 1..n : s[o + j] = t[p + j]
    OBVIOUS
  <2>1. CASE n = 1
    <3>1. m = 1
      BY <2>1, MthNotRejected
    <3>2. s[o + 1] = t[p + 1]
      BY <2>1, <3>1, MthAt
    <3> QED
      BY <2>1, <3>1, <3>2
  <2>2. CASE n # 1
    <3>1. m # 1
      BY <2>2, MthNotRejected
    <3>2. PICK k \in 1..(n - 1) : k = LargestPowerOf2LessThan(n)
      BY <2>2, SplitRange
    <3>3. PICK i \in 1..(m - 1) : i = LargestPowerOf2LessThan(m)
      BY <3>1, SplitRange
    <3>4. Mth(s)[n][o] = NodeHash(Mth(s)[k][o], Mth(s)[n - k][o + k])
      BY <2>2, <3>2, MthAt
    <3>5. Mth(t)[m][p] = NodeHash(Mth(t)[i][p], Mth(t)[m - i][p + i])
      BY <3>1, <3>3, MthAt
    <3>a. Mth(s)[k][o] = Mth(t)[i][p] /\ Mth(s)[n - k][o + k] = Mth(t)[m - i][p + i]
      <4>1. NodeHash(Mth(s)[k][o], Mth(s)[n - k][o + k]) = NodeHash(Mth(t)[i][p], Mth(t)[m - i][p + i])
        BY <3>4, <3>5
      <4> QED
        BY ONLY <4>1 DEF NodeHash
    <3>6. Same(k) /\ Same(n - k)
      <4>1. k \in Nat /\ n - k \in Nat /\ k < n /\ n - k < n
        OBVIOUS
      <4> QED
        BY <1>1, <4>1
    <3>7. i = k /\ \A j \in 1..k : s[o + j] = t[p + j]
      <4>1. k \in 1..Len(s) /\ o + k <= Len(s) /\ i \in 1..Len(t) /\ p + i <= Len(t)
        OBVIOUS
      <4> QED
        BY <4>1, <3>a, <3>6
    <3>8. m - i = n - k /\ \A j \in 1..(n - k) : s[(o + k) + j] = t[(p + i) + j]
      <4>1. /\ n - k \in 1..Len(s) /\ (o + k) + (n - k) <= Len(s)
            /\ m - i \in 1..Len(t) /\ (p + i) + (m - i) <= Len(t)
            /\ o + k \in Nat /\ p + i \in Nat
        OBVIOUS
      <4> QED
        BY <4>1, <3>a, <3>6
    <3>9. ASSUME NEW j \in 1..n PROVE s[o + j] = t[p + j]
      <4>1. CASE j <= k
        BY <4>1, <3>7, <3>2, SMTT(30)
      <4>2. CASE j > k
        <5>1. j - k \in 1..(n - k) /\ (o + k) + (j - k) = o + j /\ (p + k) + (j - k) = p + j
          BY <4>2, <3>2, SMTT(30)
        <5> QED
          BY <5>1, <3>7, <3>8
      <4> QED
        BY <4>1, <4>2, <3>2
    <3> QED
      BY <3>7, <3>8, <3>9, <3>2
  <2> QED
    BY <2>1, <2>2
<1>2. \A n \in Nat : n \in S
  <2> HIDE DEF S
  <2> QED
    BY <1>1, NatSetInduction
<1> QED
  BY <1>2

\* A root commits to the number, the order and the contents of the leaves.
THEOREM RootCommits ==
  ASSUME NEW s \in Seq(LeafHashes), NEW t \in Seq(LeafHashes), MerkleRoot(s) = MerkleRoot(t)
  PROVE  s = t
<1>1. CASE s = << >> \/ t = << >>
  <2>1. \A u \in Seq(LeafHashes) : u # << >> => MerkleRoot(u) # EmptyRoot
    BY MthNotRejected DEF MerkleRoot
  <2> QED
    BY <1>1, <2>1 DEF MerkleRoot
<1>2. CASE s # << >> /\ t # << >>
  <2>1. Mth(s)[Len(s)][0] = Mth(t)[Len(t)][0]
    BY <1>2 DEF MerkleRoot
  <2>2. PICK n \in 1..Len(s), m \in 1..Len(t), o \in Nat : n = Len(s) /\ m = Len(t) /\ o = 0
    BY <1>2
  <2>3. m = n /\ \A j \in 1..n : s[o + j] = t[o + j]
    <3>0. n \in Nat
      OBVIOUS
    <3>1. Mth(s)[n][o] = Mth(t)[m][o] /\ o + n <= Len(s) /\ o + m <= Len(t)
      BY <2>1, <2>2
    <3> QED
      <4>1. \A a \in Nat : \A b \in 1..Len(t), c, d \in Nat :
               /\ a \in 1..Len(s) /\ c + a <= Len(s) /\ d + b <= Len(t)
               /\ Mth(s)[a][c] = Mth(t)[b][d]
               => b = a /\ \A j \in 1..a : s[c + j] = t[d + j]
        BY MthInjective
      <4> QED
        BY ONLY <4>1, <3>1, n \in 1..Len(s), m \in 1..Len(t), o \in Nat, n \in Nat, ZenonT(30)
  <2>4. Len(s) = Len(t) /\ \A j \in 1..Len(s) : s[j] = t[j]
    BY <2>2, <2>3
  <2> QED
    BY <2>4
<1> QED
  BY <1>1, <1>2

-----------------------------------------------------------------------------
(***************************************************************************)
(* Paths and their verification.                                           *)
(***************************************************************************)
\* One step of _rfc6962_path.
PathStep(s, g, n) ==
  [o \in Nat |-> [m \in Nat |->
    IF n = 1 THEN << >>
    ELSE LET k == LargestPowerOf2LessThan(n)
         IN  IF m < k THEN Append(g[k][o][m], Mth(s)[n - k][o + k])
                      ELSE Append(g[n - k][o + k][m - k], Mth(s)[k][o])]]

\* The recursion of _rfc6962_path has a solution.
LEMMA PathsExist ==
  ASSUME NEW s, NEW size \in Nat
  PROVE  \E g : g = [n \in 1..size |-> PathStep(s, g, n)]
<1> DEFINE P(g, d) == g = [n \in 1..d |-> PathStep(s, g, n)]
           S == {d \in Nat : \E g : P(g, d)}
<1>1. 0 \in S
  <2> DEFINE g == [n \in 1..0 |-> n]
  <2>1. P(g, 0)
    OBVIOUS
  <2> HIDE DEF g, P
  <2> QED
    BY <2>1
<1>2. ASSUME NEW d \in Nat, d \in S
      PROVE  d + 1 \in S
  <2>1. PICK g : P(g, d)
    BY <1>2
  <2> DEFINE h == [n \in 1..(d + 1) |-> PathStep(s, g, n)]
  <2>2. \A n \in 1..d : h[n] = g[n]
    BY <2>1
  <2>3. ASSUME NEW n \in 1..(d + 1) PROVE PathStep(s, h, n) = PathStep(s, g, n)
    <3>1. CASE n = 1
      BY <3>1 DEF PathStep
    <3>2. CASE n # 1
      <4>1. PICK k \in 1..d : k = LargestPowerOf2LessThan(n) /\ n - k \in 1..d
        BY <3>2, SplitRange
      <4> HIDE DEF h
      <4>2. h[k] = g[k] /\ h[n - k] = g[n - k]
        BY <4>1, <2>2
      <4> QED
        BY <4>1, <4>2 DEF PathStep
    <3> QED
      BY <3>1, <3>2
  <2>4. P(h, d + 1)
    BY <2>3
  <2> HIDE DEF h, P
  <2> QED
    BY <2>4
<1>3. size \in S
  <2> HIDE DEF S
  <2> QED
    BY <1>1, <1>2, StepInduction
<1> QED
  BY <1>3

\* So Paths is one.
LEMMA PathsDef ==
  ASSUME NEW s \in Seq(LeafHashes)
  PROVE  Paths(s) = [n \in 1..Len(s) |-> PathStep(s, Paths(s), n)]
<1> DEFINE P(g) == g = [n \in 1..Len(s) |-> PathStep(s, g, n)]
<1>1. \E g : P(g)
  <2>1. Len(s) \in Nat
    OBVIOUS
  <2> QED
    BY <2>1, PathsExist, Zenon
<1>2. Paths(s) = CHOOSE g : P(g)
  BY DEF Paths, PathStep
<1> HIDE DEF P
<1>3. P(Paths(s))
  BY <1>1, <1>2, Zenon
<1> QED
  BY <1>3 DEF P

\* _rfc6962_path, unfolded once.
LEMMA PathsAt ==
  ASSUME NEW s \in Seq(LeafHashes), NEW n \in 1..Len(s), NEW o \in Nat, NEW m \in Nat
  PROVE  LET k == LargestPowerOf2LessThan(n) IN
         /\ n = 1 => Paths(s)[n][o][m] = << >>
         /\ n # 1 /\ m < k =>
              Paths(s)[n][o][m] = Append(Paths(s)[k][o][m], Mth(s)[n - k][o + k])
         /\ n # 1 /\ ~ (m < k) =>
              Paths(s)[n][o][m] = Append(Paths(s)[n - k][o + k][m - k], Mth(s)[k][o])
<1> DEFINE k == LargestPowerOf2LessThan(n)
<1>1. Paths(s)[n] = PathStep(s, Paths(s), n)
  BY PathsDef, Zenon
<1>2. PathStep(s, Paths(s), n)[o][m] =
        IF n = 1 THEN << >>
        ELSE IF m < k THEN Append(Paths(s)[k][o][m], Mth(s)[n - k][o + k])
                      ELSE Append(Paths(s)[n - k][o + k][m - k], Mth(s)[k][o])
  BY Zenon DEF PathStep
<1> QED
  BY <1>1, <1>2, Zenon

\* One step of rec.
RebuildStep(h, proof, g, n) ==
  [m \in Nat |-> [r \in Nat |->
    IF n = 1 THEN (IF r = 0 THEN h ELSE Rejected)
    ELSE IF r = 0 THEN Rejected
    ELSE LET k     == LargestPowerOf2LessThan(n)
             inner == IF m < k THEN g[k][m][r - 1] ELSE g[n - k][m - k][r - 1]
         IN  IF inner = Rejected THEN Rejected
             ELSE IF m < k THEN NodeHash(inner, proof[r])
                           ELSE NodeHash(proof[r], inner)]]

\* The recursion of verify_inclusion_proof has a solution.
LEMMA RebuildExists ==
  ASSUME NEW hash, NEW proof, NEW size \in Nat
  PROVE  \E g : g = [n \in 1..size |-> RebuildStep(hash, proof, g, n)]
<1> DEFINE P(g, d) == g = [n \in 1..d |-> RebuildStep(hash, proof, g, n)]
           S == {d \in Nat : \E g : P(g, d)}
<1>1. 0 \in S
  <2> DEFINE g == [n \in 1..0 |-> n]
  <2>1. P(g, 0)
    OBVIOUS
  <2> HIDE DEF g, P
  <2> QED
    BY <2>1
<1>2. ASSUME NEW d \in Nat, d \in S
      PROVE  d + 1 \in S
  <2>1. PICK g : P(g, d)
    BY <1>2
  <2> DEFINE h == [n \in 1..(d + 1) |-> RebuildStep(hash, proof, g, n)]
  <2>2. \A n \in 1..d : h[n] = g[n]
    BY <2>1
  <2>3. ASSUME NEW n \in 1..(d + 1) PROVE RebuildStep(hash, proof, h, n) = RebuildStep(hash, proof, g, n)
    <3>1. CASE n = 1
      BY <3>1 DEF RebuildStep
    <3>2. CASE n # 1
      <4>1. PICK k \in 1..d : k = LargestPowerOf2LessThan(n) /\ n - k \in 1..d
        BY <3>2, SplitRange
      <4> HIDE DEF h
      <4>2. h[k] = g[k] /\ h[n - k] = g[n - k]
        BY <4>1, <2>2
      <4> QED
        BY <4>1, <4>2 DEF RebuildStep
    <3> QED
      BY <3>1, <3>2
  <2>4. P(h, d + 1)
    BY <2>3
  <2> HIDE DEF h, P
  <2> QED
    BY <2>4
<1>3. size \in S
  <2> HIDE DEF S
  <2> QED
    BY <1>1, <1>2, StepInduction
<1> QED
  BY <1>3

\* So Rebuild is one.
LEMMA RebuildDef ==
  ASSUME NEW h, NEW proof, NEW size \in Nat
  PROVE  Rebuild(h, proof, size) =
           [n \in 1..size |-> RebuildStep(h, proof, Rebuild(h, proof, size), n)]
<1> DEFINE P(g) == g = [n \in 1..size |-> RebuildStep(h, proof, g, n)]
<1>1. \E g : P(g)
  BY RebuildExists, Zenon
<1>2. Rebuild(h, proof, size) = CHOOSE g : P(g)
  BY DEF Rebuild, RebuildStep
<1> HIDE DEF P
<1>3. P(Rebuild(h, proof, size))
  BY <1>1, <1>2, Zenon
<1> QED
  BY <1>3 DEF P

\* rec of verify_inclusion_proof, for one size.
LEMMA RebuildUnfold ==
  ASSUME NEW h, NEW proof, NEW size \in Nat, NEW n \in 1..size
  PROVE  Rebuild(h, proof, size)[n] = RebuildStep(h, proof, Rebuild(h, proof, size), n)
<1>1. PICK g : /\ g = Rebuild(h, proof, size)
               /\ g = [i \in 1..size |-> RebuildStep(h, proof, g, i)]
  BY RebuildDef
<1>2. g[n] = RebuildStep(h, proof, g, n)
  BY ONLY <1>1, n \in 1..size, Zenon
<1> QED
  BY <1>1, <1>2, Zenon

\* R is the recursion of verify_inclusion_proof for one leaf hash and proof.
IsRebuild(R, h, proof, size) ==
  \A n \in 1..size, m, r \in Nat :
    LET k == LargestPowerOf2LessThan(n)
    IN  /\ n = 1 /\ r = 0 => R[n][m][r] = h
        /\ n = 1 /\ r # 0 => R[n][m][r] = Rejected
        /\ n # 1 /\ r = 0 => R[n][m][r] = Rejected
        /\ n # 1 /\ r # 0 /\ m < k =>
             R[n][m][r] = IF R[k][m][r - 1] = Rejected THEN Rejected
                          ELSE NodeHash(R[k][m][r - 1], proof[r])
        /\ n # 1 /\ r # 0 /\ ~ (m < k) =>
             R[n][m][r] = IF R[n - k][m - k][r - 1] = Rejected THEN Rejected
                          ELSE NodeHash(proof[r], R[n - k][m - k][r - 1])

\* Rebuild is the recursion of the verifier.
LEMMA RebuildIs ==
  ASSUME NEW h, NEW proof, NEW size \in Nat
  PROVE  IsRebuild(Rebuild(h, proof, size), h, proof, size)
<1> DEFINE R == Rebuild(h, proof, size)
<1>1. \A n \in 1..size : R[n] = RebuildStep(h, proof, R, n)
  BY RebuildUnfold, Zenon
<1> HIDE DEF R
<1> SUFFICES ASSUME NEW n \in 1..size, NEW m \in Nat, NEW r \in Nat
             PROVE  LET k == LargestPowerOf2LessThan(n)
                    IN  /\ n = 1 /\ r = 0 => R[n][m][r] = h
                        /\ n = 1 /\ r # 0 => R[n][m][r] = Rejected
                        /\ n # 1 /\ r = 0 => R[n][m][r] = Rejected
                        /\ n # 1 /\ r # 0 /\ m < k =>
                             R[n][m][r] = IF R[k][m][r - 1] = Rejected THEN Rejected
                                          ELSE NodeHash(R[k][m][r - 1], proof[r])
                        /\ n # 1 /\ r # 0 /\ ~ (m < k) =>
                             R[n][m][r] = IF R[n - k][m - k][r - 1] = Rejected THEN Rejected
                                          ELSE NodeHash(proof[r], R[n - k][m - k][r - 1])
  BY Zenon DEF IsRebuild, R
<1> DEFINE k == LargestPowerOf2LessThan(n)
           inner == IF m < k THEN R[k][m][r - 1] ELSE R[n - k][m - k][r - 1]
<1>2. RebuildStep(h, proof, R, n)[m][r] =
        IF n = 1 THEN (IF r = 0 THEN h ELSE Rejected)
        ELSE IF r = 0 THEN Rejected
        ELSE IF inner = Rejected THEN Rejected
        ELSE IF m < k THEN NodeHash(inner, proof[r]) ELSE NodeHash(proof[r], inner)
  BY Zenon DEF RebuildStep
<1>3. R[n][m][r] = RebuildStep(h, proof, R, n)[m][r]
  BY <1>1, Zenon
<1> HIDE DEF k
<1> QED
  BY <1>2, <1>3, Zenon DEF k

\* A path of n leaves is a sequence of hashes.
LEMMA PathsType ==
  ASSUME NEW s \in Seq(LeafHashes), NEW V, \A a \in 1..Len(s), b \in Nat : Mth(s)[a][b] \in V
  PROVE  \A n \in Nat : n \in 1..Len(s) => \A o, m \in Nat : Paths(s)[n][o][m] \in Seq(V)
<1> DEFINE Typed(n) == n \in 1..Len(s) => \A o, m \in Nat : Paths(s)[n][o][m] \in Seq(V)
           S == {n \in Nat : Typed(n)}
<1>1. ASSUME NEW n \in Nat, \A i \in Nat : i < n => i \in S
      PROVE  n \in S
  <2> SUFFICES ASSUME n \in 1..Len(s), NEW o \in Nat, NEW m \in Nat
               PROVE  Paths(s)[n][o][m] \in Seq(V)
    OBVIOUS
  <2>1. CASE n = 1
    <3>1. Paths(s)[n][o][m] = << >>
      BY <2>1, PathsAt
    <3> QED
      BY <3>1
  <2>2. CASE n # 1
    <3>1. PICK k \in 1..(n - 1) : k = LargestPowerOf2LessThan(n)
      BY <2>2, SplitRange
    <3>2. /\ k \in Nat /\ n - k \in Nat /\ k < n /\ n - k < n /\ o + k \in Nat
          /\ k \in 1..Len(s) /\ n - k \in 1..Len(s)
      OBVIOUS
    <3>3. Mth(s)[n - k][o + k] \in V /\ Mth(s)[k][o] \in V
      BY <3>2
    <3>4. Typed(k) /\ Typed(n - k)
      BY <1>1, <3>2
    <3>5. CASE m < k
      <4>1. Paths(s)[n][o][m] = Append(Paths(s)[k][o][m], Mth(s)[n - k][o + k])
        BY <2>2, <3>1, <3>5, PathsAt
      <4>2. Paths(s)[k][o][m] \in Seq(V)
        BY <3>2, <3>4
      <4> QED
        BY ONLY <4>1, <4>2, <3>3
    <3>6. CASE ~ (m < k)
      <4>1. Paths(s)[n][o][m] = Append(Paths(s)[n - k][o + k][m - k], Mth(s)[k][o])
        BY <2>2, <3>1, <3>6, PathsAt
      <4>2. Paths(s)[n - k][o + k][m - k] \in Seq(V)
        <5>1. m - k \in Nat
          BY <3>6
        <5> QED
          BY <5>1, <3>2, <3>4
      <4> QED
        BY ONLY <4>1, <4>2, <3>3
    <3> QED
      BY <3>5, <3>6
  <2> QED
    BY <2>1, <2>2
<1>2. \A n \in Nat : n \in S
  <2> HIDE DEF S
  <2> QED
    BY <1>1, NatSetInduction
<1> QED
  BY <1>2

\* The first r siblings of a proof are those of the path p.
Follows(proof, r, p) == r = Len(p) /\ \A j \in 1..r : proof[j] = p[j]

\* Without its last sibling a proof follows the path within one half.
LEMMA FollowsAppend ==
  ASSUME NEW V, NEW proof, NEW r \in Nat, NEW p \in Seq(V), NEW x \in V, Follows(proof, r, Append(p, x))
  PROVE  /\ r # 0 /\ r - 1 \in Nat
         /\ proof[r] = x
         /\ Follows(proof, r - 1, p)
<1>1. r = Len(p) + 1
  BY DEF Follows
<1>2. proof[r] = Append(p, x)[r]
  BY <1>1 DEF Follows
<1>3. ASSUME NEW j \in 1..(r - 1) PROVE proof[j] = p[j]
  BY <1>1 DEF Follows
<1> QED
  BY <1>1, <1>2, <1>3 DEF Follows

(***************************************************************************)
(* One unfolding of each recursion, with a name for every term: the slice  *)
(* of n leaves at offset o splits into k leaves at o and j leaves at p.    *)
(***************************************************************************)
Slice(s, n, o) == n \in 1..Len(s) /\ o \in Nat /\ o + n <= Len(s)
Halves(n, k, j, o, p) ==
  /\ n \in Nat /\ k \in Nat \ {0} /\ j \in Nat \ {0} /\ o \in Nat /\ p \in Nat
  /\ n = k + j /\ k = LargestPowerOf2LessThan(n) /\ p = o + k
Below(m, k) == m \in Nat /\ k \in Nat /\ m < k
Above(m, k, q) == m \in Nat /\ k \in Nat /\ q \in Nat /\ m = q + k
Succ(r, t) == r \in Nat /\ t \in Nat /\ r = t + 1

\* More than one leaf splits.
LEMMA HalvesExist ==
  ASSUME NEW n \in Nat, NEW o \in Nat, n # 0, n # 1
  PROVE  \E k, j, p \in Nat : Halves(n, k, j, o, p)
<1>1. PICK k \in 1..(n - 1) : k = LargestPowerOf2LessThan(n)
  BY SplitRange
<1>2. n - k \in Nat /\ k \in Nat /\ o + k \in Nat /\ Halves(n, k, n - k, o, o + k)
  BY <1>1 DEF Halves
<1> QED
  BY <1>2

\* Both halves are shorter.
LEMMA HalvesFacts ==
  ASSUME NEW n, NEW k, NEW j, NEW o, NEW p, Halves(n, k, j, o, p)
  PROVE  /\ k \in Nat /\ j \in Nat /\ n \in Nat /\ o \in Nat /\ p \in Nat
         /\ k < n /\ j < n /\ k # 0 /\ j # 0 /\ n # 1 /\ n # 0
         /\ n = k + j /\ p = o + k
  BY DEF Halves

\* Both halves are slices of the same leaves.
LEMMA HalvesSlice ==
  ASSUME NEW s \in Seq(LeafHashes), NEW n, NEW k, NEW j, NEW o, NEW p,
         Slice(s, n, o), Halves(n, k, j, o, p)
  PROVE  Slice(s, k, o) /\ Slice(s, j, p)
  BY DEF Halves, Slice

\* A position is in the left or in the right half.
LEMMA BelowOrAbove ==
  ASSUME NEW m \in Nat, NEW k \in Nat
  PROVE  Below(m, k) \/ \E q \in Nat : Above(m, k, q)
<1>1. CASE m < k
  BY <1>1 DEF Below
<1>2. CASE ~ (m < k)
  <2>1. m - k \in Nat /\ Above(m, k, m - k)
    BY <1>2 DEF Above
  <2> QED
    BY <2>1
<1> QED
  BY <1>1, <1>2

\* No sibling is left, or there is a last one.
LEMMA ZeroOrSucc ==
  ASSUME NEW r \in Nat
  PROVE  r = 0 \/ \E t \in Nat : Succ(r, t)
<1>1. CASE r # 0
  <2>1. r - 1 \in Nat /\ Succ(r, r - 1)
    BY <1>1 DEF Succ
  <2> QED
    BY <2>1
<1> QED
  BY <1>1

Within(n, size) == n \in 1..size
Hash(s, n, o) == Mth(s)[n][o]
PathOf(s, n, o, m) == Paths(s)[n][o][m]
Rec(R, n, m, r) == R[n][m][r]
Sibling(proof, r) == proof[r]

MthSplits(s) ==
  \A n, k, j, o, p : Within(n, Len(s)) /\ Halves(n, k, j, o, p) =>
    Hash(s, n, o) = NodeHash(Hash(s, k, o), Hash(s, j, p))

\* The hash of a slice is the node of the hashes of its halves.
LEMMA MthSplit ==
  ASSUME NEW s \in Seq(LeafHashes)
  PROVE  MthSplits(s)
<1> SUFFICES ASSUME NEW n, NEW k, NEW j, NEW o, NEW p, n \in 1..Len(s), Halves(n, k, j, o, p)
             PROVE  Mth(s)[n][o] = NodeHash(Mth(s)[k][o], Mth(s)[j][p])
  BY DEF MthSplits, Within, Hash
<1>1. n # 1 /\ k = LargestPowerOf2LessThan(n) /\ j = n - k /\ p = o + k /\ o \in Nat
  BY DEF Halves
<1>2. Mth(s)[n][o] = NodeHash(Mth(s)[k][o], Mth(s)[n - k][o + k])
  BY <1>1, MthAt
<1> QED
  BY <1>1, <1>2, Zenon

\* The last of the r siblings is the hash of one half, the rest is the path
\* within the other.
Peels(s, proof, k, j, o, p, m, r) ==
  /\ r # 0
  /\ m < k => proof[r] = Mth(s)[j][p] /\ Follows(proof, r - 1, Paths(s)[k][o][m])
  /\ ~ (m < k) => proof[r] = Mth(s)[k][o] /\ Follows(proof, r - 1, Paths(s)[j][p][m - k])

\* A path of more than one leaf splits at its last sibling.
LEMMA LastSibling ==
  ASSUME NEW s \in Seq(LeafHashes), NEW proof, NEW n, NEW k, NEW j, NEW o, NEW p, NEW m, NEW r,
         n \in 1..Len(s), Halves(n, k, j, o, p), m \in Nat, r \in Nat,
         Follows(proof, r, Paths(s)[n][o][m])
  PROVE  Peels(s, proof, k, j, o, p, m, r)
<1> DEFINE V == {Mth(s)[a][b] : a \in 1..Len(s), b \in Nat}
<1>1. \A a \in 1..Len(s), b \in Nat : Mth(s)[a][b] \in V
  OBVIOUS
<1> HIDE DEF V
<1>2. \A a \in Nat : a \in 1..Len(s) => \A b, c \in Nat : Paths(s)[a][b][c] \in Seq(V)
  BY <1>1, PathsType
<1>3. /\ k \in Nat /\ j \in Nat /\ o \in Nat /\ p \in Nat /\ n # 1
      /\ k \in 1..Len(s) /\ j \in 1..Len(s)
      /\ k = LargestPowerOf2LessThan(n) /\ j = n - k /\ p = o + k
  BY DEF Halves
<1>p. Paths(s)[n][o][m] =
        IF m < k THEN Append(Paths(s)[k][o][m], Mth(s)[j][p])
                 ELSE Append(Paths(s)[j][p][m - k], Mth(s)[k][o])
  <2>1. Paths(s)[n] = PathStep(s, Paths(s), n)
    BY PathsDef, Zenon
  <2> DEFINE i == LargestPowerOf2LessThan(n)
  <2>2. PathStep(s, Paths(s), n)[o][m] =
          IF n = 1 THEN << >>
          ELSE IF m < i THEN Append(Paths(s)[i][o][m], Mth(s)[n - i][o + i])
                        ELSE Append(Paths(s)[n - i][o + i][m - i], Mth(s)[i][o])
    BY <1>3, Zenon DEF PathStep
  <2> QED
    BY <1>3, <2>1, <2>2, Zenon
<1>4. CASE m < k
  <2>1. Paths(s)[n][o][m] = Append(Paths(s)[k][o][m], Mth(s)[j][p])
    BY <1>3, <1>4, <1>p, Zenon
  <2>2. Paths(s)[k][o][m] \in Seq(V) /\ Mth(s)[j][p] \in V
    BY <1>1, <1>2, <1>3
  <2>3. PICK rest \in Seq(V), x \in V : rest = Paths(s)[k][o][m] /\ x = Mth(s)[j][p]
    BY <2>2, Zenon
  <2>4. Follows(proof, r, Append(rest, x))
    BY <2>1, <2>3, Zenon
  <2>5. r # 0 /\ proof[r] = x /\ Follows(proof, r - 1, rest)
    BY ONLY <2>4, FollowsAppend, r \in Nat, rest \in Seq(V), x \in V
  <2> QED
    BY <1>4, <2>3, <2>5, Zenon DEF Peels
<1>5. CASE ~ (m < k)
  <2>1. Paths(s)[n][o][m] = Append(Paths(s)[j][p][m - k], Mth(s)[k][o])
    BY <1>3, <1>5, <1>p, Zenon
  <2>2. Paths(s)[j][p][m - k] \in Seq(V) /\ Mth(s)[k][o] \in V
    <3>1. m - k \in Nat
      BY <1>3, <1>5
    <3> QED
      BY <1>1, <1>2, <1>3, <3>1
  <2>3. PICK rest \in Seq(V), x \in V : rest = Paths(s)[j][p][m - k] /\ x = Mth(s)[k][o]
    BY <2>2, Zenon
  <2>4. Follows(proof, r, Append(rest, x))
    BY <2>1, <2>3, Zenon
  <2>5. r # 0 /\ proof[r] = x /\ Follows(proof, r - 1, rest)
    BY ONLY <2>4, FollowsAppend, r \in Nat, rest \in Seq(V), x \in V
  <2> QED
    BY <1>5, <2>3, <2>5, Zenon DEF Peels
<1> QED
  BY <1>4, <1>5, Zenon

PathSplits(s, proof) ==
  /\ \A n, k, j, o, p, m, r, t :
       /\ Within(n, Len(s)) /\ Halves(n, k, j, o, p) /\ Succ(r, t) /\ Below(m, k)
       /\ Follows(proof, r, PathOf(s, n, o, m))
       => Sibling(proof, r) = Hash(s, j, p) /\ Follows(proof, t, PathOf(s, k, o, m))
  /\ \A n, k, j, o, p, m, q, r, t :
       /\ Within(n, Len(s)) /\ Halves(n, k, j, o, p) /\ Succ(r, t) /\ Above(m, k, q)
       /\ Follows(proof, r, PathOf(s, n, o, m))
       => Sibling(proof, r) = Hash(s, k, o) /\ Follows(proof, t, PathOf(s, j, p, q))

\* The last sibling of a path is the hash of the other half.
LEMMA PathSplit ==
  ASSUME NEW s \in Seq(LeafHashes), NEW proof
  PROVE  PathSplits(s, proof)
<1>1. ASSUME NEW n, NEW k, NEW j, NEW o, NEW p, NEW m, NEW r, NEW t,
             n \in 1..Len(s), Halves(n, k, j, o, p), Succ(r, t), Below(m, k),
             Follows(proof, r, Paths(s)[n][o][m])
      PROVE  proof[r] = Mth(s)[j][p] /\ Follows(proof, t, Paths(s)[k][o][m])
  <2>1. t = r - 1 /\ m \in Nat /\ r \in Nat /\ m < k
    BY <1>1 DEF Succ, Below
  <2>2. Peels(s, proof, k, j, o, p, m, r)
    BY <1>1, <2>1, LastSibling
  <2> QED
    BY <2>1, <2>2, Zenon DEF Peels
<1>2. ASSUME NEW n, NEW k, NEW j, NEW o, NEW p, NEW m, NEW q, NEW r, NEW t,
             n \in 1..Len(s), Halves(n, k, j, o, p), Succ(r, t), Above(m, k, q),
             Follows(proof, r, Paths(s)[n][o][m])
      PROVE  proof[r] = Mth(s)[k][o] /\ Follows(proof, t, Paths(s)[j][p][q])
  <2>1. t = r - 1 /\ m \in Nat /\ r \in Nat /\ ~ (m < k) /\ q = m - k
    BY <1>2 DEF Succ, Above
  <2>2. Peels(s, proof, k, j, o, p, m, r)
    BY <1>2, <2>1, LastSibling
  <2> QED
    BY <2>1, <2>2, Zenon DEF Peels
<1> QED
  BY <1>1, <1>2 DEF PathSplits, Within, Hash, PathOf, Sibling

\* Only the path of a single leaf is empty.
PathEnds(s, proof) ==
  \A n, o, m, r :
    Within(n, Len(s)) /\ o \in Nat /\ m \in Nat /\ r \in Nat /\ Follows(proof, r, PathOf(s, n, o, m))
    => (r = 0 <=> n = 1)

\* Only a single leaf needs no sibling.
LEMMA PathNotEmpty ==
  ASSUME NEW s \in Seq(LeafHashes), NEW proof
  PROVE  PathEnds(s, proof)
<1> SUFFICES ASSUME NEW n, NEW o, NEW m, NEW r, n \in 1..Len(s), o \in Nat, m \in Nat, r \in Nat,
                    Follows(proof, r, Paths(s)[n][o][m])
             PROVE  r = 0 <=> n = 1
  BY DEF PathEnds, Within, PathOf
<1>1. CASE n = 1
  <2>1. Paths(s)[n][o][m] = << >>
    BY <1>1, PathsAt
  <2> QED
    BY ONLY <1>1, <2>1, Follows(proof, r, Paths(s)[n][o][m]) DEF Follows
<1>2. CASE n # 1
  <2>1. n \in Nat /\ n # 0
    OBVIOUS
  <2>2. PICK k, j, p : Halves(n, k, j, o, p)
    <3>1. \E k, j, p \in Nat : Halves(n, k, j, o, p)
      BY <1>2, <2>1, HalvesExist, Zenon
    <3> QED
      BY <3>1, Zenon
  <2>3. r # 0
    <3>1. Peels(s, proof, k, j, o, p, m, r)
      BY <2>2, LastSibling
    <3> QED
      BY <3>1, Zenon DEF Peels
  <2> QED
    BY <1>2, <2>3
<1> QED
  BY <1>1, <1>2

RebuildSplits(R, h, proof, size) ==
  /\ \A m, r : Within(1, size) /\ m \in Nat /\ r \in Nat /\ r = 0 => Rec(R, 1, m, r) = h
  /\ \A m, r : Within(1, size) /\ m \in Nat /\ r \in Nat /\ r # 0 => Rec(R, 1, m, r) = Rejected
  /\ \A n, k, j, o, p, m, r :
       Within(n, size) /\ Halves(n, k, j, o, p) /\ m \in Nat /\ r = 0 => Rec(R, n, m, r) = Rejected
  /\ \A n, k, j, o, p, m, r, t :
       Within(n, size) /\ Halves(n, k, j, o, p) /\ Succ(r, t) /\ Below(m, k) =>
         /\ Rec(R, k, m, t) = Rejected => Rec(R, n, m, r) = Rejected
         /\ Rec(R, k, m, t) # Rejected =>
              Rec(R, n, m, r) = NodeHash(Rec(R, k, m, t), Sibling(proof, r))
  /\ \A n, k, j, o, p, m, q, r, t :
       Within(n, size) /\ Halves(n, k, j, o, p) /\ Succ(r, t) /\ Above(m, k, q) =>
         /\ Rec(R, j, q, t) = Rejected => Rec(R, n, m, r) = Rejected
         /\ Rec(R, j, q, t) # Rejected =>
              Rec(R, n, m, r) = NodeHash(Sibling(proof, r), Rec(R, j, q, t))

\* One step of the verifier.
LEMMA RebuildSplit ==
  ASSUME NEW R, NEW h, NEW proof, NEW size \in Nat, IsRebuild(R, h, proof, size)
  PROVE  RebuildSplits(R, h, proof, size)
<1>u. ASSUME NEW n \in 1..size, NEW m \in Nat, NEW r \in Nat
      PROVE  LET k == LargestPowerOf2LessThan(n)
             IN  /\ n = 1 /\ r = 0 => R[n][m][r] = h
                 /\ n = 1 /\ r # 0 => R[n][m][r] = Rejected
                 /\ n # 1 /\ r = 0 => R[n][m][r] = Rejected
                 /\ n # 1 /\ r # 0 /\ m < k =>
                      R[n][m][r] = IF R[k][m][r - 1] = Rejected THEN Rejected
                                   ELSE NodeHash(R[k][m][r - 1], proof[r])
                 /\ n # 1 /\ r # 0 /\ ~ (m < k) =>
                      R[n][m][r] = IF R[n - k][m - k][r - 1] = Rejected THEN Rejected
                                   ELSE NodeHash(proof[r], R[n - k][m - k][r - 1])
  BY Zenon DEF IsRebuild
<1>1. ASSUME NEW m, NEW r, Within(1, size), m \in Nat, r \in Nat
      PROVE  (r = 0 => Rec(R, 1, m, r) = h) /\ (r # 0 => Rec(R, 1, m, r) = Rejected)
  BY <1>1, <1>u, Zenon DEF Within, Rec
<1>2. ASSUME NEW n, NEW k, NEW j, NEW o, NEW p, NEW m, NEW r, Within(n, size),
             Halves(n, k, j, o, p), m \in Nat, r = 0
      PROVE  Rec(R, n, m, r) = Rejected
  <2>1. n # 1 /\ r \in Nat /\ n \in 1..size
    BY <1>2 DEF Halves, Within
  <2> QED
    BY <1>2, <2>1, <1>u, Zenon DEF Rec
<1>3. ASSUME NEW n, NEW k, NEW j, NEW o, NEW p, NEW m, NEW r, NEW t, Within(n, size),
             Halves(n, k, j, o, p), Succ(r, t), Below(m, k)
      PROVE  /\ Rec(R, k, m, t) = Rejected => Rec(R, n, m, r) = Rejected
             /\ Rec(R, k, m, t) # Rejected =>
                  Rec(R, n, m, r) = NodeHash(Rec(R, k, m, t), Sibling(proof, r))
  <2>1. /\ n # 1 /\ k = LargestPowerOf2LessThan(n) /\ t = r - 1 /\ r # 0
        /\ m \in Nat /\ r \in Nat /\ m < k /\ n \in 1..size
    BY <1>3 DEF Halves, Succ, Below, Within
  <2>2. R[n][m][r] = IF R[k][m][r - 1] = Rejected THEN Rejected
                     ELSE NodeHash(R[k][m][r - 1], proof[r])
    BY <1>3, <2>1, <1>u, Zenon
  <2> QED
    BY <2>1, <2>2, Zenon DEF Rec, Sibling
<1>4. ASSUME NEW n, NEW k, NEW j, NEW o, NEW p, NEW m, NEW q, NEW r, NEW t, Within(n, size),
             Halves(n, k, j, o, p), Succ(r, t), Above(m, k, q)
      PROVE  /\ Rec(R, j, q, t) = Rejected => Rec(R, n, m, r) = Rejected
             /\ Rec(R, j, q, t) # Rejected =>
                  Rec(R, n, m, r) = NodeHash(Sibling(proof, r), Rec(R, j, q, t))
  <2>1. /\ n # 1 /\ k = LargestPowerOf2LessThan(n) /\ j = n - k /\ t = r - 1 /\ r # 0
        /\ m \in Nat /\ r \in Nat /\ ~ (m < k) /\ q = m - k /\ n \in 1..size
    BY <1>4 DEF Halves, Succ, Above, Within
  <2>2. R[n][m][r] = IF R[n - k][m - k][r - 1] = Rejected THEN Rejected
                     ELSE NodeHash(proof[r], R[n - k][m - k][r - 1])
    BY <1>4, <2>1, <1>u, Zenon
  <2> QED
    BY <2>1, <2>2, Zenon DEF Rec, Sibling
<1> QED
  BY <1>1, <1>2, <1>3, <1>4 DEF RebuildSplits

\* Leaf number m of the slice at offset o.
At(s, o, m) == s[o + m + 1]

\* A position in the right half, counted from there.
LEMMA AtAbove ==
  ASSUME NEW s, NEW n, NEW k, NEW j, NEW o, NEW p, NEW m, NEW q,
         Halves(n, k, j, o, p), Above(m, k, q)
  PROVE  At(s, o, m) = At(s, p, q) /\ (Below(m, n) => Below(q, j))
<1>1. o + m + 1 = p + q + 1
  BY DEF Halves, Above
<1>2. Below(m, n) => Below(q, j)
  BY DEF Halves, Above, Below
<1> QED
  BY <1>1, <1>2, Zenon DEF At

\* The hash of a single leaf is that leaf hash.
LEMMA MthLeaf ==
  ASSUME NEW s \in Seq(LeafHashes), NEW o, Slice(s, 1, o)
  PROVE  /\ Hash(s, 1, o) = s[o + 1]
         /\ \A m : Below(m, 1) => Hash(s, 1, o) = At(s, o, m)
<1>1. Hash(s, 1, o) = s[o + 1]
  BY MthAt DEF Slice, Hash
<1>2. \A m : Below(m, 1) => m = 0
  BY DEF Below
<1>3. o + 0 + 1 = o + 1
  BY DEF Slice
<1> QED
  BY <1>1, <1>2, <1>3, Zenon DEF At

\* MthNotRejected for slices.
LEMMA MthIsHash ==
  ASSUME NEW s \in Seq(LeafHashes), NEW n, NEW o, Slice(s, n, o)
  PROVE  /\ Hash(s, n, o) # Rejected
         /\ Hash(s, n, o) # EmptyRoot
         /\ Hash(s, n, o) \in LeafHashes <=> n = 1
  BY MthNotRejected DEF Slice, Hash

\* The path of a leaf rebuilds the hash of every slice it goes through.
LEMMA ServedPathRebuilds ==
  ASSUME NEW s \in Seq(LeafHashes), NEW h \in LeafHashes, NEW proof,
         NEW R, IsRebuild(R, h, proof, Len(s))
  PROVE  \A n \in Nat : \A o, m, r :
           /\ Slice(s, n, o) /\ Below(m, n) /\ r \in Nat /\ h = At(s, o, m)
           /\ Follows(proof, r, PathOf(s, n, o, m))
           => Rec(R, n, m, r) = Hash(s, n, o)
<1> DEFINE Good(n) ==
             \A o, m, r :
               /\ Slice(s, n, o) /\ Below(m, n) /\ r \in Nat /\ h = At(s, o, m)
               /\ Follows(proof, r, PathOf(s, n, o, m))
               => Rec(R, n, m, r) = Hash(s, n, o)
           S == {n \in Nat : Good(n)}
<1>0. MthSplits(s) /\ PathSplits(s, proof) /\ RebuildSplits(R, h, proof, Len(s))
  <2>1. Len(s) \in Nat
    OBVIOUS
  <2> QED
    BY <2>1, MthSplit, PathSplit, RebuildSplit
<1>e. PathEnds(s, proof)
  BY PathNotEmpty
<1>1. ASSUME NEW n \in Nat, \A i \in Nat : i < n => i \in S
      PROVE  n \in S
  <2> SUFFICES ASSUME NEW o, NEW m, NEW r,
                      Slice(s, n, o), Below(m, n), r \in Nat, h = At(s, o, m),
                      Follows(proof, r, PathOf(s, n, o, m))
               PROVE  Rec(R, n, m, r) = Hash(s, n, o)
    OBVIOUS
  <2>0. n \in 1..Len(s) /\ Within(n, Len(s)) /\ o \in Nat /\ m \in Nat
    BY DEF Slice, Below, Within
  <2>z. r = 0 <=> n = 1
    BY <2>0, <1>e DEF PathEnds
  <2>1. CASE n = 1
    <3>1. Rec(R, n, m, r) = h
      BY <2>0, <2>1, <2>z, <1>0, Zenon DEF RebuildSplits
    <3>2. Hash(s, n, o) = At(s, o, m)
      BY <2>1, MthLeaf, Zenon
    <3> QED
      BY <3>1, <3>2, Zenon
  <2>2. CASE n # 1
    <3>1. PICK k, j, p : Halves(n, k, j, o, p)
      BY <2>0, <2>2, HalvesExist
    <3>2. PICK t : Succ(r, t)
      BY <2>2, <2>z, ZeroOrSucc
    <3>3. k \in Nat /\ j \in Nat /\ k < n /\ j < n /\ t \in Nat
      BY <3>1, <3>2, HalvesFacts DEF Succ
    <3>4. Slice(s, k, o) /\ Slice(s, j, p)
      BY <3>1, HalvesSlice
    <3>5. Good(k) /\ Good(j)
      BY <1>1, <3>3
    <3>6. Hash(s, n, o) = NodeHash(Hash(s, k, o), Hash(s, j, p))
      BY <1>0, <2>0, <3>1 DEF MthSplits
    <3>7. Hash(s, k, o) # Rejected /\ Hash(s, j, p) # Rejected
      BY <3>4, MthIsHash
    <3>8. CASE Below(m, k)
      <4>1. Sibling(proof, r) = Hash(s, j, p) /\ Follows(proof, t, PathOf(s, k, o, m))
        BY <1>0, <2>0, <3>1, <3>2, <3>8 DEF PathSplits
      <4>2. Rec(R, k, m, t) = Hash(s, k, o)
        BY <3>3, <3>4, <3>5, <3>8, <4>1
      <4>3. Rec(R, n, m, r) = NodeHash(Rec(R, k, m, t), Sibling(proof, r))
        BY <1>0, <2>0, <3>1, <3>2, <3>7, <3>8, <4>2 DEF RebuildSplits
      <4> QED
        BY <4>1, <4>2, <4>3, <3>6, <3>7, Zenon
    <3>9. CASE \E q \in Nat : Above(m, k, q)
      <4>0. PICK q : Above(m, k, q)
        BY <3>9
      <4>1. Sibling(proof, r) = Hash(s, k, o) /\ Follows(proof, t, PathOf(s, j, p, q))
        BY <1>0, <2>0, <3>1, <3>2, <4>0 DEF PathSplits
      <4>2. Rec(R, j, q, t) = Hash(s, j, p)
        <5>1. h = At(s, p, q) /\ Below(q, j)
          BY <3>1, <4>0, AtAbove
        <5> QED
          BY <3>3, <3>4, <3>5, <4>1, <5>1
      <4>3. Rec(R, n, m, r) = NodeHash(Sibling(proof, r), Rec(R, j, q, t))
        BY <1>0, <2>0, <3>1, <3>2, <3>7, <4>0, <4>2 DEF RebuildSplits
      <4> QED
        BY <4>1, <4>2, <4>3, <3>6, <3>7, Zenon
    <3> QED
      BY <3>3, <2>0, <3>8, <3>9, BelowOrAbove
  <2> QED
    BY <2>1, <2>2
<1>2. \A n \in Nat : n \in S
  <2> HIDE DEF S
  <2> QED
    BY <1>1, NatSetInduction
<1> QED
  BY <1>2
\* NodeHashInjective as an implication.
LEMMA NodesEqual ==
  ASSUME NEW a, NEW b, NEW c, NEW d
  PROVE  NodeHash(a, b) = NodeHash(c, d) => a = c /\ b = d
  BY NodeHashInjective

\* No inner node is a leaf hash, nor None.
LEMMA NodeNoLeaf ==
  ASSUME NEW h \in LeafHashes, NEW a, NEW b
  PROVE  NodeHash(a, b) # h /\ NodeHash(a, b) # Rejected /\ h # Rejected
  BY HashesDiffer

\* A proof that rebuilds the hash of the slice of the claimed size is about
\* the leaf at the claimed position, whatever its siblings are.
LEMMA RebuildSound ==
  ASSUME NEW s \in Seq(LeafHashes), NEW h \in LeafHashes, NEW proof,
         NEW R, IsRebuild(R, h, proof, Len(s))
  PROVE  \A n \in Nat : \A o, m, r :
           /\ Slice(s, n, o) /\ Below(m, n) /\ r \in Nat
           /\ Rec(R, n, m, r) = Hash(s, n, o)
           => h = At(s, o, m)
<1> DEFINE Good(n) ==
             \A o, m, r :
               /\ Slice(s, n, o) /\ Below(m, n) /\ r \in Nat
               /\ Rec(R, n, m, r) = Hash(s, n, o)
               => h = At(s, o, m)
           S == {n \in Nat : Good(n)}
<1>0. MthSplits(s) /\ RebuildSplits(R, h, proof, Len(s))
  <2>1. Len(s) \in Nat
    OBVIOUS
  <2> QED
    BY <2>1, MthSplit, RebuildSplit
<1>1. ASSUME NEW n \in Nat, \A i \in Nat : i < n => i \in S
      PROVE  n \in S
  <2> SUFFICES ASSUME NEW o, NEW m, NEW r,
                      Slice(s, n, o), Below(m, n), r \in Nat,
                      Rec(R, n, m, r) = Hash(s, n, o)
               PROVE  h = At(s, o, m)
    OBVIOUS
  <2>0. n \in 1..Len(s) /\ Within(n, Len(s)) /\ o \in Nat /\ m \in Nat
    BY DEF Slice, Below, Within
  <2>h. Hash(s, n, o) # Rejected
    BY MthIsHash
  <2>1. CASE n = 1
    <3>1. Rec(R, n, m, r) = h
      BY <1>0, <2>0, <2>1, <2>h DEF RebuildSplits
    <3>2. Hash(s, n, o) = At(s, o, m)
      BY <2>1, MthLeaf, Zenon
    <3> QED
      BY <3>1, <3>2, Zenon
  <2>2. CASE n # 1
    <3>1. PICK k, j, p : Halves(n, k, j, o, p)
      BY <2>0, <2>2, HalvesExist
    <3>r. r # 0
      BY <1>0, <2>0, <2>h, <3>1 DEF RebuildSplits
    <3>2. PICK t : Succ(r, t)
      BY <3>r, ZeroOrSucc
    <3>3. k \in Nat /\ j \in Nat /\ k < n /\ j < n /\ t \in Nat
      BY <3>1, <3>2, HalvesFacts DEF Succ
    <3>4. Slice(s, k, o) /\ Slice(s, j, p)
      BY <3>1, HalvesSlice
    <3>5. Good(k) /\ Good(j)
      BY <1>1, <3>3
    <3>6. Hash(s, n, o) = NodeHash(Hash(s, k, o), Hash(s, j, p))
      BY <1>0, <2>0, <3>1 DEF MthSplits
    <3>8. CASE Below(m, k)
      <4>1. Rec(R, n, m, r) = NodeHash(Rec(R, k, m, t), Sibling(proof, r))
        BY <1>0, <2>0, <2>h, <3>1, <3>2, <3>8 DEF RebuildSplits
      <4>2. Rec(R, k, m, t) = Hash(s, k, o)
        <5>1. NodeHash(Rec(R, k, m, t), Sibling(proof, r)) = NodeHash(Hash(s, k, o), Hash(s, j, p))
          BY <3>6, <4>1
        <5> QED
          BY ONLY <5>1 DEF NodeHash
      <4> QED
        BY <3>3, <3>4, <3>5, <3>8, <4>2
    <3>9. CASE \E q \in Nat : Above(m, k, q)
      <4>0. PICK q : Above(m, k, q)
        BY <3>9
      <4>1. Rec(R, n, m, r) = NodeHash(Sibling(proof, r), Rec(R, j, q, t))
        BY <1>0, <2>0, <2>h, <3>1, <3>2, <4>0 DEF RebuildSplits
      <4>2. Rec(R, j, q, t) = Hash(s, j, p)
        <5>1. NodeHash(Sibling(proof, r), Rec(R, j, q, t)) = NodeHash(Hash(s, k, o), Hash(s, j, p))
          BY <3>6, <4>1
        <5> QED
          BY ONLY <5>1 DEF NodeHash
      <4>3. At(s, o, m) = At(s, p, q) /\ Below(q, j)
        BY <3>1, <4>0, AtAbove
      <4> QED
        BY <3>3, <3>4, <3>5, <4>2, <4>3
    <3> QED
      BY <3>3, <2>0, <3>8, <3>9, BelowOrAbove
  <2> QED
    BY <2>1, <2>2
<1>2. \A n \in Nat : n \in S
  <2> HIDE DEF S
  <2> QED
    BY <1>1, NatSetInduction
<1> QED
  BY <1>2

\* The leaf h is among the n leaves at offset o.
Occurs(s, n, o, h) == \E i : Below(i, n) /\ At(s, o, i) = h

\* What is in a half is in the whole.
LEMMA OccursInHalf ==
  ASSUME NEW s, NEW h, NEW n, NEW k, NEW j, NEW o, NEW p, Halves(n, k, j, o, p),
         Occurs(s, k, o, h) \/ Occurs(s, j, p, h)
  PROVE  Occurs(s, n, o, h)
<1>1. CASE Occurs(s, k, o, h)
  <2>1. PICK i : Below(i, k) /\ At(s, o, i) = h
    BY <1>1 DEF Occurs
  <2>2. Below(i, n)
    BY <2>1 DEF Below, Halves
  <2> QED
    BY <2>1, <2>2 DEF Occurs
<1>2. CASE Occurs(s, j, p, h)
  <2>1. PICK i : Below(i, j) /\ At(s, p, i) = h
    BY <1>2 DEF Occurs
  <2>2. PICK m : m = i + k
    OBVIOUS
  <2>3. Above(m, k, i) /\ Below(m, n)
    BY <2>1, <2>2 DEF Below, Above, Halves
  <2>4. At(s, o, m) = h
    BY <2>1, <2>3, AtAbove
  <2> QED
    BY <2>3, <2>4 DEF Occurs
<1> QED
  BY <1>1, <1>2

\* A proof that rebuilds the hash of some slice, under whatever size is
\* claimed, is about one of the leaves of that slice.
LEMMA RebuildPresent ==
  ASSUME NEW s \in Seq(LeafHashes), NEW h \in LeafHashes, NEW proof, NEW size \in Nat,
         NEW R, IsRebuild(R, h, proof, size)
  PROVE  \A n \in Nat : \A m, r, c, d :
           /\ Within(n, size) /\ m \in Nat /\ r \in Nat /\ Slice(s, c, d)
           /\ Rec(R, n, m, r) = Hash(s, c, d)
           => Occurs(s, c, d, h)
<1> DEFINE Good(n) ==
             \A m, r, c, d :
               /\ Within(n, size) /\ m \in Nat /\ r \in Nat /\ Slice(s, c, d)
               /\ Rec(R, n, m, r) = Hash(s, c, d)
               => Occurs(s, c, d, h)
           S == {n \in Nat : Good(n)}
<1>0. MthSplits(s) /\ RebuildSplits(R, h, proof, size)
  BY MthSplit, RebuildSplit
<1>1. ASSUME NEW n \in Nat, \A i \in Nat : i < n => i \in S
      PROVE  n \in S
  <2> SUFFICES ASSUME NEW m, NEW r, NEW c, NEW d,
                      Within(n, size), m \in Nat, r \in Nat, Slice(s, c, d),
                      Rec(R, n, m, r) = Hash(s, c, d)
               PROVE  Occurs(s, c, d, h)
    OBVIOUS
  <2>0. n # 0 /\ c \in Nat /\ c # 0 /\ d \in Nat /\ Within(c, Len(s))
    BY DEF Slice, Within
  <2>h. Hash(s, c, d) # Rejected /\ (Hash(s, c, d) \in LeafHashes <=> c = 1)
    BY MthIsHash
  <2>1. CASE n = 1
    <3>1. Rec(R, n, m, r) = h
      BY <1>0, <2>0, <2>1, <2>h DEF RebuildSplits
    <3>2. c = 1
      BY <2>h, <3>1
    <3>3. Below(0, 1)
      BY DEF Below
    <3>4. At(s, d, 0) = h
      BY <3>1, <3>2, <3>3, MthLeaf, Zenon
    <3> QED
      BY <3>2, <3>3, <3>4 DEF Occurs
  <2>2. CASE n # 1
    <3>1. PICK k, j, p : Halves(n, k, j, 0, p)
      BY <2>0, <2>2, HalvesExist
    <3>r. r # 0
      BY <1>0, <2>0, <2>h, <3>1 DEF RebuildSplits
    <3>2. PICK t : Succ(r, t)
      BY <3>r, ZeroOrSucc
    <3>3. k \in Nat /\ j \in Nat /\ k < n /\ j < n /\ t \in Nat /\ Within(k, size) /\ Within(j, size)
      BY <3>1, <3>2, HalvesFacts DEF Succ, Within
    <3>5. Good(k) /\ Good(j)
      BY <1>1, <3>3
    <3>6. PICK a, b : Rec(R, n, m, r) = NodeHash(a, b)
                      /\ \/ \E q \in Nat : a = Rec(R, k, q, t)
                         \/ \E q \in Nat : b = Rec(R, j, q, t)
      <4>1. CASE Below(m, k)
        <5>1. Rec(R, n, m, r) = NodeHash(Rec(R, k, m, t), Sibling(proof, r))
          BY <1>0, <2>h, <3>1, <3>2, <4>1 DEF RebuildSplits
        <5> QED
          BY <5>1
      <4>2. CASE \E q \in Nat : Above(m, k, q)
        <5>1. PICK q \in Nat : Above(m, k, q)
          BY <4>2
        <5>2. Rec(R, n, m, r) = NodeHash(Sibling(proof, r), Rec(R, j, q, t))
          BY <1>0, <2>h, <3>1, <3>2, <5>1 DEF RebuildSplits
        <5> QED
          BY <5>2
      <4> QED
        BY <3>3, <4>1, <4>2, BelowOrAbove
    <3>7. c # 1
      BY <2>h, <3>6, NodeNoLeaf
    <3>8. PICK k1, j1, p1 : Halves(c, k1, j1, d, p1)
      BY <2>0, <3>7, HalvesExist
    <3>9. Hash(s, c, d) = NodeHash(Hash(s, k1, d), Hash(s, j1, p1))
      BY <1>0, <2>0, <3>8 DEF MthSplits
    <3>10. Slice(s, k1, d) /\ Slice(s, j1, p1)
      BY <3>8, HalvesSlice
    <3>11. a = Hash(s, k1, d) /\ b = Hash(s, j1, p1)
      BY <3>6, <3>9, NodesEqual, Zenon
    <3>12. Occurs(s, k1, d, h) \/ Occurs(s, j1, p1, h)
      BY <3>3, <3>5, <3>6, <3>10, <3>11
    <3> QED
      BY <3>8, <3>12, OccursInHalf
  <2> QED
    BY <2>1, <2>2
<1>2. \A n \in Nat : n \in S
  <2> HIDE DEF S
  <2> QED
    BY <1>1, NatSetInduction
<1> QED
  BY <1>2
SizeOfHash(s, u) ==
  \A n, o, c, d : Slice(s, n, o) /\ Slice(u, c, d) /\ Hash(s, n, o) = Hash(u, c, d) => c = n

\* A hash determines the number of leaves it is made of.
LEMMA HashHasSize ==
  ASSUME NEW s \in Seq(LeafHashes), NEW u \in Seq(LeafHashes)
  PROVE  SizeOfHash(s, u)
<1>1. \A n \in Nat : \A m \in 1..Len(u), o, p \in Nat :
           /\ n \in 1..Len(s) /\ o + n <= Len(s) /\ p + m <= Len(u)
           /\ Mth(s)[n][o] = Mth(u)[m][p]
           => m = n /\ \A j \in 1..n : s[o + j] = u[p + j]
  BY MthInjective
<1> SUFFICES ASSUME NEW n, NEW o, NEW c, NEW d, Slice(s, n, o), Slice(u, c, d),
                    Hash(s, n, o) = Hash(u, c, d)
             PROVE  c = n
  BY DEF SizeOfHash
<1>2. /\ n \in Nat /\ n \in 1..Len(s) /\ o \in Nat /\ o + n <= Len(s)
      /\ c \in 1..Len(u) /\ d \in Nat /\ d + c <= Len(u)
      /\ Mth(s)[n][o] = Mth(u)[c][d]
  BY DEF Slice, Hash
<1> QED
  BY ONLY <1>1, <1>2

\* The path of a slice of n leaves only ever rebuilds hashes of n leaves,
\* under whatever index and size it is offered.
LEMMA RebuildSize ==
  ASSUME NEW s \in Seq(LeafHashes), NEW u \in Seq(LeafHashes), NEW h \in LeafHashes,
         NEW proof, NEW size \in Nat, NEW R, IsRebuild(R, h, proof, size)
  PROVE  \A n \in Nat : \A o, m, r, x, i, c, d :
           /\ Slice(s, n, o) /\ Below(m, n) /\ r \in Nat /\ Follows(proof, r, PathOf(s, n, o, m))
           /\ Within(x, size) /\ i \in Nat /\ Slice(u, c, d)
           /\ Rec(R, x, i, r) = Hash(u, c, d)
           => c = n
<1> DEFINE Good(n) ==
             \A o, m, r, x, i, c, d :
               /\ Slice(s, n, o) /\ Below(m, n) /\ r \in Nat /\ Follows(proof, r, PathOf(s, n, o, m))
               /\ Within(x, size) /\ i \in Nat /\ Slice(u, c, d)
               /\ Rec(R, x, i, r) = Hash(u, c, d)
               => c = n
           S == {n \in Nat : Good(n)}
<1>0. MthSplits(u) /\ PathSplits(s, proof) /\ PathEnds(s, proof) /\ RebuildSplits(R, h, proof, size)
      /\ SizeOfHash(s, u)
  BY MthSplit, PathSplit, PathNotEmpty, RebuildSplit, HashHasSize
<1>1. ASSUME NEW n \in Nat, \A i \in Nat : i < n => i \in S
      PROVE  n \in S
  <2> SUFFICES ASSUME NEW o, NEW m, NEW r, NEW x, NEW i, NEW c, NEW d,
                      Slice(s, n, o), Below(m, n), r \in Nat, Follows(proof, r, PathOf(s, n, o, m)),
                      Within(x, size), i \in Nat, Slice(u, c, d),
                      Rec(R, x, i, r) = Hash(u, c, d)
               PROVE  c = n
    OBVIOUS
  <2>0. /\ n # 0 /\ o \in Nat /\ m \in Nat /\ Within(n, Len(s))
        /\ c \in Nat /\ c # 0 /\ d \in Nat /\ Within(c, Len(u)) /\ x \in Nat /\ x # 0
    BY DEF Slice, Within, Below
  <2>z. r = 0 <=> n = 1
    BY <1>0, <2>0 DEF PathEnds
  <2>h. Hash(u, c, d) # Rejected /\ (Hash(u, c, d) \in LeafHashes <=> c = 1)
    BY MthIsHash
  <2>x. x = 1 <=> r = 0
    <3>1. CASE x = 1
      BY <1>0, <2>0, <2>h, <3>1 DEF RebuildSplits
    <3>2. CASE x # 1
      <4>1. PICK k, j, p : Halves(x, k, j, 0, p)
        BY <2>0, <3>2, HalvesExist
      <4> QED
        BY <1>0, <2>h, <3>2, <4>1 DEF RebuildSplits
    <3> QED
      BY <3>1, <3>2
  <2>1. CASE n = 1
    <3>1. Rec(R, x, i, r) = h
      BY <1>0, <2>0, <2>1, <2>x, <2>z DEF RebuildSplits
    <3> QED
      BY <2>1, <2>h, <3>1
  <2>2. CASE n # 1
    <3>1. PICK k, j, p : Halves(n, k, j, o, p)
      BY <2>0, <2>2, HalvesExist
    <3>2. PICK t : Succ(r, t)
      BY <2>2, <2>z, ZeroOrSucc
    <3>3. k \in Nat /\ j \in Nat /\ k < n /\ j < n /\ t \in Nat /\ n = k + j
      BY <3>1, <3>2, HalvesFacts DEF Succ
    <3>4. Slice(s, k, o) /\ Slice(s, j, p)
      BY <3>1, HalvesSlice
    <3>5. Good(k) /\ Good(j)
      BY <1>1, <3>3
    \* The sibling is the hash of one half, the rest the path of the other.
    <3>6. PICK f, g, e, v, w : /\ Good(f) /\ Slice(s, f, e) /\ Below(w, f) /\ f \in Nat
                               /\ Follows(proof, t, PathOf(s, f, e, w))
                               /\ Slice(s, g, v) /\ Sibling(proof, r) = Hash(s, g, v) /\ g \in Nat
                               /\ f + g = n
      <4>1. CASE Below(m, k)
        <5>1. Sibling(proof, r) = Hash(s, j, p) /\ Follows(proof, t, PathOf(s, k, o, m))
          BY <1>0, <2>0, <3>1, <3>2, <4>1 DEF PathSplits
        <5> HIDE DEF Good
        <5> QED
          BY <3>3, <3>4, <3>5, <4>1, <5>1
      <4>2. CASE \E q \in Nat : Above(m, k, q)
        <5>0. PICK q : Above(m, k, q)
          BY <4>2
        <5>1. Sibling(proof, r) = Hash(s, k, o) /\ Follows(proof, t, PathOf(s, j, p, q))
          BY <1>0, <2>0, <3>1, <3>2, <5>0 DEF PathSplits
        <5>2. Below(q, j)
          BY <3>1, <5>0, AtAbove
        <5>3. j + k = n
          BY <3>3
        <5> HIDE DEF Good
        <5> QED
          BY <3>3, <3>4, <3>5, <5>1, <5>2, <5>3
      <4> QED
        BY <2>0, <3>3, <4>1, <4>2, BelowOrAbove
    \* So are the two parts of the hash that is rebuilt.
    <3>7. PICK y, b : /\ Within(y, size) /\ b \in Nat
                      /\ \/ Rec(R, x, i, r) = NodeHash(Rec(R, y, b, t), Sibling(proof, r))
                         \/ Rec(R, x, i, r) = NodeHash(Sibling(proof, r), Rec(R, y, b, t))
      <4>1. x # 1
        BY <2>2, <2>x, <2>z
      <4>2. PICK kx, jx, px : Halves(x, kx, jx, 0, px)
        BY <2>0, <4>1, HalvesExist
      <4>3. Within(kx, size) /\ Within(jx, size) /\ kx \in Nat
        BY <4>2, HalvesFacts DEF Within
      <4>4. CASE Below(i, kx)
        <5>1. Rec(R, x, i, r) = NodeHash(Rec(R, kx, i, t), Sibling(proof, r))
          BY <1>0, <2>h, <3>2, <4>2, <4>4 DEF RebuildSplits
        <5> QED
          BY <4>3, <5>1
      <4>5. CASE \E q \in Nat : Above(i, kx, q)
        <5>1. PICK q \in Nat : Above(i, kx, q)
          BY <4>5
        <5>2. Rec(R, x, i, r) = NodeHash(Sibling(proof, r), Rec(R, jx, q, t))
          BY <1>0, <2>h, <3>2, <4>2, <5>1 DEF RebuildSplits
        <5> QED
          BY <4>3, <5>2
      <4> QED
        BY <4>3, <4>4, <4>5, BelowOrAbove
    <3>8. c # 1
      BY <2>h, <3>7, NodeNoLeaf
    <3>9. PICK k1, j1, p1 : Halves(c, k1, j1, d, p1)
      BY <2>0, <3>8, HalvesExist
    <3>10. Hash(u, c, d) = NodeHash(Hash(u, k1, d), Hash(u, j1, p1))
      BY <1>0, <2>0, <3>9 DEF MthSplits
    <3>11. Slice(u, k1, d) /\ Slice(u, j1, p1) /\ k1 \in Nat /\ j1 \in Nat /\ c = k1 + j1
      BY <3>9, HalvesSlice, HalvesFacts
    <3>12. CASE Rec(R, x, i, r) = NodeHash(Rec(R, y, b, t), Sibling(proof, r))
      <4>1. Rec(R, y, b, t) = Hash(u, k1, d) /\ Sibling(proof, r) = Hash(u, j1, p1)
        <5>1. NodeHash(Rec(R, y, b, t), Sibling(proof, r)) = NodeHash(Hash(u, k1, d), Hash(u, j1, p1))
          BY <3>10, <3>12
        <5> QED
          BY ONLY <5>1 DEF NodeHash
      <4>2. k1 = f
        BY <3>3, <3>6, <3>7, <3>11, <4>1
      <4>3. j1 = g
        BY <1>0, <3>6, <3>11, <4>1 DEF SizeOfHash
      <4> QED
        BY <3>6, <3>11, <4>2, <4>3
    <3>13. CASE Rec(R, x, i, r) = NodeHash(Sibling(proof, r), Rec(R, y, b, t))
      <4>1. Sibling(proof, r) = Hash(u, k1, d) /\ Rec(R, y, b, t) = Hash(u, j1, p1)
        <5>1. NodeHash(Sibling(proof, r), Rec(R, y, b, t)) = NodeHash(Hash(u, k1, d), Hash(u, j1, p1))
          BY <3>10, <3>13
        <5> QED
          BY ONLY <5>1 DEF NodeHash
      <4>2. j1 = f
        BY <3>3, <3>6, <3>7, <3>11, <4>1
      <4>3. k1 = g
        BY <1>0, <3>6, <3>11, <4>1 DEF SizeOfHash
      <4> QED
        BY <3>6, <3>11, <4>2, <4>3
    <3> QED
      BY <3>7, <3>12, <3>13
  <2> QED
    BY <2>1, <2>2
<1>2. \A n \in Nat : n \in S
  <2> HIDE DEF S
  <2> QED
    BY <1>1, NatSetInduction
<1> QED
  BY <1>2
-----------------------------------------------------------------------------
(***************************************************************************)
(* The verifier, for every list of leaves.                                 *)
(***************************************************************************)
\* The root is the hash of the slice of all the leaves.
LEMMA WholeTree ==
  ASSUME NEW s \in Seq(LeafHashes), s # << >>
  PROVE  Slice(s, Len(s), 0) /\ MerkleRoot(s) = Hash(s, Len(s), 0)
  BY DEF Slice, MerkleRoot, Hash

\* A served path follows itself.
LEMMA AuditPathFollows ==
  ASSUME NEW s \in Seq(LeafHashes), NEW i \in 0..(Len(s) - 1), NEW proof, proof = AuditPath(s, i)
  PROVE  Len(proof) \in Nat /\ Follows(proof, Len(proof), PathOf(s, Len(s), 0, i))
<1> DEFINE V == {Mth(s)[a][b] : a \in 1..Len(s), b \in Nat}
<1>1. \A a \in 1..Len(s), b \in Nat : Mth(s)[a][b] \in V
  OBVIOUS
<1> HIDE DEF V
<1>2. \A a \in Nat : a \in 1..Len(s) => \A b, c \in Nat : Paths(s)[a][b][c] \in Seq(V)
  BY <1>1, PathsType
<1>3. Len(s) \in Nat /\ Len(s) \in 1..Len(s) /\ i \in Nat
  OBVIOUS
<1>4. Paths(s)[Len(s)][0][i] \in Seq(V)
  BY ONLY <1>2, <1>3
<1>5. proof = Paths(s)[Len(s)][0][i]
  BY Zenon DEF AuditPath
<1>6. Len(proof) \in Nat
  BY <1>4, <1>5
<1>7. Follows(proof, Len(proof), proof)
  BY DEF Follows
<1> QED
  BY <1>5, <1>6, <1>7, Zenon DEF PathOf

\* The path served for a leaf verifies.
LEMMA PathVerifies ==
  ASSUME NEW s \in Seq(LeafHashes), NEW i \in 0..(Len(s) - 1)
  PROVE  VerifyInclusionProof(s[i + 1], i, AuditPath(s, i), Len(s), MerkleRoot(s))
<1>1. Len(s) \in Nat /\ Len(s) >= 1 /\ i < Len(s) /\ s # << >> /\ i \in Nat
  OBVIOUS
<1>2. PICK h, proof, n, r, R :
        /\ h = s[i + 1] /\ proof = AuditPath(s, i) /\ n = Len(s) /\ r = Len(proof)
        /\ R = Rebuild(h, proof, n)
  OBVIOUS
<1>3. h \in LeafHashes
  BY <1>1, <1>2
<1>5. r \in Nat /\ Follows(proof, r, PathOf(s, n, 0, i))
  BY <1>2, AuditPathFollows
<1>6. IsRebuild(R, h, proof, n) /\ IsRebuild(R, h, proof, Len(s))
  BY <1>1, <1>2, RebuildIs, Zenon
<1>7. Slice(s, n, 0) /\ Below(i, n) /\ h = At(s, 0, i)
  <2>1. Slice(s, n, 0) /\ Below(i, n)
    BY <1>1, <1>2 DEF Slice, Below
  <2>2. 0 + i + 1 = i + 1
    BY <1>1
  <2> QED
    BY <1>2, <2>1, <2>2, Zenon DEF At
<1>8. Rec(R, n, i, r) = Hash(s, n, 0)
  <2>1. \A nn \in Nat : \A o, m, rr :
           /\ Slice(s, nn, o) /\ Below(m, nn) /\ rr \in Nat /\ h = At(s, o, m)
           /\ Follows(proof, rr, PathOf(s, nn, o, m))
           => Rec(R, nn, m, rr) = Hash(s, nn, o)
    BY <1>3, <1>6, ServedPathRebuilds
  <2>2. n \in Nat
    BY <1>1, <1>2
  <2> QED
    BY ONLY <2>1, <2>2, <1>5, <1>7
<1>9. R[n][i][r] = MerkleRoot(s)
  BY <1>1, <1>2, <1>8, WholeTree, Zenon DEF Rec
<1> QED
  BY <1>1, <1>2, <1>9 DEF VerifyInclusionProof

\* What an accepted claim means for the recursion of the verifier.
LEMMA AcceptedRebuilds ==
  ASSUME NEW s \in Seq(LeafHashes), s # << >>, NEW h, NEW index \in Nat, NEW proof,
         Len(proof) \in Nat, NEW size \in Nat,
         VerifyInclusionProof(h, index, proof, size, MerkleRoot(s))
  PROVE  \E R : /\ IsRebuild(R, h, proof, size)
                /\ Within(size, size) /\ Below(index, size)
                /\ Rec(R, size, index, Len(proof)) = Hash(s, Len(s), 0)
<1>1. PICK R : R = Rebuild(h, proof, size)
  OBVIOUS
<1>2. IsRebuild(R, h, proof, size)
  BY <1>1, RebuildIs, Zenon
<1>3. Within(size, size) /\ Below(index, size)
  BY DEF VerifyInclusionProof, Within, Below
<1>4. R[size][index][Len(proof)] = MerkleRoot(s)
  BY <1>1, Zenon DEF VerifyInclusionProof
<1>5. Rec(R, size, index, Len(proof)) = Hash(s, Len(s), 0)
  BY <1>4, WholeTree, Zenon DEF Rec
<1> QED
  BY <1>2, <1>3, <1>5, Zenon

\* What is accepted against a root is a leaf of its tree, at the claimed
\* position if the size is right.
LEMMA AcceptedIsPresent ==
  ASSUME NEW s \in Seq(LeafHashes), s # << >>, NEW h \in LeafHashes, NEW index \in Nat, NEW proof,
         Len(proof) \in Nat, NEW size \in Nat,
         VerifyInclusionProof(h, index, proof, size, MerkleRoot(s))
  PROVE  /\ \E i \in 1..Len(s) : s[i] = h
         /\ size = Len(s) => s[index + 1] = h
<1>1. PICK R : /\ IsRebuild(R, h, proof, size)
               /\ Within(size, size) /\ Below(index, size)
               /\ Rec(R, size, index, Len(proof)) = Hash(s, Len(s), 0)
  BY AcceptedRebuilds
<1>2. Slice(s, Len(s), 0) /\ Len(s) \in Nat
  BY WholeTree
<1>3. Occurs(s, Len(s), 0, h)
  <2>1. \A n \in Nat : \A m, r, c, d :
           /\ Within(n, size) /\ m \in Nat /\ r \in Nat /\ Slice(s, c, d)
           /\ Rec(R, n, m, r) = Hash(s, c, d)
           => Occurs(s, c, d, h)
    BY <1>1, RebuildPresent
  <2> QED
    BY <2>1, <1>1, <1>2
<1>4. \E i \in 1..Len(s) : s[i] = h
  <2>1. PICK i : Below(i, Len(s)) /\ At(s, 0, i) = h
    BY <1>3 DEF Occurs
  <2>2. i + 1 \in 1..Len(s) /\ 0 + i + 1 = i + 1
    BY <1>2, <2>1 DEF Below
  <2>3. s[i + 1] = h
    BY <2>1, <2>2, Zenon DEF At
  <2> QED
    BY <2>2, <2>3
<1>5. ASSUME size = Len(s) PROVE s[index + 1] = h
  <2>1. \A n \in Nat : \A o, m, r :
           /\ Slice(s, n, o) /\ Below(m, n) /\ r \in Nat
           /\ Rec(R, n, m, r) = Hash(s, n, o)
           => h = At(s, o, m)
    <3>1. IsRebuild(R, h, proof, Len(s))
      BY <1>1, <1>5, Zenon
    <3> QED
      BY <3>1, RebuildSound
  <2>2. h = At(s, 0, index)
    BY <2>1, <1>1, <1>2, <1>5
  <2>3. 0 + index + 1 = index + 1
    OBVIOUS
  <2> QED
    BY <2>2, <2>3, Zenon DEF At
<1> QED
  BY <1>4, <1>5

\* A path of a tree is accepted only against roots of trees of that size.
LEMMA PathHasSize ==
  ASSUME NEW s \in Seq(LeafHashes), NEW i \in 0..(Len(s) - 1),
         NEW u \in Seq(LeafHashes), u # << >>,
         NEW h \in LeafHashes, NEW index \in Nat, NEW size \in Nat,
         VerifyInclusionProof(h, index, AuditPath(s, i), size, MerkleRoot(u))
  PROVE  Len(u) = Len(s)
<1>0. Len(s) \in Nat /\ s # << >> /\ i \in Nat /\ i < Len(s) /\ Len(s) \in 1..Len(s)
  OBVIOUS
<1>1. PICK proof : proof = AuditPath(s, i)
  OBVIOUS
<1>2. Len(proof) \in Nat /\ Follows(proof, Len(proof), PathOf(s, Len(s), 0, i))
  BY <1>1, AuditPathFollows
<1>4. VerifyInclusionProof(h, index, proof, size, MerkleRoot(u))
  BY <1>1, Zenon
<1>5. PICK R : /\ IsRebuild(R, h, proof, size)
               /\ Within(size, size) /\ Below(index, size)
               /\ Rec(R, size, index, Len(proof)) = Hash(u, Len(u), 0)
  BY <1>2, <1>4, AcceptedRebuilds
<1>6. Slice(u, Len(u), 0) /\ Slice(s, Len(s), 0) /\ Below(i, Len(s))
  BY <1>0, WholeTree DEF Below
<1>7. \A n \in Nat : \A o, m, r, x, ii, c, d :
           /\ Slice(s, n, o) /\ Below(m, n) /\ r \in Nat /\ Follows(proof, r, PathOf(s, n, o, m))
           /\ Within(x, size) /\ ii \in Nat /\ Slice(u, c, d)
           /\ Rec(R, x, ii, r) = Hash(u, c, d)
           => c = n
  BY <1>5, RebuildSize
<1> QED
  BY <1>0, <1>2, <1>5, <1>6, <1>7
-----------------------------------------------------------------------------
(***************************************************************************)
(* The auditor.  A claim holds a path of the present leaves, every upload  *)
(* is the attestation of a registration that is in the log, and a bundle   *)
(* is put together from uploads.                                           *)
(***************************************************************************)
Logged(d) == \E i \in 1..Len(leaves) : leaves[i] = LeafHash(d)

LeavesOk == leaves \in Seq(LeafHashes)

ClaimOk ==
  claim # NoClaim =>
    /\ claim.of \in 0..(Len(leaves) - 1) /\ claim.path = AuditPath(leaves, claim.of)
    /\ claim.hash \in LeafHashes /\ claim.index \in Nat /\ claim.size \in Nat

Attestation(u) ==
  /\ \E d \in Data : u.envelope = SignDsse(BuildStatement(d), "registry") /\ Logged(d)
  /\ u.answer.entry # NoValue => u.envelope \in public

PendingOk == pending # NoValue => pending \in Data /\ Logged(pending)

UploadsOk == \A u \in uploads : Attestation(u)

BundleOk ==
  bundle # NoValue =>
    \E u, v \in uploads, key \in {"registry", "issuer"}, d \in Data :
      bundle = BuildBundle(u, v.envelope, key, Digest(d))

AuditInv == LeavesOk /\ ClaimOk /\ PendingOk /\ UploadsOk /\ BundleOk

\* The log only grows, so what is logged stays logged.
LEMMA GrowKeepsLogged ==
  ASSUME LeavesOk, NEW d \in Data, Grow(d)
  PROVE  /\ LeavesOk'
         /\ Logged(d)'
         /\ \A e : Logged(e) => Logged(e)'
<1>1. LeafHash(d) \in LeafHashes
  BY DEF LeafHashes
<1>2. PICK x \in LeafHashes : x = LeafHash(d)
  BY <1>1
<1>3. leaves' = Append(leaves, x) /\ leaves \in Seq(LeafHashes)
  BY <1>2 DEF Grow, LeavesOk
<1>4. /\ leaves' \in Seq(LeafHashes) /\ Len(leaves') = Len(leaves) + 1
      /\ leaves'[Len(leaves) + 1] = x
      /\ \A i \in 1..Len(leaves) : leaves'[i] = leaves[i]
  BY ONLY <1>3, x \in LeafHashes
<1>5. Len(leaves) \in Nat
  BY <1>3
<1>6. Logged(d)'
  BY <1>2, <1>4, <1>5 DEF Logged
<1>7. ASSUME NEW e, Logged(e) PROVE Logged(e)'
  <2>1. PICK i \in 1..Len(leaves) : leaves[i] = LeafHash(e)
    BY <1>7 DEF Logged
  <2>2. i \in 1..Len(leaves') /\ leaves'[i] = LeafHash(e)
    BY <1>4, <1>5, <2>1
  <2> QED
    BY <2>2 DEF Logged
<1> QED
  BY <1>4, <1>6, <1>7 DEF LeavesOk

\* The invariant holds before the first registration.
LEMMA AuditInitOk == AuditInit => AuditInv
  BY DEF AuditInit, Init, AuditInv, LeavesOk, ClaimOk, PendingOk, UploadsOk, BundleOk

\* The auditor of a registry without Rekor.
LEMMA LogNextKeeps ==
  ASSUME AuditInv, Next, UNCHANGED evidence
  PROVE  AuditInv'
<1> USE DEF AuditInv
<1>1. ASSUME NEW d \in Data, Grow(d) PROVE AuditInv'
  <2>1. LeavesOk' /\ \A e : Logged(e) => Logged(e)'
    BY <1>1, GrowKeepsLogged
  <2>2. ClaimOk'
    BY <1>1 DEF Grow, ClaimOk
  <2>3. PendingOk'
    BY <2>1 DEF PendingOk, evidence
  <2>4. UploadsOk'
    BY <2>1 DEF UploadsOk, Attestation, evidence
  <2>5. BundleOk'
    BY DEF BundleOk, evidence
  <2> QED
    BY <2>1, <2>2, <2>3, <2>4, <2>5
<1>2. ASSUME NEW i \in 0..(Len(leaves) - 1), NEW d \in Data, NEW m \in 0..Len(leaves),
             NEW n \in 0..Len(leaves), Claim(i, LeafHash(d), m, n)
      PROVE  AuditInv'
  <2>1. leaves' = leaves /\ LeavesOk'
    BY <1>2 DEF Claim, LeavesOk
  <2>2. /\ claim'.of = i /\ claim'.path = AuditPath(leaves, i)
        /\ claim'.hash = LeafHash(d) /\ claim'.index = m /\ claim'.size = n
    BY <1>2 DEF Claim
  <2>3. LeafHash(d) \in LeafHashes /\ m \in Nat /\ n \in Nat
    BY DEF LeafHashes
  <2>4. ClaimOk'
    BY <2>1, <2>2, <2>3 DEF ClaimOk
  <2>5. PendingOk' /\ UploadsOk' /\ BundleOk'
    BY <2>1 DEF PendingOk, UploadsOk, BundleOk, Attestation, Logged, evidence
  <2> QED
    BY <2>1, <2>4, <2>5
<1> QED
  BY <1>1, <1>2 DEF Next

\* register() up to its leaf.
LEMMA RegisterKeeps ==
  ASSUME AuditInv, NEW d \in Data, Register(d)
  PROVE  AuditInv'
<1> USE DEF AuditInv
<1>1. Grow(d) /\ pending' = d /\ UNCHANGED <<uploads, public, bundle>>
  BY DEF Register
<1>2. LeavesOk' /\ Logged(d)' /\ \A e : Logged(e) => Logged(e)'
  BY <1>1, GrowKeepsLogged
<1>3. ClaimOk'
  BY <1>1 DEF Grow, ClaimOk
<1>4. PendingOk'
  BY <1>1, <1>2 DEF PendingOk
<1>5. UploadsOk'
  BY <1>1, <1>2 DEF UploadsOk, Attestation
<1>6. BundleOk'
  BY <1>1 DEF BundleOk
<1> QED
  BY <1>2, <1>3, <1>4, <1>5, <1>6

\* _attest_to_rekor: signed for the registration whose leaf was appended.
LEMMA AttestKeeps ==
  ASSUME AuditInv, AttestToRekor
  PROVE  AuditInv'
<1> USE DEF AuditInv
<1>1. /\ pending # NoValue /\ pending' = NoValue /\ UNCHANGED <<leaves, claim, bundle>>
  BY DEF AttestToRekor, vars
<1>2. PICK envelope : envelope = SignDsse(BuildStatement(pending), "registry")
  OBVIOUS
<1>3. PICK answer \in Answers(Cardinality(public)) :
        /\ uploads' = uploads \cup {[envelope |-> envelope, answer |-> answer]}
        /\ \E arrived \in {TRUE, ~answer.error} :
             public' = IF arrived THEN public \cup {envelope} ELSE public
  BY <1>2 DEF AttestToRekor
<1>4. answer.entry # NoValue => answer.error = FALSE
  BY <1>3 DEF Answers
<1>5. public \subseteq public'
  BY <1>3
<1>6. answer.entry # NoValue => envelope \in public'
  BY <1>3, <1>4
<1>7. LeavesOk' /\ ClaimOk' /\ PendingOk' /\ (\A e : Logged(e) => Logged(e)')
  BY <1>1 DEF LeavesOk, ClaimOk, PendingOk, Logged
<1>8. PICK w : w = [envelope |-> envelope, answer |-> answer]
  OBVIOUS
<1>9. w.envelope = envelope /\ w.answer = answer /\ uploads' = uploads \cup {w}
  BY <1>3, <1>8
<1>10. Attestation(w)'
  <2>1. PICK d \in Data : d = pending /\ Logged(d)
    BY <1>1 DEF PendingOk
  <2>2. Logged(d)'
    BY <1>7, <2>1
  <2>3. w.envelope = SignDsse(BuildStatement(d), "registry")
    BY <1>2, <1>9, <2>1
  <2>4. w.answer.entry # NoValue => w.envelope \in public'
    BY <1>6, <1>9
  <2> QED
    BY <2>2, <2>3, <2>4 DEF Attestation
<1>11. UploadsOk'
  <2>1. \A u \in uploads : Attestation(u)'
    BY <1>5, <1>7 DEF UploadsOk, Attestation
  <2> QED
    BY <1>9, <1>10, <2>1 DEF UploadsOk
<1>12. BundleOk'
  BY <1>1, <1>9 DEF BundleOk
<1> QED
  BY <1>7, <1>11, <1>12

\* A bundle from the uploads.
LEMMA ExamineKeeps ==
  ASSUME AuditInv, Examine
  PROVE  AuditInv'
<1> USE DEF AuditInv
<1>1. UNCHANGED <<leaves, claim, pending, uploads, public>>
  BY DEF Examine, vars
<1>2. LeavesOk' /\ ClaimOk' /\ PendingOk' /\ UploadsOk'
  BY <1>1 DEF LeavesOk, ClaimOk, PendingOk, UploadsOk, Attestation, Logged
<1>3. BundleOk'
  BY <1>1 DEF Examine, BundleOk
<1> QED
  BY <1>2, <1>3

\* The inductive invariant of the auditor.
THEOREM AuditInvariant == AuditSpec => []AuditInv
<1>1. AuditInit => AuditInv
  BY AuditInitOk
<1>2. AuditInv /\ [AuditNext]_allVars => AuditInv'
  <2> SUFFICES ASSUME AuditInv, [AuditNext]_allVars PROVE AuditInv'
    OBVIOUS
  <2>1. CASE AuditNext
    BY <2>1, LogNextKeeps, RegisterKeeps, AttestKeeps, ExamineKeeps DEF AuditNext
  <2>2. CASE UNCHANGED allVars
    BY <2>2 DEF allVars, vars, evidence, AuditInv, LeavesOk, ClaimOk, PendingOk, UploadsOk,
                BundleOk, Attestation, Logged
  <2> QED
    BY <2>1, <2>2
<1> QED
  BY <1>1, <1>2, PTL DEF AuditSpec

\* The invariants of the run, from AuditInv.
LEMMA PathsVerifyFromInv == AuditInv => ServedPathsVerify
<1> SUFFICES ASSUME AuditInv, NEW i \in 0..(Len(leaves) - 1)
             PROVE  VerifyInclusionProof(leaves[i + 1], i, AuditPath(leaves, i), Len(leaves),
                                         MerkleRoot(leaves))
  BY DEF ServedPathsVerify
<1> QED
  BY PathVerifies DEF AuditInv, LeavesOk

\* A claim is about a path of the leaves of the log.
LEMMA PresentFromInv == AuditInv => AcceptedOnlyIfPresent
<1> SUFFICES ASSUME AuditInv, claim # NoClaim, Accepts(claim, MerkleRoot(leaves))
             PROVE  /\ \E i \in 1..Len(leaves) : leaves[i] = claim.hash
                    /\ claim.size = Len(leaves) => leaves[claim.index + 1] = claim.hash
  BY DEF AcceptedOnlyIfPresent
<1>1. PICK s, h, index, proof, size, of :
        s = leaves /\ h = claim.hash /\ index = claim.index /\ proof = claim.path
        /\ size = claim.size /\ of = claim.of
  OBVIOUS
<1>2. /\ s \in Seq(LeafHashes) /\ h \in LeafHashes /\ index \in Nat /\ size \in Nat
      /\ of \in 0..(Len(s) - 1) /\ proof = AuditPath(s, of)
  BY <1>1 DEF AuditInv, LeavesOk, ClaimOk
<1>3. s # << >> /\ Len(proof) \in Nat
  BY <1>2, AuditPathFollows
<1>4. VerifyInclusionProof(h, index, proof, size, MerkleRoot(s))
  BY <1>1 DEF Accepts
<1>5. (\E i \in 1..Len(s) : s[i] = h) /\ (size = Len(s) => s[index + 1] = h)
  BY ONLY <1>2, <1>3, <1>4, AcceptedIsPresent
<1> QED
  BY <1>1, <1>5

\* An earlier root is the root of a shorter list.
LEMMA OldRootFromInv == AuditInv => OldRootRejectsNewPath
<1> SUFFICES ASSUME AuditInv, claim # NoClaim, NEW n \in 1..(Len(leaves) - 1),
                    Accepts(claim, MerkleRoot(SubSeq(leaves, 1, n)))
             PROVE  FALSE
  BY DEF OldRootRejectsNewPath
<1>1. PICK s, h, index, proof, size, of, u :
        s = leaves /\ h = claim.hash /\ index = claim.index /\ proof = claim.path
        /\ size = claim.size /\ of = claim.of /\ u = SubSeq(leaves, 1, n)
  OBVIOUS
<1>2. /\ s \in Seq(LeafHashes) /\ h \in LeafHashes /\ index \in Nat /\ size \in Nat
      /\ of \in 0..(Len(s) - 1) /\ proof = AuditPath(s, of)
  BY <1>1 DEF AuditInv, LeavesOk, ClaimOk
<1>3. u \in Seq(LeafHashes) /\ Len(u) = n /\ u # << >> /\ n # Len(s)
  BY <1>1, <1>2
<1>4. VerifyInclusionProof(h, index, AuditPath(s, of), size, MerkleRoot(u))
  BY <1>1, <1>2 DEF Accepts
<1>5. Len(u) = Len(s)
  BY ONLY <1>2, <1>3, <1>4, PathHasSize
<1> QED
  BY <1>3, <1>5

\* The accepted envelope is the attestation of one upload.
LEMMA EvidenceFromInv == AuditInv => AcceptedEvidenceHolds
<1> SUFFICES ASSUME AuditInv, bundle # NoValue,
                    VerifyInclusionOffline(bundle.entry, bundle.envelope, bundle.key, bundle.expected)
             PROVE  /\ bundle.key = "registry"
                    /\ bundle.own => bundle.envelope \in public
                    /\ \E d \in Data, i \in 1..Len(leaves) :
                         bundle.expected = Digest(d) /\ leaves[i] = LeafHash(d)
  BY DEF AcceptedEvidenceHolds
<1>1. PICK u \in uploads, v \in uploads, key \in {"registry", "issuer"}, d \in Data :
        bundle = BuildBundle(u, v.envelope, key, Digest(d))
  BY DEF AuditInv, BundleOk
<1>2. /\ bundle.entry = u.answer.entry /\ bundle.envelope = v.envelope /\ bundle.key = key
      /\ bundle.expected = Digest(d) /\ bundle.own = (u.envelope = v.envelope)
  BY <1>1 DEF BuildBundle
<1>3. Attestation(u) /\ Attestation(v)
  BY DEF AuditInv, UploadsOk
<1>4. PICK e \in Data : v.envelope = SignDsse(BuildStatement(e), "registry") /\ Logged(e)
  BY <1>3 DEF Attestation
<1>5. VerifyDsse(v.envelope, key) /\ v.envelope.payload.digest = Digest(d) /\ u.answer.entry # NoValue
  BY <1>2 DEF VerifyInclusionOffline
<1>6. v.envelope.payload.digest = Digest(e)
  BY <1>4 DEF SignDsse, BuildStatement
<1>7. d = e
  BY <1>5, <1>6 DEF Digest
<1>8. key = "registry"
  BY <1>4, <1>5 DEF VerifyDsse, SignDsse
<1>9. u.envelope = v.envelope => v.envelope \in public
  BY <1>3, <1>5 DEF Attestation
<1> QED
  BY <1>2, <1>4, <1>7, <1>8, <1>9 DEF Logged

\* Completeness, for every size of the log: the path get_proof serves for a
\* leaf is accepted by verify_inclusion_proof against the root.
THEOREM PathsVerify == AuditSpec => []ServedPathsVerify
  BY AuditInvariant, PathsVerifyFromInv, PTL

\* Soundness, for every size: whatever leaf, index and size a path is offered
\* with, an accepted claim is about a leaf of the log.
THEOREM AcceptedArePresent == AuditSpec => []AcceptedOnlyIfPresent
  BY AuditInvariant, PresentFromInv, PTL

\* No path of the grown log is accepted against an earlier root.
THEOREM OldRootsReject == AuditSpec => []OldRootRejectsNewPath
  BY AuditInvariant, OldRootFromInv, PTL

\* What verify_inclusion_offline accepts was signed by the registry, for a
\* registration that is in its log.
THEOREM EvidenceHolds == AuditSpec => []AcceptedEvidenceHolds
  BY AuditInvariant, EvidenceFromInv, PTL
=============================================================================
