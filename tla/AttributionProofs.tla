-------------------------- MODULE AttributionProofs --------------------------
(***************************************************************************)
(* Theorems about Attribution, for all texts, marks, frame densities,      *)
(* dictionaries and excerpts: what is read from a leaked text is the       *)
(* leaker's mark or nothing, layer by layer, whatever was dropped from it. *)
(*                                                                         *)
(* Each layer has an invariant of its own that edits keep.  L1: every bit  *)
(* of the text belongs to the beginning of a frame of the mark (Framed),   *)
(* and the first joiner opens a whole frame (Opens).  L2: each line ends   *)
(* without whitespace or in the sign of the bit of its place in the whole  *)
(* text (Trails).  L3 and fingerprint: the leaked document is a part of    *)
(* the copy (DocInv).  Matcher: a row of the table is the leaker's with    *)
(* the copy's mark or the bystander's with another (RowsInv).              *)
(***************************************************************************)
EXTENDS Attribution, FiniteSetTheorems, SequenceTheorems, WellFoundedInduction, TLAPS

-----------------------------------------------------------------------------
(***************************************************************************)
(* Induction, and the solutions of the recursive functions.                *)
(* The library's induction theorems take a predicate as a parameter; over  *)
(* a set the principle follows from the least element.  A recursive        *)
(* function is shown to have a solution before its equation is used.       *)
(***************************************************************************)

\* A non-empty set of naturals has a least element.
LEMMA LeastNat ==
  ASSUME NEW T \in SUBSET Nat, T # {}
  PROVE  \E x \in T : \A y \in T : x <= y
<1> DEFINE R == OpToRel(<, Nat)
<1>1. IsWellFoundedOn(R, Nat)
  BY NatLessThanWellFounded
<1>2. \A x, y \in Nat : y < x => <<y, x>> \in R
  BY DEF OpToRel
<1> HIDE DEF R
<1>3. PICK x \in T : \A y \in T : ~ (<<y, x>> \in R)
  BY <1>1, WFMin
<1>4. \A y \in T : ~ (y < x)
  BY <1>2, <1>3
<1> QED
  BY <1>4

\* Induction in steps of one, over a set instead of a predicate.
LEMMA StepInduction ==
  ASSUME NEW S, 0 \in S, \A n \in Nat : n \in S => n + 1 \in S
  PROVE  \A n \in Nat : n \in S
<1>1. SUFFICES ASSUME NEW k \in Nat, k \notin S PROVE FALSE
  OBVIOUS
<1> DEFINE T == {n \in Nat : n \notin S}
<1>2. T \in SUBSET Nat /\ T # {}
  BY <1>1
<1>3. PICK x \in T : \A y \in T : x <= y
  BY <1>2, LeastNat
<1>4. x \in Nat /\ x \notin S /\ x # 0
  BY <1>3
<1>5. x - 1 \in Nat /\ (x - 1) + 1 = x /\ x - 1 \notin T
  BY <1>3, <1>4
<1> QED
  BY <1>4, <1>5

\* The same up to a bound.
LEMMA BoundedInduction ==
  ASSUME NEW m \in Nat, NEW S, 0 \in S, \A n \in 0..m : n # m /\ n \in S => n + 1 \in S
  PROVE  \A n \in 0..m : n \in S
<1> DEFINE T == {n \in Nat : n <= m => n \in S}
<1>1. 0 \in T
  OBVIOUS
<1>2. \A n \in Nat : n \in T => n + 1 \in T
  <2> TAKE n \in Nat
  <2> SUFFICES ASSUME n <= m => n \in S, n + 1 <= m PROVE n + 1 \in S
    OBVIOUS
  <2>1. n \in 0..m /\ n # m /\ n \in S
    OBVIOUS
  <2> QED
    BY <2>1
<1>3. \A n \in Nat : n \in T
  <2> HIDE DEF T
  <2> QED
    BY <1>1, <1>2, StepInduction
<1> QED
  BY <1>3

\* f is the solution of the recursion f[0] = base, f[i] = step[f[i - 1], i].
Climbs(f, D, n, base, step) ==
  f \in [0..n -> D] /\ f[0] = base /\ \A i \in 1..n : f[i] = step[<<f[i - 1], i>>]

\* A recursion upwards from 0 has a solution.
LEMMA UpRecursion ==
  ASSUME NEW D, NEW n \in Nat, NEW base \in D, NEW step \in [D \X (1..n) -> D]
  PROVE  \E f : Climbs(f, D, n, base, step)
<1> DEFINE Good(f, m) == /\ f \in [0..m -> D] /\ f[0] = base
                         /\ \A i \in 1..m : f[i] = step[<<f[i - 1], i>>]
           S == {m \in 0..n : \E f : Good(f, m)}
<1>1. 0 \in S
  <2>1. Good([i \in 0..0 |-> base], 0)
    OBVIOUS
  <2> HIDE DEF Good
  <2> QED
    BY <2>1
<1>2. ASSUME NEW m \in 0..n, m # n, m \in S PROVE m + 1 \in S
  <2>1. PICK f : Good(f, m)
    BY <1>2
  <2> DEFINE g == [i \in 0..(m + 1) |-> IF i = m + 1 THEN step[<<f[m], m + 1>>] ELSE f[i]]
  <2>2. step[<<f[m], m + 1>>] \in D
    <3>1. f[m] \in D /\ m + 1 \in 1..n
      BY <2>1, <1>2
    <3>2. <<f[m], m + 1>> \in D \X (1..n)
      BY <3>1
    <3> QED
      BY <3>2
  <2>3. g \in [0..(m + 1) -> D] /\ g[0] = base
    BY <2>1, <2>2
  <2>4. ASSUME NEW i \in 1..(m + 1) PROVE g[i] = step[<<g[i - 1], i>>]
    <3>1. i - 1 \in 0..m /\ g[i - 1] = f[i - 1]
      OBVIOUS
    <3>2. CASE i = m + 1
      <4>1. i - 1 = m /\ i \in 0..(m + 1)
        BY <3>2
      <4>2. g[i] = step[<<f[m], m + 1>>] /\ g[i - 1] = f[m]
        BY <3>2, <3>1, <4>1
      <4> QED
        BY <4>2, <3>2, Zenon
    <3>3. CASE i # m + 1
      <4>1. i \in 1..m /\ g[i] = f[i]
        BY <3>3
      <4>2. f[i] = step[<<f[i - 1], i>>]
        BY <4>1, <2>1
      <4> QED
        BY <4>1, <4>2, <3>1, Zenon
    <3> QED
      BY <3>2, <3>3
  <2>5. Good(g, m + 1)
    BY <2>3, <2>4
  <2>6. m + 1 \in 0..n
    BY <1>2
  <2> HIDE DEF Good, g
  <2> QED
    BY <2>5, <2>6
<1>3. n \in S
  <2> HIDE DEF S
  <2>1. \A m \in 0..n : m \in S
    BY <1>1, <1>2, BoundedInduction
  <2> QED
    BY <2>1
<1> QED
  BY <1>3 DEF Climbs

\* f is the solution of a recursion downwards: the value at i up to n is got
\* from the one at a larger index; the values beyond n are given.
Descends(f, D, n, top, base, next, step) ==
  /\ f \in [1..top -> D]
  /\ \A i \in 1..top : f[i] = IF i > n THEN base[i] ELSE step[<<f[next[i]], i>>]

\* A recursion downwards has a solution.
LEMMA DownRecursion ==
  ASSUME NEW D, NEW n \in Nat, NEW top \in Nat, n < top, NEW base \in [1..top -> D],
         NEW next, \A i \in 1..n : next[i] \in (i + 1)..top,
         NEW step \in [D \X (1..n) -> D]
  PROVE  \E f : Descends(f, D, n, top, base, next, step)
<1> DEFINE Good(f, m) == /\ f \in [1..top -> D]
                         /\ \A i \in 1..top : i > n => f[i] = base[i]
                         /\ \A i \in 1..n : i > n - m => f[i] = step[<<f[next[i]], i>>]
           S == {m \in 0..n : \E f : Good(f, m)}
<1>1. 0 \in S
  <2>1. Good(base, 0)
    OBVIOUS
  <2> HIDE DEF Good
  <2> QED
    BY <2>1
<1>2. ASSUME NEW m \in 0..n, m # n, m \in S PROVE m + 1 \in S
  <2>1. PICK f : Good(f, m)
    BY <1>2
  <2>2. PICK k \in 1..n : k = n - m
    BY <1>2
  <2> DEFINE v == step[<<f[next[k]], k>>]
             g == [i \in 1..top |-> IF i = k THEN v ELSE f[i]]
  <2>3. v \in D
    <3>1. f[next[k]] \in D /\ k \in 1..n
      BY <2>1, <2>2
    <3>2. <<f[next[k]], k>> \in D \X (1..n)
      BY <3>1
    <3> QED
      BY <3>2
  <2>4. g \in [1..top -> D]
    BY <2>1, <2>3
  <2>5. \A i \in 1..top : i > n => g[i] = base[i]
    BY <2>1, <2>2
  <2>6. ASSUME NEW i \in 1..n, i > n - (m + 1) PROVE g[i] = step[<<g[next[i]], i>>]
    <3>1. next[i] \in 1..top /\ next[i] # k
      BY <2>2, <2>6
    <3>2. g[next[i]] = f[next[i]]
      BY <3>1
    <3>3. CASE i = k
      <4>1. g[i] = v
        BY <3>3
      <4> QED
        BY <4>1, <3>2, <3>3, Zenon
    <3>4. CASE i # k
      <4>1. i > n - m /\ g[i] = f[i]
        BY <3>4, <2>6, <2>2
      <4>2. f[i] = step[<<f[next[i]], i>>]
        BY <4>1, <2>1
      <4> QED
        BY <4>1, <4>2, <3>2, Zenon
    <3> QED
      BY <3>3, <3>4
  <2>7. Good(g, m + 1)
    BY <2>4, <2>5, <2>6
  <2>8. m + 1 \in 0..n
    BY <1>2
  <2> HIDE DEF Good, g
  <2> QED
    BY <2>7, <2>8
<1>3. n \in S
  <2> HIDE DEF S
  <2>1. \A m \in 0..n : m \in S
    BY <1>1, <1>2, BoundedInduction
  <2> QED
    BY <2>1
<1>4. PICK f : Good(f, n)
  BY <1>3
<1>5. \A i \in 1..n : f[i] = step[<<f[next[i]], i>>]
  BY <1>4
<1>6. f \in [1..top -> D]
  BY <1>4
<1>7. ASSUME NEW i \in 1..top
      PROVE  f[i] = IF i > n THEN base[i] ELSE step[<<f[next[i]], i>>]
  <2>1. CASE i > n
    BY <2>1, <1>4
  <2>2. CASE ~ (i > n)
    <3>1. i \in 1..n
      BY <2>2
    <3>2. f[i] = step[<<f[next[i]], i>>]
      BY <3>1, <1>5
    <3> QED
      BY <3>2, <2>2, Zenon
  <2> QED
    BY <2>1, <2>2
<1> QED
  BY <1>6, <1>7, Zenon DEF Descends


\* Induction over sequences.
LEMMA SeqInduction ==
  ASSUME NEW A, NEW S, << >> \in S, \A s \in Seq(A), e \in A : s \in S => Append(s, e) \in S
  PROVE  \A s \in Seq(A) : s \in S
<1> DEFINE T == {n \in Nat : \A s \in Seq(A) : Len(s) = n => s \in S}
<1>1. 0 \in T
  OBVIOUS
<1>2. ASSUME NEW n \in Nat, n \in T PROVE n + 1 \in T
  <2> SUFFICES ASSUME NEW s \in Seq(A), Len(s) = n + 1 PROVE s \in S
    OBVIOUS
  <2>1. s # << >>
    OBVIOUS
  <2>2. PICK u \in Seq(A), e \in A : s = Append(u, e)
    BY <2>1, SequenceEmptyOrAppend
  <2>3. Len(u) = n
    BY <2>2
  <2> QED
    BY <2>2, <2>3, <1>2
<1>3. \A n \in Nat : n \in T
  <2> HIDE DEF T
  <2> QED
    BY <1>1, <1>2, StepInduction
<1> QED
  BY <1>3

\* Without, one member after the other.
WithoutSteps(f, A, s, X) ==
  /\ f \in [0..Len(s) -> Seq(A)] /\ f[0] = << >> /\ f[Len(s)] = Without(s, X)
  /\ \A i \in 1..Len(s) : f[i] = IF s[i] \in X THEN f[i - 1] ELSE Append(f[i - 1], s[i])

\* The recursion has a solution.
LEMMA WithoutSolved ==
  ASSUME NEW A, NEW s \in Seq(A), NEW X
  PROVE  \E f : WithoutSteps(f, A, s, X)
<1> DEFINE V == Seq(A)
           m == Len(s)
           base == << >>
           Op(x, i) == IF s[i] \in X THEN x ELSE Append(x, s[i])
           P(f) == f = [i \in 0..m |-> IF i = 0 THEN base ELSE Op(f[i - 1], i)]
           F == CHOOSE f : P(f)
           step == [y \in V \X (1..m) |-> Op(y[1], y[2])]
<1>1. Without(s, X) = F[m]
  BY DEF Without
<1>2. m \in Nat /\ base \in V
  OBVIOUS
<1>3. ASSUME NEW x \in V, NEW i \in 1..m PROVE Op(x, i) \in V
  OBVIOUS
<1> HIDE DEF V, m, base, Op
<1>4. step \in [V \X (1..m) -> V] /\ \A x \in V, i \in 1..m : step[<<x, i>>] = Op(x, i)
  BY <1>3
<1> HIDE DEF step
<1>5. PICK g : Climbs(g, V, m, base, step)
  BY <1>2, <1>4, UpRecursion
<1>6. ASSUME NEW i \in 1..m PROVE g[i] = Op(g[i - 1], i)
  <2>1. i - 1 \in 0..m
    BY <1>2
  <2> QED
    BY <2>1, <1>4, <1>5 DEF Climbs
<1>7. P(g)
  BY <1>2, <1>5, <1>6 DEF Climbs
<1> HIDE DEF P
<1>8. P(F)
  BY <1>7, Zenon
<1> HIDE DEF F
<1>9. F = [i \in 0..m |-> IF i = 0 THEN base ELSE Op(F[i - 1], i)]
  BY <1>8 DEF P
<1>10. F[0] = base /\ \A i \in 1..m : F[i] = Op(F[i - 1], i)
  BY <1>2, <1>9
<1>11. \A i \in 0..m : F[i] \in V
  <2> DEFINE S0 == {i \in Nat : F[i] \in V}
  <2>1. 0 \in S0
    BY <1>2, <1>10
  <2>2. ASSUME NEW i \in 0..m, i # m, i \in S0 PROVE i + 1 \in S0
    <3>1. i + 1 \in 1..m /\ (i + 1) - 1 = i
      BY <1>2, <2>2
    <3> QED
      BY <3>1, <2>2, <1>3, <1>10
  <2> HIDE DEF S0
  <2>3. \A i \in 0..m : i \in S0
    BY <1>2, <2>1, <2>2, BoundedInduction
  <2> QED
    BY <2>3 DEF S0
<1>12. F \in [0..m -> V]
  BY <1>9, <1>11
<1>13. WithoutSteps(F, A, s, X)
  BY <1>1, <1>10, <1>12 DEF V, m, base, Op, WithoutSteps
<1> QED
  BY <1>13

\* Nothing to do.
LEMMA WithoutNil ==
  ASSUME NEW A, NEW X
  PROVE  Without(<< >>, X) = << >>
<1>1. << >> \in Seq(A) /\ Len(<< >>) = 0
  BY EmptySeq
<1>2. PICK f : WithoutSteps(f, A, << >>, X)
  BY <1>1, WithoutSolved
<1> QED
  BY <1>1, <1>2 DEF WithoutSteps

\* One more step.
LEMMA WithoutAppend ==
  ASSUME NEW A, NEW s \in Seq(A), NEW e \in A, NEW X
  PROVE  /\ Without(s, X) \in Seq(A)
         /\ Without(Append(s, e), X) = IF e \in X THEN Without(s, X) ELSE Append(Without(s, X), e)
<1> DEFINE t == Append(s, e)
           n == Len(s)
<1>1. /\ t \in Seq(A) /\ n \in Nat /\ Len(t) = n + 1
      /\ t[n + 1] = e /\ \A i \in 1..n : t[i] = s[i]
  BY AppendProperties
<1> HIDE DEF t
<1>2. PICK f : WithoutSteps(f, A, s, X)
  BY WithoutSolved
<1>3. PICK h : WithoutSteps(h, A, t, X)
  BY <1>1, WithoutSolved
<1> DEFINE Op(x, y) == IF y \in X THEN x ELSE Append(x, y)
<1>4. f[0] = << >> /\ f[n] = Without(s, X) /\ \A i \in 1..n : f[i] = Op(f[i - 1], s[i])
  BY <1>1, <1>2 DEF WithoutSteps
<1>5. h[0] = << >> /\ h[n + 1] = Without(t, X) /\ \A i \in 1..(n + 1) : h[i] = Op(h[i - 1], t[i])
  BY <1>1, <1>3 DEF WithoutSteps
<1>6. Without(s, X) \in Seq(A)
  <2>1. n \in 0..Len(s) /\ f \in [0..Len(s) -> Seq(A)]
    BY <1>1, <1>2 DEF WithoutSteps
  <2> QED
    BY <2>1, <1>4
<1> HIDE DEF Op
<1>7. \A i \in 0..n : h[i] = f[i]
  <2> DEFINE S0 == {i \in Nat : h[i] = f[i]}
  <2>1. 0 \in S0
    BY <1>4, <1>5
  <2>2. ASSUME NEW i \in 0..n, i # n, i \in S0 PROVE i + 1 \in S0
    <3>1. i + 1 \in 1..n /\ i + 1 \in 1..(n + 1) /\ (i + 1) - 1 = i
      BY <2>2
    <3>2. h[i] = f[i] /\ t[i + 1] = s[i + 1]
      BY <2>2, <3>1, <1>1
    <3>3. h[i + 1] = Op(h[i], t[i + 1]) /\ f[i + 1] = Op(f[i], s[i + 1])
      BY <3>1, <1>4, <1>5
    <3> QED
      BY <3>2, <3>3
  <2> HIDE DEF S0
  <2>3. \A i \in 0..n : i \in S0
    BY <1>1, <2>1, <2>2, BoundedInduction
  <2> QED
    BY <2>3 DEF S0
<1>8. n + 1 \in 1..(n + 1) /\ (n + 1) - 1 = n /\ h[n] = f[n]
  BY <1>7
<1>9. h[n + 1] = Op(h[n], t[n + 1])
  BY <1>5, <1>8
<1>10. Without(t, X) = Op(Without(s, X), e)
  BY <1>1, <1>4, <1>5, <1>8, <1>9, Zenon
<1> QED
  BY <1>6, <1>10 DEF Op, t

\* str.split, one character after the other.
LinesSteps(f, A, s) ==
  /\ f \in [0..Len(s) -> (Seq(Seq(A)) \ {<< >>})] /\ f[0] = << << >> >> /\ f[Len(s)] = Lines(s)
  /\ \A i \in 1..Len(s) : f[i] = IF s[i] = "nl" THEN Append(f[i - 1], << >>) ELSE [f[i - 1] EXCEPT ![Len(f[i - 1])] = Append(@, s[i])]

\* The recursion has a solution.
LEMMA LinesSolved ==
  ASSUME NEW A, NEW s \in Seq(A)
  PROVE  \E f : LinesSteps(f, A, s)
<1> DEFINE V == (Seq(Seq(A)) \ {<< >>})
           m == Len(s)
           base == << << >> >>
           Op(x, i) == IF s[i] = "nl" THEN Append(x, << >>) ELSE [x EXCEPT ![Len(x)] = Append(@, s[i])]
           P(f) == f = [i \in 0..m |-> IF i = 0 THEN base ELSE Op(f[i - 1], i)]
           F == CHOOSE f : P(f)
           step == [y \in V \X (1..m) |-> Op(y[1], y[2])]
<1>1. Lines(s) = F[m]
  BY DEF Lines
<1>2. m \in Nat /\ base \in V
  OBVIOUS
<1>3. ASSUME NEW x \in V, NEW i \in 1..m PROVE Op(x, i) \in V
  OBVIOUS
<1> HIDE DEF V, m, base, Op
<1>4. step \in [V \X (1..m) -> V] /\ \A x \in V, i \in 1..m : step[<<x, i>>] = Op(x, i)
  BY <1>3
<1> HIDE DEF step
<1>5. PICK g : Climbs(g, V, m, base, step)
  BY <1>2, <1>4, UpRecursion
<1>6. ASSUME NEW i \in 1..m PROVE g[i] = Op(g[i - 1], i)
  <2>1. i - 1 \in 0..m
    BY <1>2
  <2> QED
    BY <2>1, <1>4, <1>5 DEF Climbs
<1>7. P(g)
  BY <1>2, <1>5, <1>6 DEF Climbs
<1> HIDE DEF P
<1>8. P(F)
  BY <1>7, Zenon
<1> HIDE DEF F
<1>9. F = [i \in 0..m |-> IF i = 0 THEN base ELSE Op(F[i - 1], i)]
  BY <1>8 DEF P
<1>10. F[0] = base /\ \A i \in 1..m : F[i] = Op(F[i - 1], i)
  BY <1>2, <1>9
<1>11. \A i \in 0..m : F[i] \in V
  <2> DEFINE S0 == {i \in Nat : F[i] \in V}
  <2>1. 0 \in S0
    BY <1>2, <1>10
  <2>2. ASSUME NEW i \in 0..m, i # m, i \in S0 PROVE i + 1 \in S0
    <3>1. i + 1 \in 1..m /\ (i + 1) - 1 = i
      BY <1>2, <2>2
    <3> QED
      BY <3>1, <2>2, <1>3, <1>10
  <2> HIDE DEF S0
  <2>3. \A i \in 0..m : i \in S0
    BY <1>2, <2>1, <2>2, BoundedInduction
  <2> QED
    BY <2>3 DEF S0
<1>12. F \in [0..m -> V]
  BY <1>9, <1>11
<1>13. LinesSteps(F, A, s)
  BY <1>1, <1>10, <1>12 DEF V, m, base, Op, LinesSteps
<1> QED
  BY <1>13

\* Nothing to do.
LEMMA LinesNil ==
  ASSUME NEW A
  PROVE  Lines(<< >>) = << << >> >>
<1>1. << >> \in Seq(A) /\ Len(<< >>) = 0
  BY EmptySeq
<1>2. PICK f : LinesSteps(f, A, << >>)
  BY <1>1, LinesSolved
<1> QED
  BY <1>1, <1>2 DEF LinesSteps

\* One more step.
LEMMA LinesAppend ==
  ASSUME NEW A, NEW s \in Seq(A), NEW e \in A
  PROVE  /\ Lines(s) \in (Seq(Seq(A)) \ {<< >>})
         /\ Lines(Append(s, e)) = IF e = "nl" THEN Append(Lines(s), << >>) ELSE [Lines(s) EXCEPT ![Len(Lines(s))] = Append(@, e)]
<1> DEFINE t == Append(s, e)
           n == Len(s)
<1>1. /\ t \in Seq(A) /\ n \in Nat /\ Len(t) = n + 1
      /\ t[n + 1] = e /\ \A i \in 1..n : t[i] = s[i]
  BY AppendProperties
<1> HIDE DEF t
<1>2. PICK f : LinesSteps(f, A, s)
  BY LinesSolved
<1>3. PICK h : LinesSteps(h, A, t)
  BY <1>1, LinesSolved
<1> DEFINE Op(x, y) == IF y = "nl" THEN Append(x, << >>) ELSE [x EXCEPT ![Len(x)] = Append(@, y)]
<1>4. f[0] = << << >> >> /\ f[n] = Lines(s) /\ \A i \in 1..n : f[i] = Op(f[i - 1], s[i])
  BY <1>1, <1>2 DEF LinesSteps
<1>5. h[0] = << << >> >> /\ h[n + 1] = Lines(t) /\ \A i \in 1..(n + 1) : h[i] = Op(h[i - 1], t[i])
  BY <1>1, <1>3 DEF LinesSteps
<1>6. Lines(s) \in (Seq(Seq(A)) \ {<< >>})
  <2>1. n \in 0..Len(s) /\ f \in [0..Len(s) -> (Seq(Seq(A)) \ {<< >>})]
    BY <1>1, <1>2 DEF LinesSteps
  <2> QED
    BY <2>1, <1>4
<1> HIDE DEF Op
<1>7. \A i \in 0..n : h[i] = f[i]
  <2> DEFINE S0 == {i \in Nat : h[i] = f[i]}
  <2>1. 0 \in S0
    BY <1>4, <1>5
  <2>2. ASSUME NEW i \in 0..n, i # n, i \in S0 PROVE i + 1 \in S0
    <3>1. i + 1 \in 1..n /\ i + 1 \in 1..(n + 1) /\ (i + 1) - 1 = i
      BY <2>2
    <3>2. h[i] = f[i] /\ t[i + 1] = s[i + 1]
      BY <2>2, <3>1, <1>1
    <3>3. h[i + 1] = Op(h[i], t[i + 1]) /\ f[i + 1] = Op(f[i], s[i + 1])
      BY <3>1, <1>4, <1>5
    <3> QED
      BY <3>2, <3>3
  <2> HIDE DEF S0
  <2>3. \A i \in 0..n : i \in S0
    BY <1>1, <2>1, <2>2, BoundedInduction
  <2> QED
    BY <2>3 DEF S0
<1>8. n + 1 \in 1..(n + 1) /\ (n + 1) - 1 = n /\ h[n] = f[n]
  BY <1>7
<1>9. h[n + 1] = Op(h[n], t[n + 1])
  BY <1>5, <1>8
<1>10. Lines(t) = Op(Lines(s), e)
  BY <1>1, <1>4, <1>5, <1>8, <1>9, Zenon
<1> QED
  BY <1>6, <1>10 DEF Op, t

\* Powers of two.
LEMMA Pow2Steps ==
  ASSUME NEW n \in Nat
  PROVE  \E f \in [0..n -> Nat \ {0}] :
           /\ f[0] = 1 /\ f[n] = Pow2(n)
           /\ \A i \in 1..n : f[i] = 2 * f[i - 1]
<1> DEFINE V == Nat \ {0}
           m == n
           base == 1
           Op(x, i) == 2 * x
           P(f) == f = [i \in 0..m |-> IF i = 0 THEN base ELSE Op(f[i - 1], i)]
           F == CHOOSE f : P(f)
           step == [y \in V \X (1..m) |-> Op(y[1], y[2])]
<1>1. Pow2(n) = F[m]
  BY DEF Pow2
<1>2. m \in Nat /\ base \in V
  OBVIOUS
<1>3. ASSUME NEW x \in V, NEW i \in 1..m PROVE Op(x, i) \in V
  OBVIOUS
<1> HIDE DEF V, m, base, Op
<1>4. step \in [V \X (1..m) -> V] /\ \A x \in V, i \in 1..m : step[<<x, i>>] = Op(x, i)
  BY <1>3
<1> HIDE DEF step
<1>5. PICK g : Climbs(g, V, m, base, step)
  BY <1>2, <1>4, UpRecursion
<1>6. ASSUME NEW i \in 1..m PROVE g[i] = Op(g[i - 1], i)
  <2>1. i - 1 \in 0..m
    BY <1>2
  <2> QED
    BY <2>1, <1>4, <1>5 DEF Climbs
<1>7. P(g)
  BY <1>2, <1>5, <1>6 DEF Climbs
<1> HIDE DEF P
<1>8. P(F)
  BY <1>7, Zenon
<1> HIDE DEF F
<1>9. F = [i \in 0..m |-> IF i = 0 THEN base ELSE Op(F[i - 1], i)]
  BY <1>8 DEF P
<1>10. F[0] = base /\ \A i \in 1..m : F[i] = Op(F[i - 1], i)
  BY <1>2, <1>9
<1>11. \A i \in 0..m : F[i] \in V
  <2> DEFINE S == {i \in Nat : F[i] \in V}
  <2>1. 0 \in S
    BY <1>2, <1>10
  <2>2. ASSUME NEW i \in 0..m, i # m, i \in S PROVE i + 1 \in S
    <3>1. i + 1 \in 1..m /\ (i + 1) - 1 = i
      BY <1>2, <2>2
    <3> QED
      BY <3>1, <2>2, <1>3, <1>10
  <2> HIDE DEF S
  <2>3. \A i \in 0..m : i \in S
    BY <1>2, <2>1, <2>2, BoundedInduction
  <2> QED
    BY <2>3 DEF S
<1>12. F \in [0..m -> V]
  BY <1>9, <1>11
<1>13. /\ F \in [0..n -> Nat \ {0}] /\ F[0] = 1 /\ F[n] = Pow2(n)
       /\ \A i \in 1..n : F[i] = 2 * F[i - 1]
  BY <1>1, <1>10, <1>12 DEF V, m, base, Op
<1> QED
  BY <1>13

\* Flattening a list of sequences, one after the other.
FlattenSteps(f, A, s) ==
  /\ f \in [0..Len(s) -> Seq(A)] /\ f[0] = << >> /\ f[Len(s)] = FlattenSeq(s)
  /\ \A i \in 1..Len(s) : f[i] = f[i - 1] \o s[i]

\* The recursion has a solution.
LEMMA FlattenSolved ==
  ASSUME NEW A, NEW ss \in Seq(Seq(A))
  PROVE  \E f : FlattenSteps(f, A, ss)
<1> DEFINE V == Seq(A)
           m == Len(ss)
           base == << >>
           Op(x, i) == x \o ss[i]
           P(f) == f = [i \in 1..m |-> IF i = 1 THEN ss[i] ELSE Op(f[i - 1], i)]
           F == CHOOSE f : P(f)
           step == [y \in V \X (1..m) |-> Op(y[1], y[2])]
<1>1. FlattenSeq(ss) = IF m = 0 THEN ss ELSE F[m]
  BY DEF FlattenSeq
<1>2. m \in Nat /\ base \in V /\ (m = 0 => ss = base)
  OBVIOUS
<1>3. ASSUME NEW x \in V, NEW i \in 1..m PROVE Op(x, i) \in V
  OBVIOUS
<1>4. ASSUME NEW i \in 1..m PROVE ss[i] = Op(base, i)
  OBVIOUS
<1> HIDE DEF V, m, base, Op
<1>5. step \in [V \X (1..m) -> V] /\ \A x \in V, i \in 1..m : step[<<x, i>>] = Op(x, i)
  BY <1>3
<1> HIDE DEF step
<1>6. PICK g : Climbs(g, V, m, base, step)
  BY <1>2, <1>5, UpRecursion
<1>7. ASSUME NEW i \in 1..m PROVE g[i] = Op(g[i - 1], i)
  <2>1. i - 1 \in 0..m
    BY <1>2
  <2> QED
    BY <2>1, <1>5, <1>6 DEF Climbs
<1>8. g[0] = base /\ g \in [0..m -> V]
  BY <1>6 DEF Climbs
<1>9. \E f : P(f)
  <2> DEFINE f == [i \in 1..m |-> g[i]]
  <2>1. ASSUME NEW i \in 1..m PROVE g[i] = IF i = 1 THEN ss[i] ELSE Op(f[i - 1], i)
    <3>1. CASE i = 1
      <4>1. i - 1 = 0
        BY <3>1
      <4> QED
        BY <4>1, <3>1, <1>4, <1>7, <1>8
    <3>2. CASE i # 1
      <4>1. i - 1 \in 1..m /\ f[i - 1] = g[i - 1]
        BY <1>2, <3>2
      <4> QED
        BY <4>1, <3>2, <1>7, Zenon
    <3> QED
      BY <3>1, <3>2
  <2>2. P(f)
    BY <2>1
  <2> HIDE DEF P, f
  <2> QED
    BY <2>2
<1> HIDE DEF P
<1>10. P(F)
  BY <1>9, Zenon
<1> HIDE DEF F
<1>11. \A i \in 1..m : F[i] = IF i = 1 THEN ss[i] ELSE Op(F[i - 1], i)
  BY <1>10 DEF P
<1>12. \A i \in 0..m : i # 0 => F[i] = g[i]
  <2> DEFINE S == {i \in Nat : i # 0 => F[i] = g[i]}
  <2>1. 0 \in S
    OBVIOUS
  <2>2. ASSUME NEW i \in 0..m, i # m, i \in S PROVE i + 1 \in S
    <3>1. i + 1 \in 1..m /\ (i + 1) - 1 = i
      BY <1>2, <2>2
    <3>2. g[i + 1] = Op(g[i], i + 1)
      BY <3>1, <1>7
    <3>3. F[i + 1] = IF i + 1 = 1 THEN ss[i + 1] ELSE Op(F[i], i + 1)
      BY <3>1, <1>11
    <3>4. CASE i = 0
      BY <3>1, <3>2, <3>3, <3>4, <1>4, <1>8
    <3>5. CASE i # 0
      <4>1. F[i] = g[i] /\ i + 1 # 1
        BY <2>2, <3>5
      <4> QED
        BY <3>1, <3>2, <3>3, <4>1
    <3> QED
      BY <3>4, <3>5
  <2> HIDE DEF S
  <2>3. \A i \in 0..m : i \in S
    BY <1>2, <2>1, <2>2, BoundedInduction
  <2> QED
    BY <2>3 DEF S
<1>13. g[m] = FlattenSeq(ss)
  BY <1>1, <1>2, <1>8, <1>12
<1>14. FlattenSteps(g, A, ss)
  BY <1>7, <1>8, <1>13 DEF V, m, base, Op, FlattenSteps
<1> QED
  BY <1>14

\* Nothing to do.
LEMMA FlattenNil ==
  ASSUME NEW A
  PROVE  FlattenSeq(<< >>) = << >>
<1>1. << >> \in Seq(Seq(A)) /\ Len(<< >>) = 0
  BY EmptySeq
<1>2. PICK f : FlattenSteps(f, A, << >>)
  BY <1>1, FlattenSolved
<1> QED
  BY <1>1, <1>2 DEF FlattenSteps

\* One more step.
LEMMA FlattenAppend ==
  ASSUME NEW A, NEW s \in Seq(Seq(A)), NEW e \in Seq(A)
  PROVE  /\ FlattenSeq(s) \in Seq(A)
         /\ FlattenSeq(Append(s, e)) = FlattenSeq(s) \o e
<1> DEFINE t == Append(s, e)
           n == Len(s)
<1>1. /\ t \in Seq(Seq(A)) /\ n \in Nat /\ Len(t) = n + 1
      /\ t[n + 1] = e /\ \A i \in 1..n : t[i] = s[i]
  BY AppendProperties
<1> HIDE DEF t
<1>2. PICK f : FlattenSteps(f, A, s)
  BY FlattenSolved
<1>3. PICK h : FlattenSteps(h, A, t)
  BY <1>1, FlattenSolved
<1> DEFINE Op(x, y) == x \o y
<1>4. f[0] = << >> /\ f[n] = FlattenSeq(s) /\ \A i \in 1..n : f[i] = Op(f[i - 1], s[i])
  BY <1>1, <1>2 DEF FlattenSteps
<1>5. h[0] = << >> /\ h[n + 1] = FlattenSeq(t) /\ \A i \in 1..(n + 1) : h[i] = Op(h[i - 1], t[i])
  BY <1>1, <1>3 DEF FlattenSteps
<1>6. FlattenSeq(s) \in Seq(A)
  <2>1. n \in 0..Len(s) /\ f \in [0..Len(s) -> Seq(A)]
    BY <1>1, <1>2 DEF FlattenSteps
  <2> QED
    BY <2>1, <1>4
<1> HIDE DEF Op
<1>7. \A i \in 0..n : h[i] = f[i]
  <2> DEFINE S0 == {i \in Nat : h[i] = f[i]}
  <2>1. 0 \in S0
    BY <1>4, <1>5
  <2>2. ASSUME NEW i \in 0..n, i # n, i \in S0 PROVE i + 1 \in S0
    <3>1. i + 1 \in 1..n /\ i + 1 \in 1..(n + 1) /\ (i + 1) - 1 = i
      BY <2>2
    <3>2. h[i] = f[i] /\ t[i + 1] = s[i + 1]
      BY <2>2, <3>1, <1>1
    <3>3. h[i + 1] = Op(h[i], t[i + 1]) /\ f[i + 1] = Op(f[i], s[i + 1])
      BY <3>1, <1>4, <1>5
    <3> QED
      BY <3>2, <3>3
  <2> HIDE DEF S0
  <2>3. \A i \in 0..n : i \in S0
    BY <1>1, <2>1, <2>2, BoundedInduction
  <2> QED
    BY <2>3 DEF S0
<1>8. n + 1 \in 1..(n + 1) /\ (n + 1) - 1 = n /\ h[n] = f[n]
  BY <1>7
<1>9. h[n + 1] = Op(h[n], t[n + 1])
  BY <1>5, <1>8
<1>10. FlattenSeq(t) = Op(FlattenSeq(s), e)
  BY <1>1, <1>4, <1>5, <1>8, <1>9, Zenon
<1> QED
  BY <1>6, <1>10 DEF Op, t

\* Between i and the end of the bits there are only bits.
LEMMA BitsEndFacts ==
  ASSUME NEW A, NEW text \in Seq(A), NEW i \in 1..(Len(text) + 1)
  PROVE  /\ BitsEnd(text, i) \in i..(Len(text) + 1)
         /\ \A j \in i..(BitsEnd(text, i) - 1) : text[j] \in {"zs", "zn"}
         /\ BitsEnd(text, i) <= Len(text) => text[BitsEnd(text, i)] \notin {"zs", "zn"}
<1> DEFINE T == {j \in i..(Len(text) + 1) : j > Len(text) \/ text[j] \notin {"zs", "zn"}}
<1>1. T \in SUBSET Nat /\ Len(text) + 1 \in T
  OBVIOUS
<1>2. \E x \in T : \A y \in T : x <= y
  BY <1>1, LeastNat
<1>3. BitsEnd(text, i) \in T /\ \A y \in T : BitsEnd(text, i) <= y
  BY <1>2 DEF BitsEnd, Min
<1> QED
  BY <1>3

\* What MarkIn can return.
Marked == {BytesFromBits(b) : b \in [1..MarkBits -> {0, 1}]}

\* A mark or none.
LEMMA MarkInType ==
  ASSUME NEW text, NEW i, NEW j
  PROVE  MarkIn(text, i, j) \in Seq(Marked)
<1> DEFINE b == [n \in 1..MarkBits |-> IF text[i + n] = "zs" THEN 0 ELSE 1]
<1>1. b \in [1..MarkBits -> {0, 1}]
  OBVIOUS
<1>2. BytesFromBits(b) \in Marked
  BY <1>1 DEF Marked
<1> QED
  BY <1>2 DEF MarkIn

\* extract_zw, from each position on.
LEMMA ReadSteps ==
  ASSUME NEW A, NEW text \in Seq(A)
  PROVE  \E f \in [1..(Len(text) + 2) -> Seq(Marked)] :
           /\ ExtractZw(text) = f[1]
           /\ \A i \in 1..(Len(text) + 2) : f[i] = IF i > Len(text) THEN << >> ELSE IF text[i] # "zj" THEN f[i + 1] ELSE MarkIn(text, i, BitsEnd(text, i + 1)) \o f[BitsEnd(text, i + 1) + 1]
<1> DEFINE V == Seq(Marked)
           m == Len(text)
           top == (Len(text) + 2)
           Base(i) == << >>
           Next1(i) == IF text[i] # "zj" THEN i + 1 ELSE BitsEnd(text, i + 1) + 1
           Op(x, i) == IF text[i] # "zj" THEN x ELSE MarkIn(text, i, BitsEnd(text, i + 1)) \o x
           Body(f, i) == IF i > Len(text) THEN << >> ELSE IF text[i] # "zj" THEN f[i + 1] ELSE MarkIn(text, i, BitsEnd(text, i + 1)) \o f[BitsEnd(text, i + 1) + 1]
           P(f) == f = [i \in 1..top |-> Body(f, i)]
           F == CHOOSE f : P(f)
           base == [i \in 1..top |-> IF i > m THEN Base(i) ELSE CHOOSE v \in V : TRUE]
           next == [i \in 1..m |-> Next1(i)]
           step == [y \in V \X (1..m) |-> Op(y[1], y[2])]
<1>1. ExtractZw(text) = F[1]
  BY DEF ExtractZw
<1>2. m \in Nat /\ top \in Nat /\ m < top
  OBVIOUS
<1>3. ASSUME NEW i \in 1..top, i > m PROVE Base(i) \in V /\ \A f : Body(f, i) = Base(i)
  <2>1. i \in Nat /\ ~ (i <= Len(text)) /\ i > Len(text)
    BY <1>3
  <2> QED
    BY <2>1
<1>4. ASSUME NEW i \in 1..m PROVE Next1(i) \in (i + 1)..top
  <2>1. i + 1 \in 1..(Len(text) + 1) /\ i + 1 \in (i + 1)..(Len(text) + 2)
    OBVIOUS
  <2>2. BitsEnd(text, i + 1) \in (i + 1)..(Len(text) + 1)
    BY <2>1, BitsEndFacts
  <2> QED
    BY <2>1, <2>2
<1>5. ASSUME NEW x \in V, NEW i \in 1..m PROVE Op(x, i) \in V
  BY MarkInType
<1>6. ASSUME NEW i \in 1..m, NEW f PROVE Body(f, i) = Op(f[Next1(i)], i)
  <2>1. i + 1 \in 1..(Len(text) + 1) /\ i + 1 \in (i + 1)..(Len(text) + 2)
    OBVIOUS
  <2>2. BitsEnd(text, i + 1) \in (i + 1)..(Len(text) + 1)
    BY <2>1, BitsEndFacts
  <2> QED
    BY <2>1, <2>2
<1> HIDE DEF V, m, top, Base, Next1, Op, Body
<1>7. \E v : v \in V
  BY <1>2, <1>3
<1>8. base \in [1..top -> V]
  BY <1>3, <1>7
<1>9. \A i \in 1..m : next[i] \in (i + 1)..top
  BY <1>4
<1>10. step \in [V \X (1..m) -> V] /\ \A x \in V, i \in 1..m : step[<<x, i>>] = Op(x, i)
  BY <1>5
<1>11. /\ \A i \in 1..top : i > m => base[i] = Base(i)
       /\ \A i \in 1..m : next[i] = Next1(i)
  OBVIOUS
<1> HIDE DEF step, next, base
<1>12. PICK g : Descends(g, V, m, top, base, next, step)
  BY <1>2, <1>8, <1>9, <1>10, DownRecursion
<1>13. ASSUME NEW i \in 1..top PROVE g[i] = Body(g, i)
  <2>1. g[i] = IF i > m THEN base[i] ELSE step[<<g[next[i]], i>>]
    BY <1>12 DEF Descends
  <2>2. CASE i > m
    BY <2>1, <2>2, <1>3, <1>11
  <2>3. CASE ~ (i > m)
    <3>1. i \in 1..m
      BY <1>2, <2>3
    <3>2. next[i] = Next1(i) /\ Next1(i) \in 1..top
      BY <1>2, <1>4, <1>11, <3>1
    <3>3. g[next[i]] \in V
      BY <1>12, <3>2 DEF Descends
    <3>4. step[<<g[next[i]], i>>] = Op(g[next[i]], i)
      BY <1>10, <3>1, <3>3
    <3> QED
      BY <2>1, <2>3, <3>1, <3>2, <3>4, <1>6, Zenon
  <2> QED
    BY <2>2, <2>3
<1>14. P(g)
  <2>1. g = [i \in 1..top |-> g[i]]
    BY <1>12 DEF Descends
  <2> QED
    BY <2>1, <1>13
<1> HIDE DEF P
<1>15. P(F)
  BY <1>14, Zenon
<1> HIDE DEF F
<1>16. F = [i \in 1..top |-> Body(F, i)]
  BY <1>15 DEF P
<1>17. \A i \in 1..top : F[i] = Body(F, i)
  BY <1>16
<1>18. \A i \in 1..top : F[i] \in V
  <2> DEFINE S == {j \in Nat : \A i \in 1..top : i + j > m => F[i] \in V}
  <2>1. 0 \in S
    BY <1>2, <1>3, <1>17
  <2>2. ASSUME NEW j \in 0..m, j # m, j \in S PROVE j + 1 \in S
    <3> SUFFICES ASSUME NEW i \in 1..top, i + (j + 1) > m PROVE F[i] \in V
      BY <1>2
    <3>1. CASE i > m
      BY <3>1, <1>3, <1>17
    <3>2. CASE ~ (i > m)
      <4>1. i \in 1..m
        BY <1>2, <3>2
      <4>2. PICK k \in 1..top : k = Next1(i) /\ k + j > m
        BY <1>2, <1>4, <4>1
      <4>3. F[k] \in V
        BY <2>2, <4>2
      <4>4. Op(F[k], i) \in V
        BY <4>1, <4>3, <1>5
      <4> QED
        BY <1>17, <1>6, <4>1, <4>2, <4>4, Zenon
    <3> QED
      BY <3>1, <3>2
  <2> HIDE DEF S
  <2>3. \A j \in 0..m : j \in S
    BY <1>2, <2>1, <2>2, BoundedInduction
  <2>4. m \in S
    BY <1>2, <2>3
  <2> QED
    BY <1>2, <2>4 DEF S
<1>19. F \in [1..top -> V]
  BY <1>16, <1>18
<1>20. /\ F \in [1..(Len(text) + 2) -> Seq(Marked)] /\ ExtractZw(text) = F[1]
       /\ \A i \in 1..(Len(text) + 2) : F[i] = IF i > Len(text) THEN << >> ELSE IF text[i] # "zj" THEN F[i + 1] ELSE MarkIn(text, i, BitsEnd(text, i + 1)) \o F[BitsEnd(text, i + 1) + 1]
  BY <1>1, <1>17, <1>19 DEF V, m, top, Body
<1> QED
  BY <1>20

\* Lines gives at least one line.
LEMMA LinesType ==
  ASSUME NEW A, NEW text \in Seq(A)
  PROVE  Lines(text) \in Seq(Seq(A)) /\ Len(Lines(text)) \in Nat \ {0}
<1>1. PICK f : LinesSteps(f, A, text)
  BY LinesSolved
<1>2. Len(text) \in 0..Len(text)
  OBVIOUS
<1>3. Lines(text) \in Seq(Seq(A)) \ {<< >>}
  BY <1>1, <1>2 DEF LinesSteps
<1> QED
  BY <1>3

\* The bits of L2, one line after the other.
LEMMA WsBitsSteps ==
  ASSUME NEW A, NEW text \in Seq(A)
  PROVE  \E f \in [0..Len(Lines(text)) -> Seq({0, 1})] :
           /\ f[0] = << >> /\ f[Len(Lines(text))] = WsBits(text)
           /\ \A i \in 1..Len(Lines(text)) : f[i] = IF Len(f[i - 1]) < MarkBits /\ EndsIn(Lines(text)[i], {"sp", "tab"}) THEN Append(f[i - 1], IF Last(Lines(text)[i]) = "sp" THEN 0 ELSE 1) ELSE f[i - 1]
<1> DEFINE V == Seq({0, 1})
           m == Len(Lines(text))
           base == << >>
           Op(x, i) == IF Len(x) < MarkBits /\ EndsIn(Lines(text)[i], {"sp", "tab"}) THEN Append(x, IF Last(Lines(text)[i]) = "sp" THEN 0 ELSE 1) ELSE x
           P(f) == f = [i \in 0..m |-> IF i = 0 THEN base ELSE Op(f[i - 1], i)]
           F == CHOOSE f : P(f)
           step == [y \in V \X (1..m) |-> Op(y[1], y[2])]
<1>1. WsBits(text) = F[m]
  BY DEF WsBits
<1>2. m \in Nat /\ base \in V
  BY LinesType
<1>3. ASSUME NEW x \in V, NEW i \in 1..m PROVE Op(x, i) \in V
  OBVIOUS
<1> HIDE DEF V, m, base, Op
<1>4. step \in [V \X (1..m) -> V] /\ \A x \in V, i \in 1..m : step[<<x, i>>] = Op(x, i)
  BY <1>3
<1> HIDE DEF step
<1>5. PICK g : Climbs(g, V, m, base, step)
  BY <1>2, <1>4, UpRecursion
<1>6. ASSUME NEW i \in 1..m PROVE g[i] = Op(g[i - 1], i)
  <2>1. i - 1 \in 0..m
    BY <1>2
  <2> QED
    BY <2>1, <1>4, <1>5 DEF Climbs
<1>7. P(g)
  BY <1>2, <1>5, <1>6 DEF Climbs
<1> HIDE DEF P
<1>8. P(F)
  BY <1>7, Zenon
<1> HIDE DEF F
<1>9. F = [i \in 0..m |-> IF i = 0 THEN base ELSE Op(F[i - 1], i)]
  BY <1>8 DEF P
<1>10. F[0] = base /\ \A i \in 1..m : F[i] = Op(F[i - 1], i)
  BY <1>2, <1>9
<1>11. \A i \in 0..m : F[i] \in V
  <2> DEFINE S == {i \in Nat : F[i] \in V}
  <2>1. 0 \in S
    BY <1>2, <1>10
  <2>2. ASSUME NEW i \in 0..m, i # m, i \in S PROVE i + 1 \in S
    <3>1. i + 1 \in 1..m /\ (i + 1) - 1 = i
      BY <1>2, <2>2
    <3> QED
      BY <3>1, <2>2, <1>3, <1>10
  <2> HIDE DEF S
  <2>3. \A i \in 0..m : i \in S
    BY <1>2, <2>1, <2>2, BoundedInduction
  <2> QED
    BY <2>3 DEF S
<1>12. F \in [0..m -> V]
  BY <1>9, <1>11
<1>13. /\ F \in [0..Len(Lines(text)) -> Seq({0, 1})] /\ F[0] = << >> /\ F[Len(Lines(text))] = WsBits(text)
       /\ \A i \in 1..Len(Lines(text)) : F[i] = IF Len(F[i - 1]) < MarkBits /\ EndsIn(Lines(text)[i], {"sp", "tab"}) THEN Append(F[i - 1], IF Last(Lines(text)[i]) = "sp" THEN 0 ELSE 1) ELSE F[i - 1]
  BY <1>1, <1>10, <1>12 DEF V, m, base, Op
<1> QED
  BY <1>13

\* One byte of _bytes_from_bits, one bit after the other.
LEMMA ByteSteps ==
  ASSUME NEW bits, NEW n, n \in 1..(Len(bits) \div ByteBits), \A j \in 1..ByteBits : bits[(n - 1) * ByteBits + j] \in {0, 1}
  PROVE  \E f \in [0..ByteBits -> Nat] :
           /\ f[0] = 0 /\ f[ByteBits] = BytesFromBits(bits)[n]
           /\ \A i \in 1..ByteBits : f[i] = 2 * f[i - 1] + bits[(n - 1) * ByteBits + i]
<1> DEFINE V == Nat
           m == ByteBits
           base == 0
           Op(x, i) == 2 * x + bits[(n - 1) * ByteBits + i]
           P(f) == f = [i \in 0..m |-> IF i = 0 THEN base ELSE Op(f[i - 1], i)]
           F == CHOOSE f : P(f)
           step == [y \in V \X (1..m) |-> Op(y[1], y[2])]
<1>1. BytesFromBits(bits)[n] = F[m]
  BY DEF BytesFromBits
<1>2. m \in Nat /\ base \in V
  BY WatermarkAssumption
<1>3. ASSUME NEW x \in V, NEW i \in 1..m PROVE Op(x, i) \in V
  OBVIOUS
<1> HIDE DEF V, m, base, Op
<1>4. step \in [V \X (1..m) -> V] /\ \A x \in V, i \in 1..m : step[<<x, i>>] = Op(x, i)
  BY <1>3
<1> HIDE DEF step
<1>5. PICK g : Climbs(g, V, m, base, step)
  BY <1>2, <1>4, UpRecursion
<1>6. ASSUME NEW i \in 1..m PROVE g[i] = Op(g[i - 1], i)
  <2>1. i - 1 \in 0..m
    BY <1>2
  <2> QED
    BY <2>1, <1>4, <1>5 DEF Climbs
<1>7. P(g)
  BY <1>2, <1>5, <1>6 DEF Climbs
<1> HIDE DEF P
<1>8. P(F)
  BY <1>7, Zenon
<1> HIDE DEF F
<1>9. F = [i \in 0..m |-> IF i = 0 THEN base ELSE Op(F[i - 1], i)]
  BY <1>8 DEF P
<1>10. F[0] = base /\ \A i \in 1..m : F[i] = Op(F[i - 1], i)
  BY <1>2, <1>9
<1>11. \A i \in 0..m : F[i] \in V
  <2> DEFINE S == {i \in Nat : F[i] \in V}
  <2>1. 0 \in S
    BY <1>2, <1>10
  <2>2. ASSUME NEW i \in 0..m, i # m, i \in S PROVE i + 1 \in S
    <3>1. i + 1 \in 1..m /\ (i + 1) - 1 = i
      BY <1>2, <2>2
    <3> QED
      BY <3>1, <2>2, <1>3, <1>10
  <2> HIDE DEF S
  <2>3. \A i \in 0..m : i \in S
    BY <1>2, <2>1, <2>2, BoundedInduction
  <2> QED
    BY <2>3 DEF S
<1>12. F \in [0..m -> V]
  BY <1>9, <1>11
<1>13. /\ F \in [0..ByteBits -> Nat] /\ F[0] = 0 /\ F[ByteBits] = BytesFromBits(bits)[n]
       /\ \A i \in 1..ByteBits : F[i] = 2 * F[i - 1] + bits[(n - 1) * ByteBits + i]
  BY <1>1, <1>10, <1>12 DEF V, m, base, Op
<1> QED
  BY <1>13

-----------------------------------------------------------------------------
(***************************************************************************)
(* Bits and bytes.                                                         *)
(* _bytes_from_bits is the inverse of _bits_of.                            *)
(***************************************************************************)

\* 1 << n doubles with n.
LEMMA Pow2Doubles ==
  ASSUME NEW n \in Nat
  PROVE  /\ Pow2(n) \in Nat \ {0} /\ Pow2(0) = 1
         /\ Pow2(n + 1) = 2 * Pow2(n)
<1>1. PICK f \in [0..n -> Nat \ {0}] : f[0] = 1 /\ f[n] = Pow2(n) /\ \A i \in 1..n : f[i] = 2 * f[i - 1]
  BY Pow2Steps
<1>2. PICK g \in [0..(n + 1) -> Nat \ {0}] :
        /\ g[0] = 1 /\ g[n + 1] = Pow2(n + 1) /\ \A i \in 1..(n + 1) : g[i] = 2 * g[i - 1]
  <2>1. n + 1 \in Nat
    OBVIOUS
  <2> QED
    BY <2>1, Pow2Steps
<1>3. Pow2(0) = 1
  <2>1. PICK h \in [0..0 -> Nat \ {0}] : h[0] = 1 /\ h[0] = Pow2(0)
    BY Pow2Steps
  <2> QED
    BY <2>1
<1>4. \A i \in 0..n : g[i] = f[i]
  <2> DEFINE S == {i \in Nat : g[i] = f[i]}
  <2>1. 0 \in S
    BY <1>1, <1>2
  <2>2. ASSUME NEW i \in 0..n, i # n, i \in S PROVE i + 1 \in S
    <3>1. i + 1 \in 1..n /\ i + 1 \in 1..(n + 1) /\ (i + 1) - 1 = i
      BY <2>2
    <3>2. g[i + 1] = 2 * g[i] /\ f[i + 1] = 2 * f[i]
      BY <3>1, <1>1, <1>2
    <3> QED
      BY <2>2, <3>1, <3>2
  <2> HIDE DEF S
  <2>3. \A i \in 0..n : i \in S
    BY <2>1, <2>2, BoundedInduction
  <2> QED
    BY <2>3 DEF S
<1>5. n \in 0..n /\ n + 1 \in 1..(n + 1) /\ (n + 1) - 1 = n
  OBVIOUS
<1> QED
  BY <1>1, <1>2, <1>3, <1>4, <1>5

\* Quotient and remainder are unique.
LEMMA DivModUnique ==
  ASSUME NEW v \in Int, NEW p \in Nat \ {0}, NEW q \in Int, NEW r \in 0..(p - 1), v = p * q + r
  PROVE  v \div p = q /\ v % p = r
<1> DEFINE a == v \div p
           b == v % p
<1>1. a \in Int /\ b \in 0..(p - 1) /\ v = p * a + b
  OBVIOUS
<1> HIDE DEF a, b
<1>2. p * (a - q) = r - b
  BY <1>1
<1>3. a = q
  <2>1. CASE a - q >= 1
    <3>1. p * (a - q) >= p
      BY <1>1, <2>1
    <3> QED
      BY <3>1, <1>1, <1>2
  <2>2. CASE a - q <= -1
    <3>1. p * (a - q) <= -p
      BY <1>1, <2>2
    <3> QED
      BY <3>1, <1>1, <1>2
  <2> QED
    BY <1>1, <2>1, <2>2
<1>4. b = r
  BY <1>1, <1>3
<1> QED
  BY <1>3, <1>4 DEF a, b

\* Division with remainder.
LEMMA DivMod ==
  ASSUME NEW v \in Int, NEW d \in Nat \ {0}
  PROVE  \E a \in Int, b \in 0..(d - 1) : a = v \div d /\ v = d * a + b
<1> DEFINE a == v \div d
           b == v % d
<1>1. a \in Int /\ b \in 0..(d - 1) /\ v = d * a + b
  OBVIOUS
<1>2. a = v \div d
  OBVIOUS
<1> HIDE DEF a, b
<1> QED
  BY <1>1, <1>2

\* Even and odd numbers.
LEMMA Parity ==
  ASSUME NEW a \in Int
  PROVE  2 * a + ((2 * a) % 2) = 2 * a /\ 2 * a + ((2 * a + 1) % 2) = 2 * a + 1
<1>1. (2 * a) % 2 = 0 /\ (2 * a + 1) % 2 = 1
  OBVIOUS
<1> QED
  BY <1>1

\* One bit more of a quotient.
LEMMA HalfDiv ==
  ASSUME NEW v \in Nat, NEW p \in Nat \ {0}
  PROVE  2 * (v \div (2 * p)) + ((v \div p) % 2) = v \div p
<1>1. 2 * p \in Nat \ {0}
  OBVIOUS
<1>2. PICK a \in Int, b \in 0..(2 * p - 1) : a = v \div (2 * p) /\ v = (2 * p) * a + b
  BY <1>1, DivMod
<1>3. v = p * (2 * a) + b
  <2>1. v = (2 * p) * a + b
    BY <1>2
  <2>2. (2 * p) * a = p * (2 * a)
    OBVIOUS
  <2> QED
    BY <2>1, <2>2
<1>4. CASE b < p
  <2>1. b \in 0..(p - 1) /\ 2 * a \in Int
    BY <1>4
  <2>2. v \div p = 2 * a
    BY <1>3, <2>1, DivModUnique
  <2> QED
    BY <1>2, <2>2, Parity, Zenon
<1>5. CASE ~ (b < p)
  <2>1. b - p \in 0..(p - 1) /\ 2 * a + 1 \in Int
    BY <1>5
  <2>2. v = p * (2 * a + 1) + (b - p)
    <3>1. p * (2 * a + 1) = p * (2 * a) + p
      OBVIOUS
    <3> QED
      BY <3>1, <1>3
  <2>3. v \div p = 2 * a + 1
    BY <2>1, <2>2, DivModUnique
  <2> QED
    BY <1>2, <2>3, Parity, Zenon
<1> QED
  BY <1>4, <1>5

\* A mark, byte for byte.
LEMMA MarkShape ==
  ASSUME NEW mark \in MarkIds
  PROVE  /\ Len(mark) = MarkBytes /\ DOMAIN mark = 1..MarkBytes
         /\ MarkBits \in Nat \ {0} /\ Len(BitsOf(mark)) = MarkBits
         /\ BitsOf(mark) \in [1..MarkBits -> {0, 1}]
<1>1. MarkBytes \in Nat \ {0} /\ ByteBits \in Nat \ {0}
  BY WatermarkAssumption
<1>2. Len(mark) = MarkBytes /\ DOMAIN mark = 1..MarkBytes
  BY <1>1 DEF MarkIds
<1>3. MarkBits \in Nat \ {0}
  BY <1>1 DEF MarkBits
<1>4. ASSUME NEW i \in 1..MarkBits
      PROVE  (mark[(i - 1) \div ByteBits + 1] \div Pow2(ByteBits - 1 - ((i - 1) % ByteBits))) % 2 \in {0, 1}
  <2> DEFINE q == (i - 1) \div ByteBits
             r == (i - 1) % ByteBits
  <2>1. q \in Nat /\ r \in 0..(ByteBits - 1) /\ i - 1 = ByteBits * q + r
    BY <1>1, <1>3
  <2> HIDE DEF q, r
  <2>2. q < MarkBytes
    <3> SUFFICES ASSUME q >= MarkBytes PROVE FALSE
      BY <1>1, <2>1
    <3>1. ByteBits * q >= ByteBits * MarkBytes
      BY <1>1, <2>1
    <3> QED
      BY <3>1, <1>1, <2>1 DEF MarkBits
  <2>3. q + 1 \in 1..MarkBytes
    BY <1>1, <2>1, <2>2
  <2>4. Pow2(ByteBits) \in Nat
    BY <1>1, Pow2Doubles
  <2>5. mark[q + 1] \in Nat
    BY <2>3, <2>4 DEF MarkIds
  <2>6. ByteBits - 1 - r \in Nat
    BY <1>1, <2>1
  <2>7. Pow2(ByteBits - 1 - r) \in Nat \ {0}
    BY <2>6, Pow2Doubles
  <2>8. mark[q + 1] \div Pow2(ByteBits - 1 - r) \in Nat
    BY <2>5, <2>7
  <2>9. (mark[q + 1] \div Pow2(ByteBits - 1 - r)) % 2 \in {0, 1}
    BY <2>8
  <2> QED
    BY <2>9 DEF q, r
<1>5. BitsOf(mark) = [i \in 1..MarkBits |-> (mark[(i - 1) \div ByteBits + 1] \div Pow2(ByteBits - 1 - ((i - 1) % ByteBits))) % 2]
  BY <1>2 DEF BitsOf, MarkBits
<1>6. BitsOf(mark) \in [1..MarkBits -> {0, 1}]
  BY <1>4, <1>5
<1>7. Len(BitsOf(mark)) = MarkBits
  BY <1>3, <1>6
<1> QED
  BY <1>2, <1>3, <1>6, <1>7

\* _bytes_from_bits is the inverse of _bits_of.
LEMMA RoundTrip ==
  ASSUME NEW mark \in MarkIds
  PROVE  BytesFromBits(BitsOf(mark)) = mark
<1> DEFINE b == BitsOf(mark)
           B == ByteBits
<1>1. MarkBytes \in Nat \ {0} /\ B \in Nat \ {0}
  BY WatermarkAssumption
<1>2. b \in [1..MarkBits -> {0, 1}] /\ Len(b) = MarkBits /\ Len(mark) = MarkBytes /\ MarkBits = MarkBytes * B
  BY MarkShape DEF MarkBits
<1>3. Len(b) \div B = MarkBytes
  <2>1. MarkBytes * B = B * MarkBytes + 0 /\ 0 \in 0..(B - 1) /\ MarkBytes * B \in Int
    BY <1>1
  <2> QED
    BY <1>1, <1>2, <2>1, DivModUnique
<1>4. ASSUME NEW n \in 1..MarkBytes, NEW j \in 1..B
      PROVE  b[(n - 1) * B + j] = (mark[n] \div Pow2(B - j)) % 2 /\ b[(n - 1) * B + j] \in {0, 1}
  <2> DEFINE i == (n - 1) * B + j
  <2>1. i - 1 = B * (n - 1) + (j - 1) /\ j - 1 \in 0..(B - 1) /\ i \in Int
    BY <1>1
  <2>2. (i - 1) \div B = n - 1 /\ (i - 1) % B = j - 1
    BY <1>1, <2>1, DivModUnique
  <2>3. i \in 1..MarkBits
    <3>1. (n - 1) * B >= 0 /\ (n - 1) * B <= (MarkBytes - 1) * B
      BY <1>1
    <3>2. (MarkBytes - 1) * B = MarkBytes * B - B
      BY <1>1
    <3> QED
      BY <1>1, <1>2, <3>1, <3>2
  <2>4. b[i] = (mark[(i - 1) \div B + 1] \div Pow2(B - 1 - ((i - 1) % B))) % 2
    BY <2>3, <1>2 DEF BitsOf
  <2>5. b[i] \in {0, 1}
    BY <2>3, <1>2
  <2>6. (n - 1) + 1 = n /\ B - 1 - (j - 1) = B - j
    BY <1>1
  <2> HIDE DEF i, b
  <2>7. b[i] = (mark[n] \div Pow2(B - j)) % 2
    BY <2>2, <2>4, <2>6
  <2> QED
    BY <2>5, <2>7 DEF i
<1>5. ASSUME NEW n \in 1..MarkBytes PROVE BytesFromBits(b)[n] = mark[n]
  <2>1. n \in 1..(Len(b) \div B)
    BY <1>3
  <2>2. \A j \in 1..B : b[(n - 1) * B + j] \in {0, 1}
    BY <1>4
  <2> HIDE DEF b
  <2>3. PICK f \in [0..B -> Nat] : /\ f[0] = 0 /\ f[B] = BytesFromBits(b)[n]
                                   /\ \A i \in 1..B : f[i] = 2 * f[i - 1] + b[(n - 1) * B + i]
    BY <2>1, <2>2, ByteSteps
  <2>4. Pow2(B) \in Nat \ {0}
    BY <1>1, Pow2Doubles
  <2>5. mark[n] \in 0..(Pow2(B) - 1)
    BY <2>4 DEF MarkIds
  <2> DEFINE S == {j \in Nat : f[j] = mark[n] \div Pow2(B - j)}
  <2>6. 0 \in S
    <3>1. mark[n] = Pow2(B) * 0 + mark[n]
      BY <2>4, <2>5
    <3>2. mark[n] \div Pow2(B) = 0
      BY <3>1, <2>4, <2>5, DivModUnique
    <3> QED
      BY <3>2, <2>3, <1>1
  <2>7. ASSUME NEW j \in 0..B, j # B, j \in S PROVE j + 1 \in S
    <3>1. j + 1 \in 1..B /\ (j + 1) - 1 = j /\ B - (j + 1) \in Nat /\ B - j = (B - (j + 1)) + 1
      BY <2>7, <1>1
    <3> DEFINE p == Pow2(B - (j + 1))
    <3>2. p \in Nat \ {0} /\ Pow2(B - j) = 2 * p
      BY <3>1, Pow2Doubles
    <3>3. f[j + 1] = 2 * f[j] + b[(n - 1) * B + (j + 1)]
      BY <3>1, <2>3
    <3>4. b[(n - 1) * B + (j + 1)] = (mark[n] \div p) % 2
      BY <3>1, <1>4
    <3>5. f[j] = mark[n] \div (2 * p)
      BY <2>7, <3>2
    <3>6. mark[n] \in Nat
      BY <2>4, <2>5
    <3> HIDE DEF p
    <3>7. f[j + 1] = mark[n] \div p
      BY <3>2, <3>3, <3>4, <3>5, <3>6, HalfDiv
    <3> QED
      BY <3>1, <3>7 DEF p
  <2>8. B \in S
    <3> HIDE DEF S
    <3>1. \A j \in 0..B : j \in S
      BY <1>1, <2>6, <2>7, BoundedInduction
    <3> QED
      BY <3>1, <1>1
  <2>9. Pow2(B - B) = 1
    <3>1. B - B = 0
      BY <1>1
    <3> QED
      BY <3>1, Pow2Doubles
  <2>10. f[B] = mark[n] \div 1
    BY <2>8, <2>9
  <2> QED
    BY <2>10, <2>3, <2>4, <2>5
<1>6. BytesFromBits(b) = [n \in 1..MarkBytes |-> BytesFromBits(b)[n]]
  <2> HIDE DEF b
  <2> QED
    BY <1>3 DEF BytesFromBits
<1>7. mark = [n \in 1..MarkBytes |-> mark[n]]
  BY DEF MarkIds
<1> HIDE DEF b
<1>8. BytesFromBits(b) = mark
  BY <1>5, <1>6, <1>7
<1> QED
  BY <1>8 DEF b

-----------------------------------------------------------------------------
(***************************************************************************)
(* Frames.                                                                 *)
(* Every bit of a leaked text belongs to the beginning of a frame of the   *)
(* mark: this is what the edits preserve.                                  *)
(***************************************************************************)

\* A set of sequences that is closed under concatenation is closed under
\* flattening.
LEMMA FlattenClosed ==
  ASSUME NEW A, NEW T \in SUBSET Seq(A), << >> \in T, \A s, t \in T : s \o t \in T,
         NEW ss \in Seq(T)
  PROVE  FlattenSeq(ss) \in T
<1> DEFINE S == {x \in Seq(T) : FlattenSeq(x) \in T}
<1>1. << >> \in S
  BY FlattenNil
<1>2. ASSUME NEW x \in Seq(T), NEW e \in T, x \in S PROVE Append(x, e) \in S
  <2>1. x \in Seq(Seq(A)) /\ e \in Seq(A)
    BY SeqMonotonic
  <2>2. FlattenSeq(Append(x, e)) = FlattenSeq(x) \o e
    BY <2>1, FlattenAppend
  <2>3. FlattenSeq(x) \in T
    BY <1>2
  <2>4. Append(x, e) \in Seq(T)
    OBVIOUS
  <2> QED
    BY <2>2, <2>3, <2>4
<1>3. \A x \in Seq(T) : x \in S
  <2> HIDE DEF S
  <2> QED
    BY <1>1, <1>2, SeqInduction
<1> QED
  BY <1>3

\* The flattened sequence.
LEMMA FlattenType ==
  ASSUME NEW A, NEW ss \in Seq(Seq(A))
  PROVE  FlattenSeq(ss) \in Seq(A)
<1>1. << >> \in Seq(A) /\ \A s, t \in Seq(A) : s \o t \in Seq(A)
  OBVIOUS
<1> QED
  BY <1>1, FlattenClosed

\* The last line is the end of the text, from the last newline on.
LastLine(s) == Lines(s)[Len(Lines(s))]

EndOf(l, s) ==
  /\ Len(l) <= Len(s) /\ \A i \in 1..Len(l) : l[i] = s[Len(s) - Len(l) + i]
  /\ Len(l) < Len(s) => s[Len(s) - Len(l)] = "nl"

\* The last line is a suffix of the text, and no line holds a newline.
LEMMA LinesEnd ==
  ASSUME NEW A, NEW s \in Seq(A)
  PROVE  EndOf(LastLine(s), s) /\ \A n \in 1..Len(Lines(s)) : Lines(s)[n] \in Seq(A \ {"nl"})
<1> DEFINE S == {x \in Seq(A) : EndOf(LastLine(x), x) /\ \A n \in 1..Len(Lines(x)) : Lines(x)[n] \in Seq(A \ {"nl"})}
<1>1. << >> \in S
  <2>1. Lines(<< >>) = << << >> >>
    BY LinesNil
  <2>2. Len(Lines(<< >>)) = 1 /\ Lines(<< >>)[1] = << >> /\ << >> \in Seq(A) /\ << >> \in Seq(A \ {"nl"}) /\ Len(<< >>) = 0
    BY <2>1
  <2>3. LastLine(<< >>) = << >>
    BY <2>2 DEF LastLine
  <2>4. EndOf(<< >>, << >>)
    BY <2>2 DEF EndOf
  <2>5. \A n \in 1..Len(Lines(<< >>)) : Lines(<< >>)[n] \in Seq(A \ {"nl"})
    <3> TAKE n \in 1..Len(Lines(<< >>))
    <3>1. n = 1
      BY <2>2
    <3> QED
      BY <2>2, <3>1, Zenon
  <2> QED
    BY <2>2, <2>3, <2>4, <2>5
<1>2. ASSUME NEW x \in Seq(A), NEW e \in A, x \in S PROVE Append(x, e) \in S
  <2> DEFINE ls == Lines(x)
             y == Append(x, e)
             l == LastLine(x)
  <2>1. y \in Seq(A) /\ Len(y) = Len(x) + 1 /\ y[Len(x) + 1] = e /\ \A i \in 1..Len(x) : y[i] = x[i]
    OBVIOUS
  <2>2. ls \in Seq(Seq(A)) \ {<< >>} /\ Len(ls) \in Nat \ {0}
    BY LinesType
  <2>3. l \in Seq(A \ {"nl"}) /\ EndOf(l, x) /\ \A n \in 1..Len(ls) : ls[n] \in Seq(A \ {"nl"})
    BY <1>2, <2>2 DEF LastLine
  <2>4. CASE e = "nl"
    <3>1. Lines(y) = Append(ls, << >>)
      BY <2>4, LinesAppend
    <3> HIDE DEF ls, l
    <3>2. LastLine(y) = << >> /\ \A n \in 1..Len(Lines(y)) : Lines(y)[n] \in Seq(A \ {"nl"})
      BY <3>1, <2>2, <2>3 DEF LastLine
    <3>3. EndOf(<< >>, y)
      <4> HIDE DEF y
      <4>1. Len(<< >>) = 0 /\ Len(y) \in Nat /\ Len(y) - 0 = Len(x) + 1
        BY <2>1
      <4> QED
        BY <4>1, <2>1, <2>4 DEF EndOf
    <3> QED
      BY <3>2, <3>3, <2>1
  <2>5. CASE e # "nl"
    <3>1. Lines(y) = [ls EXCEPT ![Len(ls)] = Append(@, e)]
      BY <2>5, LinesAppend
    <3>2. ls[Len(ls)] = l
      BY DEF LastLine
    <3> HIDE DEF ls, l
    <3>3. Len(Lines(y)) = Len(ls) /\ LastLine(y) = Append(l, e)
      BY <3>1, <3>2, <2>2 DEF LastLine
    <3>4. Append(l, e) \in Seq(A \ {"nl"})
      BY <2>3, <2>5
    <3>5. \A n \in 1..Len(Lines(y)) : Lines(y)[n] \in Seq(A \ {"nl"})
      <4> HIDE DEF y
      <4>1. Lines(y) = [ls EXCEPT ![Len(ls)] = Append(l, e)]
        BY <3>1, <3>2
      <4> TAKE n \in 1..Len(Lines(y))
      <4>2. Lines(y)[n] = IF n = Len(ls) THEN Append(l, e) ELSE ls[n]
        BY <4>1, <3>3, <2>2
      <4> QED
        BY <4>2, <3>3, <3>4, <2>3
    <3>6. EndOf(Append(l, e), y)
      <4> DEFINE m == Append(l, e)
      <4>1. Len(m) = Len(l) + 1 /\ m[Len(l) + 1] = e /\ \A i \in 1..Len(l) : m[i] = l[i]
        BY <2>3
      <4>2. Len(l) \in Nat /\ Len(x) \in Nat
        BY <2>3
      <4> HIDE DEF m, y
      <4>3. Len(l) <= Len(x) /\ \A i \in 1..Len(l) : l[i] = x[Len(x) - Len(l) + i]
        BY <2>3 DEF EndOf
      <4>4. ASSUME NEW i \in 1..Len(m) PROVE m[i] = y[Len(y) - Len(m) + i]
        <5>1. Len(y) - Len(m) + i = Len(x) - Len(l) + i
          BY <4>1, <4>2, <2>1
        <5>2. CASE i = Len(l) + 1
          <6>1. Len(x) - Len(l) + i = Len(x) + 1
            BY <5>2, <4>2
          <6> QED
            BY <6>1, <5>1, <5>2, <4>1, <2>1
        <5>3. CASE i # Len(l) + 1
          <6>1. i \in 1..Len(l) /\ Len(x) - Len(l) + i \in 1..Len(x)
            BY <5>3, <4>1, <4>2, <4>3
          <6> QED
            BY <6>1, <5>1, <4>1, <4>3, <2>1
        <5> QED
          BY <5>2, <5>3
      <4>5. ASSUME Len(m) < Len(y) PROVE y[Len(y) - Len(m)] = "nl"
        <5>1. Len(l) < Len(x) /\ Len(y) - Len(m) = Len(x) - Len(l) /\ Len(x) - Len(l) \in 1..Len(x)
          BY <4>5, <4>1, <4>2, <2>1
        <5>2. x[Len(x) - Len(l)] = "nl"
          BY <5>1, <2>3 DEF EndOf
        <5> QED
          BY <5>1, <5>2, <2>1
      <4>6. Len(m) <= Len(y)
        BY <4>1, <4>2, <4>3, <2>1
      <4>7. EndOf(m, y)
        BY <4>4, <4>5, <4>6 DEF EndOf
      <4> QED
        BY <4>7 DEF m
    <3> QED
      BY <3>3, <3>5, <3>6, <2>1
  <2> QED
    BY <2>4, <2>5
<1>3. \A x \in Seq(A) : x \in S
  <2> HIDE DEF S
  <2> QED
    BY <1>1, <1>2, SeqInduction
<1> QED
  BY <1>3

\* The characters that spell a mark.
Signs(mark) == [n \in 1..MarkBits |-> IF BitsOf(mark)[n] = 0 THEN "zs" ELSE "zn"]

\* A frame is a joiner, the signs and a joiner.
LEMMA FrameShape ==
  ASSUME NEW mark \in MarkIds
  PROVE  /\ MarkBits \in Nat \ {0}
         /\ Frame(mark) \in Seq(Chars) /\ Len(Frame(mark)) = MarkBits + 2
         /\ Frame(mark)[1] = "zj" /\ Frame(mark)[MarkBits + 2] = "zj"
         /\ \A n \in 1..MarkBits : Frame(mark)[n + 1] = Signs(mark)[n]
         /\ \A n \in 1..MarkBits : Signs(mark)[n] \in {"zs", "zn"}
<1>1. MarkBits \in Nat \ {0} /\ DOMAIN BitsOf(mark) = 1..MarkBits
  BY MarkShape
<1>2. Frame(mark) = <<"zj">> \o Signs(mark) \o <<"zj">>
  BY <1>1 DEF Frame, Signs
<1>3. \A n \in 1..MarkBits : Signs(mark)[n] \in {"zs", "zn"}
  BY DEF Signs
<1> DEFINE g == Signs(mark)
           z == <<"zj">>
<1>4. g \in Seq(Chars) /\ Len(g) = MarkBits
  <2>1. g \in [1..MarkBits -> Chars]
    BY DEF Signs, Chars, ZeroWidth
  <2> QED
    BY <1>1, <2>1
<1>5. z \in Seq(Chars) /\ Len(z) = 1 /\ z[1] = "zj"
  BY DEF Chars, ZeroWidth
<1> HIDE DEF g, z
<1>6. /\ z \o g \in Seq(Chars) /\ Len(z \o g) = MarkBits + 1
      /\ (z \o g)[1] = "zj" /\ \A n \in 1..MarkBits : (z \o g)[n + 1] = g[n]
  <2>1. /\ z \o g \in Seq(Chars) /\ Len(z \o g) = Len(z) + Len(g)
        /\ \A i \in 1..(Len(z) + Len(g)) : (z \o g)[i] = IF i <= Len(z) THEN z[i] ELSE g[i - Len(z)]
    BY <1>4, <1>5, ConcatProperties
  <2> QED
    BY <2>1, <1>1, <1>4, <1>5
<1>7. /\ (z \o g) \o z \in Seq(Chars) /\ Len((z \o g) \o z) = MarkBits + 2
      /\ ((z \o g) \o z)[MarkBits + 2] = "zj" /\ \A n \in 1..(MarkBits + 1) : ((z \o g) \o z)[n] = (z \o g)[n]
  <2> DEFINE w == z \o g
  <2>1. w \in Seq(Chars) /\ Len(w) = MarkBits + 1
    BY <1>6
  <2> HIDE DEF w
  <2>2. /\ w \o z \in Seq(Chars) /\ Len(w \o z) = Len(w) + Len(z)
        /\ \A i \in 1..(Len(w) + Len(z)) : (w \o z)[i] = IF i <= Len(w) THEN w[i] ELSE z[i - Len(w)]
    BY <2>1, <1>5, ConcatProperties
  <2>3. /\ w \o z \in Seq(Chars) /\ Len(w \o z) = MarkBits + 2
        /\ (w \o z)[MarkBits + 2] = "zj" /\ \A n \in 1..(MarkBits + 1) : (w \o z)[n] = w[n]
    BY <2>1, <2>2, <1>1, <1>5
  <2> QED
    BY <2>3 DEF w
<1>8. Frame(mark) = (z \o g) \o z
  BY <1>2 DEF g, z
<1>9. \A n \in 1..MarkBits : n + 1 \in 1..(MarkBits + 1)
  BY <1>1
<1>10. 1 \in 1..(MarkBits + 1)
  BY <1>1
<1> QED
  BY <1>1, <1>3, <1>6, <1>7, <1>8, <1>9, <1>10 DEF g

\* Every bit of a text belongs to the beginning of a frame of this mark.
Framed(t, mark) ==
  \A i \in 1..Len(t) : t[i] \in {"zs", "zn"} =>
    \E k \in 1..MarkBits : /\ k < i /\ t[i - k] = "zj"
                           /\ \A n \in 1..k : t[i - k + n] = Signs(mark)[n]

\* Such texts can be put together.
LEMMA FramedCat ==
  ASSUME NEW A, NEW mark, NEW s \in Seq(A), NEW t \in Seq(A), Framed(s, mark), Framed(t, mark), MarkBits \in Nat
  PROVE  Framed(s \o t, mark)
<1> DEFINE u == s \o t
<1>1. /\ Len(u) = Len(s) + Len(t) /\ Len(s) \in Nat /\ Len(t) \in Nat
      /\ \A i \in 1..Len(s) : u[i] = s[i]
      /\ \A i \in 1..Len(t) : u[Len(s) + i] = t[i]
  OBVIOUS
<1> HIDE DEF u
<1> SUFFICES ASSUME NEW i \in 1..Len(u), u[i] \in {"zs", "zn"}
             PROVE  \E k \in 1..MarkBits : /\ k < i /\ u[i - k] = "zj"
                                           /\ \A n \in 1..k : u[i - k + n] = Signs(mark)[n]
  BY DEF Framed, u
<1>2. CASE i <= Len(s)
  <2>1. i \in 1..Len(s) /\ s[i] \in {"zs", "zn"}
    BY <1>1, <1>2
  <2>2. PICK k \in 1..MarkBits : /\ k < i /\ s[i - k] = "zj"
                                 /\ \A n \in 1..k : s[i - k + n] = Signs(mark)[n]
    BY <2>1 DEF Framed
  <2>3. i - k \in 1..Len(s) /\ \A n \in 1..k : i - k + n \in 1..Len(s)
    BY <2>1, <2>2, <1>1
  <2>4. u[i - k] = "zj" /\ \A n \in 1..k : u[i - k + n] = Signs(mark)[n]
    BY <2>2, <2>3, <1>1
  <2> QED
    BY <2>2, <2>4
<1>3. CASE ~ (i <= Len(s))
  <2>0. i - Len(s) \in 1..Len(t) /\ i = Len(s) + (i - Len(s))
    BY <1>1, <1>3
  <2>1. PICK j \in 1..Len(t) : i = Len(s) + j
    BY <2>0
  <2>2. t[j] \in {"zs", "zn"}
    BY <1>1, <2>1
  <2>3. PICK k \in 1..MarkBits : /\ k < j /\ t[j - k] = "zj"
                                 /\ \A n \in 1..k : t[j - k + n] = Signs(mark)[n]
    BY <2>2 DEF Framed
  <2>4. k < i /\ i - k = Len(s) + (j - k) /\ j - k \in 1..Len(t)
    BY <1>1, <2>1, <2>3
  <2>5. u[i - k] = "zj"
    BY <1>1, <2>3, <2>4
  <2>6. ASSUME NEW n \in 1..k PROVE u[i - k + n] = Signs(mark)[n]
    <3>1. j - k + n \in 1..Len(t) /\ i - k + n = Len(s) + (j - k + n)
      BY <1>1, <2>1, <2>3
    <3> QED
      BY <3>1, <1>1, <2>3
  <2> QED
    BY <2>4, <2>5, <2>6
<1> QED
  BY <1>2, <1>3

\* The beginning of such a text.
LEMMA FramedPrefix ==
  ASSUME NEW A, NEW mark, NEW s \in Seq(A), NEW t \in Seq(A), Framed(t, mark), MarkBits \in Nat,
         Len(s) <= Len(t), \A i \in 1..Len(s) : s[i] = t[i]
  PROVE  Framed(s, mark)
<1> SUFFICES ASSUME NEW i \in 1..Len(s), s[i] \in {"zs", "zn"}
             PROVE  \E k \in 1..MarkBits : /\ k < i /\ s[i - k] = "zj"
                                           /\ \A n \in 1..k : s[i - k + n] = Signs(mark)[n]
  BY DEF Framed
<1>1. i \in 1..Len(t) /\ t[i] \in {"zs", "zn"} /\ Len(s) \in Nat /\ Len(t) \in Nat
  OBVIOUS
<1>2. PICK k \in 1..MarkBits : /\ k < i /\ t[i - k] = "zj"
                               /\ \A n \in 1..k : t[i - k + n] = Signs(mark)[n]
  BY <1>1 DEF Framed
<1>3. s[i - k] = "zj" /\ \A n \in 1..k : s[i - k + n] = Signs(mark)[n]
  BY <1>1, <1>2
<1> QED
  BY <1>2, <1>3

\* A frame by itself, and a text without bits.
LEMMA FramedFrame ==
  ASSUME NEW mark \in MarkIds
  PROVE  Framed(Frame(mark), mark)
<1> DEFINE g == Frame(mark)
<1>1. /\ MarkBits \in Nat \ {0} /\ g \in Seq(Chars) /\ Len(g) = MarkBits + 2
      /\ g[1] = "zj" /\ g[MarkBits + 2] = "zj"
      /\ \A n \in 1..MarkBits : g[n + 1] = Signs(mark)[n]
  BY FrameShape
<1> HIDE DEF g
<1> SUFFICES ASSUME NEW i \in 1..Len(g), g[i] \in {"zs", "zn"}
             PROVE  \E k \in 1..MarkBits : /\ k < i /\ g[i - k] = "zj"
                                           /\ \A n \in 1..k : g[i - k + n] = Signs(mark)[n]
  BY DEF Framed, g
<1>2. PICK k \in 1..MarkBits : k = i - 1
  BY <1>1
<1>3. g[i - k] = "zj" /\ \A n \in 1..k : g[i - k + n] = Signs(mark)[n]
  BY <1>1, <1>2
<1> QED
  BY <1>2, <1>3

\* A text without bits is framed.
LEMMA FramedPlain ==
  ASSUME NEW A, "zs" \notin A, "zn" \notin A, NEW t \in Seq(A), NEW mark
  PROVE  Framed(t, mark)
BY DEF Framed

\* The lines of such a text.
LEMMA FramedLines ==
  ASSUME NEW A, NEW mark, MarkBits \in Nat, \A n \in 1..MarkBits : Signs(mark)[n] \in {"zs", "zn"},
         NEW t \in Seq(A), Framed(t, mark), NEW n \in 1..Len(Lines(t))
  PROVE  Framed(Lines(t)[n], mark)
<1> DEFINE S == {x \in Seq(A) : Framed(x, mark) => \A j \in 1..Len(Lines(x)) : Framed(Lines(x)[j], mark)}
<1>0. Framed(<< >>, mark)
  BY DEF Framed
<1>1. << >> \in S
  BY <1>0, LinesNil
<1>2. ASSUME NEW x \in Seq(A), NEW e \in A, x \in S PROVE Append(x, e) \in S
  <2> DEFINE ls == Lines(x)
             y == Append(x, e)
             l == LastLine(x)
             m == Append(l, e)
  <2>1. y \in Seq(A) /\ Len(y) = Len(x) + 1 /\ y[Len(x) + 1] = e /\ \A i \in 1..Len(x) : y[i] = x[i]
    OBVIOUS
  <2>2. ls \in Seq(Seq(A)) \ {<< >>} /\ Len(ls) \in Nat \ {0} /\ l \in Seq(A) /\ ls[Len(ls)] = l
    BY LinesType DEF LastLine
  <2>3. SUFFICES ASSUME Framed(y, mark) PROVE \A j \in 1..Len(Lines(y)) : Framed(Lines(y)[j], mark)
    BY <2>1
  <2> HIDE DEF y
  <2>4. Framed(x, mark)
    BY <2>1, <2>3, FramedPrefix
  <2>5. \A j \in 1..Len(ls) : Framed(ls[j], mark)
    BY <1>2, <2>4
  <2>6. EndOf(l, x)
    BY LinesEnd
  <2> HIDE DEF ls, l
  <2>7. CASE e = "nl"
    <3>1. Lines(y) = Append(ls, << >>)
      BY <2>7, LinesAppend DEF ls, y
    <3> QED
      BY <3>1, <2>2, <2>5, <1>0
  <2>8. CASE e # "nl"
    <3>1. Lines(y) = [ls EXCEPT ![Len(ls)] = Append(@, e)]
      BY <2>8, LinesAppend DEF ls, y
    <3>2. m \in Seq(A) /\ Len(m) = Len(l) + 1 /\ m[Len(l) + 1] = e /\ \A i \in 1..Len(l) : m[i] = l[i]
      BY <2>2
    <3>3. Lines(y) = [ls EXCEPT ![Len(ls)] = m]
      BY <3>1, <2>2
    <3> HIDE DEF m
    <3>4. Framed(m, mark)
      <4> SUFFICES ASSUME NEW i \in 1..Len(m), m[i] \in {"zs", "zn"}
                   PROVE  \E k \in 1..MarkBits : /\ k < i /\ m[i - k] = "zj"
                                                 /\ \A p \in 1..k : m[i - k + p] = Signs(mark)[p]
        BY DEF Framed
      <4>0. Len(l) \in Nat /\ Len(x) \in Nat /\ Len(l) <= Len(x) /\ Len(l) \in 1..Len(ls) \cup Nat
        BY <2>2, <2>6 DEF EndOf
      <4>1. CASE i <= Len(l)
        <5>1. i \in 1..Len(l) /\ l[i] \in {"zs", "zn"}
          BY <4>1, <4>0, <3>2
        <5>2. Framed(l, mark)
          BY <2>2, <2>5
        <5>3. PICK k \in 1..MarkBits : /\ k < i /\ l[i - k] = "zj"
                                       /\ \A p \in 1..k : l[i - k + p] = Signs(mark)[p]
          BY <5>1, <5>2 DEF Framed
        <5>4. m[i - k] = "zj" /\ \A p \in 1..k : m[i - k + p] = Signs(mark)[p]
          BY <5>1, <5>3, <3>2, <4>0
        <5> QED
          BY <5>3, <5>4
      <4>2. CASE i = Len(l) + 1
        <5>0. Len(x) + 1 \in 1..Len(y) /\ y[Len(x) + 1] \in {"zs", "zn"}
          BY <4>2, <4>0, <3>2, <2>1
        <5>1. PICK q \in 1..Len(y) : q = Len(x) + 1 /\ y[q] \in {"zs", "zn"}
          BY <5>0
        <5>9. PICK k \in 1..MarkBits : /\ k < q /\ y[q - k] = "zj"
                                       /\ \A p \in 1..k : y[q - k + p] = Signs(mark)[p]
          BY <5>1, <2>3 DEF Framed
        <5>2. /\ k < Len(x) + 1 /\ y[Len(x) + 1 - k] = "zj"
              /\ \A p \in 1..k : y[Len(x) + 1 - k + p] = Signs(mark)[p]
          BY <5>1, <5>9
        <5>3. k <= Len(l)
          <6> SUFFICES ASSUME k > Len(l) PROVE FALSE
            BY <4>0
          <6>1. Len(l) < Len(x) /\ x[Len(x) - Len(l)] = "nl" /\ Len(x) - Len(l) \in 1..Len(x)
            BY <4>0, <5>2, <2>6, SMTT(30) DEF EndOf
          <6>2. y[Len(x) - Len(l)] = "nl"
            BY <6>1, <2>1
          <6>3. CASE k = Len(l) + 1
            <7>1. Len(x) + 1 - k = Len(x) - Len(l)
              BY <6>3, <4>0
            <7> QED
              BY <7>1, <6>2, <5>2
          <6>4. CASE k > Len(l) + 1
            <7>1. PICK p \in 1..k : Len(x) + 1 - k + p = Len(x) - Len(l)
              <8>1. k - 1 - Len(l) \in 1..k /\ Len(x) + 1 - k + (k - 1 - Len(l)) = Len(x) - Len(l)
                BY <6>4, <4>0
              <8> QED
                BY <8>1
            <7>2. p \in 1..MarkBits
              BY <7>1
            <7> QED
              BY <7>1, <7>2, <6>2, <5>2
          <6> QED
            BY <6>3, <6>4, <4>0
        <5>4. \A h \in 1..Len(l) : m[h] = y[Len(x) - Len(l) + h]
          <6> TAKE h \in 1..Len(l)
          <6>1. l[h] = x[Len(x) - Len(l) + h] /\ Len(x) - Len(l) + h \in 1..Len(x)
            BY <4>0, <2>6 DEF EndOf
          <6> QED
            BY <6>1, <3>2, <2>1
        <5>5. m[i] = y[Len(x) - Len(l) + i] /\ Len(x) - Len(l) + i = Len(x) + 1
          BY <4>2, <4>0, <3>2, <2>1
        <5>6. k < i /\ i - k \in 1..Len(l) /\ Len(x) - Len(l) + (i - k) = Len(x) + 1 - k
          BY <4>2, <4>0, <5>3
        <5>7. m[i - k] = "zj"
          BY <5>2, <5>4, <5>6
        <5>8. ASSUME NEW p \in 1..k PROVE m[i - k + p] = Signs(mark)[p]
          <6>1. i - k + p \in 1..(Len(l) + 1) /\ Len(x) - Len(l) + (i - k + p) = Len(x) + 1 - k + p
            BY <4>2, <4>0, <5>3
          <6>2. m[i - k + p] = y[Len(x) - Len(l) + (i - k + p)]
            BY <6>1, <5>4, <5>5, <4>2, <4>0, SMTT(30)
          <6> QED
            BY <6>1, <6>2, <5>2
        <5> QED
          BY <5>6, <5>7, <5>8
      <4> QED
        BY <4>1, <4>2, <4>0, <3>2
    <3> QED
      BY <3>3, <3>4, <2>2, <2>5
  <2> QED
    BY <2>7, <2>8
<1>3. \A x \in Seq(A) : x \in S
  <2> HIDE DEF S
  <2> QED
    BY <1>1, <1>2, SeqInduction
<1> QED
  BY <1>3

\* A frame that is read holds the mark whose frames were inserted.
LEMMA MarkInFramed ==
  ASSUME NEW A, NEW mark \in MarkIds, NEW t \in Seq(A), Framed(t, mark),
         NEW i \in 1..Len(t), t[i] = "zj"
  PROVE  MarkIn(t, i, BitsEnd(t, i + 1)) \in Seq({mark})
<1> DEFINE j == BitsEnd(t, i + 1)
<1>1. MarkBits \in Nat \ {0} /\ \A n \in 1..MarkBits : Signs(mark)[n] \in {"zs", "zn"}
  BY FrameShape
<1>2. /\ i + 1 \in 1..(Len(t) + 1)
      /\ j \in (i + 1)..(Len(t) + 1) /\ \A h \in (i + 1)..(j - 1) : t[h] \in {"zs", "zn"}
  <2>1. i + 1 \in 1..(Len(t) + 1)
    OBVIOUS
  <2> QED
    BY <2>1, BitsEndFacts
<1>0. SUFFICES MarkIn(t, i, j) \in Seq({mark})
  OBVIOUS
<1> HIDE DEF j
<1>3. CASE j - i - 1 = MarkBits /\ j <= Len(t)
  <2> DEFINE b == [n \in 1..MarkBits |-> IF t[i + n] = "zs" THEN 0 ELSE 1]
  <2>1. PICK q \in 1..Len(t) : q = i + MarkBits
    BY <1>1, <1>2, <1>3
  <2>2. \A n \in 1..MarkBits : i + n \in (i + 1)..(j - 1)
    BY <1>1, <1>2, <1>3
  <2>3. \A n \in 1..MarkBits : t[i + n] \in {"zs", "zn"}
    BY <2>2, <1>2
  <2>4. t[q] \in {"zs", "zn"}
    BY <2>1, <2>3, <1>1
  <2>5. PICK k \in 1..MarkBits : /\ k < q /\ t[q - k] = "zj"
                                 /\ \A n \in 1..k : t[q - k + n] = Signs(mark)[n]
    BY <2>4 DEF Framed
  <2>6. k = MarkBits
    <3> SUFFICES ASSUME k < MarkBits PROVE FALSE
      BY <1>1
    <3>1. MarkBits - k \in 1..MarkBits /\ q - k = i + (MarkBits - k)
      BY <2>1, <1>1
    <3>2. t[q - k] \in {"zs", "zn"}
      BY <3>1, <2>3
    <3> QED
      BY <3>2, <2>5
  <2>7. ASSUME NEW n \in 1..MarkBits PROVE t[i + n] = Signs(mark)[n]
    <3>1. q - k + n = i + n /\ n \in 1..k
      BY <2>1, <2>6, <1>1
    <3> QED
      BY <3>1, <2>5
  <2>8. ASSUME NEW n \in 1..MarkBits PROVE b[n] = BitsOf(mark)[n]
    <3>1. BitsOf(mark)[n] \in {0, 1}
      BY MarkShape
    <3>2. Signs(mark)[n] = IF BitsOf(mark)[n] = 0 THEN "zs" ELSE "zn"
      BY DEF Signs
    <3>3. t[i + n] = Signs(mark)[n]
      BY <2>7
    <3> QED
      BY <3>1, <3>2, <3>3
  <2>9. b = BitsOf(mark)
    <3>1. BitsOf(mark) = [n \in 1..MarkBits |-> BitsOf(mark)[n]]
      BY MarkShape
    <3>2. b = [n \in 1..MarkBits |-> b[n]]
      OBVIOUS
    <3> HIDE DEF b
    <3> QED
      BY <3>1, <3>2, <2>8
  <2>10. BytesFromBits(b) = mark
    BY <2>9, RoundTrip
  <2>11. MarkIn(t, i, j) = <<BytesFromBits(b)>> \/ MarkIn(t, i, j) = << >>
    BY DEF MarkIn
  <2> HIDE DEF b
  <2>12. <<mark>> \in Seq({mark}) /\ << >> \in Seq({mark})
    OBVIOUS
  <2> QED
    BY <2>10, <2>11, <2>12, Zenon
<1>4. CASE ~ (j - i - 1 = MarkBits /\ j <= Len(t))
  <2>1. MarkIn(t, i, j) = << >>
    BY <1>4 DEF MarkIn
  <2> QED
    BY <2>1
<1> QED
  BY <1>3, <1>4

\* What is read from each position on.
Reads(f, t) ==
  /\ ExtractZw(t) = f[1]
  /\ \A i \in 1..(Len(t) + 2) : i > Len(t) => f[i] = << >>
  /\ \A i \in 1..Len(t) : t[i] # "zj" => f[i] = f[i + 1]
  /\ \A i \in 1..Len(t) : t[i] = "zj" =>
       f[i] = MarkIn(t, i, BitsEnd(t, i + 1)) \o f[BitsEnd(t, i + 1) + 1]

\* extract_zw, case by case.
LEMMA ReadCases ==
  ASSUME NEW A, NEW t \in Seq(A)
  PROVE  \E f \in [1..(Len(t) + 2) -> Seq(Marked)] : Reads(f, t)
<1>1. PICK f \in [1..(Len(t) + 2) -> Seq(Marked)] :
           /\ ExtractZw(t) = f[1]
           /\ \A i \in 1..(Len(t) + 2) :
                f[i] = IF i > Len(t) THEN << >>
                       ELSE IF t[i] # "zj" THEN f[i + 1]
                       ELSE MarkIn(t, i, BitsEnd(t, i + 1)) \o f[BitsEnd(t, i + 1) + 1]
  BY ReadSteps
<1>2. \A i \in 1..Len(t) : i \in 1..(Len(t) + 2) /\ ~ (i > Len(t))
  OBVIOUS
<1>3. Reads(f, t)
  BY <1>1, <1>2, Zenon DEF Reads
<1> QED
  BY <1>3

\* extract_zw returns that mark, any number of times.
LEMMA ReadsOnlyMark ==
  ASSUME NEW A, NEW mark \in MarkIds, NEW t \in Seq(A), Framed(t, mark)
  PROVE  ExtractZw(t) \in Seq({mark})
<1> DEFINE n == Len(t)
<1>1. PICK f \in [1..(n + 2) -> Seq(Marked)] : Reads(f, t)
  BY ReadCases
<1>10. /\ ExtractZw(t) = f[1]
       /\ \A i \in 1..(n + 2) : i > n => f[i] = << >>
       /\ \A i \in 1..n : t[i] # "zj" => f[i] = f[i + 1]
       /\ \A i \in 1..n : t[i] = "zj" =>
            f[i] = MarkIn(t, i, BitsEnd(t, i + 1)) \o f[BitsEnd(t, i + 1) + 1]
  BY <1>1 DEF Reads
<1>2. n \in Nat
  OBVIOUS
<1> DEFINE S == {d \in Nat : \A i \in 1..(n + 2) : i + d > n => f[i] \in Seq({mark})}
<1>3. 0 \in S
  <2> SUFFICES ASSUME NEW i \in 1..(n + 2), i + 0 > n PROVE f[i] \in Seq({mark})
    OBVIOUS
  <2>1. f[i] = << >>
    BY <1>10, <1>2
  <2> QED
    BY <2>1
<1>4. ASSUME NEW d \in 0..n, d # n, d \in S PROVE d + 1 \in S
  <2> SUFFICES ASSUME NEW i \in 1..(n + 2), i + (d + 1) > n PROVE f[i] \in Seq({mark})
    BY <1>2
  <2>1. CASE i > n
    <3>1. f[i] = << >>
      BY <2>1, <1>10
    <3> QED
      BY <3>1
  <2>2. CASE i <= n /\ t[i] # "zj"
    <3>1. f[i] = f[i + 1] /\ i + 1 \in 1..(n + 2) /\ (i + 1) + d > n
      BY <2>2, <1>10, <1>2
    <3> QED
      BY <3>1, <1>4
  <2>3. CASE i <= n /\ t[i] = "zj"
    <3>1. i \in 1..n /\ i + 1 \in 1..(n + 1)
      BY <2>3, <1>2
    <3>2. PICK k \in (i + 1)..(n + 1) : k = BitsEnd(t, i + 1)
      BY <3>1, BitsEndFacts
    <3>3. f[i] = MarkIn(t, i, BitsEnd(t, i + 1)) \o f[k + 1]
      BY <2>3, <3>1, <3>2, <1>10, Zenon
    <3>4. k + 1 \in 1..(n + 2) /\ (k + 1) + d > n
      BY <3>1, <3>2, <1>2
    <3>5. f[k + 1] \in Seq({mark})
      BY <3>4, <1>4
    <3>6. MarkIn(t, i, BitsEnd(t, i + 1)) \in Seq({mark})
      BY <3>1, <2>3, MarkInFramed
    <3> QED
      BY <3>3, <3>5, <3>6, ConcatProperties
  <2> QED
    BY <2>1, <2>2, <2>3, <1>2
<1>5. n \in S
  <2> HIDE DEF S, n
  <2>1. \A d \in 0..n : d \in S
    BY <1>2, <1>3, <1>4, BoundedInduction
  <2> QED
    BY <2>1, <1>2
<1> QED
  BY <1>5, <1>2, <1>10

\* The first joiner of the text opens a frame.
OpensAt(t, mark, i) ==
  /\ i + MarkBits + 1 <= Len(t)
  /\ \A j \in 1..(i - 1) : t[j] # "zj"
  /\ \A n \in 1..(MarkBits + 2) : t[i + n - 1] = Frame(mark)[n]

Opens(t, mark) == \E i \in 1..Len(t) : OpensAt(t, mark, i)

\* Such a frame is read.
LEMMA OpensReads ==
  ASSUME NEW A, NEW mark \in MarkIds, NEW t \in Seq(A), Opens(t, mark)
  PROVE  ExtractZw(t) # << >>
<1> DEFINE n == Len(t)
<1>1. PICK f \in [1..(n + 2) -> Seq(Marked)] : Reads(f, t)
  BY ReadCases
<1>10. /\ ExtractZw(t) = f[1]
       /\ \A i \in 1..(n + 2) : i > n => f[i] = << >>
       /\ \A i \in 1..n : t[i] # "zj" => f[i] = f[i + 1]
       /\ \A i \in 1..n : t[i] = "zj" =>
            f[i] = MarkIn(t, i, BitsEnd(t, i + 1)) \o f[BitsEnd(t, i + 1) + 1]
  BY <1>1 DEF Reads
<1>2. PICK i \in 1..n : OpensAt(t, mark, i)
  BY DEF Opens
<1>3. /\ n \in Nat /\ MarkBits \in Nat \ {0}
      /\ Frame(mark)[1] = "zj" /\ Frame(mark)[MarkBits + 2] = "zj"
      /\ \A k \in 1..MarkBits : Frame(mark)[k + 1] \in {"zs", "zn"}
  BY FrameShape, SMTT(30)
<1>4. t[i] = "zj" /\ t[i + MarkBits + 1] = "zj" /\ \A k \in 1..MarkBits : t[i + k] \in {"zs", "zn"}
  <2>1. 1 \in 1..(MarkBits + 2) /\ i + 1 - 1 = i /\ MarkBits + 2 \in 1..(MarkBits + 2) /\ i + (MarkBits + 2) - 1 = i + MarkBits + 1
    BY <1>3
  <2>2. \A k \in 1..MarkBits : k + 1 \in 1..(MarkBits + 2) /\ i + (k + 1) - 1 = i + k
    BY <1>3
  <2>3. \A k \in 1..(MarkBits + 2) : t[i + k - 1] = Frame(mark)[k]
    BY <1>2 DEF OpensAt
  <2>4. t[i + 1 - 1] = "zj" /\ t[i + (MarkBits + 2) - 1] = "zj"
    BY <2>1, <2>3, <1>3
  <2>5. ASSUME NEW k \in 1..MarkBits PROVE t[i + k] \in {"zs", "zn"}
    <3>1. t[i + (k + 1) - 1] = Frame(mark)[k + 1]
      BY <2>2, <2>3
    <3> QED
      BY <3>1, <2>2, <1>3
  <2> QED
    BY <2>1, <2>4, <2>5
<1>5. i + MarkBits + 1 <= n
  BY <1>2 DEF OpensAt
<1>6. BitsEnd(t, i + 1) = i + MarkBits + 1
  <2> DEFINE e == BitsEnd(t, i + 1)
  <2>1. i + 1 \in 1..(n + 1)
    BY <1>3
  <2>2. /\ e \in (i + 1)..(n + 1)
        /\ \A h \in (i + 1)..(e - 1) : t[h] \in {"zs", "zn"}
        /\ e <= n => t[e] \notin {"zs", "zn"}
    BY <2>1, BitsEndFacts
  <2> HIDE DEF e
  <2>3. ASSUME e < i + MarkBits + 1 PROVE FALSE
    <3>1. e - i \in 1..MarkBits /\ i + (e - i) = e /\ e <= n
      BY <2>2, <2>3, <1>3, <1>5
    <3>2. t[e] \in {"zs", "zn"}
      BY <3>1, <1>4
    <3> QED
      BY <3>1, <3>2, <2>2
  <2>4. ASSUME e > i + MarkBits + 1 PROVE FALSE
    <3>1. i + MarkBits + 1 \in (i + 1)..(e - 1)
      BY <2>2, <2>4, <1>3
    <3> QED
      BY <3>1, <2>2, <1>4
  <2>5. e = i + MarkBits + 1
    BY <2>2, <2>3, <2>4, <1>3
  <2> QED
    BY <2>5 DEF e
<1>7. f[i] # << >>
  <2> DEFINE e == i + MarkBits + 1
             m == MarkIn(t, i, e)
  <2>1. e + 1 \in 1..(n + 2) /\ i \in 1..(n + 2) /\ ~ (i > n)
    BY <1>3, <1>5
  <2>2. f[i] = m \o f[e + 1]
    BY <1>4, <1>6, <1>10, Zenon
  <2>3. m \in Seq(Marked)
    BY MarkInType
  <2>4. Len(m) = 1
    <3>1. e - i - 1 = MarkBits /\ e <= Len(t) /\ t[e] = "zj"
      BY <1>3, <1>4, <1>5
    <3> HIDE DEF e
    <3> QED
      BY <3>1 DEF MarkIn
  <2>5. f[e + 1] \in Seq(Marked)
    BY <2>1
  <2> HIDE DEF m, e
  <2>6. ASSUME NEW x \in Seq(Marked), NEW y \in Seq(Marked), Len(x) = 1 PROVE x \o y # << >>
    <3>1. Len(x \o y) = Len(x) + Len(y) /\ Len(y) \in Nat /\ Len(<< >>) = 0
      BY ConcatProperties
    <3> QED
      BY <2>6, <3>1
  <2> QED
    BY <2>2, <2>3, <2>4, <2>5, <2>6
<1>8. \A d \in 0..(i - 1) : f[i - d] = f[i]
  <2> DEFINE S == {d \in Nat : f[i - d] = f[i]}
  <2>1. 0 \in S
    BY <1>3
  <2>2. ASSUME NEW d \in 0..(i - 1), d # i - 1, d \in S PROVE d + 1 \in S
    <3>1. PICK k \in 1..n : k = i - (d + 1) /\ k \in 1..(i - 1) /\ k + 1 = i - d
      BY <2>2, <1>3
    <3>2. t[k] # "zj"
      BY <3>1, <1>2 DEF OpensAt
    <3>3. f[k] = f[k + 1]
      BY <3>1, <3>2, <1>10
    <3> QED
      BY <3>1, <3>3, <2>2
  <2>3. i - 1 \in Nat
    BY <1>3
  <2> HIDE DEF S
  <2>4. \A d \in 0..(i - 1) : d \in S
    BY <2>1, <2>2, <2>3, BoundedInduction
  <2> QED
    BY <2>4 DEF S
<1>9. i - 1 \in 0..(i - 1) /\ i - (i - 1) = 1
  BY <1>3
<1>11. f[1] = f[i]
  BY <1>8, <1>9
<1> QED
  BY <1>7, <1>10, <1>11

\* What stands behind such a text, or in front of it without a joiner,
\* changes nothing.
LEMMA OpensCat ==
  ASSUME NEW A, NEW mark, MarkBits \in Nat, NEW s \in Seq(A), NEW t \in Seq(A)
  PROVE  /\ Opens(s, mark) => Opens(s \o t, mark)
         /\ (\A i \in 1..Len(s) : s[i] # "zj") /\ Opens(t, mark) => Opens(s \o t, mark)
<1> DEFINE u == s \o t
<1>1. /\ Len(u) = Len(s) + Len(t) /\ Len(s) \in Nat /\ Len(t) \in Nat
      /\ \A i \in 1..Len(s) : u[i] = s[i]
      /\ \A i \in 1..Len(t) : u[Len(s) + i] = t[i]
  OBVIOUS
<1> HIDE DEF u
<1>2. ASSUME Opens(s, mark) PROVE Opens(u, mark)
  <2>1. PICK i \in 1..Len(s) : OpensAt(s, mark, i)
    BY <1>2 DEF Opens
  <2>2. /\ i + MarkBits + 1 <= Len(s)
        /\ \A j \in 1..(i - 1) : s[j] # "zj"
        /\ \A n \in 1..(MarkBits + 2) : s[i + n - 1] = Frame(mark)[n]
    BY <2>1 DEF OpensAt
  <2>3. i \in 1..Len(u) /\ i + MarkBits + 1 <= Len(u)
    BY <1>1, <2>2
  <2>4. \A j \in 1..(i - 1) : j \in 1..Len(s)
    BY <1>1
  <2>5. \A n \in 1..(MarkBits + 2) : i + n - 1 \in 1..Len(s)
    BY <1>1, <2>2
  <2>6. OpensAt(u, mark, i)
    BY <1>1, <2>2, <2>3, <2>4, <2>5 DEF OpensAt
  <2> QED
    BY <2>3, <2>6 DEF Opens
<1>3. ASSUME \A i \in 1..Len(s) : s[i] # "zj", Opens(t, mark) PROVE Opens(u, mark)
  <2>1. PICK i \in 1..Len(t) : OpensAt(t, mark, i)
    BY <1>3 DEF Opens
  <2>2. /\ i + MarkBits + 1 <= Len(t)
        /\ \A j \in 1..(i - 1) : t[j] # "zj"
        /\ \A n \in 1..(MarkBits + 2) : t[i + n - 1] = Frame(mark)[n]
    BY <2>1 DEF OpensAt
  <2> DEFINE h == Len(s) + i
  <2>3. h \in 1..Len(u) /\ h + MarkBits + 1 <= Len(u)
    BY <1>1, <2>2
  <2>4. ASSUME NEW j \in 1..(h - 1) PROVE u[j] # "zj"
    <3>1. CASE j <= Len(s)
      BY <3>1, <1>1, <1>3
    <3>2. CASE ~ (j <= Len(s))
      <4>1. j - Len(s) \in 1..(i - 1) /\ j - Len(s) \in 1..Len(t) /\ Len(s) + (j - Len(s)) = j
        BY <3>2, <1>1
      <4> QED
        BY <4>1, <1>1, <2>2
    <3> QED
      BY <3>1, <3>2
  <2>5. ASSUME NEW n \in 1..(MarkBits + 2) PROVE u[h + n - 1] = Frame(mark)[n]
    <3>1. i + n - 1 \in 1..Len(t) /\ h + n - 1 = Len(s) + (i + n - 1)
      BY <1>1, <2>2
    <3> QED
      BY <3>1, <1>1, <2>2
  <2> HIDE DEF h
  <2>6. OpensAt(u, mark, h)
    BY <2>3, <2>4, <2>5 DEF OpensAt
  <2> QED
    BY <2>3, <2>6 DEF Opens
<1> QED
  BY <1>2, <1>3 DEF u

\* "\n".join, one line after the other.
LEMMA JoinStep ==
  ASSUME NEW A, "nl" \in A, NEW ls \in Seq(Seq(A)), NEW l \in Seq(A)
  PROVE  /\ JoinLines(Append(ls, l)) = IF ls = << >> THEN l ELSE JoinLines(ls) \o (<<"nl">> \o l)
         /\ ls # << >> => JoinLines(ls) \in Seq(A)
<1> DEFINE nl == <<"nl">>
           Cut(x) == [n \in DOMAIN x |-> nl \o x[n]]
           J(x) == FlattenSeq(Cut(x))
<1>1. nl \in Seq(A) /\ Len(nl) = 1 /\ nl[1] = "nl"
  OBVIOUS
<1>2. \A x : JoinLines(x) = Tail(J(x))
  BY DEF JoinLines
<1> HIDE DEF nl
<1>3. ASSUME NEW x \in Seq(Seq(A)) PROVE Cut(x) \in Seq(Seq(A)) /\ Len(Cut(x)) = Len(x)
  <2>1. \A n \in 1..Len(x) : nl \o x[n] \in Seq(A)
    BY <1>1, ConcatProperties
  <2>2. Cut(x) = [n \in 1..Len(x) |-> nl \o x[n]] /\ Len(x) \in Nat
    OBVIOUS
  <2>3. Cut(x) \in [1..Len(x) -> Seq(A)]
    BY <2>1, <2>2
  <2> QED
    BY <2>2, <2>3
<1>4. ASSUME NEW x \in Seq(Seq(A)), NEW e \in Seq(A) PROVE J(Append(x, e)) = J(x) \o (nl \o e)
  <2>1. nl \o e \in Seq(A)
    BY <1>1, ConcatProperties
  <2> DEFINE f == nl \o e
  <2>2. Cut(Append(x, e)) = Append(Cut(x), f)
    <3> DEFINE c == Cut(Append(x, e))
               d == Append(Cut(x), f)
    <3>0. Append(x, e) \in Seq(Seq(A)) /\ Len(Append(x, e)) = Len(x) + 1
      OBVIOUS
    <3>1. c \in Seq(Seq(A)) /\ d \in Seq(Seq(A)) /\ Len(c) = Len(x) + 1 /\ Len(d) = Len(x) + 1
      <4>1. c \in Seq(Seq(A)) /\ Len(c) = Len(x) + 1
        BY <1>3, <3>0
      <4>2. Cut(x) \in Seq(Seq(A)) /\ Len(Cut(x)) = Len(x)
        BY <1>3
      <4> DEFINE k == Cut(x)
      <4> HIDE DEF k, f
      <4>3. ASSUME NEW k1 \in Seq(Seq(A)), NEW f1 \in Seq(A)
            PROVE  Append(k1, f1) \in Seq(Seq(A)) /\ Len(Append(k1, f1)) = Len(k1) + 1
        OBVIOUS
      <4>4. d \in Seq(Seq(A)) /\ Len(d) = Len(Cut(x)) + 1
        BY <4>2, <4>3, <2>1 DEF f
      <4> QED
        BY <4>1, <4>2, <4>4
    <3>2. ASSUME NEW i \in 1..(Len(x) + 1) PROVE c[i] = d[i]
      <4>1. CASE i = Len(x) + 1
        <5>1. Append(x, e)[i] = e /\ d[i] = f
          BY <4>1, <1>3, <2>1
        <5>2. c[i] = nl \o Append(x, e)[i]
          BY <3>0, SMTT(30)
        <5> QED
          BY <5>1, <5>2
      <4>2. CASE i # Len(x) + 1
        <5>1. Append(x, e)[i] = x[i] /\ i \in 1..Len(x)
          BY <4>2
        <5>2. c[i] = nl \o Append(x, e)[i]
          BY <3>0, SMTT(30)
        <5>3. d[i] = Cut(x)[i]
          BY <5>1, <1>3, <2>1, AppendProperties
        <5>4. Cut(x)[i] = nl \o x[i]
          BY <5>1, SMTT(30)
        <5> QED
          BY <5>1, <5>2, <5>3, <5>4, Zenon
      <4> QED
        BY <4>1, <4>2
    <3> HIDE DEF c, d
    <3>3. c = d
      BY <3>1, <3>2, SeqEqual
    <3> QED
      BY <3>3 DEF c, d
  <2>3. FlattenSeq(Append(Cut(x), f)) = FlattenSeq(Cut(x)) \o f
    BY <1>3, <2>1, FlattenAppend
  <2> QED
    BY <2>2, <2>3
<1>5. ASSUME NEW x \in Seq(Seq(A)) PROVE J(x) \in Seq(A)
  BY <1>3, FlattenType
<1>6. J(<< >>) = << >>
  <2>1. Cut(<< >>) = << >>
    OBVIOUS
  <2> QED
    BY <2>1, FlattenNil
<1>7. ASSUME NEW x \in Seq(Seq(A)), x # << >> PROVE J(x) # << >>
  <2>1. PICK u \in Seq(Seq(A)), e \in Seq(A) : x = Append(u, e)
    BY <1>7, SequenceEmptyOrAppend
  <2>2. J(x) = J(u) \o (nl \o e) /\ J(u) \in Seq(A)
    BY <2>1, <1>4, <1>5
  <2> HIDE DEF J
  <2>3. nl \o e \in Seq(A) /\ Len(nl \o e) = Len(nl) + Len(e) /\ Len(e) \in Nat
    BY <1>1, ConcatProperties, LenProperties
  <2> DEFINE h == J(u)
             k == nl \o e
  <2>4. h \in Seq(A) /\ k \in Seq(A) /\ Len(k) \in Nat /\ Len(k) # 0 /\ J(x) = h \o k
    BY <2>2, <2>3, <1>1
  <2> HIDE DEF h, k
  <2>5. Len(h \o k) = Len(h) + Len(k) /\ Len(h) \in Nat
    BY <2>4, ConcatProperties, LenProperties
  <2>6. Len(J(x)) # 0
    BY <2>4, <2>5
  <2> QED
    BY <2>6
<1>8. ASSUME NEW x \in Seq(A), NEW y \in Seq(A), x # << >> PROVE Tail(x \o y) = Tail(x) \o y /\ Tail(x) \in Seq(A)
  <2>1. x \o y \in Seq(A) /\ x \o y # << >> /\ Tail(x) \in Seq(A)
    BY <1>8
  <2>2. Tail(x \o y) \in Seq(A) /\ Tail(x) \o y \in Seq(A)
    BY <2>1
  <2>3. Len(Tail(x \o y)) = Len(Tail(x) \o y)
    BY <1>8, <2>1
  <2>4. \A i \in 1..Len(Tail(x \o y)) : Tail(x \o y)[i] = (Tail(x) \o y)[i]
    BY <1>8, <2>1
  <2> QED
    BY <2>1, <2>2, <2>3, <2>4, SeqEqual
<1> HIDE DEF J
<1>9. CASE ls = << >>
  <2>1. J(Append(ls, l)) = nl \o l
    <3>1. J(Append(ls, l)) = J(ls) \o (nl \o l)
      BY <1>4
    <3>2. J(ls) = << >>
      BY <1>6, <1>9
    <3>3. nl \o l \in Seq(A)
      BY <1>1, ConcatProperties
    <3>4. << >> \o (nl \o l) = nl \o l
      BY <3>3, ConcatEmptySeq
    <3> QED
      BY <3>1, <3>2, <3>4, Zenon
  <2>2. Tail(nl \o l) = l
    <3>0. /\ nl \o l \in Seq(A) /\ Len(nl \o l) = Len(nl) + Len(l)
          /\ \A i \in 1..(Len(nl) + Len(l)) : (nl \o l)[i] = IF i <= Len(nl) THEN nl[i] ELSE l[i - Len(nl)]
      BY <1>1, ConcatProperties
    <3>1. /\ nl \o l \in Seq(A) /\ Len(nl \o l) = 1 + Len(l)
          /\ \A i \in 1..(1 + Len(l)) : (nl \o l)[i] = IF i <= 1 THEN nl[i] ELSE l[i - 1]
      BY <3>0, <1>1, Zenon
    <3> DEFINE c == nl \o l
    <3> HIDE DEF c
    <3>2. Tail(c) \in Seq(A) /\ Len(Tail(c)) = Len(l) /\ \A i \in 1..Len(l) : Tail(c)[i] = c[i + 1]
      BY <3>1 DEF c
    <3>3. \A i \in 1..Len(l) : Tail(c)[i] = l[i]
      <4> TAKE i \in 1..Len(l)
      <4>1. i + 1 \in 1..(1 + Len(l)) /\ ~ (i + 1 <= 1) /\ (i + 1) - 1 = i
        OBVIOUS
      <4>2. c[i + 1] = l[i]
        BY <3>1, <4>1 DEF c
      <4> QED
        BY <3>2, <4>2
    <3>4. Tail(c) = l
      BY <3>2, <3>3, SeqEqual
    <3> QED
      BY <3>4 DEF c
  <2> QED
    BY <1>2, <1>9, <2>1, <2>2
<1>10. CASE ls # << >>
  <2>1. J(Append(ls, l)) = J(ls) \o (nl \o l) /\ J(ls) \in Seq(A) /\ J(ls) # << >>
    BY <1>4, <1>5, <1>7, <1>10
  <2>2. nl \o l \in Seq(A)
    BY <1>1, ConcatProperties
  <2>3. Tail(J(ls) \o (nl \o l)) = Tail(J(ls)) \o (nl \o l) /\ Tail(J(ls)) \in Seq(A)
    BY <2>1, <2>2, <1>8
  <2> QED
    BY <1>2, <1>10, <2>1, <2>3 DEF nl
<1> QED
  BY <1>9, <1>10

\* A set of texts that is closed under concatenation is closed under it.
LEMMA JoinClosed ==
  ASSUME NEW A, "nl" \in A, NEW T \in SUBSET Seq(A), <<"nl">> \in T, \A s, t \in T : s \o t \in T,
         NEW ls \in Seq(T), ls # << >>
  PROVE  JoinLines(ls) \in T
<1> DEFINE S == {x \in Seq(T) : x # << >> => JoinLines(x) \in T}
<1>1. << >> \in S
  OBVIOUS
<1>2. ASSUME NEW x \in Seq(T), NEW e \in T, x \in S PROVE Append(x, e) \in S
  <2>1. x \in Seq(Seq(A)) /\ e \in Seq(A)
    BY SeqMonotonic
  <2>2. JoinLines(Append(x, e)) = IF x = << >> THEN e ELSE JoinLines(x) \o (<<"nl">> \o e)
    BY <2>1, JoinStep
  <2>3. <<"nl">> \o e \in T
    OBVIOUS
  <2>4. x # << >> => JoinLines(x) \o (<<"nl">> \o e) \in T
    BY <1>2, <2>3
  <2>5. Append(x, e) \in Seq(T)
    OBVIOUS
  <2>6. JoinLines(Append(x, e)) \in T
    BY <2>2, <2>4
  <2> QED
    BY <2>5, <2>6
<1>3. \A x \in Seq(T) : x \in S
  <2> HIDE DEF S
  <2> QED
    BY <1>1, <1>2, SeqInduction
<1> QED
  BY <1>3

\* What is left has none of the members that were dropped.
LEMMA WithoutType ==
  ASSUME NEW A, NEW X, NEW s \in Seq(A)
  PROVE  Without(s, X) \in Seq(A \ X)
<1> DEFINE S == {x \in Seq(A) : Without(x, X) \in Seq(A \ X)}
<1>1. << >> \in S
  <2>1. Without(<< >>, X) = << >> /\ << >> \in Seq(A) /\ << >> \in Seq(A \ X)
    BY WithoutNil, EmptySeq
  <2> QED
    BY <2>1
<1>2. ASSUME NEW x \in Seq(A), NEW e \in A, x \in S PROVE Append(x, e) \in S
  <2>1. Without(Append(x, e), X) = IF e \in X THEN Without(x, X) ELSE Append(Without(x, X), e)
    BY WithoutAppend
  <2>2. Without(x, X) \in Seq(A \ X)
    BY <1>2
  <2>3. e \notin X => Append(Without(x, X), e) \in Seq(A \ X)
    BY <2>2
  <2> QED
    BY <2>1, <2>2, <2>3, SMTT(30)
<1>3. \A x \in Seq(A) : x \in S
  <2> HIDE DEF S
  <2> QED
    BY <1>1, <1>2, SeqInduction
<1> QED
  BY <1>3

\* A bounded set of naturals has a greatest element.
LEMMA GreatestNat ==
  ASSUME NEW m \in Nat, NEW T \in SUBSET (0..m), T # {}
  PROVE  \E x \in T : \A y \in T : y <= x
<1> DEFINE D == {m - y : y \in T}
<1>0. \A y \in T : m - y \in Nat
  OBVIOUS
<1>1. D \in SUBSET Nat /\ D # {}
  BY <1>0
<1>2. PICK d \in D : \A e \in D : d <= e
  BY <1>1, LeastNat
<1>3. PICK x \in T : d = m - x
  BY <1>2
<1>4. ASSUME NEW y \in T PROVE y <= x
  <2>1. m - y \in D
    OBVIOUS
  <2> QED
    BY <2>1, <1>2, <1>3
<1> QED
  BY <1>4

\* rstrip takes the blanks at the end.
Stripped(r, l) ==
  /\ Len(r) <= Len(l) /\ \A i \in 1..Len(r) : r[i] = l[i]
  /\ \A i \in (Len(r) + 1)..Len(l) : l[i] \in Blank
  /\ Len(r) > 0 => l[Len(r)] \notin Blank

\* RStrip takes away exactly the whitespace at the end.
LEMMA RStripFacts ==
  ASSUME NEW A, NEW l \in Seq(A)
  PROVE  RStrip(l) \in Seq(A) /\ Stripped(RStrip(l), l)
<1> DEFINE T == {0} \cup {i \in DOMAIN l : l[i] \notin Blank}
           m == Max(T)
<1>0. Len(l) \in Nat /\ DOMAIN l = 1..Len(l)
  BY LenProperties
<1>1. T \in SUBSET (0..Len(l)) /\ T # {}
  BY <1>0
<1>2. m \in T /\ \A y \in T : y <= m
  <2>1. \E x \in T : \A y \in T : y <= x
    BY <1>0, <1>1, GreatestNat
  <2>2. \E x \in T : \A y \in T : x >= y
    BY <1>1, <2>1
  <2>3. m \in T /\ \A y \in T : m >= y
    BY <2>2 DEF Max
  <2> QED
    BY <1>1, <2>3
<1>3. RStrip(l) = SubSeq(l, 1, m)
  BY DEF RStrip
<1>4. m \in 0..Len(l) /\ (m > 0 => l[m] \notin Blank) /\ \A i \in (m + 1)..Len(l) : l[i] \in Blank
  <2>1. m \in 0..Len(l) /\ (m > 0 => l[m] \notin Blank)
    <3> HIDE DEF m
    <3> QED
      BY <1>0, <1>1, <1>2
  <2>2. ASSUME NEW i \in (m + 1)..Len(l) PROVE l[i] \in Blank
    <3> SUFFICES ASSUME l[i] \notin Blank PROVE FALSE
      OBVIOUS
    <3>1. i \in T /\ ~ (i <= m)
      <4> HIDE DEF m
      <4> QED
        BY <1>0, <2>1
    <3> QED
      BY <3>1, <1>2
  <2> QED
    BY <2>1, <2>2
<1> HIDE DEF m
<1>5. /\ SubSeq(l, 1, m) \in Seq(A) /\ Len(SubSeq(l, 1, m)) = m
      /\ \A i \in 1..m : SubSeq(l, 1, m)[i] = l[i]
  BY <1>4
<1> DEFINE r == SubSeq(l, 1, m)
<1> HIDE DEF r
<1>6. Stripped(r, l)
  BY <1>4, <1>5 DEF Stripped, r
<1> QED
  BY <1>3, <1>5, <1>6 DEF r

\* The texts whose bits are all of frames of this mark.
FramedTexts(mark) == {t \in Seq(Chars) : Framed(t, mark)}

\* Framed texts are closed under concatenation.
LEMMA FramedTextsClosed ==
  ASSUME NEW mark \in MarkIds
  PROVE  /\ FramedTexts(mark) \in SUBSET Seq(Chars) /\ << >> \in FramedTexts(mark)
         /\ \A c \in Chars \ {"zs", "zn"} : <<c>> \in FramedTexts(mark)
         /\ Frame(mark) \in FramedTexts(mark)
         /\ \A s, t \in FramedTexts(mark) : s \o t \in FramedTexts(mark)
<1>1. MarkBits \in Nat /\ Frame(mark) \in Seq(Chars)
  BY FrameShape
<1>2. ASSUME NEW t \in Seq(Chars \ {"zs", "zn"}) PROVE t \in FramedTexts(mark)
  <2>1. Framed(t, mark)
    BY FramedPlain
  <2>2. t \in Seq(Chars)
    BY SeqMonotonic
  <2> QED
    BY <2>1, <2>2 DEF FramedTexts
<1>3. \A c \in Chars \ {"zs", "zn"} : <<c>> \in Seq(Chars \ {"zs", "zn"})
  OBVIOUS
<1>4. << >> \in Seq(Chars \ {"zs", "zn"})
  OBVIOUS
<1>5. Framed(Frame(mark), mark)
  BY FramedFrame
<1>6. ASSUME NEW s \in FramedTexts(mark), NEW t \in FramedTexts(mark) PROVE s \o t \in FramedTexts(mark)
  <2>1. s \in Seq(Chars) /\ t \in Seq(Chars) /\ Framed(s, mark) /\ Framed(t, mark)
    BY DEF FramedTexts
  <2>2. Framed(s \o t, mark)
    BY <1>1, <2>1, FramedCat
  <2>3. s \o t \in Seq(Chars)
    BY <2>1, ConcatProperties
  <2> QED
    BY <2>2, <2>3 DEF FramedTexts
<1>7. Frame(mark) \in FramedTexts(mark) /\ FramedTexts(mark) \in SUBSET Seq(Chars)
  BY <1>1, <1>5 DEF FramedTexts
<1> QED
  BY <1>2, <1>3, <1>4, <1>6, <1>7

\* embed_zw inserts frames of the mark and no other bits.
LEMMA EmbedZwFramed ==
  ASSUME NEW mark \in MarkIds, NEW text \in Seq(Chars \ {"zs", "zn"})
  PROVE  EmbedZw(text, mark) \in FramedTexts(mark)
<1> DEFINE T == FramedTexts(mark)
           Put(i) == IF i > 1 /\ (i - 1) % Density = 0 THEN <<text[i]>> \o Frame(mark) ELSE <<text[i]>>
           ps == [i \in DOMAIN text |-> Put(i)]
<1>1. /\ T \in SUBSET Seq(Chars) /\ << >> \in T /\ Frame(mark) \in T
      /\ \A c \in Chars \ {"zs", "zn"} : <<c>> \in T
      /\ \A s, t \in T : s \o t \in T
  BY FramedTextsClosed
<1>2. text \in T
  <2>1. Framed(text, mark)
    BY FramedPlain
  <2>2. text \in Seq(Chars)
    BY SeqMonotonic
  <2> QED
    BY <2>1, <2>2 DEF FramedTexts
<1> HIDE DEF T
<1>3. ASSUME NEW i \in 1..Len(text) PROVE Put(i) \in T
  <2>1. <<text[i]>> \in T
    BY <1>1
  <2>2. <<text[i]>> \o Frame(mark) \in T
    BY <2>1, <1>1
  <2> QED
    BY <2>1, <2>2
<1>4. DOMAIN text = 1..Len(text) /\ Len(text) \in Nat
  BY LenProperties
<1>5. EmbedZw(text, mark) = IF Len(text) < Density THEN text \o Frame(mark) ELSE FlattenSeq(ps)
  BY DEF EmbedZw
<1> HIDE DEF Put
<1>6. ps \in Seq(T)
  <2>1. ps \in [1..Len(text) -> T]
    BY <1>3, <1>4
  <2> QED
    BY <2>1, <1>4
<1> HIDE DEF ps
<1>7. FlattenSeq(ps) \in T
  BY <1>1, <1>6, FlattenClosed
<1>8. text \o Frame(mark) \in T
  BY <1>1, <1>2
<1> QED
  BY <1>5, <1>7, <1>8 DEF T

\* No joiner.
NoJoiner(t) == \A i \in 1..Len(t) : t[i] # "zj"

\* A frame opens with itself.
LEMMA FrameOpens ==
  ASSUME NEW mark \in MarkIds
  PROVE  Opens(Frame(mark), mark)
<1> DEFINE g == Frame(mark)
<1>1. MarkBits \in Nat \ {0} /\ Len(g) = MarkBits + 2
  BY FrameShape
<1> HIDE DEF g
<1>2. 1 + MarkBits + 1 <= Len(g) /\ 1 \in 1..Len(g) /\ \A n \in 1..(MarkBits + 2) : 1 + n - 1 = n
  BY <1>1
<1>3. \A n \in 1..(MarkBits + 2) : g[1 + n - 1] = g[n]
  BY <1>2
<1>4. \A j \in 1..(1 - 1) : g[j] # "zj"
  OBVIOUS
<1>5. OpensAt(g, mark, 1)
  BY <1>2, <1>3, <1>4 DEF OpensAt, g
<1> QED
  BY <1>2, <1>5 DEF Opens, g

\* Texts without joiners are closed under concatenation.
LEMMA NoJoinerCat ==
  ASSUME NEW A, NEW s \in Seq(A), NEW t \in Seq(A), NoJoiner(s), NoJoiner(t)
  PROVE  NoJoiner(s \o t)
<1> DEFINE u == s \o t
<1>1. /\ Len(u) = Len(s) + Len(t) /\ Len(s) \in Nat /\ Len(t) \in Nat
      /\ \A i \in 1..(Len(s) + Len(t)) : u[i] = IF i <= Len(s) THEN s[i] ELSE t[i - Len(s)]
  BY ConcatProperties, LenProperties
<1> HIDE DEF u
<1>2. NoJoiner(u)
  BY <1>1 DEF NoJoiner
<1> QED
  BY <1>2 DEF u

\* Pieces of which the first with a joiner opens with a frame.
LEMMA FlattenOpens ==
  ASSUME NEW mark, MarkBits \in Nat, NEW k \in Nat, NEW ps \in Seq(Seq(Chars)), Len(ps) > k,
         \A i \in 1..k : NoJoiner(ps[i]), Opens(ps[k + 1], mark)
  PROVE  Opens(FlattenSeq(ps), mark)
<1> DEFINE n == Len(ps)
<1>1. n \in Nat /\ k < n /\ \A i \in 1..n : ps[i] \in Seq(Chars)
  BY LenProperties
<1>2. PICK f : FlattenSteps(f, Chars, ps)
  BY FlattenSolved
<1>3. /\ f[0] = << >> /\ f[n] = FlattenSeq(ps)
      /\ \A i \in 0..n : f[i] \in Seq(Chars)
      /\ \A i \in 1..n : f[i] = f[i - 1] \o ps[i]
  BY <1>2 DEF FlattenSteps
<1> HIDE DEF n
<1>4. \A i \in 0..k : NoJoiner(f[i])
  <2> DEFINE S == {i \in Nat : NoJoiner(f[i])}
  <2>1. 0 \in S
    BY <1>3 DEF NoJoiner
  <2>2. ASSUME NEW i \in 0..k, i # k, i \in S PROVE i + 1 \in S
    <3>1. i + 1 \in 1..k /\ (i + 1) - 1 = i /\ i \in 0..n /\ i + 1 \in 1..n
      BY <1>1, <2>2
    <3>2. f[i + 1] = f[i] \o ps[i + 1] /\ f[i] \in Seq(Chars) /\ ps[i + 1] \in Seq(Chars)
      BY <3>1, <1>1, <1>3
    <3>3. NoJoiner(f[i]) /\ NoJoiner(ps[i + 1])
      BY <3>1, <2>2
    <3>4. NoJoiner(f[i] \o ps[i + 1])
      BY <3>2, <3>3, NoJoinerCat
    <3>5. NoJoiner(f[i + 1])
      BY <3>2, <3>4, Zenon
    <3> QED
      BY <3>5
  <2> HIDE DEF S
  <2>3. \A i \in 0..k : i \in S
    BY <2>1, <2>2, BoundedInduction
  <2> QED
    BY <2>3 DEF S
<1>5. Opens(f[k + 1], mark)
  <2>1. k + 1 \in 1..n /\ (k + 1) - 1 = k /\ k \in 0..n /\ k \in 0..k
    BY <1>1
  <2>2. f[k + 1] = f[k] \o ps[k + 1] /\ f[k] \in Seq(Chars) /\ ps[k + 1] \in Seq(Chars) /\ NoJoiner(f[k])
    BY <2>1, <1>1, <1>3, <1>4
  <2>3. Opens(f[k] \o ps[k + 1], mark)
    BY <2>2, OpensCat DEF NoJoiner
  <2> QED
    BY <2>2, <2>3
<1>6. \A i \in 0..n : i > k => Opens(f[i], mark)
  <2> DEFINE S == {i \in Nat : i > k => Opens(f[i], mark)}
  <2>1. 0 \in S
    OBVIOUS
  <2>2. ASSUME NEW i \in 0..n, i # n, i \in S PROVE i + 1 \in S
    <3>1. i + 1 \in 1..n /\ (i + 1) - 1 = i
      BY <1>1, <2>2
    <3>2. CASE i = k
      BY <3>1, <3>2, <1>5
    <3>3. CASE i > k
      <4>1. f[i + 1] = f[i] \o ps[i + 1] /\ f[i] \in Seq(Chars) /\ ps[i + 1] \in Seq(Chars) /\ Opens(f[i], mark)
        BY <3>1, <3>3, <1>1, <1>3, <2>2
      <4>2. Opens(f[i] \o ps[i + 1], mark)
        BY <4>1, OpensCat
      <4>3. Opens(f[i + 1], mark)
        BY <4>1, <4>2, Zenon
      <4> QED
        BY <4>3
    <3>4. CASE i < k
      <4>1. ~ (i + 1 > k)
        BY <3>4
      <4> QED
        BY <4>1
    <3> QED
      BY <3>2, <3>3, <3>4
  <2> HIDE DEF S
  <2>3. \A i \in 0..n : i \in S
    BY <1>1, <2>1, <2>2, BoundedInduction
  <2> QED
    BY <2>3 DEF S
<1>7. n \in 0..n
  BY <1>1
<1> QED
  BY <1>1, <1>3, <1>6, <1>7

\* A number below p is its own remainder.
LEMMA SmallMod ==
  ASSUME NEW p \in Nat \ {0}, NEW r \in 0..(p - 1)
  PROVE  r % p = r
<1>1. r \in Int /\ 0 \in Int /\ r = p * 0 + r
  OBVIOUS
<1> QED
  BY <1>1, DivModUnique

\* A text that is not exactly Density long gets a frame.
LEMMA EmbedZwOpens ==
  ASSUME NEW mark \in MarkIds, NEW text \in Seq(Chars \ ZeroWidth), Len(text) # Density
  PROVE  Opens(EmbedZw(text, mark), mark)
<1> DEFINE Put(i) == IF i > 1 /\ (i - 1) % Density = 0 THEN <<text[i]>> \o Frame(mark) ELSE <<text[i]>>
           ps == [i \in DOMAIN text |-> Put(i)]
<1>1. MarkBits \in Nat /\ Frame(mark) \in Seq(Chars) /\ Opens(Frame(mark), mark)
  BY FrameShape, FrameOpens
<1>2. DOMAIN text = 1..Len(text) /\ Len(text) \in Nat
  BY LenProperties
<1>3. text \in Seq(Chars)
  BY SeqMonotonic
<1>4. NoJoiner(text)
  BY DEF NoJoiner, ZeroWidth
<1>5. EmbedZw(text, mark) = IF Len(text) < Density THEN text \o Frame(mark) ELSE FlattenSeq(ps)
  BY DEF EmbedZw
<1>6. PICK d \in Nat \ {0} : d = Density
  BY WatermarkAssumption
<1>7. CASE Len(text) < d
  <2>1. Opens(text \o Frame(mark), mark)
    BY <1>1, <1>3, <1>4, OpensCat DEF NoJoiner
  <2> QED
    BY <1>5, <1>6, <1>7, <2>1
<1>8. CASE ~ (Len(text) < d)
  <2>1. ASSUME NEW i \in 1..Len(text)
        PROVE  <<text[i]>> \in Seq(Chars) /\ NoJoiner(<<text[i]>>) /\ <<text[i]>> \o Frame(mark) \in Seq(Chars)
    <3>1. text[i] \in Chars /\ text[i] # "zj"
      BY <1>3, <1>4 DEF NoJoiner
    <3>2. <<text[i]>> \in Seq(Chars) /\ NoJoiner(<<text[i]>>)
      BY <3>1 DEF NoJoiner
    <3>3. <<text[i]>> \o Frame(mark) \in Seq(Chars)
      BY <3>2, <1>1, ConcatProperties
    <3> QED
      BY <3>2, <3>3
  <2>2. \A i \in 1..Len(text) : Put(i) \in Seq(Chars)
    BY <2>1
  <2>3. ps \in Seq(Seq(Chars)) /\ Len(ps) = Len(text) /\ \A i \in 1..Len(text) : ps[i] = Put(i)
    <3> HIDE DEF Put
    <3>1. ps \in [1..Len(text) -> Seq(Chars)] /\ \A i \in 1..Len(text) : ps[i] = Put(i)
      BY <2>2, <1>2
    <3> QED
      BY <3>1, <1>2
  <2>4. ASSUME NEW i \in 1..d PROVE Put(i) = <<text[i]>>
    <3>1. CASE i > 1
      <4>1. i - 1 \in 0..(d - 1)
        OBVIOUS
      <4>2. (i - 1) % d = i - 1
        BY <4>1, SmallMod
      <4>3. (i - 1) % Density # 0
        BY <4>2, <3>1, <1>6
      <4> QED
        BY <4>3
    <3>2. CASE ~ (i > 1)
      BY <3>2
    <3> QED
      BY <3>1, <3>2
  <2>5. Put(d + 1) = <<text[d + 1]>> \o Frame(mark)
    <3>1. d + 1 > 1 /\ (d + 1) - 1 \in Int /\ (d + 1) - 1 = d * 1 + 0 /\ 0 \in 0..(d - 1)
      OBVIOUS
    <3>2. ((d + 1) - 1) % d = 0
      BY <3>1, DivModUnique
    <3>3. ((d + 1) - 1) % Density = 0
      BY <3>2, <1>6
    <3> QED
      BY <3>1, <3>3
  <2>6. Len(text) > d /\ d + 1 \in 1..Len(text) /\ \A i \in 1..d : i \in 1..Len(text)
    <3>1. Len(text) # d
      BY <1>6
    <3>2. ASSUME NEW n \in Nat, n # d, ~ (n < d) PROVE n > d
      BY <3>2
    <3>3. Len(text) > d
      BY <3>1, <3>2, <1>2, <1>8
    <3> QED
      BY <3>3, <1>2
  <2>7. Opens(ps[d + 1], mark)
    <3>1. ps[d + 1] = <<text[d + 1]>> \o Frame(mark)
      BY <2>3, <2>5, <2>6, Zenon
    <3>2. <<text[d + 1]>> \in Seq(Chars) /\ NoJoiner(<<text[d + 1]>>)
      BY <2>1, <2>6
    <3> HIDE DEF ps
    <3>3. Opens(<<text[d + 1]>> \o Frame(mark), mark)
      BY <3>2, <1>1, OpensCat DEF NoJoiner
    <3> QED
      BY <3>1, <3>3
  <2>8. \A i \in 1..d : NoJoiner(ps[i])
    <3> TAKE i \in 1..d
    <3>1. ps[i] = <<text[i]>>
      BY <2>3, <2>4, <2>6, Zenon
    <3>2. NoJoiner(<<text[i]>>)
      BY <2>1, <2>6
    <3> QED
      BY <3>1, <3>2, Zenon
  <2>9. d \in Nat
    OBVIOUS
  <2> HIDE DEF ps
  <2>10. Opens(FlattenSeq(ps), mark)
    BY <1>1, <2>3, <2>6, <2>7, <2>8, <2>9, FlattenOpens
  <2>11. EmbedZw(text, mark) = FlattenSeq(ps)
    BY <1>5, <1>6, <1>8
  <2> QED
    BY <2>10, <2>11
<1> QED
  BY <1>7, <1>8

\* One character more starts a line or extends the last one.
Grows(ms, ls, e) ==
  /\ e = "nl" => /\ Len(ms) = Len(ls) + 1 /\ ms[Len(ls) + 1] = << >>
                 /\ \A k \in 1..Len(ls) : ms[k] = ls[k]
  /\ e # "nl" => /\ Len(ms) = Len(ls) /\ ms[Len(ls)] = Append(ls[Len(ls)], e)
                 /\ \A k \in 1..(Len(ls) - 1) : ms[k] = ls[k]

\* Splitting a text with one character more.
LEMMA LinesGrow ==
  ASSUME NEW A, NEW s \in Seq(A), NEW e \in A
  PROVE  Grows(Lines(Append(s, e)), Lines(s), e)
<1> DEFINE ls == Lines(s)
           ms == Lines(Append(s, e))
           l == ls[Len(ls)]
<1>1. ls \in Seq(Seq(A)) /\ Len(ls) \in Nat \ {0}
  BY LinesType
<1>2. /\ e = "nl" => ms = Append(ls, << >>)
      /\ e # "nl" => ms = [ls EXCEPT ![Len(ls)] = Append(@, e)]
  <2>1. ASSUME e = "nl" PROVE ms = Append(ls, << >>)
    BY <2>1, LinesAppend
  <2>2. ASSUME e # "nl" PROVE ms = [ls EXCEPT ![Len(ls)] = Append(@, e)]
    BY <2>2, LinesAppend
  <2> QED
    BY <2>1, <2>2, Zenon
<1> HIDE DEF ls
<1>3. l \in Seq(A) /\ Len(ls) \in 1..Len(ls)
  BY <1>1
<1>4. Append(l, e) \in Seq(A)
  BY <1>3, AppendProperties
<1>5. CASE e = "nl"
  <2>1. << >> \in Seq(A)
    OBVIOUS
  <2>2. ms = Append(ls, << >>)
    BY <1>2, <1>5
  <2>3. /\ Len(Append(ls, << >>)) = Len(ls) + 1 /\ Append(ls, << >>)[Len(ls) + 1] = << >>
        /\ \A k \in 1..Len(ls) : Append(ls, << >>)[k] = ls[k]
    BY <1>1, <2>1, AppendProperties
  <2> QED
    BY <1>5, <2>2, <2>3 DEF Grows, ls
<1>6. CASE e # "nl"
  <2> DEFINE x == Append(l, e)
  <2>1. ms = [ls EXCEPT ![Len(ls)] = x]
    BY <1>2, <1>6
  <2>2. x \in Seq(A)
    BY <1>4
  <2>3. ms[Len(ls)] = x /\ Len(ms) = Len(ls) /\ \A k \in 1..(Len(ls) - 1) : ms[k] = ls[k]
    <3> HIDE DEF ms, x
    <3> QED
      BY <1>1, <1>3, <2>1, <2>2, ExceptSeq
  <2> QED
    BY <1>6, <2>3 DEF Grows, ls
<1> QED
  BY <1>5, <1>6

\* A text without a newline extends the last line.
LEMMA LinesExtend ==
  ASSUME NEW A, NEW s \in Seq(A), NEW u \in Seq(A \ {"nl"})
  PROVE  /\ Len(Lines(s \o u)) = Len(Lines(s))
         /\ LastLine(s \o u) = LastLine(s) \o u
         /\ \A k \in 1..(Len(Lines(s)) - 1) : Lines(s \o u)[k] = Lines(s)[k]
<1> DEFINE B == A \ {"nl"}
           Good(x) == /\ Len(Lines(s \o x)) = Len(Lines(s))
                      /\ LastLine(s \o x) = LastLine(s) \o x
                      /\ \A k \in 1..(Len(Lines(s)) - 1) : Lines(s \o x)[k] = Lines(s)[k]
           S == {x \in Seq(B) : Good(x)}
<1>0. LastLine(s) \in Seq(A) /\ Lines(s) \in Seq(Seq(A)) /\ Len(Lines(s)) \in Nat \ {0}
  BY LinesType DEF LastLine
<1>1. << >> \in S
  <2>1. s \o << >> = s /\ LastLine(s) \o << >> = LastLine(s)
    BY <1>0, ConcatEmptySeq
  <2>2. Good(<< >>)
    BY <2>1, Zenon
  <2>3. << >> \in Seq(B)
    OBVIOUS
  <2> QED
    BY <2>2, <2>3
<1>2. ASSUME NEW x \in Seq(B), NEW e \in B, x \in S PROVE Append(x, e) \in S
  <2> DEFINE y == s \o x
  <2>1. x \in Seq(A) /\ e \in A /\ e # "nl" /\ Append(x, e) \in Seq(B) /\ <<e>> \in Seq(A)
    BY SeqMonotonic
  <2>2. y \in Seq(A)
    BY <2>1, ConcatProperties
  <2>3. \A z \in Seq(A) : z \o Append(x, e) = Append(z \o x, e)
    <3> TAKE z \in Seq(A)
    <3>1. Append(x, e) = x \o <<e>>
      BY <2>1, AppendIsConcat
    <3>2. z \o x \in Seq(A)
      BY <2>1, ConcatProperties
    <3>3. Append(z \o x, e) = (z \o x) \o <<e>>
      BY <2>1, <3>2, AppendIsConcat
    <3>4. (z \o x) \o <<e>> = z \o (x \o <<e>>)
      BY <2>1, ConcatAssociative
    <3> QED
      BY <3>1, <3>3, <3>4, Zenon
  <2>4. s \o Append(x, e) = Append(y, e) /\ LastLine(s) \o Append(x, e) = Append(LastLine(s) \o x, e)
    BY <2>3, <1>0
  <2>5. Good(x)
    BY <1>2
  <2> HIDE DEF y
  <2>6. Grows(Lines(Append(y, e)), Lines(y), e)
    BY <2>1, <2>2, LinesGrow
  <2>7. /\ Len(Lines(Append(y, e))) = Len(Lines(y)) /\ LastLine(Append(y, e)) = Append(LastLine(y), e)
        /\ \A k \in 1..(Len(Lines(y)) - 1) : Lines(Append(y, e))[k] = Lines(y)[k]
    BY <2>1, <2>6 DEF Grows, LastLine
  <2>8. /\ Len(Lines(y)) = Len(Lines(s)) /\ LastLine(y) = LastLine(s) \o x
        /\ \A k \in 1..(Len(Lines(s)) - 1) : Lines(y)[k] = Lines(s)[k]
    BY <2>5 DEF y
  <2>9. /\ Len(Lines(Append(y, e))) = Len(Lines(s)) /\ LastLine(Append(y, e)) = Append(LastLine(s) \o x, e)
        /\ \A k \in 1..(Len(Lines(s)) - 1) : Lines(Append(y, e))[k] = Lines(s)[k]
    BY <2>7, <2>8
  <2>10. Good(Append(x, e))
    BY <2>4, <2>9, Zenon
  <2> QED
    BY <2>1, <2>10
<1>3. \A x \in Seq(B) : x \in S
  <2> HIDE DEF S, B
  <2> QED
    BY <1>1, <1>2, SeqInduction
<1> QED
  BY <1>3

\* The first line with a joiner opens with a frame.
LineOpens(ls, mark) ==
  \E n \in 1..Len(ls) : Opens(ls[n], mark) /\ \A k \in 1..(n - 1) : NoJoiner(ls[k])

\* Text behind a line with a frame leaves the frame in place.
LEMMA LineOpensGrows ==
  ASSUME NEW mark, MarkBits \in Nat, NEW s \in Seq(Chars), NEW b \in Seq(Chars), LineOpens(Lines(s), mark)
  PROVE  LineOpens(Lines(s \o b), mark)
<1> DEFINE S == {x \in Seq(Chars) : LineOpens(Lines(s \o x), mark)}
<1>1. << >> \in S
  <2>1. s \o << >> = s
    BY ConcatEmptySeq
  <2> QED
    BY <2>1
<1>2. ASSUME NEW x \in Seq(Chars), NEW e \in Chars, x \in S PROVE Append(x, e) \in S
  <2> DEFINE y == s \o x
             ls == Lines(y)
             ms == Lines(Append(y, e))
  <2>1. y \in Seq(Chars) /\ Append(x, e) \in Seq(Chars)
    BY ConcatProperties, AppendProperties
  <2>2. s \o Append(x, e) = Append(y, e)
    <3>1. Append(x, e) = x \o <<e>> /\ <<e>> \in Seq(Chars)
      BY AppendIsConcat
    <3>2. Append(y, e) = y \o <<e>>
      BY <2>1, AppendIsConcat
    <3>3. (s \o x) \o <<e>> = s \o (x \o <<e>>)
      BY <3>1, ConcatAssociative, SMTT(30)
    <3> QED
      BY <3>1, <3>2, <3>3, Zenon
  <2>3. LineOpens(ls, mark)
    BY <1>2
  <2> HIDE DEF y
  <2>4. ls \in Seq(Seq(Chars)) /\ Len(ls) \in Nat \ {0} /\ Grows(ms, ls, e)
    BY <2>1, LinesType, LinesGrow
  <2> HIDE DEF ls, ms
  <2>5. PICK n \in 1..Len(ls) : Opens(ls[n], mark) /\ \A k \in 1..(n - 1) : NoJoiner(ls[k])
    BY <2>3 DEF LineOpens
  <2>6. \A k \in 1..(n - 1) : ms[k] = ls[k]
    BY <2>4 DEF Grows
  <2>7. n \in 1..Len(ms)
    BY <2>4 DEF Grows
  <2>8. Opens(ms[n], mark)
    <3>1. ms[n] = ls[n] \/ ms[n] = Append(ls[n], e)
      BY <2>4 DEF Grows
    <3>2. Append(ls[n], e) = ls[n] \o <<e>> /\ ls[n] \in Seq(Chars) /\ <<e>> \in Seq(Chars)
      BY <2>4, AppendIsConcat
    <3>3. Opens(ls[n] \o <<e>>, mark)
      BY <2>5, <3>2, OpensCat
    <3> QED
      BY <2>5, <3>1, <3>2, <3>3
  <2>9. LineOpens(ms, mark)
    BY <2>5, <2>6, <2>7, <2>8 DEF LineOpens
  <2> QED
    BY <2>1, <2>2, <2>9 DEF ms
<1>3. \A x \in Seq(Chars) : x \in S
  <2> HIDE DEF S
  <2> QED
    BY <1>1, <1>2, SeqInduction
<1> QED
  BY <1>3

\* The lines of a text without joiners have none.
LEMMA NoJoinerLines ==
  ASSUME NEW A, NEW t \in Seq(A), NoJoiner(t), NEW n \in 1..Len(Lines(t))
  PROVE  NoJoiner(Lines(t)[n])
<1> DEFINE B == A \ {"zj"}
<1>1. t \in Seq(B)
  BY DEF NoJoiner
<1>2. "zj" \notin B
  OBVIOUS
<1> HIDE DEF B
<1>3. Lines(t)[n] \in Seq(B)
  BY <1>1, LinesType
<1> QED
  BY <1>2, <1>3 DEF NoJoiner

\* The first joiner of a text is the first one of its lines.
LEMMA OpensLines ==
  ASSUME NEW mark \in MarkIds, NEW t \in Seq(Chars), Opens(t, mark)
  PROVE  LineOpens(Lines(t), mark)
<1> DEFINE g == Frame(mark)
           n == Len(t)
<1>1. /\ MarkBits \in Nat \ {0} /\ g \in Seq(Chars) /\ Len(g) = MarkBits + 2
      /\ g[1] = "zj" /\ g[MarkBits + 2] = "zj" /\ Opens(g, mark)
      /\ \A k \in 1..MarkBits : g[k + 1] \in {"zs", "zn"}
  BY FrameShape, FrameOpens
<1>2. PICK i \in 1..n : OpensAt(t, mark, i)
  BY DEF Opens
<1>3. /\ n \in Nat /\ i + MarkBits + 1 <= n
      /\ \A j \in 1..(i - 1) : t[j] # "zj"
      /\ \A k \in 1..(MarkBits + 2) : t[i + k - 1] = g[k]
  BY <1>2 DEF OpensAt
<1> DEFINE a == SubSeq(t, 1, i - 1)
           p == SubSeq(t, 1, i + MarkBits + 1)
           b == SubSeq(t, i + MarkBits + 2, n)
<1>4. a \in Seq(Chars) /\ Len(a) = i - 1 /\ \A k \in 1..(i - 1) : a[k] = t[k]
  BY <1>3
<1>5. p \in Seq(Chars) /\ Len(p) = i + MarkBits + 1 /\ \A k \in 1..(i + MarkBits + 1) : p[k] = t[k]
  BY <1>1, <1>3
<1>6. b \in Seq(Chars) /\ t = p \o b
  <2>1. 1 \in 1..(n + 1) /\ i + MarkBits + 1 \in (1 - 1)..n /\ n \in (i + MarkBits + 1)..n /\ (i + MarkBits + 1) + 1 = i + MarkBits + 2
    BY <1>1, <1>3
  <2>2. SubSeq(t, 1, i + MarkBits + 1) \o SubSeq(t, (i + MarkBits + 1) + 1, n) = SubSeq(t, 1, n)
    BY <2>1, ConcatAdjacentSubSeq
  <2>3. SubSeq(t, 1, n) = t
    BY SubSeqFull
  <2>4. b \in Seq(Chars)
    BY <1>1, <1>3
  <2> QED
    BY <2>1, <2>2, <2>3, <2>4
<1> HIDE DEF a, p, b, g, n
<1>7. p = a \o g
  <2>1. a \o g \in Seq(Chars) /\ Len(a \o g) = Len(a) + Len(g) /\ \A k \in 1..(Len(a) + Len(g)) : (a \o g)[k] = IF k <= Len(a) THEN a[k] ELSE g[k - Len(a)]
    BY <1>1, <1>4, ConcatProperties
  <2>2. Len(p) = Len(a \o g)
    BY <1>1, <1>3, <1>4, <1>5, <2>1
  <2>3. ASSUME NEW k \in 1..Len(p) PROVE p[k] = (a \o g)[k]
    <3>1. p[k] = t[k] /\ k \in 1..(Len(a) + Len(g))
      BY <1>1, <1>3, <1>4, <1>5
    <3>2. CASE k <= i - 1
      <4>1. k <= Len(a) /\ a[k] = t[k]
        BY <1>4, <3>2
      <4> QED
        BY <4>1, <3>1, <2>1
    <3>3. CASE ~ (k <= i - 1)
      <4>1. PICK h \in 1..(MarkBits + 2) : h = k - (i - 1) /\ i + h - 1 = k
        BY <1>1, <1>5, <3>3
      <4>2. t[k] = g[h]
        BY <1>3, <4>1
      <4>3. ~ (k <= Len(a)) /\ k - Len(a) = h
        BY <1>4, <3>3, <4>1
      <4> QED
        BY <4>2, <4>3, <3>1, <2>1
    <3> QED
      BY <3>2, <3>3
  <2> QED
    BY <1>5, <2>1, <2>2, <2>3, SeqEqual
<1>8. NoJoiner(a)
  BY <1>3, <1>4 DEF NoJoiner
<1>9. g \in Seq(Chars \ {"nl"})
  <2>1. \A k \in 1..(MarkBits + 2) : g[k] \in {"zj", "zs", "zn"}
    <3> TAKE k \in 1..(MarkBits + 2)
    <3>1. CASE k = 1 \/ k = MarkBits + 2
      BY <3>1, <1>1
    <3>2. CASE ~ (k = 1 \/ k = MarkBits + 2)
      <4>1. k - 1 \in 1..MarkBits /\ (k - 1) + 1 = k
        BY <3>2, <1>1
      <4>2. g[(k - 1) + 1] \in {"zs", "zn"}
        BY <4>1, <1>1
      <4> QED
        BY <4>1, <4>2
    <3> QED
      BY <3>1, <3>2
  <2>2. \A k \in 1..Len(g) : g[k] \in Chars \ {"nl"}
    BY <2>1, <1>1
  <2>3. g \in [1..Len(g) -> Chars \ {"nl"}]
    BY <1>1, <2>2
  <2> QED
    BY <1>1, <2>3
<1>10. LineOpens(Lines(p), mark)
  <2> DEFINE ls == Lines(a)
             ms == Lines(p)
  <2>1. /\ Len(ms) = Len(ls) /\ ms[Len(ms)] = ls[Len(ls)] \o g /\ Len(ls) \in Nat \ {0} /\ ls \in Seq(Seq(Chars))
        /\ \A k \in 1..(Len(ls) - 1) : ms[k] = ls[k]
    <3>1. /\ Len(Lines(a \o g)) = Len(Lines(a)) /\ LastLine(a \o g) = LastLine(a) \o g
          /\ \A k \in 1..(Len(Lines(a)) - 1) : Lines(a \o g)[k] = Lines(a)[k]
      BY <1>4, <1>9, LinesExtend, Zenon
    <3>2. Lines(a) \in Seq(Seq(Chars)) /\ Len(Lines(a)) \in Nat \ {0}
      BY <1>4, LinesType, Zenon
    <3>3. Lines(a \o g) = Lines(p)
      BY <1>7, Zenon
    <3> QED
      BY <3>1, <3>2, <3>3, Zenon DEF LastLine
  <2>2. \A k \in 1..Len(ls) : NoJoiner(ls[k])
    BY <1>4, <1>8, NoJoinerLines
  <2> HIDE DEF ls, ms
  <2>3. Opens(ls[Len(ls)] \o g, mark)
    <3>1. ls[Len(ls)] \in Seq(Chars) /\ NoJoiner(ls[Len(ls)])
      BY <2>1, <2>2
    <3> QED
      BY <3>1, <1>1, OpensCat DEF NoJoiner
  <2>4. Len(ms) \in 1..Len(ms) /\ Opens(ms[Len(ms)], mark) /\ \A k \in 1..(Len(ms) - 1) : NoJoiner(ms[k])
    BY <2>1, <2>2, <2>3
  <2>5. LineOpens(ms, mark)
    BY <2>4 DEF LineOpens
  <2> QED
    BY <2>5 DEF ms
<1>11. MarkBits \in Nat
  BY <1>1
<1>12. LineOpens(Lines(p \o b), mark)
  BY <1>5, <1>6, <1>10, <1>11, LineOpensGrows
<1> QED
  BY <1>6, <1>12

\* A function over 1..n is a sequence.
LEMMA FunIsSeq ==
  ASSUME NEW T, NEW n \in Nat, NEW f \in [1..n -> T]
  PROVE  f \in Seq(T) /\ Len(f) = n /\ DOMAIN f = 1..n
OBVIOUS

\* Taking trailing blanks costs no frame.
LEMMA RStripOpens ==
  ASSUME NEW mark \in MarkIds, NEW l \in Seq(Chars)
  PROVE  /\ NoJoiner(l) => NoJoiner(RStrip(l))
         /\ Opens(l, mark) => Opens(RStrip(l), mark)
<1> DEFINE r == RStrip(l)
<1>1. /\ r \in Seq(Chars) /\ Len(r) \in Nat /\ Len(l) \in Nat
      /\ Len(r) <= Len(l) /\ \A i \in 1..Len(r) : r[i] = l[i]
      /\ \A i \in (Len(r) + 1)..Len(l) : l[i] \in Blank
  BY RStripFacts DEF Stripped
<1>2. MarkBits \in Nat \ {0} /\ Frame(mark)[MarkBits + 2] = "zj"
  BY FrameShape
<1> HIDE DEF r
<1>3. NoJoiner(l) => NoJoiner(r)
  BY <1>1 DEF NoJoiner
<1>4. ASSUME Opens(l, mark) PROVE Opens(r, mark)
  <2>1. PICK i \in 1..Len(l) : OpensAt(l, mark, i)
    BY <1>4 DEF Opens
  <2>2. /\ i + MarkBits + 1 <= Len(l)
        /\ \A j \in 1..(i - 1) : l[j] # "zj"
        /\ \A n \in 1..(MarkBits + 2) : l[i + n - 1] = Frame(mark)[n]
    BY <2>1 DEF OpensAt
  <2>3. i + MarkBits + 1 <= Len(r)
    <3> SUFFICES ASSUME ~ (i + MarkBits + 1 <= Len(r)) PROVE FALSE
      OBVIOUS
    <3>1. i + MarkBits + 1 \in (Len(r) + 1)..Len(l) /\ MarkBits + 2 \in 1..(MarkBits + 2) /\ i + (MarkBits + 2) - 1 = i + MarkBits + 1
      BY <1>1, <1>2, <2>2
    <3>2. l[i + (MarkBits + 2) - 1] = "zj"
      BY <1>2, <2>2, <3>1
    <3>3. l[i + MarkBits + 1] = "zj" /\ l[i + MarkBits + 1] \in Blank
      BY <1>1, <3>1, <3>2
    <3> QED
      BY <3>3 DEF Blank
  <2>4. i \in 1..Len(r)
    BY <1>1, <1>2, <2>3
  <2>5. \A j \in 1..(i - 1) : j \in 1..Len(r)
    BY <1>1, <2>4
  <2>6. \A n \in 1..(MarkBits + 2) : i + n - 1 \in 1..Len(r)
    BY <1>1, <1>2, <2>3
  <2>7. OpensAt(r, mark, i)
    BY <1>1, <2>2, <2>3, <2>5, <2>6 DEF OpensAt
  <2> QED
    BY <2>4, <2>7 DEF Opens
<1> QED
  BY <1>3, <1>4 DEF r

\* Lines put together again.
LEMMA JoinOpens ==
  ASSUME NEW mark, MarkBits \in Nat, NEW ls \in Seq(Seq(Chars)), LineOpens(ls, mark)
  PROVE  Opens(JoinLines(ls), mark)
<1> DEFINE Quiet(x) == \A k \in 1..Len(x) : NoJoiner(x[k])
           Good(x) == /\ x # << >> /\ Quiet(x) => NoJoiner(JoinLines(x))
                      /\ LineOpens(x, mark) => Opens(JoinLines(x), mark)
           S == {x \in Seq(Seq(Chars)) : Good(x)}
<1>0. "nl" \in Chars /\ <<"nl">> \in Seq(Chars) /\ NoJoiner(<<"nl">>)
  BY DEF Chars, Blank, NoJoiner
<1>1. << >> \in S
  <2>1. ~ LineOpens(<< >>, mark)
    BY DEF LineOpens
  <2>2. Good(<< >>)
    BY <2>1
  <2> QED
    BY <2>2
<1>2. ASSUME NEW x \in Seq(Seq(Chars)), NEW l \in Seq(Chars), x \in S PROVE Append(x, l) \in S
  <2> DEFINE y == Append(x, l)
             j == JoinLines(x)
             m == <<"nl">> \o l
  <2>1. /\ y \in Seq(Seq(Chars)) /\ Len(y) = Len(x) + 1 /\ Len(x) \in Nat
        /\ y[Len(x) + 1] = l /\ \A k \in 1..Len(x) : y[k] = x[k]
    BY AppendProperties
  <2>2. JoinLines(y) = (IF x = << >> THEN l ELSE j \o m) /\ (x # << >> => j \in Seq(Chars))
    BY <1>0, JoinStep
  <2>3. Good(x)
    BY <1>2
  <2>4. m \in Seq(Chars)
    BY <1>0, ConcatProperties
  <2> HIDE DEF y, j
  <2>5. ASSUME Quiet(y) PROVE NoJoiner(JoinLines(y))
    <3>1. Quiet(x) /\ NoJoiner(l)
      BY <2>1, <2>5
    <3>2. NoJoiner(m)
      BY <1>0, <3>1, NoJoinerCat
    <3> HIDE DEF m
    <3>3. CASE x = << >>
      BY <3>3, <3>1, <2>2
    <3>4. CASE x # << >>
      <4>1. NoJoiner(j) /\ j \in Seq(Chars)
        BY <3>1, <3>4, <2>2, <2>3 DEF j
      <4>2. NoJoiner(j \o m)
        BY <4>1, <3>2, <2>4, NoJoinerCat
      <4> QED
        BY <4>2, <3>4, <2>2
    <3> QED
      BY <3>3, <3>4
  <2>6. ASSUME LineOpens(y, mark) PROVE Opens(JoinLines(y), mark)
    <3>1. PICK n \in 1..Len(y) : Opens(y[n], mark) /\ \A k \in 1..(n - 1) : NoJoiner(y[k])
      BY <2>6 DEF LineOpens
    <3>2. CASE n \in 1..Len(x)
      <4>1. LineOpens(x, mark) /\ x # << >>
        <5>1. y[n] = x[n] /\ \A k \in 1..(n - 1) : y[k] = x[k]
          BY <2>1, <3>2
        <5>2. Opens(x[n], mark) /\ \A k \in 1..(n - 1) : NoJoiner(x[k])
          BY <3>1, <5>1
        <5> QED
          BY <3>2, <5>2 DEF LineOpens
      <4>2. Opens(j, mark) /\ j \in Seq(Chars)
        BY <4>1, <2>2, <2>3 DEF j
      <4> HIDE DEF m
      <4>3. Opens(j \o m, mark)
        BY <4>2, <2>4, OpensCat
      <4> QED
        BY <4>1, <4>3, <2>2
    <3>3. CASE n = Len(x) + 1
      <4>1. Opens(l, mark) /\ Quiet(x)
        BY <2>1, <3>1, <3>3
      <4>2. Opens(m, mark)
        BY <1>0, <4>1, OpensCat DEF NoJoiner
      <4> HIDE DEF m
      <4>3. CASE x = << >>
        BY <4>1, <4>3, <2>2
      <4>4. CASE x # << >>
        <5>1. NoJoiner(j) /\ j \in Seq(Chars)
          BY <4>1, <4>4, <2>2, <2>3 DEF j
        <5>2. Opens(j \o m, mark)
          BY <5>1, <4>2, <2>4, OpensCat DEF NoJoiner
        <5> QED
          BY <5>2, <4>4, <2>2
      <4> QED
        BY <4>3, <4>4
    <3> QED
      BY <3>2, <3>3, <2>1
  <2>7. Good(y)
    BY <2>5, <2>6
  <2> QED
    BY <2>1, <2>7 DEF y
<1>3. \A x \in Seq(Seq(Chars)) : x \in S
  <2> HIDE DEF S
  <2> QED
    BY <1>1, <1>2, SeqInduction
<1> QED
  BY <1>3

\* A text without the blanks at the end of its lines, and a part of it.
Trimmed(t) == LET ls == Lines(t) IN JoinLines([n \in DOMAIN ls |-> RStrip(ls[n])])

Quoted(t, first, last) ==
  LET ls == Some(Lines(t), first, last) IN IF ls = << >> THEN << >> ELSE JoinLines(ls)

\* The lines of a framed text are framed.
LEMMA LinesFramed ==
  ASSUME NEW mark \in MarkIds, NEW t \in FramedTexts(mark)
  PROVE  Lines(t) \in Seq(FramedTexts(mark)) /\ Len(Lines(t)) \in Nat \ {0}
<1>1. t \in Seq(Chars) /\ Framed(t, mark)
  BY DEF FramedTexts
<1>2. Lines(t) \in Seq(Seq(Chars)) /\ Len(Lines(t)) \in Nat \ {0} /\ DOMAIN Lines(t) = 1..Len(Lines(t))
  BY <1>1, LinesType, LenProperties
<1>3. MarkBits \in Nat /\ \A n \in 1..MarkBits : Signs(mark)[n] \in {"zs", "zn"}
  BY FrameShape
<1>4. \A n \in 1..Len(Lines(t)) : Framed(Lines(t)[n], mark)
  BY <1>1, <1>3, FramedLines
<1>5. \A n \in 1..Len(Lines(t)) : Lines(t)[n] \in FramedTexts(mark)
  BY <1>2, <1>4 DEF FramedTexts
<1> QED
  BY <1>2, <1>5

\* A framed line stays framed without the whitespace at its end.
LEMMA RStripFramed ==
  ASSUME NEW mark \in MarkIds, NEW l \in FramedTexts(mark)
  PROVE  RStrip(l) \in FramedTexts(mark)
<1>1. l \in Seq(Chars) /\ Framed(l, mark) /\ MarkBits \in Nat
  BY FrameShape DEF FramedTexts
<1>2. RStrip(l) \in Seq(Chars) /\ Len(RStrip(l)) <= Len(l) /\ \A i \in 1..Len(RStrip(l)) : RStrip(l)[i] = l[i]
  BY <1>1, RStripFacts DEF Stripped
<1>3. Framed(RStrip(l), mark)
  BY <1>1, <1>2, FramedPrefix
<1> QED
  BY <1>2, <1>3 DEF FramedTexts

\* Framed lines join to a framed text.
LEMMA JoinFramed ==
  ASSUME NEW mark \in MarkIds, NEW ls \in Seq(FramedTexts(mark)), ls # << >>
  PROVE  JoinLines(ls) \in FramedTexts(mark)
<1> DEFINE T == FramedTexts(mark)
<1>1. T \in SUBSET Seq(Chars) /\ (\A c \in Chars \ {"zs", "zn"} : <<c>> \in T) /\ \A s, t \in T : s \o t \in T
  BY FramedTextsClosed
<1>2. "nl" \in Chars \ {"zs", "zn"}
  BY DEF Chars, Blank
<1>3. <<"nl">> \in T
  BY <1>1, <1>2
<1> HIDE DEF T
<1>4. JoinLines(ls) \in T
  BY <1>1, <1>2, <1>3, JoinClosed DEF T
<1> QED
  BY <1>4 DEF T

\* What is done to a leaked text keeps the frames of its mark.
LEMMA EditsFramed ==
  ASSUME NEW mark \in MarkIds, NEW t \in FramedTexts(mark)
  PROVE  /\ StripZw(t) \in FramedTexts(mark)
         /\ Trimmed(t) \in FramedTexts(mark)
         /\ \A i, j \in Nat \ {0} : Quoted(t, i, j) \in FramedTexts(mark)
<1> DEFINE T == FramedTexts(mark)
           ls == Lines(t)
<1>1. t \in Seq(Chars) /\ << >> \in T
  BY FramedTextsClosed DEF FramedTexts
<1>2. ls \in Seq(T) /\ Len(ls) \in Nat \ {0} /\ DOMAIN ls = 1..Len(ls)
  BY LinesFramed, LenProperties
<1>3. StripZw(t) \in T
  <2>1. StripZw(t) \in Seq(Chars \ ZeroWidth)
    BY <1>1, WithoutType DEF StripZw
  <2>2. "zs" \notin Chars \ ZeroWidth /\ "zn" \notin Chars \ ZeroWidth
    BY DEF ZeroWidth
  <2>3. Framed(StripZw(t), mark)
    BY <2>1, <2>2, FramedPlain
  <2>4. StripZw(t) \in Seq(Chars)
    BY <2>1, SeqMonotonic
  <2> QED
    BY <2>3, <2>4 DEF FramedTexts
<1>4. Trimmed(t) \in T
  <2> DEFINE ms == [n \in DOMAIN ls |-> RStrip(ls[n])]
  <2>1. \A n \in 1..Len(ls) : RStrip(ls[n]) \in T
    BY <1>2, RStripFramed
  <2>2. ms \in [1..Len(ls) -> T]
    BY <2>1, <1>2
  <2>3. ms \in Seq(T) /\ ms # << >>
    BY <2>2, <1>2
  <2>4. JoinLines(ms) \in T
    BY <2>3, JoinFramed
  <2> QED
    BY <2>4 DEF Trimmed
<1>5. ASSUME NEW i \in Nat \ {0}, NEW j \in Nat \ {0} PROVE Quoted(t, i, j) \in T
  <2> DEFINE m == Min({j, Len(ls)})
             ms == Some(ls, i, j)
  <2>1. m \in Nat /\ m <= Len(ls)
    <3>1. \E x \in {j, Len(ls)} : \A y \in {j, Len(ls)} : x <= y
      BY <1>2
    <3>2. m \in {j, Len(ls)} /\ \A y \in {j, Len(ls)} : m <= y
      BY <3>1 DEF Min
    <3> QED
      BY <3>2, <1>2
  <2>2. ms = SubSeq(ls, i, m)
    BY DEF Some
  <2> HIDE DEF m, ms, T, ls
  <2>3. \A k \in i..m : ls[k] \in T
    BY <1>2, <2>1
  <2>4. i \in Int /\ m \in Int
    BY <2>1
  <2>5. SubSeq(ls, i, m) \in Seq(T)
    BY <2>3, <2>4, SubSeqProperties
  <2>6. ms \in Seq(T)
    BY <2>2, <2>5
  <2>7. ms # << >> => JoinLines(ms) \in T
    BY <2>6, JoinFramed DEF T
  <2>8. Quoted(t, i, j) = IF ms = << >> THEN << >> ELSE JoinLines(ms)
    BY DEF Quoted, ms, ls
  <2> QED
    BY <1>1, <2>7, <2>8
<1> QED
  BY <1>3, <1>4, <1>5

\* A text stays a text.
LEMMA EditsType ==
  ASSUME NEW t \in Seq(Chars)
  PROVE  /\ Trimmed(t) \in Seq(Chars)
         /\ \A i, j \in Nat \ {0} : Quoted(t, i, j) \in Seq(Chars)
<1> DEFINE T == Seq(Chars)
           ls == Lines(t)
<1>1. << >> \in T /\ "nl" \in Chars /\ T \in SUBSET Seq(Chars) /\ <<"nl">> \in T /\ \A x, y \in T : x \o y \in T
  BY ConcatProperties DEF Chars, Blank
<1>2. ls \in Seq(T) /\ Len(ls) \in Nat \ {0} /\ DOMAIN ls = 1..Len(ls)
  BY LinesType, LenProperties
<1>3. Trimmed(t) \in T
  <2> DEFINE ms == [n \in DOMAIN ls |-> RStrip(ls[n])]
  <2>1. \A n \in 1..Len(ls) : RStrip(ls[n]) \in T
    BY <1>2, RStripFacts
  <2>2. ms \in [1..Len(ls) -> T]
    BY <2>1, <1>2
  <2>3. Trimmed(t) = JoinLines(ms)
    BY DEF Trimmed
  <2> HIDE DEF ms, T, ls
  <2>4. ms \in Seq(T) /\ Len(ms) = Len(ls)
    BY <2>2, <1>2, FunIsSeq
  <2>5. ms # << >>
    BY <2>4, <1>2
  <2>6. JoinLines(ms) \in T
    BY <1>1, <2>4, <2>5, JoinClosed
  <2> QED
    BY <2>3, <2>6
<1>4. ASSUME NEW i \in Nat \ {0}, NEW j \in Nat \ {0} PROVE Quoted(t, i, j) \in T
  <2> DEFINE m == Min({j, Len(ls)})
             ms == Some(ls, i, j)
  <2>1. m \in Nat /\ m <= Len(ls)
    <3>1. \E x \in {j, Len(ls)} : \A y \in {j, Len(ls)} : x <= y
      BY <1>2
    <3>2. m \in {j, Len(ls)} /\ \A y \in {j, Len(ls)} : m <= y
      BY <3>1 DEF Min
    <3> QED
      BY <3>2, <1>2
  <2>2. ms = SubSeq(ls, i, m)
    BY DEF Some
  <2>8. Quoted(t, i, j) = IF ms = << >> THEN << >> ELSE JoinLines(ms)
    BY DEF Quoted
  <2> HIDE DEF m, ms, T, ls
  <2>3. \A k \in i..m : ls[k] \in T
    BY <1>2, <2>1
  <2>4. i \in Int /\ m \in Int
    BY <2>1
  <2>5. SubSeq(ls, i, m) \in Seq(T)
    BY <2>3, <2>4, SubSeqProperties
  <2>6. ms \in Seq(T)
    BY <2>2, <2>5
  <2>7. ms # << >> => JoinLines(ms) \in T
    BY <1>1, <2>6, JoinClosed
  <2> QED
    BY <1>1, <2>7, <2>8
<1> QED
  BY <1>3, <1>4

\* Dropping trailing whitespace costs no frame.
LEMMA TrimmedOpens ==
  ASSUME NEW mark \in MarkIds, NEW t \in Seq(Chars), Opens(t, mark)
  PROVE  Opens(Trimmed(t), mark)
<1> DEFINE ls == Lines(t)
           ms == [n \in DOMAIN ls |-> RStrip(ls[n])]
<1>1. ls \in Seq(Seq(Chars)) /\ Len(ls) \in Nat \ {0} /\ DOMAIN ls = 1..Len(ls)
  BY LinesType, LenProperties
<1>2. LineOpens(ls, mark)
  BY OpensLines
<1>3. MarkBits \in Nat
  BY FrameShape
<1>4. Trimmed(t) = JoinLines(ms)
  BY DEF Trimmed
<1> HIDE DEF ls
<1>5. \A n \in 1..Len(ls) : RStrip(ls[n]) \in Seq(Chars)
  BY <1>1, RStripFacts
<1>6. ms \in [1..Len(ls) -> Seq(Chars)] /\ \A n \in 1..Len(ls) : ms[n] = RStrip(ls[n])
  BY <1>1, <1>5
<1>7. ms \in Seq(Seq(Chars)) /\ Len(ms) = Len(ls)
  BY <1>1, <1>6
<1> HIDE DEF ms
<1>8. LineOpens(ms, mark)
  <2>1. PICK n \in 1..Len(ls) : Opens(ls[n], mark) /\ \A k \in 1..(n - 1) : NoJoiner(ls[k])
    BY <1>2 DEF LineOpens
  <2>2. \A k \in 1..Len(ls) : ls[k] \in Seq(Chars)
    BY <1>1
  <2>3. Opens(RStrip(ls[n]), mark) /\ \A k \in 1..Len(ls) : NoJoiner(ls[k]) => NoJoiner(RStrip(ls[k]))
    BY <2>1, <2>2, RStripOpens
  <2>4. \A k \in 1..(n - 1) : k \in 1..Len(ls)
    BY <1>1
  <2>5. Opens(ms[n], mark) /\ n \in 1..Len(ms) /\ \A k \in 1..(n - 1) : NoJoiner(ms[k])
    BY <1>6, <1>7, <2>1, <2>3, <2>4
  <2> QED
    BY <2>5 DEF LineOpens
<1>9. Opens(JoinLines(ms), mark)
  BY <1>3, <1>7, <1>8, JoinOpens
<1> QED
  BY <1>4, <1>9

\* embed_ws puts spaces and tabs into a text.
LEMMA EmbedWsType ==
  ASSUME NEW A, Blank \subseteq A, NEW text \in Seq(A), NEW mark
  PROVE  EmbedWs(text, mark) \in Seq(A)
<1> DEFINE ls == Lines(text)
           bits == BitsOf(mark)
           Free(n) == {k \in 1..n : ~ EndsIn(ls[k], Blank)}
           MarkLine(n) ==
             LET bi == Cardinality(Free(n))
             IN  IF n \in Free(n) /\ bi <= Len(bits)
                 THEN Append(ls[n], IF bits[bi] = 0 THEN "sp" ELSE "tab")
                 ELSE ls[n]
           ms == [n \in DOMAIN ls |-> MarkLine(n)]
<1>1. ls \in Seq(Seq(A)) /\ Len(ls) \in Nat \ {0} /\ DOMAIN ls = 1..Len(ls)
  BY LinesType, LenProperties
<1>2. EmbedWs(text, mark) = JoinLines(ms)
  BY DEF EmbedWs
<1> HIDE DEF ls, bits, Free
<1>3. ASSUME NEW n \in 1..Len(ls) PROVE MarkLine(n) \in Seq(A)
  <2>1. ls[n] \in Seq(A) /\ "sp" \in A /\ "tab" \in A
    BY <1>1 DEF Blank
  <2>2. Append(ls[n], "sp") \in Seq(A) /\ Append(ls[n], "tab") \in Seq(A)
    BY <2>1, AppendProperties
  <2> QED
    BY <2>1, <2>2
<1> HIDE DEF MarkLine
<1>4. ms \in [1..Len(ls) -> Seq(A)]
  BY <1>1, <1>3
<1> HIDE DEF ms
<1>5. ms \in Seq(Seq(A)) /\ ms # << >>
  <2>1. ms \in Seq(Seq(A)) /\ Len(ms) = Len(ls)
    BY <1>1, <1>4, FunIsSeq
  <2> QED
    BY <2>1, <1>1
<1>6. "nl" \in A /\ <<"nl">> \in Seq(A)
  BY DEF Blank
<1>7. \A s, t \in Seq(A) : s \o t \in Seq(A)
  BY ConcatProperties
<1>8. JoinLines(ms) \in Seq(A)
  <2> DEFINE T == Seq(A)
  <2>1. T \in SUBSET Seq(A) /\ <<"nl">> \in T /\ (\A s, t \in T : s \o t \in T) /\ ms \in Seq(T)
    BY <1>5, <1>6, <1>7
  <2> HIDE DEF T
  <2>2. JoinLines(ms) \in T
    BY <1>5, <1>6, <2>1, JoinClosed
  <2> QED
    BY <2>2 DEF T
<1> QED
  BY <1>2, <1>8

-----------------------------------------------------------------------------
(***************************************************************************)
(* The leaked text holds frames of the leaker's mark only.                 *)
(***************************************************************************)

\* A fresh copy.
LEMMA CopyFramed ==
  ASSUME NEW mark \in MarkIds, NEW text \in Seq(Chars)
  PROVE  LET t == EmbedZw(EmbedWs(text, mark), mark)
         IN  /\ t \in Seq(Chars)
             /\ NoBits(text) => Framed(t, mark)
             /\ Plain(text) /\ Len(EmbedWs(text, mark)) # Density => Opens(t, mark)
<1> DEFINE w == EmbedWs(text, mark)
           t == EmbedZw(w, mark)
<1>0. DOMAIN text = 1..Len(text)
  BY LenProperties
<1>1. t \in Seq(Chars)
  <2> DEFINE ps == [i \in DOMAIN w |-> IF i > 1 /\ (i - 1) % Density = 0 THEN <<w[i]>> \o Frame(mark) ELSE <<w[i]>>]
  <2>1. Blank \subseteq Chars
    BY DEF Chars
  <2>2. w \in Seq(Chars) /\ Frame(mark) \in Seq(Chars)
    BY <2>1, EmbedWsType, FrameShape
  <2> HIDE DEF w
  <2>3. Len(w) \in Nat /\ DOMAIN w = 1..Len(w)
    BY <2>2, LenProperties
  <2>4. \A i \in 1..Len(w) : <<w[i]>> \in Seq(Chars) /\ <<w[i]>> \o Frame(mark) \in Seq(Chars)
    <3> TAKE i \in 1..Len(w)
    <3>1. <<w[i]>> \in Seq(Chars)
      BY <2>2
    <3> QED
      BY <3>1, <2>2, ConcatProperties
  <2>5. ps \in [1..Len(w) -> Seq(Chars)]
    BY <2>3, <2>4
  <2>6. t = IF Len(w) < Density THEN w \o Frame(mark) ELSE FlattenSeq(ps)
    BY DEF EmbedZw
  <2> HIDE DEF ps
  <2>7. ps \in Seq(Seq(Chars))
    BY <2>3, <2>5, FunIsSeq
  <2>8. FlattenSeq(ps) \in Seq(Chars) /\ w \o Frame(mark) \in Seq(Chars)
    BY <2>2, <2>7, FlattenType, ConcatProperties
  <2> QED
    BY <2>6, <2>8
<1>2. ASSUME NoBits(text) PROVE Framed(t, mark)
  <2> DEFINE B == Chars \ {"zs", "zn"}
  <2>1. Blank \subseteq B
    BY DEF Chars, Blank
  <2>2. text \in Seq(B)
    BY <1>0, <1>2 DEF NoBits
  <2> HIDE DEF B
  <2>3. w \in Seq(B)
    BY <2>1, <2>2, EmbedWsType
  <2>4. t \in FramedTexts(mark)
    BY <2>3, EmbedZwFramed DEF B
  <2> QED
    BY <2>4 DEF FramedTexts
<1>3. ASSUME Plain(text), Len(w) # Density PROVE Opens(t, mark)
  <2> DEFINE B == Chars \ ZeroWidth
  <2>1. Blank \subseteq B
    BY DEF Chars, Blank, ZeroWidth
  <2>2. text \in Seq(B)
    BY <1>0, <1>3 DEF Plain
  <2> HIDE DEF B
  <2>3. w \in Seq(B)
    BY <2>1, <2>2, EmbedWsType
  <2> QED
    BY <2>3, <1>3, EmbedZwOpens DEF B
<1> QED
  BY <1>1, <1>2, <1>3

Fields == {"layout", "doc", "keywords"}

\* What is found of the frames.
FramesInv ==
  /\ source \in Sources
  /\ DOMAIN leak = Fields /\ leak.layout \in Seq(Chars)
  /\ phase \in {"sealing", "refused"} => leak.layout = << >>
  /\ phase \notin {"sealing", "refused"} =>
       /\ copy.mark \in MarkIds
       /\ NoBits(source.layout) => Framed(leak.layout, copy.mark)
       /\ edits \subseteq {"ws"} /\ Plain(source.layout) =>
            Len(EmbedWs(source.layout, copy.mark)) = Density \/ Opens(leak.layout, copy.mark)

\* Every step keeps the invariant.
LEMMA FramesStep ==
  ASSUME FramesInv, [Next]_vars
  PROVE  FramesInv'
<1> USE DEF FramesInv
<1>1. ASSUME NEW m \in Marks, NEW registered \in BOOLEAN, Seal(m, registered) PROVE FramesInv'
  <2> DEFINE t == EmbedZw(EmbedWs(source.layout, m), m)
  <2>1. /\ phase' = "leaking" /\ source' = source /\ edits' = edits
        /\ copy' = MarkCopy(source, m)
        /\ leak' = [layout |-> copy'.layout, doc |-> copy'.doc, keywords |-> copy'.keywords]
    BY <1>1 DEF Seal
  <2>2. m \in MarkIds /\ source.layout \in Seq(Chars)
    BY AttributionAssumption
  <2>3. copy'.mark = m /\ copy'.layout = t
    BY <2>1 DEF MarkCopy
  <2>4. leak'.layout = t /\ DOMAIN leak' = Fields
    BY <2>1, <2>3 DEF Fields
  <2>5. /\ t \in Seq(Chars)
        /\ NoBits(source.layout) => Framed(t, m)
        /\ Plain(source.layout) /\ Len(EmbedWs(source.layout, m)) # Density => Opens(t, m)
    BY <2>2, CopyFramed
  <2> HIDE DEF t
  <2> QED
    BY <2>1, <2>2, <2>3, <2>4, <2>5
<1>2. CASE SealRefused
  BY <1>2 DEF SealRefused
<1>3. ASSUME phase = "leaking", UNCHANGED <<phase, source, copy>>, DOMAIN leak' = Fields,
             \/ leak'.layout = leak.layout /\ edits' = edits
             \/ leak'.layout = StripZw(leak.layout) /\ edits' = edits \cup {"zw"}
             \/ leak'.layout = Trimmed(leak.layout) /\ edits' = edits \cup {"ws"}
             \/ /\ \E i, j \in Nat \ {0} : leak'.layout = Quoted(leak.layout, i, j)
                /\ edits' = edits \cup {"cut"}
      PROVE  FramesInv'
  <2> DEFINE m == copy.mark
             t == leak.layout
             u == leak'.layout
  <2>1. t \in Seq(Chars) /\ m \in MarkIds
    BY <1>3
  <2>2. u \in Seq(Chars)
    <3>1. StripZw(t) \in Seq(Chars)
      <4>1. Without(t, ZeroWidth) \in Seq(Chars \ ZeroWidth)
        BY <2>1, WithoutType
      <4> QED
        BY <4>1, SeqMonotonic DEF StripZw
    <3>2. Trimmed(t) \in Seq(Chars) /\ \A i, j \in Nat \ {0} : Quoted(t, i, j) \in Seq(Chars)
      BY <2>1, EditsType
    <3> QED
      BY <1>3, <2>1, <3>1, <3>2
  <2>3. NoBits(source.layout) => Framed(u, m)
    <3> SUFFICES ASSUME NoBits(source.layout) PROVE Framed(u, m)
      OBVIOUS
    <3>1. t \in FramedTexts(m)
      BY <1>3, <2>1 DEF FramedTexts
    <3>2. u \in FramedTexts(m)
      BY <1>3, <2>1, <3>1, EditsFramed
    <3> QED
      BY <3>2 DEF FramedTexts
  <2>4. ASSUME edits' \subseteq {"ws"}, Plain(source.layout), Len(EmbedWs(source.layout, m)) # Density
        PROVE  Opens(u, m)
    <3>1. edits \subseteq {"ws"} /\ (u = t \/ u = Trimmed(t))
      <4>1. "zw" \notin edits' /\ "cut" \notin edits'
        BY <2>4
      <4>2. edits' # edits \cup {"zw"} /\ edits' # edits \cup {"cut"}
        BY <4>1
      <4>3. edits \subseteq edits'
        BY <1>3, Zenon
      <4> HIDE DEF t, u
      <4> QED
        BY <1>3, <2>4, <4>2, <4>3, Zenon DEF t, u
    <3>2. Opens(t, m)
      BY <1>3, <2>4, <3>1
    <3>3. Opens(Trimmed(t), m)
      BY <2>1, <3>2, TrimmedOpens
    <3> QED
      BY <3>1, <3>2, <3>3
  <2>5. source' = source /\ copy'.mark = m /\ phase' = "leaking"
    BY <1>3
  <2> QED
    BY <1>3, <2>1, <2>2, <2>3, <2>4, <2>5
<1>4. CASE DropInvisible
  <2>1. leak'.layout = StripZw(leak.layout) /\ DOMAIN leak' = Fields
    BY <1>4 DEF DropInvisible, Fields
  <2> QED
    BY <1>3, <1>4, <2>1 DEF DropInvisible
<1>5. CASE DropTrailing
  <2>1. leak'.layout = Trimmed(leak.layout) /\ DOMAIN leak' = Fields
    BY <1>5 DEF DropTrailing, Fields, Trimmed
  <2> QED
    BY <1>3, <1>5, <2>1 DEF DropTrailing
<1>6. CASE DropMetadata
  <2>1. leak'.layout = leak.layout /\ DOMAIN leak' = Fields
    BY <1>6 DEF DropMetadata, Fields
  <2> QED
    BY <1>3, <1>6, <2>1 DEF DropMetadata
<1>7. ASSUME NEW i \in 1..MaxLines, NEW j \in 1..MaxLines, i <= j, Excerpt(i, j) PROVE FramesInv'
  <2>1. leak'.layout = Quoted(leak.layout, i, j) /\ DOMAIN leak' = Fields
    BY <1>7 DEF Excerpt, Fields, Quoted
  <2>2. i \in Nat \ {0} /\ j \in Nat \ {0}
    OBVIOUS
  <2>3. phase = "leaking" /\ UNCHANGED <<phase, source, copy>> /\ edits' = edits \cup {"cut"}
    BY <1>7 DEF Excerpt
  <2> QED
    BY <1>3, <2>1, <2>2, <2>3
<1>8. ASSUME phase = "leaking", phase' = "reported", UNCHANGED <<source, copy, leak, edits>> PROVE FramesInv'
  BY <1>8
<1>9. ASSUME NEW online, NEW listed, NEW seen, CmdAttribute(online, listed, seen) PROVE FramesInv'
  BY <1>8, <1>9 DEF CmdAttribute
<1>10. ASSUME NEW readable, NEW seen, HandleScraped(readable, seen) PROVE FramesInv'
  BY <1>8, <1>10 DEF HandleScraped
<1>11. CASE JobFails
  BY <1>8, <1>11 DEF JobFails
<1>12. CASE UNCHANGED vars
  BY <1>12 DEF vars
<1> HIDE DEF FramesInv
<1> QED
  BY <1>1, <1>2, <1>4, <1>5, <1>6, <1>7, <1>9, <1>10, <1>11, <1>12 DEF Next

\* FramesReadBack: every frame that extract_zw reads from a leaked text
\* holds the leaker's mark, and embed_zw marks every plain text but one of
\* exactly Density characters.
THEOREM FramesAlwaysReadBack == Spec => []FramesReadBack
<1>1. Init => FramesInv
  <2> SUFFICES ASSUME Init PROVE FramesInv
    OBVIOUS
  <2>1. source \in Sources /\ phase = "sealing" /\ leak = NoLeak
    BY DEF Init
  <2>2. leak.layout = << >> /\ DOMAIN leak = Fields /\ << >> \in Seq(Chars)
    BY <2>1 DEF NoLeak, Fields
  <2> QED
    BY <2>1, <2>2 DEF FramesInv
<1>2. FramesInv /\ [Next]_vars => FramesInv'
  BY FramesStep
<1>3. FramesInv => FramesReadBack
  <2> SUFFICES ASSUME FramesInv PROVE FramesReadBack
    OBVIOUS
  <2> DEFINE t == leak.layout
             m == copy.mark
  <2>1. t \in Seq(Chars)
    BY DEF FramesInv
  <2>2. ASSUME NoBits(source.layout) PROVE ToSet(ExtractZw(t)) \subseteq {m}
    <3>1. CASE phase \in {"sealing", "refused"}
      <4>1. ExtractZw(<< >>) = << >>
        <5>1. << >> \in Seq(Chars) /\ Len(<< >>) = 0
          OBVIOUS
        <5>2. PICK f \in [1..(0 + 2) -> Seq(Marked)] : Reads(f, << >>)
          BY <5>1, ReadCases
        <5> QED
          BY <5>1, <5>2 DEF Reads
      <4>2. t = << >>
        BY <3>1 DEF FramesInv
      <4> QED
        BY <4>1, <4>2 DEF ToSet
    <3>2. CASE phase \notin {"sealing", "refused"}
      <4>1. m \in MarkIds /\ Framed(t, m)
        BY <2>2, <3>2 DEF FramesInv
      <4>2. ExtractZw(t) \in Seq({m})
        BY <2>1, <4>1, ReadsOnlyMark
      <4> QED
        BY <4>2 DEF ToSet
    <3> QED
      BY <3>1, <3>2
  <2>3. ASSUME phase = "leaking", edits \subseteq {"ws"}, Plain(source.layout), Len(EmbedWs(source.layout, m)) # Density
        PROVE  ExtractZw(t) # << >>
    <3>1. m \in MarkIds /\ Opens(t, m)
      BY <2>3 DEF FramesInv
    <3> QED
      BY <2>1, <3>1, OpensReads
  <2> QED
    BY <2>2, <2>3 DEF FramesReadBack
<1> QED
  BY <1>1, <1>2, <1>3, PTL DEF Spec

-----------------------------------------------------------------------------
(***************************************************************************)
(* The wording.                                                            *)
(***************************************************************************)

Pieces(W) == [w : W, cap : BOOLEAN]

\* re.sub returns a text over the same words.
LEMMA SubstituteType ==
  ASSUME NEW W, NEW text \in Seq(Pieces(W)), NEW old \in Seq(W), old # << >>, NEW new \in Seq(W)
  PROVE  Substitute(text, old, new) \in Seq(Pieces(W))
<1> DEFINE V == Seq(Pieces(W))
           m == Len(text)
           top == Len(text) + 1
           Match(i) == /\ i + Len(old) - 1 <= Len(text)
                       /\ SubSeq(SubjectPieces(text), i, i + Len(old) - 1) = old
           Put(i) == [k \in DOMAIN new |-> [w |-> new[k], cap |-> k = 1 /\ text[i].cap]]
           Base(i) == << >>
           Next1(i) == IF Match(i) THEN i + Len(old) ELSE i + 1
           Op(x, i) == IF Match(i) THEN Put(i) \o x ELSE <<text[i]>> \o x
           Body(f, i) == IF i > Len(text) THEN << >>
                         ELSE IF Match(i) THEN Put(i) \o f[i + Len(old)] ELSE <<text[i]>> \o f[i + 1]
           P(f) == f = [i \in 1..top |-> Body(f, i)]
           F == CHOOSE f : P(f)
           base == [i \in 1..top |-> IF i > m THEN Base(i) ELSE CHOOSE v \in V : TRUE]
           next == [i \in 1..m |-> Next1(i)]
           step == [y \in V \X (1..m) |-> Op(y[1], y[2])]
<1>1. Substitute(text, old, new) = F[1]
  BY DEF Substitute
<1>2. m \in Nat /\ top \in Nat /\ m < top
  OBVIOUS
<1>30. Len(old) \in Nat \ {0} /\ Len(new) \in Nat /\ DOMAIN new = 1..Len(new)
  BY LenProperties, EmptySeq
<1>31. ASSUME NEW i PROVE Match(i) => i + Len(old) - 1 <= Len(text)
  OBVIOUS
<1>32. ASSUME NEW i \in 1..m PROVE Put(i) \in V /\ <<text[i]>> \in V
  <2>1. text[i] \in Pieces(W)
    OBVIOUS
  <2>2. text[i].cap \in BOOLEAN
    BY <2>1 DEF Pieces
  <2>3. \A k \in 1..Len(new) : [w |-> new[k], cap |-> k = 1 /\ text[i].cap] \in Pieces(W)
    BY <2>2 DEF Pieces
  <2>4. Put(i) \in [1..Len(new) -> Pieces(W)]
    BY <2>3, <1>30
  <2> HIDE DEF Put
  <2>5. Put(i) \in Seq(Pieces(W))
    BY <2>4, <1>30, FunIsSeq
  <2> QED
    BY <2>1, <2>5
<1> HIDE DEF Match, Put
<1>3. ASSUME NEW i \in 1..top, i > m PROVE Base(i) \in V /\ \A f : Body(f, i) = Base(i)
  <2>1. i \in Nat /\ ~ (i <= Len(text)) /\ i > Len(text)
    BY <1>3
  <2> QED
    BY <2>1
<1>4. ASSUME NEW i \in 1..m PROVE Next1(i) \in (i + 1)..top
  <2>1. Match(i) => i + Len(old) \in (i + 1)..(Len(text) + 1)
    BY <1>30, <1>31
  <2> QED
    BY <2>1
<1>5. ASSUME NEW x \in V, NEW i \in 1..m PROVE Op(x, i) \in V
  BY <1>32, ConcatProperties
<1>6. ASSUME NEW i \in 1..m, NEW f PROVE Body(f, i) = Op(f[Next1(i)], i)
  <2>1. ~ (i > Len(text))
    OBVIOUS
  <2> QED
    BY <2>1, Zenon
<1> HIDE DEF V, m, top, Base, Next1, Op, Body
<1>7. \E v : v \in V
  BY <1>2, <1>3
<1>8. base \in [1..top -> V]
  BY <1>3, <1>7
<1>9. \A i \in 1..m : next[i] \in (i + 1)..top
  BY <1>4
<1>10. step \in [V \X (1..m) -> V] /\ \A x \in V, i \in 1..m : step[<<x, i>>] = Op(x, i)
  BY <1>5
<1>11. /\ \A i \in 1..top : i > m => base[i] = Base(i)
       /\ \A i \in 1..m : next[i] = Next1(i)
  OBVIOUS
<1> HIDE DEF step, next, base
<1>12. PICK g : Descends(g, V, m, top, base, next, step)
  BY <1>2, <1>8, <1>9, <1>10, DownRecursion
<1>13. ASSUME NEW i \in 1..top PROVE g[i] = Body(g, i)
  <2>1. g[i] = IF i > m THEN base[i] ELSE step[<<g[next[i]], i>>]
    BY <1>12 DEF Descends
  <2>2. CASE i > m
    BY <2>1, <2>2, <1>3, <1>11
  <2>3. CASE ~ (i > m)
    <3>1. i \in 1..m
      BY <1>2, <2>3
    <3>2. next[i] = Next1(i) /\ Next1(i) \in 1..top
      BY <1>2, <1>4, <1>11, <3>1
    <3>3. g[next[i]] \in V
      BY <1>12, <3>2 DEF Descends
    <3>4. step[<<g[next[i]], i>>] = Op(g[next[i]], i)
      BY <1>10, <3>1, <3>3
    <3> QED
      BY <2>1, <2>3, <3>1, <3>2, <3>4, <1>6, Zenon
  <2> QED
    BY <2>2, <2>3
<1>14. P(g)
  <2>1. g = [i \in 1..top |-> g[i]]
    BY <1>12 DEF Descends
  <2> QED
    BY <2>1, <1>13
<1> HIDE DEF P
<1>15. P(F)
  BY <1>14, Zenon
<1> HIDE DEF F
<1>16. F = [i \in 1..top |-> Body(F, i)]
  BY <1>15 DEF P
<1>17. \A i \in 1..top : F[i] = Body(F, i)
  BY <1>16
<1>18. \A i \in 1..top : F[i] \in V
  <2> DEFINE S == {j \in Nat : \A i \in 1..top : i + j > m => F[i] \in V}
  <2>1. 0 \in S
    BY <1>2, <1>3, <1>17
  <2>2. ASSUME NEW j \in 0..m, j # m, j \in S PROVE j + 1 \in S
    <3> SUFFICES ASSUME NEW i \in 1..top, i + (j + 1) > m PROVE F[i] \in V
      BY <1>2
    <3>1. CASE i > m
      BY <3>1, <1>3, <1>17
    <3>2. CASE ~ (i > m)
      <4>1. i \in 1..m
        BY <1>2, <3>2
      <4>2. PICK k \in 1..top : k = Next1(i) /\ k + j > m
        BY <1>2, <1>4, <4>1
      <4>3. F[k] \in V
        BY <2>2, <4>2
      <4>4. Op(F[k], i) \in V
        BY <4>1, <4>3, <1>5
      <4> QED
        BY <1>17, <1>6, <4>1, <4>2, <4>4, Zenon
    <3> QED
      BY <3>1, <3>2
  <2> HIDE DEF S
  <2>3. \A j \in 0..m : j \in S
    BY <1>2, <2>1, <2>2, BoundedInduction
  <2>4. m \in S
    BY <1>2, <2>3
  <2> QED
    BY <1>2, <2>4 DEF S
<1>19. F \in [1..top -> V]
  BY <1>16, <1>18
<1>20. F[1] \in V
  BY <1>2, <1>19
<1> QED
  BY <1>1, <1>20 DEF V

\* _bit_for returns a bit.
LEMMA BitForType ==
  ASSUME NEW mark \in MarkIds, NEW n \in Nat
  PROVE  BitFor(mark, n) \in {0, 1}
<1> DEFINE p == Pow2(n % ByteBits)
           i == (n % MarkBytes) + 1
<1>1. MarkBytes \in Nat \ {0} /\ ByteBits \in Nat \ {0}
  BY WatermarkAssumption
<1>2. ASSUME NEW d \in Nat \ {0} PROVE n % d \in 0..(d - 1)
  OBVIOUS
<1>3. i \in 1..MarkBytes /\ n % ByteBits \in Nat
  BY <1>1, <1>2
<1>4. p \in Nat \ {0}
  BY <1>3, Pow2Doubles
<1>5. Pow2(ByteBits) \in Nat
  BY <1>1, Pow2Doubles
<1> HIDE DEF p, i
<1>6. mark[i] \in Nat
  BY <1>3, <1>5 DEF MarkIds
<1>7. Len(mark) = MarkBytes
  BY MarkShape
<1>8. ASSUME NEW v \in Nat, NEW q \in Nat \ {0} PROVE v \div q \in Nat
  OBVIOUS
<1>9. mark[i] \div p \in Nat
  BY <1>4, <1>6, <1>8
<1>10. ASSUME NEW v \in Nat PROVE v % 2 \in {0, 1}
  OBVIOUS
<1>11. BitFor(mark, n) = (mark[i] \div p) % 2
  BY <1>7 DEF BitFor, p, i
<1> QED
  BY <1>9, <1>10, <1>11

\* Setting the forms of all pairs returns a text.
LEMMA SetFormsType ==
  ASSUME NEW W, STRING \subseteq W, NEW text \in Seq(Pieces(W)), NEW pairs \in Seq(Forms \X Forms),
         NEW mark \in MarkIds, NEW first \in Nat
  PROVE  SetForms(text, pairs, mark, first) \in Seq(Pieces(W))
<1> DEFINE V == Seq(Pieces(W))
           m == Len(pairs)
           base == text
           B(i) == BitFor(mark, i - 1 + first)
           Op(x, i) == Substitute(x, pairs[i][2 - B(i)], pairs[i][B(i) + 1])
           P(f) == f = [i \in 0..m |-> IF i = 0 THEN base ELSE Op(f[i - 1], i)]
           F == CHOOSE f : P(f)
           step == [y \in V \X (1..m) |-> Op(y[1], y[2])]
<1>1. SetForms(text, pairs, mark, first) = F[m]
  BY DEF SetForms
<1>2. m \in Nat /\ base \in V
  OBVIOUS
<1>3. ASSUME NEW x \in V, NEW i \in 1..m PROVE Op(x, i) \in V
  <2>1. i - 1 + first \in Nat
    OBVIOUS
  <2>2. B(i) \in {0, 1}
    BY <2>1, BitForType
  <2> HIDE DEF B
  <2>3. pairs[i] \in Forms \X Forms
    OBVIOUS
  <2>4. pairs[i][1] \in Forms /\ pairs[i][2] \in Forms
    BY <2>3
  <2>5. 2 - B(i) \in {1, 2} /\ B(i) + 1 \in {1, 2}
    BY <2>2
  <2>6. pairs[i][2 - B(i)] \in Forms /\ pairs[i][B(i) + 1] \in Forms
    BY <2>4, <2>5
  <2>7. ASSUME NEW s \in Forms PROVE s \in Seq(W) /\ s # << >>
    <3>1. s \in Seq(STRING) /\ s # << >>
      BY DEF Forms
    <3> QED
      BY <3>1, SeqMonotonic
  <2>8. /\ pairs[i][2 - B(i)] \in Seq(W) /\ pairs[i][2 - B(i)] # << >>
        /\ pairs[i][B(i) + 1] \in Seq(W)
    BY <2>6, <2>7
  <2> DEFINE o == pairs[i][2 - B(i)]
             n == pairs[i][B(i) + 1]
  <2>9. o \in Seq(W) /\ o # << >> /\ n \in Seq(W) /\ x \in Seq(Pieces(W))
    BY <2>8
  <2> HIDE DEF o, n
  <2>10. Substitute(x, o, n) \in Seq(Pieces(W))
    BY <2>9, SubstituteType
  <2> QED
    BY <2>10 DEF o, n
<1> HIDE DEF V, m, base, Op
<1>4. step \in [V \X (1..m) -> V] /\ \A x \in V, i \in 1..m : step[<<x, i>>] = Op(x, i)
  BY <1>3
<1> HIDE DEF step
<1>5. PICK g : Climbs(g, V, m, base, step)
  BY <1>2, <1>4, UpRecursion
<1>6. ASSUME NEW i \in 1..m PROVE g[i] = Op(g[i - 1], i)
  <2>1. i - 1 \in 0..m
    BY <1>2
  <2> QED
    BY <2>1, <1>4, <1>5 DEF Climbs
<1>7. P(g)
  BY <1>2, <1>5, <1>6 DEF Climbs
<1> HIDE DEF P
<1>8. P(F)
  BY <1>7, Zenon
<1> HIDE DEF F
<1>9. F = [i \in 0..m |-> IF i = 0 THEN base ELSE Op(F[i - 1], i)]
  BY <1>8 DEF P
<1>10. F[0] = base /\ \A i \in 1..m : F[i] = Op(F[i - 1], i)
  BY <1>2, <1>9
<1>11. \A i \in 0..m : F[i] \in V
  <2> DEFINE S == {i \in Nat : F[i] \in V}
  <2>1. 0 \in S
    BY <1>2, <1>10
  <2>2. ASSUME NEW i \in 0..m, i # m, i \in S PROVE i + 1 \in S
    <3>1. i + 1 \in 1..m /\ (i + 1) - 1 = i
      BY <1>2, <2>2
    <3> QED
      BY <3>1, <2>2, <1>3, <1>10
  <2> HIDE DEF S
  <2>3. \A i \in 0..m : i \in S
    BY <1>2, <2>1, <2>2, BoundedInduction
  <2> QED
    BY <2>3 DEF S
<1>12. F \in [0..m -> V]
  BY <1>9, <1>11
<1>13. F[m] \in V
  BY <1>2, <1>12
<1> QED
  BY <1>1, <1>13 DEF V

\* The words that can be in a copy.
Wording(mark) ==
  STRING \cup UNION {{TargetVariant(mark, n, Classes[Lookup(w)[1]]) : n \in Nat} : w \in STRING}

\* embed_synonyms_v2 returns a text over the words and the variants.
LEMMA SynonymsType ==
  ASSUME NEW mark, NEW text \in Seq(Pieces(STRING)), NEW min, NEW fromStart
  PROVE  EmbedSynonyms(text, mark, min, fromStart) \in Seq(Pieces(Wording(mark)))
<1> DEFINE at == Matchable(text, fromStart)
           N(i) == Cardinality({j \in at : j <= i})
           To(i) == TargetVariant(mark, N(i), Classes[Lookup(text[i].w)[1]])
           Rewrite(i) == IF To(i) = NoMark THEN text[i] ELSE [text[i] EXCEPT !.w = To(i)]
           ws == [i \in DOMAIN text |-> IF i \in at THEN Rewrite(i) ELSE text[i]]
           W == Wording(mark)
<1>1. EmbedSynonyms(text, mark, min, fromStart) = IF Cardinality(at) < min THEN text ELSE ws
  BY DEF EmbedSynonyms
<1>2. Len(text) \in Nat /\ DOMAIN text = 1..Len(text)
  BY LenProperties
<1>3. at \subseteq 1..Len(text)
  BY <1>2 DEF Matchable
<1>4. STRING \subseteq W
  BY DEF Wording
<1> HIDE DEF at
<1>5. ASSUME NEW i \in 1..Len(text) PROVE Rewrite(i) \in Pieces(W) /\ text[i] \in Pieces(W)
  <2>1. text[i] \in Pieces(STRING)
    OBVIOUS
  <2>2. text[i].w \in STRING /\ text[i] \in Pieces(W)
    BY <1>4, <2>1 DEF Pieces
  <2>3. N(i) \in Nat
    <3>1. IsFiniteSet(1..Len(text))
      BY <1>2, FS_Interval
    <3>2. {j \in at : j <= i} \subseteq 1..Len(text)
      BY <1>3
    <3>3. IsFiniteSet({j \in at : j <= i})
      BY <3>1, <3>2, FS_Subset
    <3> QED
      BY <3>3, FS_CardinalityType
  <2> HIDE DEF N
  <2>4. To(i) \in W
    <3>1. ASSUME NEW v \in STRING, NEW n \in Nat
          PROVE  TargetVariant(mark, n, Classes[Lookup(v)[1]]) \in W
      <4> DEFINE T(x, y) == TargetVariant(mark, y, Classes[Lookup(x)[1]])
      <4>1. W = STRING \cup UNION {{T(x, y) : y \in Nat} : x \in STRING}
        BY DEF Wording
      <4> HIDE DEF T, W
      <4>2. T(v, n) \in {T(v, y) : y \in Nat}
        OBVIOUS
      <4>3. {T(v, y) : y \in Nat} \in {{T(x, y) : y \in Nat} : x \in STRING}
        OBVIOUS
      <4>4. T(v, n) \in W
        BY <4>1, <4>2, <4>3
      <4> QED
        BY <4>4 DEF T
    <3>2. text[i].w \in STRING
      BY <2>2
    <3> HIDE DEF W
    <3> QED
      BY <2>3, <3>1, <3>2, Zenon
  <2> HIDE DEF To, W
  <2>5. [text[i] EXCEPT !.w = To(i)] \in Pieces(W)
    BY <2>2, <2>4 DEF Pieces
  <2> QED
    BY <2>2, <2>5
<1> HIDE DEF Rewrite, W
<1>6. ws \in [1..Len(text) -> Pieces(W)]
  BY <1>2, <1>5
<1> HIDE DEF ws
<1>7. ws \in Seq(Pieces(W))
  BY <1>2, <1>6, FunIsSeq
<1>8. text \in Seq(Pieces(W))
  <2>1. text \in [1..Len(text) -> Pieces(W)]
    BY <1>2, <1>5
  <2> QED
    BY <1>2, <2>1, FunIsSeq
<1> QED
  BY <1>1, <1>7, <1>8 DEF W

LineOf(mark) == [kind : STRING, parts : Seq(Seq(Pieces(Wording(mark))))]

\* The wording of a copy.
LEMMA CopyWording ==
  ASSUME NEW mark \in MarkIds, NEW doc \in Documents, NEW mode
  PROVE  ApplyL3Safe(doc, mark, mode) \in Seq(LineOf(mark))
<1> DEFINE W == Wording(mark)
           L == [kind : STRING, parts : Seq(Seq(Pieces(STRING)))]
<1>1. doc \in Seq(L) /\ Len(doc) \in Nat /\ DOMAIN doc = 1..Len(doc)
  <2>1. doc \in Seq(L)
    BY DEF Documents, Pieces
  <2> QED
    BY <2>1, LenProperties
<1>2. STRING \subseteq W
  BY DEF Wording
<1>3. Spellings \in Seq(Forms \X Forms) /\ Contractions \in Seq(Forms \X Forms)
  BY DictionaryAssumption
<1>4. ASSUME NEW line \in L PROVE line \in LineOf(mark) /\ ApplyToUnquoted(line, mark) \in LineOf(mark)
  <2> DEFINE ps == line.parts
             E(i) == EmbedContractions(EmbedSpelling(EmbedSynonyms(ps[i], mark, 1, i = 1), mark), mark)
             Q(i) == IF i % 2 = 0 THEN ps[i] ELSE E(i)
             qs == [i \in DOMAIN ps |-> Q(i)]
  <2>1. line.kind \in STRING /\ ps \in Seq(Seq(Pieces(STRING)))
    OBVIOUS
  <2>2. Len(ps) \in Nat /\ DOMAIN ps = 1..Len(ps)
    BY <2>1, LenProperties
  <2>3. ASSUME NEW i \in 1..Len(ps) PROVE ps[i] \in Seq(Pieces(W)) /\ Q(i) \in Seq(Pieces(W))
    <3>1. ps[i] \in Seq(Pieces(STRING))
      BY <2>1
    <3>2. Pieces(STRING) \subseteq Pieces(W)
      BY <1>2 DEF Pieces
    <3>3. ps[i] \in Seq(Pieces(W))
      BY <3>1, <3>2, SeqMonotonic
    <3> DEFINE a == EmbedSynonyms(ps[i], mark, 1, i = 1)
               b == EmbedSpelling(a, mark)
    <3>4. a \in Seq(Pieces(W))
      BY <3>1, SynonymsType
    <3> HIDE DEF a, W
    <3>5. b \in Seq(Pieces(W))
      BY <3>4, <1>2, <1>3, SetFormsType DEF EmbedSpelling
    <3> HIDE DEF b
    <3>6. EmbedContractions(b, mark) \in Seq(Pieces(W))
      BY <3>5, <1>2, <1>3, SetFormsType DEF EmbedContractions
    <3>7. E(i) \in Seq(Pieces(W))
      BY <3>6 DEF a, b
    <3> HIDE DEF E
    <3> QED
      BY <3>3, <3>7
  <2>4. ApplyToUnquoted(line, mark) = [line EXCEPT !.parts = qs]
    BY DEF ApplyToUnquoted
  <2> HIDE DEF Q, W
  <2>5. qs \in [1..Len(ps) -> Seq(Pieces(W))] /\ ps \in [1..Len(ps) -> Seq(Pieces(W))]
    <3>1. qs \in [1..Len(ps) -> Seq(Pieces(W))]
      BY <2>2, <2>3
    <3>2. ps \in [1..Len(ps) -> Seq(Pieces(W))]
      BY <2>1, <2>2, <2>3
    <3> QED
      BY <3>1, <3>2
  <2>6. qs \in Seq(Seq(Pieces(W))) /\ ps \in Seq(Seq(Pieces(W)))
    <3> HIDE DEF qs, ps
    <3> QED
      BY <2>2, <2>5, FunIsSeq
  <2> DEFINE Ps == Seq(Seq(Pieces(W)))
  <2>7. LineOf(mark) = [kind : STRING, parts : Ps]
    BY DEF LineOf, W
  <2>8. line = [kind |-> line.kind, parts |-> ps]
    OBVIOUS
  <2>9. [line EXCEPT !.parts = qs] = [kind |-> line.kind, parts |-> qs]
    <3> HIDE DEF qs
    <3> QED
      OBVIOUS
  <2>10. qs \in Ps /\ ps \in Ps
    BY <2>6
  <2> HIDE DEF qs, ps, Ps
  <2>11. [kind |-> line.kind, parts |-> qs] \in LineOf(mark) /\ [kind |-> line.kind, parts |-> ps] \in LineOf(mark)
    BY <2>1, <2>7, <2>10
  <2> QED
    BY <2>4, <2>8, <2>9, <2>11
<1> DEFINE fences(n) == Cardinality({k \in 1..n : doc[k].kind = "fence"})
           Boilerplate(n) == n <= Margin \/ n > Len(doc) - Margin \/ doc[n].kind = "notice"
           Open(n) ==
             /\ doc[n].kind \notin {"fence", "guarded"} /\ fences(n) % 2 = 0
             /\ mode = "boilerplate" => Boilerplate(n)
           ds == [n \in DOMAIN doc |-> IF Open(n) THEN ApplyToUnquoted(doc[n], mark) ELSE doc[n]]
<1>5. ApplyL3Safe(doc, mark, mode) = IF mode = "off" THEN doc ELSE ds
  BY DEF ApplyL3Safe
<1> HIDE DEF Open, L, W
<1>6. \A n \in 1..Len(doc) : doc[n] \in LineOf(mark) /\ ApplyToUnquoted(doc[n], mark) \in LineOf(mark)
  BY <1>1, <1>4
<1>7. ds \in [1..Len(doc) -> LineOf(mark)] /\ doc \in [1..Len(doc) -> LineOf(mark)]
  BY <1>1, <1>6
<1> HIDE DEF ds
<1>8. ds \in Seq(LineOf(mark)) /\ doc \in Seq(LineOf(mark))
  BY <1>1, <1>7, FunIsSeq
<1> QED
  BY <1>5, <1>8

\* The text of such a document, and of a part of it.
LEMMA DocTextType ==
  ASSUME NEW A, NEW doc, Len(doc) \in Nat, DOMAIN doc = 1..Len(doc),
         \A n \in 1..Len(doc) : doc[n].parts \in Seq(Seq(A))
  PROVE  DocText(doc) \in Seq(A)
<1> DEFINE ts == [n \in DOMAIN doc |-> LineText(doc[n])]
<1>1. \A n \in 1..Len(doc) : LineText(doc[n]) \in Seq(A)
  BY FlattenType DEF LineText
<1>2. ts \in [1..Len(doc) -> Seq(A)]
  BY <1>1
<1>3. DocText(doc) = FlattenSeq(ts)
  BY DEF DocText
<1> HIDE DEF ts
<1>4. ts \in Seq(Seq(A))
  BY <1>2, FunIsSeq
<1> QED
  BY <1>3, <1>4, FlattenType

-----------------------------------------------------------------------------
(***************************************************************************)
(* Fusion of the layers.                                                   *)
(***************************************************************************)

\* Products of naturals are monotonic.
LEMMA TimesMonotonic ==
  ASSUME NEW x \in Nat, NEW y \in Nat, NEW z \in Nat, x <= y
  PROVE  x * z <= y * z /\ z * x <= z * y /\ x * z \in Nat /\ z * x = x * z
<1>1. PICK e \in Nat : y = x + e
  <2>1. y - x \in Nat /\ y = x + (y - x)
    OBVIOUS
  <2> QED
    BY <2>1
<1>2. y * z = x * z + e * z /\ z * y = z * x + z * e /\ e * z \in Nat /\ z * e \in Nat /\ x * z \in Nat /\ z * x \in Nat
  BY <1>1
<1>3. z * x = x * z
  OBVIOUS
<1> QED
  BY <1>2, <1>3

\* A ratio a/b of at most 1/20 and a ratio p/q above it.
LEMMA RatioBelow ==
  ASSUME NEW a \in Nat, NEW b \in Nat \ {0}, NEW p \in Nat, NEW q \in Nat \ {0}, 20 * a <= b, q < 20 * p
  PROVE  a * q <= p * b /\ ~ (p * b <= a * q)
<1>1. (20 * a) * q <= b * q
  <2>1. 20 * a \in Nat
    OBVIOUS
  <2> QED
    BY <2>1, TimesMonotonic
<1>2. (q + 1) * b <= (20 * p) * b
  <2>1. 20 * p \in Nat /\ q + 1 \in Nat /\ q + 1 <= 20 * p
    OBVIOUS
  <2> QED
    BY <2>1, TimesMonotonic
<1>3. (20 * a) * q = 20 * (a * q) /\ (20 * p) * b = 20 * (p * b) /\ (q + 1) * b = b * q + b
  OBVIOUS
<1>4. a * q \in Nat /\ p * b \in Nat /\ b * q \in Nat
  OBVIOUS
<1> DEFINE X == a * q
           Y == p * b
           Z == b * q
<1>5. 20 * X <= Z /\ Z + b <= 20 * Y /\ X \in Nat /\ Y \in Nat /\ Z \in Nat /\ b > 0
  BY <1>1, <1>2, <1>3, <1>4
<1> HIDE DEF X, Y, Z
<1>6. X < Y
  BY <1>5
<1>7. X <= Y /\ ~ (Y <= X)
  BY <1>5, <1>6
<1> QED
  BY <1>7 DEF X, Y

\* A factor of at most one keeps a ratio at most 1/20.
LEMMA FactorKeeps ==
  ASSUME NEW n \in Nat, NEW d \in Nat \ {0}, NEW f \in Nat, NEW g \in Nat \ {0}, 20 * n <= d, f <= g
  PROVE  20 * (n * f) <= d * g /\ n * f \in Nat /\ d * g \in Nat \ {0}
<1>1. (20 * n) * f <= d * f /\ d * f <= d * g
  <2>1. 20 * n \in Nat /\ d \in Nat /\ g \in Nat
    OBVIOUS
  <2> QED
    BY <2>1, TimesMonotonic
<1>2. (20 * n) * f = 20 * (n * f) /\ n * f \in Nat /\ d * f \in Nat /\ d * g \in Nat
  OBVIOUS
<1>3. d * g # 0
  OBVIOUS
<1> QED
  BY <1>1, <1>2, <1>3

\* Two layers that do not reach the bound stay above 1/20.
LEMMA TwoLayers ==
  ASSUME NEW M \in Nat \ {0}, NEW T \in Nat \ {0}, NEW x \in Nat, NEW y \in Nat, 3 * x > 10 * M, y >= 3 * T
  PROVE  x * y > 10 * (M * T)
<1>1. (3 * T) * x <= y * x
  <2>1. 3 * T \in Nat
    OBVIOUS
  <2> QED
    BY <2>1, TimesMonotonic
<1>2. (10 * M + 1) * T <= (3 * x) * T
  <2>1. 10 * M + 1 \in Nat /\ 3 * x \in Nat /\ 10 * M + 1 <= 3 * x /\ T \in Nat
    OBVIOUS
  <2> QED
    BY <2>1, TimesMonotonic
<1>3. (3 * T) * x = (3 * x) * T /\ (10 * M + 1) * T = 10 * (M * T) + T /\ y * x = x * y
  OBVIOUS
<1>4. M * T \in Nat /\ x * y \in Nat /\ (3 * x) * T \in Nat
  OBVIOUS
<1> DEFINE A == M * T
           B == x * y
           C == (3 * x) * T
<1>5. C <= B /\ 10 * A + T <= C /\ A \in Nat /\ B \in Nat /\ C \in Nat
  BY <1>1, <1>2, <1>3, <1>4
<1> HIDE DEF A, B, C
<1>6. B > 10 * A
  BY <1>5
<1> QED
  BY <1>6 DEF A, B

\* What _fuse_candidates computes for one mark.
Score(l1, l2, l3, useL2, m) ==
  LET hit == {h \in l3 : h.mark = m}
      one == [num |-> IF m \in l1 THEN 1 ELSE 20, den |-> 20]
      two == IF useL2 /\ l2.mark = m
             THEN [num |-> one.num * (10 * MarkBits - 9 * l2.bits),
                   den |-> one.den * 10 * MarkBits]
             ELSE one
      three == IF hit = {} THEN two
               ELSE LET h == CHOOSE h \in hit : TRUE
                    IN  [num |-> two.num * (20 * h.total - 17 * h.hits),
                         den |-> two.den * 20 * h.total]
  IN  [mark |-> m, num |-> three.num, den |-> three.den]

\* 1 - score is a fraction between 0 and 1 for every candidate.
LEMMA ScoreBounds ==
  ASSUME NEW l1, NEW l2, NEW l3, NEW useL2 \in BOOLEAN, NEW m,
         MarkBits \in Nat \ {0}, l2.bits \in 0..MarkBits,
         \A h \in l3 : h.total \in Nat \ {0} /\ h.hits \in 0..h.total
  PROVE  LET s == Score(l1, l2, l3, useL2, m)
         IN  /\ s.mark = m /\ s.num \in Nat /\ s.den \in Nat \ {0}
             /\ m \in l1 => 20 * s.num <= s.den
             /\ m \notin l1 /\ ~ (useL2 /\ l2.mark = m /\ 27 * l2.bits >= 20 * MarkBits /\ \E h \in l3 : h.mark = m)
                  => s.den < 20 * s.num
<1> DEFINE hit == {h \in l3 : h.mark = m}
           h == CHOOSE h \in hit : TRUE
           n1 == IF m \in l1 THEN 1 ELSE 20
           x == 10 * MarkBits - 9 * l2.bits
           y == 20 * h.total - 17 * h.hits
           L2 == useL2 /\ l2.mark = m
           n2 == IF L2 THEN n1 * x ELSE n1
           d2 == IF L2 THEN 20 * 10 * MarkBits ELSE 20
           n3 == IF hit = {} THEN n2 ELSE n2 * y
           d3 == IF hit = {} THEN d2 ELSE d2 * 20 * h.total
           s == Score(l1, l2, l3, useL2, m)
<1>1. s.mark = m /\ s.num = n3 /\ s.den = d3
  BY DEF Score
<1>2. hit # {} => h \in l3 /\ h.mark = m
  OBVIOUS
<1> HIDE DEF h, hit, s
<1>3. PICK M \in Nat \ {0} : M = MarkBits
  OBVIOUS
<1>4. PICK b \in 0..M : b = l2.bits
  BY <1>3
<1>5. x \in Nat /\ x <= 10 * M /\ x >= M /\ x = 10 * M - 9 * b /\ 10 * M \in Nat \ {0}
  BY <1>3, <1>4
<1>6. hit # {} => y \in Nat /\ h.total \in Nat \ {0} /\ y <= 20 * h.total /\ y >= 3 * h.total
  BY <1>2
<1> HIDE DEF x, y
<1>7. CASE m \in l1
  <2>1. 20 * n2 <= d2 /\ n2 \in Nat /\ d2 \in Nat \ {0}
    <3>1. CASE L2
      <4>1. n2 = 1 * x /\ d2 = 20 * (10 * M)
        BY <3>1, <1>7, <1>3
      <4>2. 20 * (1 * x) <= 20 * (10 * M) /\ 1 * x \in Nat /\ 20 * (10 * M) \in Nat \ {0}
        BY <1>5
      <4> QED
        BY <4>1, <4>2
    <3>2. CASE ~ L2
      BY <3>2, <1>7
    <3> QED
      BY <3>1, <3>2
  <2> HIDE DEF n2, d2
  <2>2. 20 * n3 <= d3 /\ n3 \in Nat /\ d3 \in Nat \ {0}
    <3>1. CASE hit = {}
      BY <3>1, <2>1
    <3>2. CASE hit # {}
      <4>1. n3 = n2 * y /\ d3 = d2 * (20 * h.total)
        <5>1. d2 * 20 * h.total = d2 * (20 * h.total)
          BY <2>1, <3>2, <1>6
        <5> QED
          BY <3>2, <5>1
      <4>2. y \in Nat /\ 20 * h.total \in Nat \ {0} /\ y <= 20 * h.total
        BY <3>2, <1>6
      <4>3. 20 * (n2 * y) <= d2 * (20 * h.total) /\ n2 * y \in Nat /\ d2 * (20 * h.total) \in Nat \ {0}
        BY <2>1, <4>2, FactorKeeps
      <4> QED
        BY <4>1, <4>3
    <3> QED
      BY <3>1, <3>2
  <2> HIDE DEF n3, d3
  <2> QED
    BY <1>1, <1>7, <2>2 DEF s
<1>8. CASE m \notin l1
  <2>1. n3 \in Nat /\ d3 \in Nat \ {0} /\ (~ (L2 /\ 27 * b >= 20 * M /\ hit # {}) => d3 < 20 * n3)
    <3>1. CASE ~ L2 /\ hit = {}
      BY <3>1, <1>8
    <3>2. CASE L2 /\ hit = {}
      <4>1. n3 = 20 * x /\ d3 = 200 * M
        BY <3>2, <1>8, <1>3
      <4> QED
        BY <4>1, <1>5
    <3>3. CASE ~ L2 /\ hit # {}
      <4>1. PICK T \in Nat \ {0} : T = h.total
        BY <3>3, <1>6
      <4>2. n3 = 20 * y /\ d3 = 20 * 20 * T
        BY <3>3, <1>8, <4>1
      <4>3. y \in Nat /\ y >= 3 * T
        BY <3>3, <1>6, <4>1
      <4> QED
        BY <4>2, <4>3
    <3>4. CASE L2 /\ hit # {}
      <4>1. PICK T \in Nat \ {0} : T = h.total
        BY <3>4, <1>6
      <4>2. n3 = (20 * x) * y /\ d3 = (20 * 10 * M) * 20 * T
        BY <3>4, <1>8, <1>3, <4>1
      <4>3. y \in Nat /\ y >= 3 * T
        BY <3>4, <1>6, <4>1
      <4>4. (20 * x) * y = 20 * (x * y) /\ (20 * 10 * M) * 20 * T = 4000 * (M * T) /\ x * y \in Nat /\ M * T \in Nat \ {0}
        BY <4>3, <1>5
      <4>5. ASSUME ~ (27 * b >= 20 * M) PROVE x * y > 10 * (M * T)
        <5>1. 3 * x > 10 * M
          BY <4>5, <1>5
        <5> QED
          BY <5>1, <4>3, <1>5, TwoLayers
      <4> DEFINE X == x * y
                 Y == M * T
      <4>6. n3 = 20 * X /\ d3 = 4000 * Y /\ X \in Nat /\ Y \in Nat \ {0} /\ (~ (27 * b >= 20 * M) => X > 10 * Y)
        BY <4>2, <4>4, <4>5
      <4> HIDE DEF X, Y, n3, d3
      <4>7. n3 \in Nat /\ d3 \in Nat \ {0} /\ (~ (27 * b >= 20 * M) => d3 < 20 * n3)
        BY <4>6
      <4> QED
        BY <3>4, <4>7, Zenon
    <3> QED
      BY <3>1, <3>2, <3>3, <3>4
  <2> HIDE DEF n3, d3
  <2>2. (\E g \in l3 : g.mark = m) <=> hit # {}
    BY DEF hit
  <2> QED
    BY <1>1, <1>3, <1>4, <1>8, <2>1, <2>2 DEF s
<1> QED
  BY <1>7, <1>8

\* Frames of one mark win.
LEMMA FramesWin ==
  ASSUME NEW cm, NEW l2, NEW l3, MarkBits \in Nat \ {0}, l2.bits \in 0..MarkBits,
         \A h \in l3 : h.total \in Nat \ {0} /\ h.hits \in 0..h.total,
         ~ (l2.mark # cm /\ 27 * l2.bits >= 20 * MarkBits /\ l2.mark \in {h.mark : h \in l3})
  PROVE  {c.mark : c \in BestOf(FuseCandidates({cm}, l2, l3))} = {cm}
<1> DEFINE useL2 == l2.mark # NoMark /\ 2 * l2.bits >= MarkBits
           Sc(m) == Score({cm}, l2, l3, useL2, m)
           ms == {cm} \cup {h.mark : h \in l3} \cup IF useL2 THEN {l2.mark} ELSE {}
           cs == FuseCandidates({cm}, l2, l3)
<1>1. cs = {Sc(m) : m \in ms}
  BY DEF FuseCandidates, Score
<1>2. useL2 \in BOOLEAN
  OBVIOUS
<1> HIDE DEF useL2
<1>3. ASSUME NEW m PROVE /\ Sc(m).mark = m /\ Sc(m).num \in Nat /\ Sc(m).den \in Nat \ {0}
                         /\ m = cm => 20 * Sc(m).num <= Sc(m).den
                         /\ m # cm => Sc(m).den < 20 * Sc(m).num
  <2>1. ~ (useL2 /\ l2.mark = m /\ 27 * l2.bits >= 20 * MarkBits /\ \E h \in l3 : h.mark = m) \/ m = cm
    OBVIOUS
  <2>2. m \in {cm} <=> m = cm
    OBVIOUS
  <2> QED
    BY <1>2, <2>1, <2>2, ScoreBounds
<1> HIDE DEF Sc, cs
<1>4. cm \in ms
  OBVIOUS
<1> HIDE DEF ms
<1>5. ASSUME NEW m \in ms, m # cm
      PROVE  Sc(cm).num * Sc(m).den <= Sc(m).num * Sc(cm).den /\ ~ (Sc(m).num * Sc(cm).den <= Sc(cm).num * Sc(m).den)
  <2> DEFINE a == Sc(cm).num
             b == Sc(cm).den
             p == Sc(m).num
             q == Sc(m).den
  <2>1. a \in Nat /\ b \in Nat \ {0} /\ p \in Nat /\ q \in Nat \ {0} /\ 20 * a <= b /\ q < 20 * p
    BY <1>3, <1>5
  <2> HIDE DEF a, b, p, q
  <2>2. a * q <= p * b /\ ~ (p * b <= a * q)
    BY <2>1, RatioBelow
  <2> QED
    BY <2>2 DEF a, b, p, q
<1>6. Sc(cm).num * Sc(cm).den <= Sc(cm).num * Sc(cm).den
  <2>1. Sc(cm).num * Sc(cm).den \in Nat
    BY <1>3
  <2> QED
    BY <2>1
<1>7. Sc(cm) \in BestOf(cs)
  <2>1. Sc(cm) \in cs
    BY <1>1, <1>4
  <2>2. ASSUME NEW d \in cs PROVE Sc(cm).num * d.den <= d.num * Sc(cm).den
    <3>1. PICK m \in ms : d = Sc(m)
      BY <1>1
    <3> QED
      BY <1>5, <1>6, <3>1
  <2> QED
    BY <2>1, <2>2 DEF BestOf
<1>8. ASSUME NEW c \in BestOf(cs) PROVE c = Sc(cm)
  <2>1. c \in cs /\ c.num * Sc(cm).den <= Sc(cm).num * c.den
    BY <1>1, <1>4 DEF BestOf
  <2>2. PICK m \in ms : c = Sc(m)
    BY <1>1, <2>1
  <2>3. m = cm
    BY <1>5, <2>1, <2>2
  <2> QED
    BY <2>2, <2>3
<1>9. {c.mark : c \in BestOf(cs)} = {cm}
  <2>1. Sc(cm).mark = cm
    BY <1>3
  <2> QED
    BY <1>7, <1>8, <2>1
<1> QED
  BY <1>9 DEF cs

\* The bits of the whitespace.
LEMMA WsBitsLength ==
  ASSUME NEW A, NEW text \in Seq(A), MarkBits \in Nat
  PROVE  Len(WsBits(text)) \in 0..MarkBits
<1> DEFINE n == Len(Lines(text))
<1>1. n \in Nat
  BY LinesType
<1>2. PICK f \in [0..n -> Seq({0, 1})] :
        /\ f[0] = << >> /\ f[n] = WsBits(text)
        /\ \A i \in 1..n : f[i] = IF Len(f[i - 1]) < MarkBits /\ EndsIn(Lines(text)[i], {"sp", "tab"}) THEN Append(f[i - 1], IF Last(Lines(text)[i]) = "sp" THEN 0 ELSE 1) ELSE f[i - 1]
  BY WsBitsSteps
<1> HIDE DEF n
<1> DEFINE S == {i \in Nat : Len(f[i]) \in 0..MarkBits}
<1>3. 0 \in S
  BY <1>2
<1>4. ASSUME NEW i \in 0..n, i # n, i \in S PROVE i + 1 \in S
  <2>1. i + 1 \in 1..n /\ (i + 1) - 1 = i
    BY <1>1, <1>4
  <2> DEFINE c == IF Last(Lines(text)[i + 1]) = "sp" THEN 0 ELSE 1
             b == f[i]
  <2>2. (f[i + 1] = Append(b, c) /\ Len(b) < MarkBits) \/ f[i + 1] = b
    BY <1>2, <2>1
  <2>3. b \in Seq({0, 1}) /\ c \in {0, 1} /\ Len(b) \in 0..MarkBits
    BY <1>4
  <2> HIDE DEF b, c
  <2>4. Len(Append(b, c)) = Len(b) + 1
    BY <2>3, AppendProperties
  <2>5. Len(f[i + 1]) \in 0..MarkBits
    BY <2>2, <2>3, <2>4
  <2> QED
    BY <2>5
<1> HIDE DEF S
<1>5. \A i \in 0..n : i \in S
  BY <1>1, <1>3, <1>4, BoundedInduction
<1>6. n \in S
  BY <1>1, <1>5
<1> QED
  BY <1>2, <1>6 DEF S

\* The image of a finite set is finite and no larger.
LEMMA ImageFinite ==
  ASSUME NEW S, IsFiniteSet(S), NEW f
  PROVE  IsFiniteSet({f[x] : x \in S})
<1> DEFINE T == {f[x] : x \in S}
           g == [x \in S |-> f[x]]
<1>1. g \in Surjection(S, T)
  BY DEF Surjection
<1> QED
  BY <1>1, FS_Surjection

\* Bits that were read, and those of them that are right.
LEMMA StylesFinite ==
  ASSUME NEW A, NEW text \in Seq(A)
  PROVE  /\ IsFiniteSet(PunctuationBits(text))
         /\ IsFiniteSet(SpellingBits(text))
         /\ IsFiniteSet(ContractionBits(text))
         /\ IsFiniteSet(Matchable(text, TRUE))
<1>1. IsFiniteSet(DOMAIN text)
  BY FS_Interval, LenProperties
<1>2. IsFiniteSet(DOMAIN Spellings) /\ IsFiniteSet(DOMAIN Contractions) /\ IsFiniteSet({0, 1}) /\ IsFiniteSet({1, 2, 3})
  <2>1. Spellings \in Seq(Forms \X Forms) /\ Contractions \in Seq(Forms \X Forms)
    BY DictionaryAssumption
  <2>2. ASSUME NEW s \in Seq(Forms \X Forms) PROVE IsFiniteSet(DOMAIN s)
    BY FS_Interval, LenProperties
  <2>3. IsFiniteSet(0..1) /\ IsFiniteSet(1..3) /\ 0..1 = {0, 1} /\ 1..3 = {1, 2, 3}
    <3>1. 0 \in Int /\ 1 \in Int /\ 3 \in Int
      OBVIOUS
    <3>2. IsFiniteSet(0..1) /\ IsFiniteSet(1..3)
      BY <3>1, FS_Interval
    <3> QED
      BY <3>2
  <2> QED
    BY <2>1, <2>2, <2>3
<1>3. IsFiniteSet(PunctuationBits(text))
  <2> DEFINE Count(form) == Cardinality({i \in DOMAIN text : text[i].w = form})
             present == {n \in 1..3 : Count(Punctuation[n][1]) + Count(Punctuation[n][2]) > 0}
             Op(n) == <<Cardinality({k \in present : k < n}),
                        IF Count(Punctuation[n][2]) > Count(Punctuation[n][1]) THEN 1 ELSE 0>>
             f == [n \in present |-> Op(n)]
  <2>1. PunctuationBits(text) = {Op(n) : n \in present}
    BY DEF PunctuationBits
  <2>2. present \in SUBSET (1..3)
    <3> HIDE DEF Count
    <3> QED
      OBVIOUS
  <2>20. IsFiniteSet(1..3)
    <3>1. 1 \in Int /\ 3 \in Int
      OBVIOUS
    <3> QED
      BY <3>1, FS_Interval
  <2> HIDE DEF present
  <2>3. IsFiniteSet(present)
    BY <2>2, <2>20, FS_Subset
  <2> HIDE DEF Op
  <2>4. {Op(n) : n \in present} = {f[n] : n \in present}
    OBVIOUS
  <2> HIDE DEF f
  <2>5. IsFiniteSet({f[n] : n \in present})
    BY <2>3, ImageFinite
  <2> QED
    BY <2>1, <2>4, <2>5
<1>4. IsFiniteSet(SpellingBits(text))
  <2> DEFINE A1 == DOMAIN text
             A2 == DOMAIN Spellings
             P == (A1 \X A2) \X {0, 1}
             Q == A1 \X A2 \X {0, 1}
             f == [p \in P |-> <<p[1][1], p[1][2], p[2]>>]
  <2>1. IsFiniteSet(P)
    BY <1>1, <1>2, FS_Product
  <2>2. IsFiniteSet({f[p] : p \in P})
    <3> HIDE DEF f, P
    <3> QED
      BY <2>1, ImageFinite
  <2>3. Q \subseteq {f[p] : p \in P}
    <3> HIDE DEF A1, A2
    <3> SUFFICES ASSUME NEW q \in Q PROVE q \in {f[p] : p \in P}
      BY Zenon
    <3> DEFINE x == q[1]
               y == q[2]
               z == q[3]
    <3>1. x \in A1 /\ y \in A2 /\ z \in {0, 1} /\ q = <<x, y, z>>
      OBVIOUS
    <3> HIDE DEF x, y, z
    <3>2. << <<x, y>>, z>> \in P
      BY <3>1
    <3>3. f[<< <<x, y>>, z>>] = <<x, y, z>>
      BY <3>2
    <3> HIDE DEF f, P
    <3> QED
      BY <3>1, <3>2, <3>3
  <2>4. SpellingBits(text) \subseteq Q
    BY DEF SpellingBits
  <2> HIDE DEF f, P, Q
  <2>5. SpellingBits(text) \in SUBSET {f[p] : p \in P}
    BY <2>3, <2>4, Zenon
  <2> QED
    BY <2>2, <2>5, FS_Subset
<1>5. IsFiniteSet(ContractionBits(text))
  <2>1. IsFiniteSet((DOMAIN Contractions) \X {0, 1})
    BY <1>2, FS_Product
  <2>2. ContractionBits(text) \in SUBSET ((DOMAIN Contractions) \X {0, 1})
    BY DEF ContractionBits
  <2> QED
    BY <2>1, <2>2, FS_Subset
<1>6. IsFiniteSet(Matchable(text, TRUE))
  <2>1. Matchable(text, TRUE) \in SUBSET DOMAIN text
    BY DEF Matchable
  <2> QED
    BY <1>1, <2>1, FS_Subset
<1> QED
  BY <1>3, <1>4, <1>5, <1>6

\* At most all of the words are hits.
LEMMA Hits ==
  ASSUME NEW S, IsFiniteSet(S), NEW T \in SUBSET S
  PROVE  Cardinality(S) \in Nat /\ Cardinality(T) \in 0..Cardinality(S)
<1>1. IsFiniteSet(T) /\ Cardinality(T) <= Cardinality(S)
  BY FS_Subset
<1>2. Cardinality(S) \in Nat /\ Cardinality(T) \in Nat
  BY <1>1, FS_CardinalityType
<1> QED
  BY <1>1, <1>2

\* Other styles weigh half at most: no match without a word of a class.
LEMMA WeightsBelow ==
  ASSUME NEW all \in Nat \ {0},
         NEW a2 \in Nat, NEW a3 \in Nat, NEW a4 \in Nat, a2 <= all, a3 <= all, a4 <= all,
         NEW w2 \in {0, 1}, NEW w3 \in {0, 2}, NEW w4 \in {0, 2}
  PROVE  ~ (20 * (w2 * a2 + w3 * a3 + w4 * a4) >= 13 * all * (5 + w2 + w3 + w4))
<1>1. CASE w2 = 0 /\ w3 = 0 /\ w4 = 0 BY <1>1
<1>2. CASE w2 = 1 /\ w3 = 0 /\ w4 = 0 BY <1>2
<1>3. CASE w2 = 0 /\ w3 = 2 /\ w4 = 0 BY <1>3
<1>4. CASE w2 = 1 /\ w3 = 2 /\ w4 = 0 BY <1>4
<1>5. CASE w2 = 0 /\ w3 = 0 /\ w4 = 2 BY <1>5
<1>6. CASE w2 = 1 /\ w3 = 0 /\ w4 = 2 BY <1>6
<1>7. CASE w2 = 0 /\ w3 = 2 /\ w4 = 2 BY <1>7
<1>8. CASE w2 = 1 /\ w3 = 2 /\ w4 = 2 BY <1>8
<1> QED
  BY <1>1, <1>2, <1>3, <1>4, <1>5, <1>6, <1>7, <1>8

\* Without words the weighted mean of the styles is at most one half.
LEMMA ShareBelow ==
  ASSUME NEW all \in Nat, NEW d \in Nat \ {0}, NEW h \in 0..d
  PROVE  all \div d \in Nat /\ h * (all \div d) \in Nat /\ h * (all \div d) <= all
<1> DEFINE q == all \div d
<1>1. PICK a \in Int, b \in 0..(d - 1) : a = q /\ all = d * a + b
  BY DivMod
<1>2. q \in Nat
  OBVIOUS
<1> HIDE DEF q
<1>3. h * q <= d * q /\ h * q \in Nat
  BY <1>2, TimesMonotonic
<1>4. d * q \in Nat /\ d * q <= all
  <2>1. d * q = d * a /\ d * q \in Nat
    BY <1>1, <1>2
  <2> QED
    BY <1>1, <2>1
<1>5. h * q <= all
  BY <1>3, <1>4
<1> QED
  BY <1>2, <1>3, <1>5 DEF q

\* So verify_semantic matches no text without a dictionary word.
LEMMA MatchNeedsWords ==
  ASSUME NEW A, NEW text \in Seq(A), NEW B, NEW seen \in Seq(B), NEW mark, OverallMatch(text, seen, mark)
  PROVE  /\ VerifySynonyms(text, mark).total \in Nat \ {0}
         /\ VerifySynonyms(text, mark).hits \in 0..VerifySynonyms(text, mark).total
<1> DEFINE at == Matchable(text, TRUE)
           Hit(i) ==
             LET e == Lookup(text[i].w)
                 v == Variant(mark, Cardinality({j \in at : j <= i}), Classes[e[1]]) + 1
             IN  Classes[e[1]][v] \in MultiWord \/ v = e[2]
           T1 == {i \in at : Hit(i)}
           S2 == PunctuationBits(seen)
           T2 == {b \in S2 : b[2] = BitFor(mark, b[1])}
           S3 == SpellingBits(seen)
           T3 == {b \in S3 : b[3] = BitFor(mark, b[2] - 1 + 8)}
           S4 == ContractionBits(seen)
           T4 == {b \in S4 : b[2] = BitFor(mark, b[1] - 1 + 40)}
           t1 == Cardinality(at)
           h1 == Cardinality(T1)
           t2 == Cardinality(S2)
           h2 == Cardinality(T2)
           t3 == Cardinality(S3)
           h3 == Cardinality(T3)
           t4 == Cardinality(S4)
           h4 == Cardinality(T4)
           D(t) == IF t = 0 THEN 1 ELSE t
           W(t, w) == IF t > 0 THEN w ELSE 0
           all == D(t1) * D(t2) * D(t3) * D(t4)
<1>1. VerifySynonyms(text, mark).total = t1 /\ VerifySynonyms(text, mark).hits = h1
  BY DEF VerifySynonyms
<1>2. /\ T1 \in SUBSET at /\ T2 \in SUBSET S2 /\ T3 \in SUBSET S3 /\ T4 \in SUBSET S4
  OBVIOUS
<1>3. IsFiniteSet(at) /\ IsFiniteSet(S2) /\ IsFiniteSet(S3) /\ IsFiniteSet(S4)
  BY StylesFinite
<1>4. 20 * (5 * h1 * (all \div D(t1)) + W(t2, 1) * h2 * (all \div D(t2)) + W(t3, 2) * h3 * (all \div D(t3)) + W(t4, 2) * h4 * (all \div D(t4)))
        >= 13 * all * (5 + W(t2, 1) + W(t3, 2) + W(t4, 2))
  <2> DEFINE syn == VerifySynonyms(text, mark)
             p2 == [total |-> t2, hits |-> h2]
             p3 == [total |-> t3, hits |-> h3]
             p4 == [total |-> t4, hits |-> h4]
             styles == <<p2, p3, p4>>
             ScoreOf(k) == IF k = 1 THEN syn ELSE styles[k - 1]
             Weight(k) == IF k = 1 \/ ScoreOf(k).total > 0 THEN <<5, 1, 2, 2>>[k] ELSE 0
             Den(k) == IF ScoreOf(k).total = 0 THEN 1 ELSE ScoreOf(k).total
             All == Den(1) * Den(2) * Den(3) * Den(4)
             Part(k) == Weight(k) * ScoreOf(k).hits * (All \div Den(k))
  <2>1. 20 * (Part(1) + Part(2) + Part(3) + Part(4)) >= 13 * All * (Weight(1) + Weight(2) + Weight(3) + Weight(4))
    BY DEF OverallMatch, StyleScores
  <2>2. ScoreOf(1) = syn /\ ScoreOf(2) = p2 /\ ScoreOf(3) = p3 /\ ScoreOf(4) = p4
    OBVIOUS
  <2> HIDE DEF t1, t2, t3, t4, h1, h2, h3, h4
  <2>3. /\ ScoreOf(1).total = t1 /\ ScoreOf(1).hits = h1 /\ ScoreOf(2).total = t2 /\ ScoreOf(2).hits = h2
        /\ ScoreOf(3).total = t3 /\ ScoreOf(3).hits = h3 /\ ScoreOf(4).total = t4 /\ ScoreOf(4).hits = h4
    BY <1>1, <2>2
  <2> HIDE DEF ScoreOf
  <2>4. Den(1) = D(t1) /\ Den(2) = D(t2) /\ Den(3) = D(t3) /\ Den(4) = D(t4)
    BY <2>3
  <2>5. Weight(1) = 5 /\ Weight(2) = W(t2, 1) /\ Weight(3) = W(t3, 2) /\ Weight(4) = W(t4, 2)
    BY <2>3
  <2>6. All = all
    BY <2>4
  <2> HIDE DEF Den, Weight, All, all, D, W
  <2>7. /\ Part(1) = 5 * h1 * (all \div D(t1)) /\ Part(2) = W(t2, 1) * h2 * (all \div D(t2))
        /\ Part(3) = W(t3, 2) * h3 * (all \div D(t3)) /\ Part(4) = W(t4, 2) * h4 * (all \div D(t4))
    BY <2>3, <2>4, <2>5, <2>6, Zenon
  <2> HIDE DEF Part
  <2> QED
    BY <2>1, <2>5, <2>6, <2>7, Zenon
<1> HIDE DEF at, T1, S2, T2, S3, T3, S4, T4
<1>5. t1 \in Nat /\ h1 \in 0..t1 /\ t2 \in Nat /\ h2 \in 0..t2 /\ t3 \in Nat /\ h3 \in 0..t3 /\ t4 \in Nat /\ h4 \in 0..t4
  BY <1>2, <1>3, Hits
<1> HIDE DEF t1, t2, t3, t4, h1, h2, h3, h4
<1>6. t1 # 0
  <2> SUFFICES ASSUME t1 = 0 PROVE FALSE
    OBVIOUS
  <2>1. h1 = 0 /\ D(t1) = 1
    BY <1>5
  <2>2. ASSUME NEW t \in Nat, NEW h \in 0..t PROVE D(t) \in Nat \ {0} /\ h \in 0..D(t)
    OBVIOUS
  <2>3. /\ D(t1) \in Nat \ {0} /\ D(t2) \in Nat \ {0} /\ D(t3) \in Nat \ {0} /\ D(t4) \in Nat \ {0}
        /\ h2 \in 0..D(t2) /\ h3 \in 0..D(t3) /\ h4 \in 0..D(t4)
    BY <1>5, <2>2
  <2>4. W(t2, 1) \in {0, 1} /\ W(t3, 2) \in {0, 2} /\ W(t4, 2) \in {0, 2}
    OBVIOUS
  <2> HIDE DEF D, W
  <2>5. all \in Nat \ {0}
    <3>1. ASSUME NEW x \in Nat \ {0}, NEW y \in Nat \ {0} PROVE x * y \in Nat \ {0}
      OBVIOUS
    <3>2. D(t1) * D(t2) \in Nat \ {0}
      BY <2>3, <3>1
    <3>3. (D(t1) * D(t2)) * D(t3) \in Nat \ {0}
      BY <2>3, <3>1, <3>2
    <3> QED
      BY <2>3, <3>1, <3>3
  <2> HIDE DEF all
  <2> DEFINE q1 == all \div D(t1)
             q2 == all \div D(t2)
             q3 == all \div D(t3)
             q4 == all \div D(t4)
             w2 == W(t2, 1)
             w3 == W(t3, 2)
             w4 == W(t4, 2)
  <2>6. /\ q2 \in Nat /\ h2 * q2 \in Nat /\ h2 * q2 <= all /\ q3 \in Nat /\ h3 * q3 \in Nat /\ h3 * q3 <= all
        /\ q4 \in Nat /\ h4 * q4 \in Nat /\ h4 * q4 <= all /\ q1 \in Nat
    <3>1. all \in Nat /\ 0 \in 0..D(t1)
      BY <2>5, <2>3
    <3> QED
      BY <3>1, <2>3, ShareBelow
  <2>7. w2 \in {0, 1} /\ w3 \in {0, 2} /\ w4 \in {0, 2}
    BY <2>4
  <2>8. 20 * (5 * h1 * q1 + w2 * h2 * q2 + w3 * h3 * q3 + w4 * h4 * q4) >= 13 * all * (5 + w2 + w3 + w4)
    BY <1>4
  <2> HIDE DEF q1, q2, q3, q4, w2, w3, w4
  <2>9. /\ 5 * h1 * q1 = 0 /\ w2 * h2 * q2 = w2 * (h2 * q2)
        /\ w3 * h3 * q3 = w3 * (h3 * q3) /\ w4 * h4 * q4 = w4 * (h4 * q4)
    <3>1. 5 * h1 * q1 = 0
      BY <2>1, <2>6
    <3>2. ASSUME NEW x \in Nat, NEW y \in Nat, NEW z \in Nat PROVE x * y * z = x * (y * z)
      OBVIOUS
    <3>3. w2 \in Nat /\ w3 \in Nat /\ w4 \in Nat /\ h2 \in Nat /\ h3 \in Nat /\ h4 \in Nat
      BY <1>5, <2>7
    <3> QED
      BY <2>6, <3>1, <3>2, <3>3
  <2> DEFINE a2 == h2 * q2
             a3 == h3 * q3
             a4 == h4 * q4
  <2>10. a2 \in Nat /\ a3 \in Nat /\ a4 \in Nat /\ a2 <= all /\ a3 <= all /\ a4 <= all
    BY <2>6
  <2>11. 20 * (0 + w2 * a2 + w3 * a3 + w4 * a4) >= 13 * all * (5 + w2 + w3 + w4)
    BY <2>8, <2>9, Zenon
  <2> HIDE DEF a2, a3, a4
  <2>12. 0 + w2 * a2 + w3 * a3 + w4 * a4 = w2 * a2 + w3 * a3 + w4 * a4
    BY <2>7, <2>10
  <2>13. 20 * (w2 * a2 + w3 * a3 + w4 * a4) >= 13 * all * (5 + w2 + w3 + w4)
    BY <2>11, <2>12, Zenon
  <2> QED
    BY <2>5, <2>7, <2>10, <2>13, WeightsBelow
<1> QED
  BY <1>1, <1>5, <1>6

-----------------------------------------------------------------------------
(***************************************************************************)
(* The best candidate.                                                     *)
(***************************************************************************)

\* A sequence that occurs in another.
PartOf(e, w, L) == \E x, y \in Seq(L) : w = (x \o e) \o y

\* A leaked document is a part of the copy.
DocIsPart(c, d) == d \in Seq(LineOf(c.mark)) /\ PartOf(d, c.doc, LineOf(c.mark))

DocInv ==
  IF phase \in {"sealing", "refused"} THEN leak.doc = << >>
  ELSE DocIsPart(copy, leak.doc)

\* Concatenation is associative.
LEMMA CatAssoc ==
  ASSUME NEW L, NEW x \in Seq(L), NEW y \in Seq(L), NEW z \in Seq(L)
  PROVE  x \o (y \o z) = (x \o y) \o z
  BY ConcatAssociative, SMTT(30)

\* A part of a part is a part.
LEMMA PartOfPart ==
  ASSUME NEW L, NEW w, NEW d \in Seq(L), PartOf(d, w, L), NEW i \in Nat \ {0}, NEW j \in Nat \ {0}
  PROVE  Some(d, i, j) \in Seq(L) /\ PartOf(Some(d, i, j), w, L)
<1>0. PICK a \in Seq(L), b \in Seq(L) : w = (a \o d) \o b
  BY DEF PartOf
<1> DEFINE n == Len(d)
           m == Min({j, n})
           e == Some(d, i, j)
<1>1. n \in Nat /\ \A k \in 1..n : d[k] \in L
  OBVIOUS
<1>2. m \in Nat /\ m <= n
  <2>1. \E x \in {j, n} : \A y \in {j, n} : x <= y
    BY <1>1
  <2>2. m \in {j, n} /\ \A y \in {j, n} : m <= y
    BY <2>1 DEF Min
  <2> QED
    BY <2>2, <1>1
<1>3. e = SubSeq(d, i, m)
  BY DEF Some
<1> HIDE DEF m, n, e
<1>4. e \in Seq(L)
  <2>1. \A k \in i..m : d[k] \in L
    BY <1>1, <1>2
  <2>2. i \in Int /\ m \in Int
    BY <1>2
  <2> QED
    BY <1>3, <2>1, <2>2, SubSeqProperties
<1>5. \E p, q \in Seq(L) : d = (p \o e) \o q
  <2>1. CASE i > m
    <3>1. e = << >>
      <4>1. i \in Int /\ m \in Int /\ m < i
        BY <1>2, <2>1
      <4> QED
        BY <1>3, <4>1, SubSeqEmpty
    <3>2. << >> \in Seq(L) /\ << >> \o << >> = << >> /\ << >> \o d = d
      BY ConcatEmptySeq, EmptySeq
    <3>3. d = (<< >> \o e) \o d
      BY <3>1, <3>2
    <3> QED
      BY <3>2, <3>3
  <2>2. CASE ~ (i > m)
    <3> DEFINE p == SubSeq(d, 1, i - 1)
               q == SubSeq(d, m + 1, n)
    <3>1. i <= m /\ i \in 1..(n + 1) /\ m \in (i - 1)..n
      BY <1>1, <1>2, <2>2
    <3>2. SubSeq(d, 1, i - 1) \o SubSeq(d, (i - 1) + 1, m) = SubSeq(d, 1, m)
      <4>1. 1 \in 1..(Len(d) + 1) /\ i - 1 \in (1 - 1)..Len(d) /\ m \in (i - 1)..Len(d)
        BY <1>1, <3>1 DEF n
      <4> QED
        BY <4>1, ConcatAdjacentSubSeq
    <3>3. SubSeq(d, 1, m) \o SubSeq(d, m + 1, n) = SubSeq(d, 1, n)
      <4>1. 1 \in 1..(Len(d) + 1) /\ m \in (1 - 1)..Len(d) /\ n \in m..Len(d)
        BY <1>1, <1>2, <3>1 DEF n
      <4> QED
        BY <4>1, ConcatAdjacentSubSeq
    <3>4. SubSeq(d, 1, n) = d /\ (i - 1) + 1 = i
      BY SubSeqFull DEF n
    <3>5. p \in Seq(L) /\ q \in Seq(L)
      <4>1. (\A k \in 1..(i - 1) : d[k] \in L) /\ (\A k \in (m + 1)..n : d[k] \in L)
        BY <1>1, <1>2, <3>1
      <4>2. 1 \in Int /\ i - 1 \in Int /\ m + 1 \in Int /\ n \in Int
        BY <1>1, <1>2
      <4> QED
        BY <4>1, <4>2, SubSeqProperties
    <3>6. d = (p \o e) \o q
      BY <1>3, <3>2, <3>3, <3>4
    <3> QED
      BY <3>5, <3>6
  <2> QED
    BY <2>1, <2>2
<1>6. PICK p \in Seq(L), q \in Seq(L) : d = (p \o e) \o q
  BY <1>5
<1>7. a \o p \in Seq(L) /\ q \o b \in Seq(L) /\ p \o e \in Seq(L)
  BY <1>4, <1>6, ConcatProperties
<1>8. (a \o d) \o b = ((a \o p) \o e) \o (q \o b)
  <2> DEFINE pe == p \o e
  <2>1. a \o (pe \o q) = (a \o pe) \o q
    <3>1. pe \in Seq(L)
      BY <1>7
    <3> HIDE DEF pe
    <3> QED
      BY <3>1, CatAssoc, SMTT(30)
  <2>2. a \o (p \o e) = (a \o p) \o e
    BY <1>4, <1>6, CatAssoc, SMTT(30)
  <2>3. (a \o p) \o e \in Seq(L)
    BY <1>4, <1>7, ConcatProperties
  <2> DEFINE ape == (a \o p) \o e
  <2>4. ape \o (q \o b) = (ape \o q) \o b
    <3>1. ape \in Seq(L)
      BY <2>3
    <3>2. q \in Seq(L) /\ b \in Seq(L)
      OBVIOUS
    <3> HIDE DEF ape
    <3> QED
      BY ONLY <3>1, <3>2, CatAssoc, SMTT(30)
  <2> QED
    BY <1>6, <2>1, <2>2, <2>4, Zenon
<1>9. PartOf(e, w, L)
  BY <1>0, <1>7, <1>8 DEF PartOf
<1> QED
  BY <1>4, <1>9 DEF e

\* Every step keeps the leaked document a part of the copy.
LEMMA DocStep ==
  ASSUME FramesInv, DocInv, [Next]_vars
  PROVE  DocInv'
<1>0. DOMAIN leak = Fields
  BY DEF FramesInv
<1>1. ASSUME NEW m \in Marks, NEW registered \in BOOLEAN, Seal(m, registered) PROVE DocInv'
  <2> DEFINE mode == DecideL3(ClassifyDocument(source.declared, source.hints), source.requested)
             d == ApplyL3Safe(source.doc, m, mode)
             L == LineOf(m)
  <2>1. /\ phase' = "leaking" /\ copy' = MarkCopy(source, m)
        /\ leak' = [layout |-> copy'.layout, doc |-> copy'.doc, keywords |-> copy'.keywords]
    BY <1>1 DEF Seal
  <2>2. m \in MarkIds /\ source.doc \in Documents
    BY AttributionAssumption DEF FramesInv
  <2>3. copy'.mark = m /\ copy'.doc = d
    BY <2>1 DEF MarkCopy
  <2>4. leak'.doc = d
    BY <2>1, <2>3
  <2>5. d \in Seq(L)
    BY <2>2, CopyWording
  <2> HIDE DEF d, L
  <2>6. << >> \in Seq(L) /\ d = (<< >> \o d) \o << >>
    BY <2>5, ConcatEmptySeq, EmptySeq
  <2>7. PartOf(d, d, L)
    BY <2>6 DEF PartOf
  <2> QED
    BY <2>1, <2>3, <2>4, <2>5, <2>7 DEF DocInv, DocIsPart, L
<1>3. CASE SealRefused
  BY <1>3 DEF SealRefused, DocInv
<1>4. CASE DropInvisible
  <2>1. leak'.doc = leak.doc
    BY <1>0, <1>4 DEF DropInvisible, Fields
  <2>2. copy' = copy /\ phase' = phase
    BY <1>4 DEF DropInvisible
  <2> QED
    BY <2>1, <2>2 DEF DocInv
<1>5. CASE DropTrailing
  <2>1. leak'.doc = leak.doc
    BY <1>0, <1>5 DEF DropTrailing, Fields
  <2>2. copy' = copy /\ phase' = phase
    BY <1>5 DEF DropTrailing
  <2> QED
    BY <2>1, <2>2 DEF DocInv
<1>6. CASE DropMetadata
  <2>1. leak'.doc = leak.doc
    BY <1>0, <1>6 DEF DropMetadata, Fields
  <2>2. copy' = copy /\ phase' = phase
    BY <1>6 DEF DropMetadata
  <2> QED
    BY <2>1, <2>2 DEF DocInv
<1>7. ASSUME NEW i \in 1..MaxLines, NEW j \in 1..MaxLines, i <= j, Excerpt(i, j) PROVE DocInv'
  <2> DEFINE L == LineOf(copy.mark)
             d == leak.doc
  <2>1. leak'.doc = Some(d, i, j) /\ phase = "leaking" /\ phase' = "leaking" /\ copy' = copy
    BY <1>7 DEF Excerpt
  <2>2. d \in Seq(L) /\ PartOf(d, copy.doc, L)
    BY <2>1 DEF DocInv, DocIsPart
  <2>4. i \in Nat \ {0} /\ j \in Nat \ {0}
    OBVIOUS
  <2>5. Some(d, i, j) \in Seq(L) /\ PartOf(Some(d, i, j), copy.doc, L)
    <3> HIDE DEF L, d
    <3> QED
      BY <2>2, <2>4, PartOfPart
  <2>6. DocIsPart(copy, Some(d, i, j))
    BY <2>5 DEF DocIsPart
  <2> QED
    BY <2>1, <2>6 DEF DocInv
<1>9. ASSUME NEW online, NEW listed, NEW seen, CmdAttribute(online, listed, seen) PROVE DocInv'
  BY <1>9 DEF CmdAttribute, DocInv
<1>10. ASSUME NEW readable, NEW seen, HandleScraped(readable, seen) PROVE DocInv'
  BY <1>10 DEF HandleScraped, DocInv
<1>11. CASE JobFails
  BY <1>11 DEF JobFails, DocInv
<1>12. CASE UNCHANGED vars
  BY <1>12 DEF vars, DocInv
<1> QED
  BY <1>1, <1>3, <1>4, <1>5, <1>6, <1>7, <1>9, <1>10, <1>11, <1>12 DEF Next

\* The invariants hold before anything is sealed.
LEMMA DocInit ==
  ASSUME Init
  PROVE  FramesInv /\ DocInv
<1>1. source \in Sources /\ phase = "sealing" /\ leak = NoLeak
  BY DEF Init
<1>2. leak.layout = << >> /\ leak.doc = << >> /\ DOMAIN leak = Fields /\ << >> \in Seq(Chars)
  BY <1>1 DEF NoLeak, Fields
<1> QED
  BY <1>1, <1>2 DEF FramesInv, DocInv

\* The report of the command line is about the leaked text.
BestMarks(seen) == {c.mark : c \in BestOf(RecoverMarksV2(seen, DirectCandidates))}

CliInv ==
  report.by = "cli" => phase = "reported" /\ \E seen \in Seen : report.best = BestMarks(seen)

\* Nothing happens after the report.
LEMMA CliStep ==
  ASSUME CliInv, [Next]_vars
  PROVE  CliInv'
<1>1. ASSUME phase # "reported", report' = report PROVE CliInv'
  BY <1>1 DEF CliInv
<1>2. ASSUME NEW m, NEW registered, Seal(m, registered) PROVE CliInv'
  BY <1>1, <1>2 DEF Seal
<1>3. CASE SealRefused
  BY <1>1, <1>3 DEF SealRefused
<1>4. CASE DropInvisible
  BY <1>1, <1>4 DEF DropInvisible
<1>5. CASE DropTrailing
  BY <1>1, <1>5 DEF DropTrailing
<1>6. CASE DropMetadata
  BY <1>1, <1>6 DEF DropMetadata
<1>7. ASSUME NEW i, NEW j, Excerpt(i, j) PROVE CliInv'
  BY <1>1, <1>7 DEF Excerpt
<1>8. ASSUME leak' = leak PROVE Seen' = Seen /\ \A seen : BestMarks(seen)' = BestMarks(seen)
  BY <1>8 DEF Seen, BestMarks, RecoverMarksV2, DirectCandidates
<1>9. ASSUME NEW online, NEW listed, NEW seen \in Seen, CmdAttribute(online, listed, seen) PROVE CliInv'
  <2>1. report'.best = BestMarks(seen) /\ phase' = "reported" /\ leak' = leak
    BY <1>9 DEF CmdAttribute, BestMarks
  <2> QED
    BY <1>8, <2>1 DEF CliInv
<1>10. ASSUME NEW readable, NEW seen, HandleScraped(readable, seen) PROVE CliInv'
  <2>1. report'.by = "flywheel"
    BY <1>10 DEF HandleScraped, NoReport
  <2> QED
    BY <2>1 DEF CliInv
<1>11. CASE JobFails
  <2>1. report'.by = "failed"
    BY <1>11 DEF JobFails, NoReport
  <2> QED
    BY <2>1 DEF CliInv
<1>12. CASE UNCHANGED vars
  BY <1>8, <1>12 DEF vars, CliInv
<1> QED
  BY <1>2, <1>3, <1>4, <1>5, <1>6, <1>7, <1>9, <1>10, <1>11, <1>12 DEF Next

\* What the style readers see of a text is a text too.
LEMMA SeenText ==
  ASSUME NEW A, NEW text \in Seq(A), NEW seen \in Unstripped(text)
  PROVE  \E B : seen \in Seq(B)
<1>1. Len(text) \in Nat /\ DOMAIN text = 1..Len(text)
  OBVIOUS
<1>2. PICK cut : seen = [i \in DOMAIN text |-> IF i \in cut THEN [text[i] EXCEPT !.w = ""] ELSE text[i]]
  BY DEF Unstripped
<1> DEFINE n == Len(text)
           B == {seen[i] : i \in 1..n}
<1>3. n \in Nat /\ seen = [i \in 1..n |-> seen[i]]
  BY <1>1, <1>2
<1> HIDE DEF n
<1>4. seen \in [1..n -> B]
  BY <1>3
<1>5. seen \in Seq(B)
  BY <1>3, <1>4, SeqDef
<1> QED
  BY <1>5

\* The leaked wording is a text, whatever the style readers see of it.
LEMMA LeakText ==
  ASSUME FramesInv, DocInv
  PROVE  \E A : DocText(leak.doc) \in Seq(A) /\ \A seen \in Seen : \E B : seen \in Seq(B)
<1> DEFINE A == Pieces(Wording(copy.mark))
<1>1. ASSUME phase \in {"sealing", "refused"} PROVE DocText(leak.doc) \in Seq(A)
  <2>1. leak.doc = << >>
    BY <1>1 DEF DocInv
  <2>2. Len(<< >>) = 0 /\ DOMAIN << >> = 1..0
    OBVIOUS
  <2>3. DocText(<< >>) \in Seq(A)
    <3> HIDE DEF A
    <3> QED
      BY <2>2, DocTextType
  <2> QED
    BY <2>1, <2>3
<1>2. ASSUME phase \notin {"sealing", "refused"} PROVE DocText(leak.doc) \in Seq(A)
  <2>1. leak.doc \in Seq(LineOf(copy.mark))
    BY <1>2 DEF DocInv, DocIsPart
  <2>2. Len(leak.doc) \in Nat /\ DOMAIN leak.doc = 1..Len(leak.doc)
    BY <2>1, LenProperties
  <2>3. \A n \in 1..Len(leak.doc) : leak.doc[n].parts \in Seq(Seq(A))
    <3> TAKE n \in 1..Len(leak.doc)
    <3>1. leak.doc[n] \in LineOf(copy.mark)
      BY <2>1, ElementOfSeq
    <3> QED
      BY <3>1 DEF LineOf
  <2> HIDE DEF A
  <2>4. DocText(leak.doc) \in Seq(A)
    BY <2>2, <2>3, DocTextType
  <2> QED
    BY <2>4
<1> DEFINE text == DocText(leak.doc)
<1>3. text \in Seq(A)
  BY <1>1, <1>2
<1> HIDE DEF A, text
<1>4. ASSUME NEW seen \in Seen PROVE \E B : seen \in Seq(B)
  <2>1. seen = text \/ seen \in Unstripped(text)
    BY DEF Seen, text
  <2> QED
    BY <1>3, <2>1, SeenText
<1> QED
  BY <1>3, <1>4 DEF text

\* FramesDecide: while a frame survives, _fuse_candidates ranks the leaker's
\* mark first, unless whitespace and wording agree on another mark.
THEOREM FramesAlwaysDecide == Spec => []FramesDecide
<1>1. Init => FramesInv /\ DocInv /\ CliInv
  <2>1. Init => CliInv
    BY DEF Init, CliInv, NoReport
  <2> QED
    BY <2>1, DocInit
<1>2. FramesInv /\ DocInv /\ CliInv /\ [Next]_vars => FramesInv' /\ DocInv' /\ CliInv'
  BY FramesStep, DocStep, CliStep
<1>3. FramesInv /\ DocInv /\ CliInv => FramesDecide
  <2> DEFINE t == leak.layout
             cm == copy.mark
             l2 == ExtractWsPartial(t)
             L3(seen) == VerifyL3(DocText(leak.doc), seen, DirectCandidates)
  <2> SUFFICES ASSUME FramesInv, DocInv, CliInv, report.by = "cli", NoBits(source.layout), ExtractZw(t) # << >>,
                      ~ (/\ l2.mark # cm /\ 27 * l2.bits >= 20 * MarkBits
                         /\ \E seen \in Seen : l2.mark \in {h.mark : h \in L3(seen)})
               PROVE  report.best = {cm}
    BY DEF FramesDecide
  <2>0. PICK seen \in Seen : phase = "reported" /\ report.best = BestMarks(seen)
    BY DEF CliInv
  <2> DEFINE l3 == L3(seen)
  <2>1. /\ phase = "reported" /\ report.best = BestMarks(seen)
        /\ ~ (l2.mark # cm /\ 27 * l2.bits >= 20 * MarkBits /\ l2.mark \in {h.mark : h \in l3})
    BY <2>0
  <2>2. cm \in MarkIds /\ t \in Seq(Chars) /\ Framed(t, cm)
    BY <2>1 DEF FramesInv
  <2>3. ToSet(ExtractZw(t)) = {cm}
    <3>1. ExtractZw(t) \in Seq({cm})
      BY <2>2, ReadsOnlyMark
    <3>2. Len(ExtractZw(t)) \in Nat \ {0} /\ DOMAIN ExtractZw(t) = 1..Len(ExtractZw(t))
      BY <3>1, EmptySeq, LenProperties
    <3> DEFINE z == ExtractZw(t)
    <3> HIDE DEF z
    <3>3. ToSet(z) = {z[i] : i \in 1..Len(z)}
      BY <3>2 DEF ToSet, z
    <3>4. 1 \in 1..Len(z) /\ \A i \in 1..Len(z) : z[i] = cm
      BY <3>1, <3>2 DEF z
    <3>5. ToSet(z) = {cm}
      BY <3>3, <3>4
    <3> QED
      BY <3>5 DEF z
  <2>4. MarkBits \in Nat \ {0}
    BY <2>2, FrameShape
  <2>5. l2.bits \in 0..MarkBits
    <3>1. l2.bits = Len(WsBits(t))
      BY DEF ExtractWsPartial
    <3> QED
      BY <2>2, <2>4, <3>1, WsBitsLength
  <2>6. ASSUME NEW h \in l3 PROVE h.total \in Nat \ {0} /\ h.hits \in 0..h.total
    <3> DEFINE text == DocText(leak.doc)
    <3>1. PICK A : text \in Seq(A) /\ \A s \in Seen : \E B : s \in Seq(B)
      BY LeakText
    <3>4. PICK B : seen \in Seq(B)
      BY <3>1
    <3> HIDE DEF text
    <3>2. PICK m : /\ OverallMatch(text, seen, m)
                   /\ h = [mark |-> m, hits |-> VerifySynonyms(text, m).hits, total |-> VerifySynonyms(text, m).total]
      BY <2>6 DEF VerifyL3, text
    <3>3. VerifySynonyms(text, m).total \in Nat \ {0} /\ VerifySynonyms(text, m).hits \in 0..VerifySynonyms(text, m).total
      BY <3>1, <3>2, <3>4, MatchNeedsWords
    <3> QED
      BY <3>2, <3>3
  <2>7. BestMarks(seen) = {c.mark : c \in BestOf(FuseCandidates({cm}, l2, l3))}
    BY <2>3 DEF BestMarks, RecoverMarksV2
  <2> HIDE DEF l2, l3
  <2>8. {c.mark : c \in BestOf(FuseCandidates({cm}, l2, l3))} = {cm}
    BY <2>1, <2>4, <2>5, <2>6, FramesWin
  <2> QED
    BY <2>1, <2>7, <2>8
<1> QED
  BY <1>1, <1>2, <1>3, PTL DEF Spec

-----------------------------------------------------------------------------
(***************************************************************************)
(* Winnowing.                                                              *)
(***************************************************************************)

\* Appending to the second of two texts.
LEMMA CatAppend ==
  ASSUME NEW A, NEW s \in Seq(A), NEW t \in Seq(A), NEW e \in A
  PROVE  s \o Append(t, e) = Append(s \o t, e)
OBVIOUS

\* Without and FlattenSeq distribute over concatenation.
LEMMA WithoutCat ==
  ASSUME NEW A, NEW X, NEW s \in Seq(A), NEW t \in Seq(A)
  PROVE  Without(s \o t, X) = Without(s, X) \o Without(t, X)
<1> DEFINE S == {x \in Seq(A) : Without(s \o x, X) = Without(s, X) \o Without(x, X)}
<1>1. << >> \in S
  <2>1. Without(<< >>, X) = << >> /\ << >> \in Seq(A)
    BY WithoutNil, EmptySeq
  <2>2. Without(s, X) \in Seq(A \ X)
    BY WithoutType
  <2>3. s \o << >> = s /\ Without(s, X) \o << >> = Without(s, X)
    BY <2>2, ConcatEmptySeq
  <2> QED
    BY <2>1, <2>3
<1>2. ASSUME NEW x \in Seq(A), NEW e \in A, x \in S PROVE Append(x, e) \in S
  <2>1. s \o x \in Seq(A) /\ Append(x, e) \in Seq(A)
    OBVIOUS
  <2>2. s \o Append(x, e) = Append(s \o x, e)
    BY CatAppend
  <2>3. Without(Append(x, e), X) = IF e \in X THEN Without(x, X) ELSE Append(Without(x, X), e)
    BY WithoutAppend
  <2>4. Without(Append(s \o x, e), X) = IF e \in X THEN Without(s \o x, X) ELSE Append(Without(s \o x, X), e)
    <3> DEFINE sx == s \o x
    <3>1. sx \in Seq(A)
      BY <2>1
    <3> HIDE DEF sx
    <3>2. Without(Append(sx, e), X) = IF e \in X THEN Without(sx, X) ELSE Append(Without(sx, X), e)
      BY <3>1, WithoutAppend
    <3> QED
      BY <3>2 DEF sx
  <2>5. Without(s, X) \in Seq(A) /\ Without(x, X) \in Seq(A)
    BY WithoutAppend
  <2>6. Without(s, X) \o Append(Without(x, X), e) = Append(Without(s, X) \o Without(x, X), e)
    BY <2>5, CatAppend
  <2>7. Without(s \o x, X) = Without(s, X) \o Without(x, X)
    BY <1>2
  <2> QED
    BY <2>1, <2>2, <2>3, <2>4, <2>6, <2>7, Zenon
<1>3. \A x \in Seq(A) : x \in S
  <2> HIDE DEF S
  <2> QED
    BY <1>1, <1>2, SeqInduction
<1> QED
  BY <1>3

\* FlattenSeq distributes over concatenation.
LEMMA FlattenCat ==
  ASSUME NEW A, NEW s \in Seq(Seq(A)), NEW t \in Seq(Seq(A))
  PROVE  FlattenSeq(s \o t) = FlattenSeq(s) \o FlattenSeq(t)
<1> DEFINE B == Seq(A)
           S == {x \in Seq(B) : FlattenSeq(s \o x) = FlattenSeq(s) \o FlattenSeq(x)}
<1>1. << >> \in S
  <2>1. FlattenSeq(<< >>) = << >> /\ << >> \in Seq(B)
    BY FlattenNil, EmptySeq
  <2>2. FlattenSeq(s) \in Seq(A)
    BY FlattenType
  <2>3. s \o << >> = s /\ FlattenSeq(s) \o << >> = FlattenSeq(s)
    BY <2>2, ConcatEmptySeq
  <2> QED
    BY <2>1, <2>3
<1>2. ASSUME NEW x \in Seq(B), NEW e \in B, x \in S PROVE Append(x, e) \in S
  <2>1. s \o x \in Seq(B) /\ Append(x, e) \in Seq(B)
    <3> HIDE DEF B
    <3>1. s \in Seq(B)
      BY DEF B
    <3> QED
      BY <3>1
  <2>2. s \o Append(x, e) = Append(s \o x, e)
    <3> HIDE DEF B
    <3>1. s \in Seq(B)
      BY DEF B
    <3> QED
      BY <3>1, CatAppend
  <2>3. FlattenSeq(Append(x, e)) = FlattenSeq(x) \o e
    BY FlattenAppend
  <2>4. FlattenSeq(Append(s \o x, e)) = FlattenSeq(s \o x) \o e
    BY <2>1, FlattenAppend
  <2>5. FlattenSeq(s) \in Seq(A) /\ FlattenSeq(x) \in Seq(A) /\ e \in Seq(A)
    BY FlattenType
  <2>6. FlattenSeq(s) \o (FlattenSeq(x) \o e) = (FlattenSeq(s) \o FlattenSeq(x)) \o e
    BY <2>5, CatAssoc
  <2>7. FlattenSeq(s \o x) = FlattenSeq(s) \o FlattenSeq(x)
    BY <1>2
  <2> QED
    BY <2>1, <2>2, <2>3, <2>4, <2>6, <2>7, Zenon
<1>3. \A x \in Seq(B) : x \in S
  <2> HIDE DEF S, B
  <2> QED
    BY <1>1, <1>2, SeqInduction
<1> QED
  BY <1>3

\* So does the text that is hashed.
Norm(doc) == NormalizeText(DocText(doc))

\* The words of two texts.
LEMMA SubjectCat ==
  ASSUME NEW W, NEW s \in Seq(Pieces(W)), NEW t \in Seq(Pieces(W))
  PROVE  /\ SubjectPieces(s) \in Seq(W)
         /\ SubjectPieces(s \o t) = SubjectPieces(s) \o SubjectPieces(t)
<1> DEFINE P == Pieces(W)
<1>1. /\ Len(s) \in Nat /\ DOMAIN s = 1..Len(s) /\ Len(t) \in Nat /\ DOMAIN t = 1..Len(t)
      /\ \A i \in 1..Len(s) : s[i] \in P
      /\ \A i \in 1..Len(t) : t[i] \in P
      /\ s \o t \in Seq(P) /\ Len(s \o t) = Len(s) + Len(t) /\ DOMAIN (s \o t) = 1..(Len(s) + Len(t))
      /\ \A i \in 1..(Len(s) + Len(t)) : (s \o t)[i] = IF i <= Len(s) THEN s[i] ELSE t[i - Len(s)]
  <2> HIDE DEF P
  <2>1. s \in Seq(P) /\ t \in Seq(P)
    BY DEF P
  <2> QED
    BY <2>1
<1>2. \A p \in P : p.w \in W
  BY DEF Pieces
<1> HIDE DEF P
<1> DEFINE f == SubjectPieces(s)
           g == SubjectPieces(t)
           h == SubjectPieces(s \o t)
<1>3. f \in [1..Len(s) -> W] /\ g \in [1..Len(t) -> W] /\ h \in [1..(Len(s) + Len(t)) -> W]
  <2>1. \A i \in 1..(Len(s) + Len(t)) : (s \o t)[i] \in P
    BY <1>1
  <2> QED
    BY <1>1, <1>2, <2>1 DEF SubjectPieces
<1>4. /\ \A i \in 1..Len(s) : f[i] = s[i].w
      /\ \A i \in 1..Len(t) : g[i] = t[i].w
      /\ \A i \in 1..(Len(s) + Len(t)) : h[i] = (s \o t)[i].w
  BY <1>1 DEF SubjectPieces
<1> HIDE DEF f, g, h
<1>5. Len(s) + Len(t) \in Nat
  BY <1>1
<1>6. /\ f \in Seq(W) /\ Len(f) = Len(s) /\ g \in Seq(W) /\ Len(g) = Len(t)
      /\ h \in Seq(W) /\ Len(h) = Len(s) + Len(t)
  BY <1>1, <1>3, <1>5, FunIsSeq
<1>7. /\ f \o g \in Seq(W) /\ Len(f \o g) = Len(s) + Len(t)
      /\ \A i \in 1..(Len(s) + Len(t)) : (f \o g)[i] = IF i <= Len(s) THEN f[i] ELSE g[i - Len(s)]
  BY <1>6
<1>8. \A i \in 1..(Len(s) + Len(t)) : h[i] = (f \o g)[i]
  <2> TAKE i \in 1..(Len(s) + Len(t))
  <2>1. CASE i <= Len(s)
    <3>1. h[i] = s[i].w /\ (f \o g)[i] = f[i] /\ i \in 1..Len(s)
      BY <1>1, <1>4, <1>7, <2>1
    <3> QED
      BY <1>4, <3>1
  <2>2. CASE ~ (i <= Len(s))
    <3>1. h[i] = t[i - Len(s)].w /\ (f \o g)[i] = g[i - Len(s)] /\ i - Len(s) \in 1..Len(t)
      BY <1>1, <1>4, <1>7, <2>2
    <3> QED
      BY <1>4, <3>1
  <2> QED
    BY <2>1, <2>2
<1>9. h = f \o g
  BY <1>5, <1>6, <1>7, <1>8, SeqEqual
<1> QED
  BY <1>6, <1>9 DEF f, g, h

\* The texts of the lines of a document, and the text it is hashed as.
LEMMA CatPointwise ==
  ASSUME NEW W, NEW f \in Seq(W), NEW g \in Seq(W), NEW h \in Seq(W), Len(h) = Len(f) + Len(g),
         \A i \in 1..Len(f) : h[i] = f[i], \A i \in 1..Len(g) : h[Len(f) + i] = g[i]
  PROVE  h = f \o g
<1>1. /\ f \o g \in Seq(W) /\ Len(f \o g) = Len(h)
      /\ \A i \in 1..Len(h) : (f \o g)[i] = IF i <= Len(f) THEN f[i] ELSE g[i - Len(f)]
  OBVIOUS
<1>2. Len(f) \in Nat /\ Len(g) \in Nat
  OBVIOUS
<1>3. \A i \in 1..Len(h) : h[i] = (f \o g)[i]
  <2> TAKE i \in 1..Len(h)
  <2>1. CASE i <= Len(f)
    <3>1. i \in 1..Len(f)
      BY <1>2, <2>1
    <3> QED
      BY <1>1, <2>1, <3>1
  <2>2. CASE ~ (i <= Len(f))
    <3>1. i - Len(f) \in 1..Len(g) /\ Len(f) + (i - Len(f)) = i
      BY <1>2, <2>2
    <3>2. h[Len(f) + (i - Len(f))] = g[i - Len(f)]
      BY <3>1
    <3> QED
      BY <1>1, <2>2, <3>1, <3>2
  <2> QED
    BY <2>1, <2>2
<1> QED
  BY <1>1, <1>3, SeqEqual

HoldsTexts(L, A) == \A l \in L : l.parts \in Seq(Seq(A))

\* The text of two documents.
LEMMA DocTextCat ==
  ASSUME NEW A, NEW L, HoldsTexts(L, A), NEW s \in Seq(L), NEW t \in Seq(L)
  PROVE  DocText(s) \in Seq(A) /\ DocText(s \o t) = DocText(s) \o DocText(t)
<1>1. /\ Len(s) \in Nat /\ DOMAIN s = 1..Len(s) /\ Len(t) \in Nat /\ DOMAIN t = 1..Len(t)
      /\ \A i \in 1..Len(s) : s[i] \in L
      /\ \A i \in 1..Len(t) : t[i] \in L
      /\ Len(s \o t) = Len(s) + Len(t) /\ DOMAIN (s \o t) = 1..(Len(s) + Len(t))
      /\ \A i \in 1..Len(s) : (s \o t)[i] = s[i]
      /\ \A i \in 1..Len(t) : (s \o t)[Len(s) + i] = t[i]
      /\ \A i \in 1..(Len(s) + Len(t)) : (s \o t)[i] \in L
  OBVIOUS
<1>2. \A l \in L : LineText(l) \in Seq(A)
  BY FlattenType DEF LineText, HoldsTexts
<1> DEFINE B == Seq(A)
           f == [n \in DOMAIN s |-> LineText(s[n])]
           g == [n \in DOMAIN t |-> LineText(t[n])]
           h == [n \in DOMAIN (s \o t) |-> LineText((s \o t)[n])]
<1>3. f \in [1..Len(s) -> B] /\ g \in [1..Len(t) -> B] /\ h \in [1..(Len(s) + Len(t)) -> B]
  BY <1>1, <1>2
<1>4. /\ \A i \in 1..Len(s) : f[i] = LineText(s[i]) /\ h[i] = LineText((s \o t)[i])
      /\ \A i \in 1..Len(t) : g[i] = LineText(t[i]) /\ h[Len(s) + i] = LineText((s \o t)[Len(s) + i])
  <2>1. \A i \in 1..Len(t) : Len(s) + i \in 1..(Len(s) + Len(t))
    BY <1>1
  <2>2. \A i \in 1..Len(s) : i \in 1..(Len(s) + Len(t))
    BY <1>1
  <2> QED
    BY <1>1, <2>1, <2>2
<1>5. DocText(s) = FlattenSeq(f) /\ DocText(t) = FlattenSeq(g) /\ DocText(s \o t) = FlattenSeq(h)
  BY DEF DocText
<1> HIDE DEF f, g, h, B
<1>6. Len(s) + Len(t) \in Nat
  BY <1>1
<1>7. /\ f \in Seq(B) /\ Len(f) = Len(s) /\ g \in Seq(B) /\ Len(g) = Len(t)
      /\ h \in Seq(B) /\ Len(h) = Len(s) + Len(t)
  BY <1>1, <1>3, <1>6, FunIsSeq
<1>8. h = f \o g
  <2>1. /\ \A i \in 1..Len(f) : h[i] = f[i]
        /\ \A i \in 1..Len(g) : h[Len(f) + i] = g[i]
    <3>1. \A i \in 1..Len(s) : h[i] = f[i]
      BY <1>1, <1>4
    <3>2. \A i \in 1..Len(t) : h[Len(s) + i] = g[i]
      BY <1>1, <1>4
    <3> QED
      BY <1>7, <3>1, <3>2
  <2>2. Len(h) = Len(f) + Len(g)
    BY <1>7
  <2> QED
    BY ONLY <1>7, <2>1, <2>2, CatPointwise
<1>9. FlattenSeq(f) \in Seq(A) /\ FlattenSeq(f \o g) = FlattenSeq(f) \o FlattenSeq(g)
  <2>1. f \in Seq(Seq(A)) /\ g \in Seq(Seq(A))
    BY <1>7 DEF B
  <2> QED
    BY <2>1, FlattenCat, FlattenType
<1> QED
  BY <1>5, <1>8, <1>9

\* _normalize_text distributes over concatenation of lines.
LEMMA NormCat ==
  ASSUME NEW mark, NEW s \in Seq(LineOf(mark)), NEW t \in Seq(LineOf(mark))
  PROVE  Norm(s) \in Seq(Wording(mark)) /\ Norm(s \o t) = Norm(s) \o Norm(t)
<1> DEFINE W == Wording(mark)
           A == Pieces(W)
           L == LineOf(mark)
<1>1. HoldsTexts(L, A)
  BY DEF LineOf, HoldsTexts
<1>2. s \in Seq(L) /\ t \in Seq(L)
  OBVIOUS
<1> HIDE DEF A, L
<1>3. DocText(s) \in Seq(A) /\ DocText(t) \in Seq(A) /\ DocText(s \o t) = DocText(s) \o DocText(t)
  <2>1. DocText(t) \in Seq(A)
    BY <1>1, <1>2, DocTextCat
  <2>2. DocText(s) \in Seq(A)
    BY <1>1, <1>2, DocTextCat
  <2>3. DocText(s \o t) = DocText(s) \o DocText(t)
    BY <1>1, <1>2, DocTextCat
  <2> QED
    BY <2>1, <2>2, <2>3
<1> DEFINE x == DocText(s)
           y == DocText(t)
<1> HIDE DEF x, y, W
<1>4. SubjectPieces(x) \in Seq(W) /\ SubjectPieces(y) \in Seq(W) /\ SubjectPieces(x \o y) = SubjectPieces(x) \o SubjectPieces(y)
  BY <1>3, SubjectCat DEF A, x, y
<1> DEFINE p == SubjectPieces(x)
           q == SubjectPieces(y)
<1> HIDE DEF p, q
<1>5. Without(p \o q, Unspoken) = Without(p, Unspoken) \o Without(q, Unspoken)
  BY <1>4, WithoutCat DEF p, q
<1>6. Without(p, Unspoken) \in Seq(W)
  <2>1. Without(p, Unspoken) \in Seq(W \ Unspoken)
    BY <1>4, WithoutType DEF p
  <2> QED
    BY <2>1
<1> QED
  BY <1>3, <1>4, <1>5, <1>6 DEF Norm, NormalizeText, x, y, p, q, W

\* The k-grams of a part of a text are k-grams of the text.
LEMMA GramsOfPart ==
  ASSUME NEW W, NEW u \in Seq(W), NEW s \in Seq(W), NEW v \in Seq(W), NEW j \in Nat \ {0}, NEW k \in Nat,
         j + k - 1 <= Len(s)
  PROVE  SubSeq((u \o s) \o v, Len(u) + j, Len(u) + j + k - 1) = SubSeq(s, j, j + k - 1)
<1> DEFINE t == (u \o s) \o v
           m == Len(u)
<1>1. /\ t \in Seq(W) /\ Len(t) = Len(u) + Len(s) + Len(v)
      /\ \A i \in 1..Len(s) : t[Len(u) + i] = s[i]
  OBVIOUS
<1>2. m \in Nat /\ Len(s) \in Nat /\ Len(v) \in Nat
  OBVIOUS
<1>3. \A i \in 1..Len(s) : m + i \in 1..Len(t)
  BY <1>1, <1>2
<1> HIDE DEF t, m
<1> DEFINE a == SubSeq(t, m + j, m + j + k - 1)
           b == SubSeq(s, j, j + k - 1)
<1>4. /\ a \in Seq(W) /\ Len(a) = k /\ \A i \in 1..k : a[i] = t[m + j + i - 1]
  <2>1. m + j \in Int /\ m + j + k - 1 \in Int /\ (IF m + j <= m + j + k - 1 THEN m + j + k - 1 - (m + j) + 1 ELSE 0) = k
    BY <1>2
  <2>2. \A i \in (m + j)..(m + j + k - 1) : t[i] \in W
    <3> TAKE i \in (m + j)..(m + j + k - 1)
    <3>1. i \in 1..Len(t)
      BY <1>1, <1>2 DEF m
    <3> QED
      BY <1>1, <3>1
  <2> QED
    BY <1>2, <2>1, <2>2, SubSeqProperties
<1>5. /\ b \in Seq(W) /\ Len(b) = k /\ \A i \in 1..k : b[i] = s[j + i - 1]
  <2>1. j \in Int /\ j + k - 1 \in Int /\ (IF j <= j + k - 1 THEN j + k - 1 - j + 1 ELSE 0) = k
    OBVIOUS
  <2>2. \A i \in j..(j + k - 1) : s[i] \in W
    BY <1>2
  <2> QED
    BY <1>2, <2>1, <2>2, SubSeqProperties, SMTT(30)
<1> HIDE DEF a, b
<1>6. \A i \in 1..k : a[i] = b[i]
  <2> TAKE i \in 1..k
  <2>1. j + i - 1 \in 1..Len(s) /\ m + (j + i - 1) = m + j + i - 1
    BY <1>2
  <2>2. t[m + (j + i - 1)] = s[j + i - 1]
    BY <1>1, <2>1 DEF m
  <2> QED
    BY <1>4, <1>5, <2>1, <2>2
<1>7. a = b
  BY <1>4, <1>5, <1>6, SeqEqual
<1> QED
  BY <1>7 DEF a, b, t, m

\* The first window of a part is a window of the text.
LEMMA WindowsOfPart ==
  ASSUME NEW W, NEW x, NEW y, NEW u \in Seq(W), NEW v \in Seq(W), NormalizeText(x) \in Seq(W),
         NormalizeText(y) = (u \o NormalizeText(x)) \o v,
         Len(NormalizeText(x)) >= K + Window - 1
  PROVE  Winnow(x) \cap Winnow(y) # {}
<1> DEFINE s == NormalizeText(x)
           t == NormalizeText(y)
           m == Len(u)
           f == [i \in 1..(Len(s) - K + 1) |-> GramHash(SubSeq(s, i, i + K - 1))]
           g == [i \in 1..(Len(t) - K + 1) |-> GramHash(SubSeq(t, i, i + K - 1))]
<1>1. K \in Nat \ {0} /\ Window \in Nat \ {0}
  BY WinnowAssumption
<1>2. Winnow(x) = IF Len(s) < K THEN {}
                  ELSE IF Len(f) < Window THEN ToSet(f)
                  ELSE {Min({f[j] : j \in i..(i + Window - 1)}) : i \in 1..(Len(f) - Window + 1)}
  BY DEF Winnow
<1>3. Winnow(y) = IF Len(t) < K THEN {}
                  ELSE IF Len(g) < Window THEN ToSet(g)
                  ELSE {Min({g[j] : j \in i..(i + Window - 1)}) : i \in 1..(Len(g) - Window + 1)}
  BY DEF Winnow
<1>4. Len(s) \in Nat /\ Len(s) >= K + Window - 1 /\ m \in Nat /\ Len(v) \in Nat /\ Len(t) = m + Len(s) + Len(v)
  OBVIOUS
<1>5. \A j \in 1..Window : SubSeq(t, m + j, m + j + K - 1) = SubSeq(s, j, j + K - 1)
  <2> TAKE j \in 1..Window
  <2>1. j \in Nat \ {0} /\ j + K - 1 <= Len(s) /\ K \in Nat
    BY <1>1, <1>4
  <2>2. s \in Seq(W) /\ t = (u \o s) \o v
    OBVIOUS
  <2> HIDE DEF s, t
  <2> QED
    BY <2>1, <2>2, GramsOfPart, SMTT(30) DEF m
<1> HIDE DEF s, t, m
<1>6. /\ Len(f) = Len(s) - K + 1 /\ Len(g) = Len(t) - K + 1
      /\ \A i \in 1..Window : f[i] = GramHash(SubSeq(s, i, i + K - 1))
      /\ \A i \in (m + 1)..(m + Window) : g[i] = GramHash(SubSeq(t, i, i + K - 1))
  <2>1. Len(s) - K + 1 \in Nat /\ Len(t) - K + 1 \in Nat
    BY <1>1, <1>4
  <2>2. \A i \in 1..Window : i \in 1..(Len(s) - K + 1)
    BY <1>1, <1>4
  <2>3. \A i \in (m + 1)..(m + Window) : i \in 1..(Len(t) - K + 1)
    BY <1>1, <1>4
  <2> QED
    BY <2>1, <2>2, <2>3
<1> HIDE DEF f, g
<1>7. {f[j] : j \in 1..(1 + Window - 1)} = {g[j] : j \in (m + 1)..((m + 1) + Window - 1)}
  <2>1. \A j \in 1..Window : f[j] = g[m + j] /\ m + j \in (m + 1)..(m + Window)
    <3> TAKE j \in 1..Window
    <3>1. m + j \in (m + 1)..(m + Window)
      BY <1>1, <1>4
    <3>2. g[m + j] = GramHash(SubSeq(t, m + j, m + j + K - 1))
      BY <1>6, <3>1
    <3> QED
      BY <1>5, <1>6, <3>1, <3>2
  <2>2. \A i \in (m + 1)..(m + Window) : i - m \in 1..Window /\ m + (i - m) = i
    BY <1>1, <1>4
  <2>3. 1 + Window - 1 = Window /\ (m + 1) + Window - 1 = m + Window
    BY <1>1, <1>4
  <2>4. {f[j] : j \in 1..Window} \subseteq {g[j] : j \in (m + 1)..(m + Window)}
    BY <2>1
  <2>5. {g[j] : j \in (m + 1)..(m + Window)} \subseteq {f[j] : j \in 1..Window}
    <3> SUFFICES ASSUME NEW i \in (m + 1)..(m + Window) PROVE g[i] \in {f[j] : j \in 1..Window}
      OBVIOUS
    <3>1. g[i] = f[i - m]
      BY <2>1, <2>2
    <3> QED
      BY <2>2, <3>1
  <2> QED
    BY <2>3, <2>4, <2>5
<1> DEFINE F == {f[j] : j \in 1..(1 + Window - 1)}
           G == {g[j] : j \in (m + 1)..((m + 1) + Window - 1)}
<1>8. Min(F) \in Winnow(x)
  <2>1. ~ (Len(s) < K) /\ ~ (Len(f) < Window) /\ 1 \in 1..(Len(f) - Window + 1)
    BY <1>1, <1>4, <1>6
  <2>2. Winnow(x) = {Min({f[j] : j \in i..(i + Window - 1)}) : i \in 1..(Len(f) - Window + 1)}
    BY <1>2, <2>1
  <2> QED
    BY <2>1, <2>2
<1>9. Min(G) \in Winnow(y)
  <2>1. ~ (Len(t) < K) /\ ~ (Len(g) < Window) /\ m + 1 \in 1..(Len(g) - Window + 1)
    <3> DEFINE lt == Len(t)
               lg == Len(g)
               ls == Len(s)
               lv == Len(v)
    <3>1. ls \in Nat /\ ls >= K + Window - 1 /\ lv \in Nat /\ lt = m + ls + lv /\ lg = lt - K + 1
      BY <1>4, <1>6
    <3> HIDE DEF lt, lg, ls, lv
    <3>2. ~ (lt < K) /\ ~ (lg < Window) /\ m + 1 \in 1..(lg - Window + 1)
      BY <1>1, <1>4, <3>1
    <3> QED
      BY <3>2 DEF lt, lg
  <2>2. Winnow(y) = {Min({g[j] : j \in i..(i + Window - 1)}) : i \in 1..(Len(g) - Window + 1)}
    BY <1>3, <2>1
  <2> QED
    BY <2>1, <2>2
<1>10. F = G
  BY <1>7
<1> HIDE DEF F, G
<1> QED
  BY <1>8, <1>9, <1>10

\* ExcerptsShareHashes: winnow finds a common hash in the copy and in any
\* part of it that has at least one window of k-grams.
THEOREM ExcerptsAlwaysShareHashes == Spec => []ExcerptsShareHashes
<1>1. Init => FramesInv /\ DocInv
  BY DocInit
<1>2. FramesInv /\ DocInv /\ [Next]_vars => FramesInv' /\ DocInv'
  BY FramesStep, DocStep
<1>3. FramesInv /\ DocInv => ExcerptsShareHashes
  <2> SUFFICES ASSUME DocInv, Len(Norm(leak.doc)) >= K + Window - 1
               PROVE  Winnow(DocText(leak.doc)) \cap Winnow(DocText(copy.doc)) # {}
    BY DEF ExcerptsShareHashes, Norm
  <2> DEFINE L == LineOf(copy.mark)
             W == Wording(copy.mark)
             d == leak.doc
  <2>1. CASE phase \in {"sealing", "refused"}
    <3>1. d = << >> /\ << >> \in Seq(L)
      BY <2>1, EmptySeq DEF DocInv
    <3>2. << >> \o << >> = << >>
      BY ConcatEmptySeq, EmptySeq
    <3>3. Norm(<< >>) \in Seq(W) /\ Norm(<< >> \o << >>) = Norm(<< >>) \o Norm(<< >>)
      BY <3>1, NormCat
    <3>4. Len(Norm(<< >>)) = 0
      BY <3>2, <3>3
    <3> QED
      BY <3>1, <3>4, WinnowAssumption
  <2>2. CASE phase \notin {"sealing", "refused"}
    <3>1. d \in Seq(L) /\ PartOf(d, copy.doc, L)
      BY <2>2 DEF DocInv, DocIsPart
    <3>2. PICK a \in Seq(L), b \in Seq(L) : copy.doc = (a \o d) \o b
      BY <3>1 DEF PartOf
    <3> DEFINE ad == a \o d
    <3>3. ad \in Seq(L)
      <4> HIDE DEF L, d
      <4> QED
        BY <3>1
    <3>4. Norm(a) \in Seq(W) /\ Norm(d) \in Seq(W) /\ Norm(b) \in Seq(W) /\ Norm(ad) = Norm(a) \o Norm(d)
      BY <3>1, NormCat
    <3>5. Norm(ad \o b) = Norm(ad) \o Norm(b)
      <4> HIDE DEF ad
      <4> QED
        BY <3>3, NormCat
    <3>6. Norm(copy.doc) = (Norm(a) \o Norm(d)) \o Norm(b)
      BY <3>2, <3>4, <3>5
    <3> HIDE DEF W, L, d, ad
    <3> DEFINE u == Norm(a)
               v == Norm(b)
               x == DocText(d)
               y == DocText(copy.doc)
    <3>7. /\ u \in Seq(W) /\ v \in Seq(W) /\ NormalizeText(x) \in Seq(W)
          /\ NormalizeText(y) = (u \o NormalizeText(x)) \o v
          /\ Len(NormalizeText(x)) >= K + Window - 1
      BY <3>4, <3>6 DEF Norm, d
    <3> HIDE DEF u, v, x, y
    <3>8. Winnow(x) \cap Winnow(y) # {}
      BY <3>7, WindowsOfPart
    <3> QED
      BY <3>8 DEF x, y, d
  <2> QED
    BY <2>1, <2>2
<1> QED
  BY <1>1, <1>2, <1>3, PTL DEF Spec

-----------------------------------------------------------------------------
(***************************************************************************)
(* Trailing whitespace.                                                    *)
(* A line of a marked text carries no whitespace at its end, or the sign   *)
(* of the bit that belongs to its place in the whole text.                 *)
(***************************************************************************)

\* Splitting what was joined gives the lines back.
LEMMA LinesJoin ==
  ASSUME NEW A, "nl" \in A, NEW ls \in Seq(Seq(A \ {"nl"})), ls # << >>
  PROVE  Lines(JoinLines(ls)) = ls
<1> DEFINE B == Seq(A \ {"nl"})
           S == {x \in Seq(B) : x # << >> => Lines(JoinLines(x)) = x}
<1>0. B \subseteq Seq(A)
  BY SeqMonotonic
<1>1. << >> \in S
  BY EmptySeq
<1>2. ASSUME NEW x \in Seq(B), NEW e \in B, x \in S PROVE Append(x, e) \in S
  <2> DEFINE J == JoinLines(x)
             y == Append(x, e)
             nl == <<"nl">>
  <2>1. x \in Seq(Seq(A)) /\ e \in Seq(A) /\ e \in Seq(A \ {"nl"})
    BY <1>0, SeqMonotonic
  <2>2. JoinLines(y) = IF x = << >> THEN e ELSE J \o (nl \o e)
    BY <2>1, JoinStep
  <2>3. /\ y \in Seq(B) /\ Len(y) = Len(x) + 1 /\ y[Len(x) + 1] = e /\ Len(x) \in Nat
        /\ \A k \in 1..Len(x) : y[k] = x[k]
    <3> HIDE DEF B
    <3> QED
      BY AppendProperties, LenProperties
  <2>4. CASE x = << >>
    <3>1. JoinLines(y) = e /\ Len(x) = 0
      BY <2>2, <2>4
    <3>2. << >> \o e = e /\ << >> \in Seq(A)
      BY <2>1, ConcatEmptySeq, EmptySeq
    <3>3. Lines(<< >>) = << << >> >>
      BY LinesNil
    <3>4. Len(Lines(<< >> \o e)) = Len(Lines(<< >>)) /\ LastLine(<< >> \o e) = LastLine(<< >>) \o e
      BY <2>1, <3>2, LinesExtend
    <3>5. Len(Lines(<< >>)) = 1 /\ LastLine(<< >>) = << >>
      <4> DEFINE w == Lines(<< >>)
      <4>1. w = << << >> >>
        BY <3>3
      <4> HIDE DEF w
      <4>2. Len(w) = 1 /\ w[1] = << >>
        BY <4>1
      <4>3. LastLine(<< >>) = w[Len(w)]
        BY DEF LastLine, w
      <4> QED
        BY <4>2, <4>3 DEF w
    <3>6. Len(Lines(e)) = 1 /\ Lines(e)[1] = e
      BY <3>2, <3>4, <3>5 DEF LastLine
    <3>7. Lines(e) \in Seq(Seq(A)) /\ y \in Seq(Seq(A))
      BY <1>0, <2>1, <2>3, LinesType, SeqMonotonic
    <3>8. \A k \in 1..1 : Lines(e)[k] = y[k]
      BY <2>3, <3>1, <3>6
    <3>9. Len(y) = 1
      BY <2>3, <3>1
    <3>10. Lines(e) = y
      <4> DEFINE C == Seq(A)
      <4> HIDE DEF C, y
      <4>1. Lines(e) \in Seq(C) /\ y \in Seq(C)
        BY <3>7 DEF C
      <4> QED
        BY <3>6, <3>8, <3>9, <4>1, SeqEqual
    <3> QED
      BY <2>3, <3>1, <3>10
  <2>5. CASE x # << >>
    <3> DEFINE Jn == Append(J, "nl")
    <3>1. J \in Seq(A) /\ Lines(J) = x
      BY <1>2, <2>1, <2>5, JoinStep
    <3>2. Jn \in Seq(A) /\ JoinLines(y) = Jn \o e
      <4> HIDE DEF J
      <4>1. nl \in Seq(A) /\ Jn = J \o nl /\ Jn \in Seq(A)
        BY <3>1, AppendIsConcat
      <4>2. J \o (nl \o e) = (J \o nl) \o e
        BY <2>1, <3>1, <4>1, CatAssoc
      <4>3. JoinLines(y) = J \o (nl \o e)
        BY <2>2, <2>5
      <4> QED
        BY <4>1, <4>2, <4>3
    <3>3. Grows(Lines(Jn), Lines(J), "nl")
      BY <3>1, LinesGrow
    <3>4. Len(Lines(Jn)) = Len(x) + 1 /\ Lines(Jn)[Len(x) + 1] = << >> /\ \A k \in 1..Len(x) : Lines(Jn)[k] = x[k]
      BY <3>1, <3>3 DEF Grows
    <3> HIDE DEF Jn
    <3>5. /\ Len(Lines(Jn \o e)) = Len(Lines(Jn)) /\ LastLine(Jn \o e) = LastLine(Jn) \o e
          /\ \A k \in 1..(Len(Lines(Jn)) - 1) : Lines(Jn \o e)[k] = Lines(Jn)[k]
      BY <2>1, <3>2, LinesExtend
    <3>6. LastLine(Jn) = << >> /\ << >> \o e = e
      BY <2>1, <3>4, ConcatEmptySeq DEF LastLine
    <3> DEFINE z == Jn \o e
    <3>7. Len(Lines(z)) = Len(x) + 1 /\ Lines(z)[Len(x) + 1] = e
      BY <3>4, <3>5, <3>6 DEF LastLine
    <3>8. \A k \in 1..Len(x) : Lines(z)[k] = x[k]
      <4>1. (Len(x) + 1) - 1 = Len(x)
        BY <2>3
      <4> QED
        BY <3>4, <3>5, <4>1
    <3>9. Lines(z) \in Seq(Seq(A)) /\ y \in Seq(Seq(A))
      <4>1. z \in Seq(A)
        BY <2>1, <3>2, ConcatProperties
      <4> HIDE DEF z
      <4> QED
        BY <1>0, <2>3, <4>1, LinesType, SeqMonotonic
    <3> HIDE DEF z
    <3>10. \A k \in 1..(Len(x) + 1) : Lines(z)[k] = y[k]
      <4> TAKE k \in 1..(Len(x) + 1)
      <4>1. k \in 1..Len(x) \/ k = Len(x) + 1
        BY <2>3
      <4> QED
        BY <2>3, <3>7, <3>8, <4>1
    <3>11. Lines(z) = y
      <4> DEFINE C == Seq(A)
      <4> HIDE DEF C, y
      <4>1. Lines(z) \in Seq(C) /\ y \in Seq(C)
        BY <3>9 DEF C
      <4> QED
        BY <2>3, <3>7, <3>10, <4>1, SeqEqual
    <3> QED
      BY <2>3, <3>2, <3>11 DEF z
  <2> QED
    BY <2>4, <2>5
<1>3. \A x \in Seq(B) : x \in S
  <2> HIDE DEF S, B
  <2> QED
    BY <1>1, <1>2, SeqInduction
<1> QED
  BY <1>3

\* Removing zero-width characters commutes with splitting into lines.
LEMMA LinesStrip ==
  ASSUME NEW A, NEW t \in Seq(A)
  PROVE  /\ Len(Lines(StripZw(t))) = Len(Lines(t))
         /\ \A n \in 1..Len(Lines(t)) : Lines(StripZw(t))[n] = StripZw(Lines(t)[n])
<1> DEFINE Good(x) == /\ Len(Lines(StripZw(x))) = Len(Lines(x))
                      /\ \A n \in 1..Len(Lines(x)) : Lines(StripZw(x))[n] = StripZw(Lines(x)[n])
           S == {x \in Seq(A) : Good(x)}
<1>0. StripZw(<< >>) = << >>
  BY WithoutNil DEF StripZw
<1>1. << >> \in S
  <2>1. Lines(<< >>) = << << >> >>
    BY LinesNil
  <2>2. Len(Lines(<< >>)) = 1 /\ Lines(<< >>)[1] = << >>
    BY <2>1
  <2> QED
    BY <1>0, <2>2, EmptySeq
<1>2. ASSUME NEW x \in Seq(A), NEW e \in A, x \in S PROVE Append(x, e) \in S
  <2> DEFINE y == Append(x, e)
             ls == Lines(x)
             ms == Lines(y)
             n == Len(ls)
             zs == StripZw(x)
             zl == Lines(zs)
  <2>1. y \in Seq(A) /\ zs \in Seq(A) /\ StripZw(y) = IF e \in ZeroWidth THEN zs ELSE Append(zs, e)
    <3>1. y \in Seq(A)
      OBVIOUS
    <3>2. zs \in Seq(A)
      BY WithoutAppend DEF StripZw
    <3>3. StripZw(y) = IF e \in ZeroWidth THEN zs ELSE Append(zs, e)
      BY WithoutAppend DEF StripZw
    <3> QED
      BY <3>1, <3>2, <3>3
  <2>2. /\ ls \in Seq(Seq(A)) /\ n \in Nat \ {0} /\ ms \in Seq(Seq(A))
        /\ zl \in Seq(Seq(A)) /\ Len(zl) = n
        /\ \A k \in 1..n : zl[k] = StripZw(ls[k]) /\ ls[k] \in Seq(A)
    <3>1. ls \in Seq(Seq(A)) /\ n \in Nat \ {0}
      BY LinesType
    <3>2. ms \in Seq(Seq(A)) /\ zl \in Seq(Seq(A))
      BY <2>1, LinesType
    <3>3. Len(zl) = n /\ \A k \in 1..n : zl[k] = StripZw(ls[k])
      BY <1>2
    <3>4. \A k \in 1..n : ls[k] \in Seq(A)
      <4> HIDE DEF ls
      <4> QED
        BY <3>1
    <3> QED
      BY <3>1, <3>2, <3>3, <3>4
  <2>3. Grows(ms, ls, e)
    BY LinesGrow
  <2>4. e \notin ZeroWidth => StripZw(y) = Append(zs, e) /\ Grows(Lines(Append(zs, e)), zl, e)
    <3> HIDE DEF zs
    <3> QED
      BY <2>1, LinesGrow
  <2>5. StripZw(Append(ls[n], e)) = IF e \in ZeroWidth THEN StripZw(ls[n]) ELSE Append(StripZw(ls[n]), e)
    <3> DEFINE l == ls[n]
    <3>1. l \in Seq(A)
      BY <2>2
    <3> HIDE DEF l
    <3>2. StripZw(Append(l, e)) = IF e \in ZeroWidth THEN StripZw(l) ELSE Append(StripZw(l), e)
      BY <3>1, WithoutAppend DEF StripZw
    <3> QED
      BY <3>2 DEF l
  <2> HIDE DEF y, ls, ms, n, zs, zl
  <2>6. CASE e = "nl"
    <3>1. e \notin ZeroWidth
      BY <2>6 DEF ZeroWidth
    <3> DEFINE zm == Lines(Append(zs, e))
    <3>2. /\ Len(ms) = n + 1 /\ ms[n + 1] = << >> /\ \A k \in 1..n : ms[k] = ls[k]
          /\ Len(zm) = n + 1 /\ zm[n + 1] = << >> /\ \A k \in 1..n : zm[k] = zl[k]
      BY <2>2, <2>3, <2>4, <2>6, <3>1 DEF Grows, n
    <3>3. StripZw(y) = Append(zs, e)
      BY <2>4, <3>1
    <3> HIDE DEF zm
    <3>4. \A k \in 1..(n + 1) : zm[k] = StripZw(ms[k])
      <4> TAKE k \in 1..(n + 1)
      <4>1. k \in 1..n \/ k = n + 1
        BY <2>2
      <4> QED
        BY <1>0, <2>2, <3>2, <4>1
    <3>5. Good(y)
      BY <3>2, <3>3, <3>4 DEF zm, ms
    <3> QED
      BY <2>1, <3>5 DEF y
  <2>7. CASE e # "nl" /\ e \notin ZeroWidth
    <3> DEFINE zm == Lines(Append(zs, e))
    <3>2. /\ Len(ms) = n /\ ms[n] = Append(ls[n], e) /\ \A k \in 1..(n - 1) : ms[k] = ls[k]
          /\ Len(zm) = n /\ zm[n] = Append(zl[n], e) /\ \A k \in 1..(n - 1) : zm[k] = zl[k]
      BY <2>2, <2>3, <2>4, <2>7 DEF Grows, n
    <3>3. StripZw(y) = Append(zs, e)
      BY <2>4, <2>7
    <3> HIDE DEF zm
    <3>4. \A k \in 1..n : zm[k] = StripZw(ms[k])
      <4> TAKE k \in 1..n
      <4>1. CASE k \in 1..(n - 1)
        BY <2>2, <3>2, <4>1
      <4>2. CASE k = n
        BY <2>2, <2>5, <2>7, <3>2, <4>2
      <4> QED
        BY <2>2, <4>1, <4>2
    <3>5. Good(y)
      BY <3>2, <3>3, <3>4 DEF zm, ms
    <3> QED
      BY <2>1, <3>5 DEF y
  <2>8. CASE e \in ZeroWidth
    <3>1. e # "nl"
      BY <2>8 DEF ZeroWidth
    <3>2. Len(ms) = n /\ ms[n] = Append(ls[n], e) /\ \A k \in 1..(n - 1) : ms[k] = ls[k]
      BY <2>2, <2>3, <3>1 DEF Grows, n
    <3>3. StripZw(y) = zs
      BY <2>1, <2>8 DEF y
    <3>4. \A k \in 1..n : zl[k] = StripZw(ms[k])
      <4> TAKE k \in 1..n
      <4>1. CASE k \in 1..(n - 1)
        BY <2>2, <3>2, <4>1
      <4>2. CASE k = n
        BY <2>2, <2>5, <2>8, <3>2, <4>2
      <4> QED
        BY <2>2, <4>1, <4>2
    <3>5. Good(y)
      BY <2>2, <3>2, <3>3, <3>4 DEF zl, ms
    <3> QED
      BY <2>1, <3>5 DEF y
  <2> QED
    BY <2>6, <2>7, <2>8
<1>3. \A x \in Seq(A) : x \in S
  <2> HIDE DEF S
  <2> QED
    BY <1>1, <1>2, SeqInduction
<1> QED
  BY <1>3

\* What StripZw takes away, and what it keeps.
LEMMA StripInvisible ==
  ASSUME NEW t \in Seq(ZeroWidth)
  PROVE  StripZw(t) = << >>
<1>1. StripZw(t) \in Seq(ZeroWidth \ ZeroWidth)
  BY WithoutType DEF StripZw
<1> DEFINE z == StripZw(t)
<1> HIDE DEF z
<1>2. z \in Seq(ZeroWidth \ ZeroWidth)
  BY <1>1 DEF z
<1>3. Len(z) \in Nat /\ \A i \in 1..Len(z) : z[i] \in {}
  BY <1>2
<1>4. Len(z) = 0
  BY <1>3
<1>5. z = << >>
  BY <1>2, <1>4, EmptySeq
<1> QED
  BY <1>5 DEF z

\* _strip_zw leaves a text without zero-width characters alone.
LEMMA StripVisible ==
  ASSUME NEW A, A \cap ZeroWidth = {}, NEW t \in Seq(A)
  PROVE  StripZw(t) = t
<1> DEFINE S == {x \in Seq(A) : StripZw(x) = x}
<1>1. << >> \in S
  BY WithoutNil, EmptySeq DEF StripZw
<1>2. ASSUME NEW x \in Seq(A), NEW e \in A, x \in S PROVE Append(x, e) \in S
  <2>1. StripZw(Append(x, e)) = IF e \in ZeroWidth THEN StripZw(x) ELSE Append(StripZw(x), e)
    BY WithoutAppend DEF StripZw
  <2>2. e \notin ZeroWidth /\ StripZw(x) = x /\ Append(x, e) \in Seq(A)
    BY <1>2
  <2> QED
    BY <2>1, <2>2
<1>3. \A x \in Seq(A) : x \in S
  <2> HIDE DEF S
  <2> QED
    BY <1>1, <1>2, SeqInduction
<1> QED
  BY <1>3

\* _strip_zw is idempotent.
LEMMA StripType ==
  ASSUME NEW A, NEW t \in Seq(A)
  PROVE  StripZw(t) \in Seq(A) /\ StripZw(StripZw(t)) = StripZw(t)
<1>1. StripZw(t) \in Seq(A \ ZeroWidth)
  BY WithoutType DEF StripZw
<1> DEFINE z == StripZw(t)
<1> HIDE DEF z
<1>2. z \in Seq(A \ ZeroWidth)
  BY <1>1 DEF z
<1>3. StripZw(z) = z
  BY <1>2, StripVisible
<1>4. z \in Seq(A)
  BY <1>2
<1> QED
  BY <1>3, <1>4 DEF z

\* _strip_zw distributes over concatenation.
LEMMA StripCat ==
  ASSUME NEW A, NEW s \in Seq(A), NEW t \in Seq(A)
  PROVE  StripZw(s \o t) = StripZw(s) \o StripZw(t)
BY WithoutCat DEF StripZw

\* A frame is invisible.
LEMMA FrameInvisible ==
  ASSUME NEW mark \in MarkIds
  PROVE  Frame(mark) \in Seq(ZeroWidth) /\ StripZw(Frame(mark)) = << >>
<1>1. /\ Frame(mark) \in Seq(Chars) /\ Len(Frame(mark)) = MarkBits + 2 /\ MarkBits \in Nat \ {0}
      /\ Frame(mark)[1] = "zj" /\ Frame(mark)[MarkBits + 2] = "zj"
  BY FrameShape
<1>2. \A n \in 1..MarkBits : Frame(mark)[n + 1] \in {"zs", "zn"}
  BY FrameShape
<1> DEFINE f == Frame(mark)
<1> HIDE DEF f
<1>3. f \in Seq(ZeroWidth)
  <2>1. \A i \in 1..Len(f) : f[i] \in ZeroWidth
    <3> TAKE i \in 1..Len(f)
    <3>1. i = 1 \/ i = MarkBits + 2 \/ (i - 1 \in 1..MarkBits /\ (i - 1) + 1 = i)
      BY <1>1 DEF f
    <3> QED
      BY <1>1, <1>2, <3>1 DEF f, ZeroWidth
  <2> QED
    BY <1>1, <2>1 DEF f
<1> QED
  BY <1>3, StripInvisible DEF f

\* Embedding frames changes nothing visible.
Put(c, i, mark) == IF i > 1 /\ (i - 1) % Density = 0 THEN <<c>> \o Frame(mark) ELSE <<c>>

\* _strip_zw undoes embed_zw.
LEMMA StripEmbed ==
  ASSUME NEW mark \in MarkIds, NEW text \in Seq(Chars)
  PROVE  StripZw(EmbedZw(text, mark)) = StripZw(text)
<1>1. Frame(mark) \in Seq(Chars) /\ StripZw(Frame(mark)) = << >>
  BY FrameShape, FrameInvisible
<1>2. ASSUME NEW c \in Chars, NEW i PROVE Put(c, i, mark) \in Seq(Chars) /\ StripZw(Put(c, i, mark)) = StripZw(<<c>>)
  <2>1. <<c>> \in Seq(Chars) /\ StripZw(<<c>>) \in Seq(Chars)
    <3> DEFINE u == <<c>>
    <3>1. u \in Seq(Chars)
      OBVIOUS
    <3> HIDE DEF u
    <3>2. StripZw(u) \in Seq(Chars)
      BY <3>1, StripType
    <3> QED
      BY <3>1, <3>2 DEF u
  <2>2. <<c>> \o Frame(mark) \in Seq(Chars) /\ StripZw(<<c>> \o Frame(mark)) = StripZw(<<c>>) \o StripZw(Frame(mark))
    BY <1>1, <2>1, StripCat, ConcatProperties
  <2>3. StripZw(<<c>>) \o << >> = StripZw(<<c>>)
    BY <2>1, ConcatEmptySeq
  <2> QED
    BY <1>1, <2>1, <2>2, <2>3 DEF Put
<1> DEFINE Ps(x) == [i \in DOMAIN x |-> Put(x[i], i, mark)]
           S == {x \in Seq(Chars) : StripZw(FlattenSeq(Ps(x))) = StripZw(x)}
<1>3. \A x \in Seq(Chars) : Ps(x) \in Seq(Seq(Chars)) /\ Len(Ps(x)) = Len(x)
  <2> TAKE x \in Seq(Chars)
  <2>1. DOMAIN x = 1..Len(x) /\ Len(x) \in Nat /\ \A i \in 1..Len(x) : x[i] \in Chars
    OBVIOUS
  <2> DEFINE p == Ps(x)
             D == Seq(Chars)
  <2>2. p \in [1..Len(x) -> D]
    BY <1>2, <2>1
  <2> HIDE DEF p, D
  <2>3. p \in Seq(D) /\ Len(p) = Len(x)
    BY <2>1, <2>2, FunIsSeq
  <2> QED
    BY <2>3 DEF p, D
<1>4. << >> \in S
  <2>1. Ps(<< >>) = << >>
    OBVIOUS
  <2>2. FlattenSeq(<< >>) = << >> /\ << >> \in Seq(Chars)
    BY FlattenNil
  <2> QED
    BY <2>1, <2>2
<1>5. ASSUME NEW x \in Seq(Chars), NEW e \in Chars, x \in S PROVE Append(x, e) \in S
  <2> DEFINE y == Append(x, e)
             n == Len(x) + 1
             q == Put(e, n, mark)
  <2>1. y \in Seq(Chars) /\ Len(y) = n /\ y[n] = e /\ \A i \in 1..Len(x) : y[i] = x[i]
    OBVIOUS
  <2>2. Ps(y) = Append(Ps(x), q)
    <3> DEFINE D == Seq(Chars)
               py == Ps(y)
               px == Ps(x)
               ax == Append(px, q)
    <3>1. py \in Seq(D) /\ px \in Seq(D) /\ q \in D /\ Len(py) = n /\ Len(px) = Len(x)
      BY <1>2, <1>3, <2>1
    <3>2. DOMAIN y = 1..n /\ DOMAIN x = 1..Len(x) /\ Len(x) \in Nat
      BY <2>1
    <3>3. /\ \A i \in 1..n : py[i] = Put(y[i], i, mark)
          /\ \A i \in 1..Len(x) : px[i] = Put(x[i], i, mark)
      BY <3>2
    <3> HIDE DEF py, px, q, D
    <3>4. ax \in Seq(D) /\ Len(ax) = n /\ ax[n] = q /\ \A i \in 1..Len(x) : ax[i] = px[i]
      BY <3>1, AppendProperties
    <3>5. \A i \in 1..n : py[i] = ax[i]
      <4> TAKE i \in 1..n
      <4>1. i \in 1..Len(x) \/ i = n
        BY <3>2
      <4>2. CASE i = n
        BY <2>1, <3>3, <3>4, <4>2 DEF q
      <4>3. CASE i \in 1..Len(x)
        BY <2>1, <3>3, <3>4, <4>3
      <4> QED
        BY <4>1, <4>2, <4>3
    <3> HIDE DEF ax, n
    <3>6. py = ax
      BY <3>1, <3>4, <3>5, SeqEqual
    <3> QED
      BY <3>6 DEF py, ax, px
  <2>3. FlattenSeq(Append(Ps(x), q)) = FlattenSeq(Ps(x)) \o q /\ FlattenSeq(Ps(x)) \in Seq(Chars) /\ q \in Seq(Chars)
    <3> DEFINE px == Ps(x)
    <3>1. px \in Seq(Seq(Chars)) /\ q \in Seq(Chars)
      BY <1>2, <1>3
    <3> HIDE DEF px, q
    <3>2. FlattenSeq(Append(px, q)) = FlattenSeq(px) \o q /\ FlattenSeq(px) \in Seq(Chars)
      BY <3>1, FlattenAppend
    <3> QED
      BY <3>1, <3>2 DEF px
  <2>4. StripZw(FlattenSeq(Ps(x)) \o q) = StripZw(FlattenSeq(Ps(x))) \o StripZw(q)
    <3> DEFINE u == FlattenSeq(Ps(x))
    <3>1. u \in Seq(Chars) /\ q \in Seq(Chars)
      BY <2>3
    <3> HIDE DEF u, q
    <3>2. StripZw(u \o q) = StripZw(u) \o StripZw(q)
      BY <3>1, StripCat
    <3> QED
      BY <3>2 DEF u
  <2>5. StripZw(q) = StripZw(<<e>>) /\ StripZw(FlattenSeq(Ps(x))) = StripZw(x)
    BY <1>2, <1>5
  <2>6. y = x \o <<e>> /\ StripZw(x \o <<e>>) = StripZw(x) \o StripZw(<<e>>)
    <3>1. <<e>> \in Seq(Chars)
      OBVIOUS
    <3> QED
      BY <3>1, AppendIsConcat, StripCat
  <2>7. StripZw(FlattenSeq(Ps(y))) = StripZw(y)
    BY <2>2, <2>3, <2>4, <2>5, <2>6, Zenon
  <2> QED
    BY <2>1, <2>7
<1>6. \A x \in Seq(Chars) : x \in S
  <2> HIDE DEF S
  <2> QED
    BY <1>4, <1>5, SeqInduction
<1>7. StripZw(FlattenSeq(Ps(text))) = StripZw(text)
  BY <1>6
<1>8. EmbedZw(text, mark) = IF Len(text) < Density THEN text \o Frame(mark) ELSE FlattenSeq(Ps(text))
  BY DEF EmbedZw, Put
<1>9. StripZw(text \o Frame(mark)) = StripZw(text)
  <2>1. StripZw(text \o Frame(mark)) = StripZw(text) \o StripZw(Frame(mark)) /\ StripZw(text) \in Seq(Chars)
    BY <1>1, StripCat, StripType
  <2>2. StripZw(text) \o << >> = StripZw(text)
    BY <2>1, ConcatEmptySeq
  <2> QED
    BY <1>1, <2>1, <2>2
<1> QED
  BY <1>7, <1>8, <1>9

\* What StripZw leaves at the end of a line.
LEMMA StripLast ==
  ASSUME NEW A, NEW l \in Seq(A), l # << >>, Last(l) \notin ZeroWidth
  PROVE  /\ StripZw(l) # << >> /\ Last(StripZw(l)) = Last(l)
         /\ Front(StripZw(l)) = StripZw(Front(l))
<1> DEFINE n == Len(l)
           f == SubSeq(l, 1, n - 1)
           e == l[n]
<1>1. n \in Nat \ {0} /\ e \in A /\ \A i \in 1..n : l[i] \in A
  BY EmptySeq
<1>2. Last(l) = e /\ Front(l) = f
  BY DEF Last, Front
<1> HIDE DEF n, e
<1>3. f \in Seq(A) /\ Len(f) = n - 1 /\ \A i \in 1..(n - 1) : f[i] = l[i]
  <2>1. 1 \in Int /\ n - 1 \in Int /\ \A i \in 1..(n - 1) : l[i] \in A
    BY <1>1
  <2>2. /\ SubSeq(l, 1, n - 1) \in Seq(A)
        /\ Len(SubSeq(l, 1, n - 1)) = IF 1 <= n - 1 THEN (n - 1) - 1 + 1 ELSE 0
        /\ \A i \in 1..((n - 1) - 1 + 1) : SubSeq(l, 1, n - 1)[i] = l[1 + i - 1]
    BY <2>1, SubSeqProperties
  <2> HIDE DEF f
  <2>3. /\ f \in Seq(A)
        /\ Len(f) = IF 1 <= n - 1 THEN (n - 1) - 1 + 1 ELSE 0
        /\ \A i \in 1..((n - 1) - 1 + 1) : f[i] = l[1 + i - 1]
    BY <2>2 DEF f
  <2> QED
    BY <1>1, <2>3
<1> HIDE DEF f
<1>4. l = Append(f, e)
  <2> DEFINE g == Append(f, e)
  <2>1. g \in Seq(A) /\ Len(g) = n /\ g[n] = e /\ \A i \in 1..(n - 1) : g[i] = f[i]
    BY <1>1, <1>3
  <2> HIDE DEF g
  <2>2. \A i \in 1..n : g[i] = l[i]
    BY <1>1, <1>3, <2>1 DEF e
  <2>3. g = l
    BY <2>1, <2>2, SeqEqual DEF n
  <2> QED
    BY <2>3 DEF g
<1>5. StripZw(l) = Append(StripZw(f), e) /\ StripZw(f) \in Seq(A)
  <2>1. StripZw(f) \in Seq(A)
    BY <1>3, StripType
  <2>2. StripZw(Append(f, e)) = IF e \in ZeroWidth THEN StripZw(f) ELSE Append(StripZw(f), e)
    BY <1>1, <1>3, WithoutAppend DEF StripZw
  <2> QED
    BY <1>2, <1>4, <2>1, <2>2
<1> DEFINE z == StripZw(f)
           w == Append(z, e)
<1> HIDE DEF z
<1>6. w # << >> /\ Last(w) = e /\ Front(w) = z
  <2>1. z \in Seq(A)
    BY <1>5 DEF z
  <2>2. w \in Seq(A) /\ Len(w) = Len(z) + 1 /\ w[Len(z) + 1] = e /\ \A i \in 1..Len(z) : w[i] = z[i]
    BY <1>1, <2>1
  <2>3. Len(z) \in Nat
    BY <2>1
  <2> HIDE DEF w
  <2>4. w # << >>
    BY <2>2, <2>3
  <2> DEFINE h == SubSeq(w, 1, Len(w) - 1)
  <2>5. h \in Seq(A) /\ Len(h) = Len(z) /\ \A i \in 1..Len(z) : h[i] = w[i]
    BY <2>2, <2>3
  <2>6. Front(w) = h /\ Last(w) = w[Len(w)]
    BY DEF Front, Last
  <2> HIDE DEF h
  <2>7. h = z
    BY <2>1, <2>2, <2>5, SeqEqual
  <2> QED
    BY <2>2, <2>4, <2>6, <2>7
<1> QED
  BY <1>2, <1>5, <1>6 DEF z

\* A line of a marked text carries no whitespace at its end, or the sign of
\* its bit; k is its place in the whole text.
Sign(mark, k) == IF BitsOf(mark)[k] = 0 THEN "sp" ELSE "tab"

Trail(l, k, mark) ==
  EndsIn(StripZw(l), Blank) =>
    k \in 1..MarkBits /\ Last(StripZw(l)) = Sign(mark, k) /\ ~ EndsIn(Front(StripZw(l)), Blank)

Trails(ls, o, mark) == \A n \in 1..Len(ls) : Trail(ls[n], n + o, mark)

\* The exact reading of such lines is the mark or nothing.
LEMMA TrailsRead ==
  ASSUME NEW mark \in MarkIds, NEW t \in Seq(Chars), NEW o \in Nat, Trails(Lines(t), o, mark)
  PROVE  ExtractWs(t) \in {NoMark, mark}
<1> DEFINE ls == Lines(t)
           m == Len(ls)
           M == MarkBits
           b == BitsOf(mark)
           Q(i) == IF i + o <= M THEN i + o ELSE M
<1>1. PICK f \in [0..m -> Seq({0, 1})] :
        /\ f[0] = << >> /\ f[m] = WsBits(t)
        /\ \A i \in 1..m : f[i] = IF Len(f[i - 1]) < M /\ EndsIn(ls[i], {"sp", "tab"})
                                  THEN Append(f[i - 1], IF Last(ls[i]) = "sp" THEN 0 ELSE 1) ELSE f[i - 1]
  BY WsBitsSteps
<1>2. M \in Nat \ {0} /\ Len(b) = M /\ b \in [1..M -> {0, 1}] /\ BytesFromBits(b) = mark
  BY MarkShape, RoundTrip
<1>3. ls \in Seq(Seq(Chars)) /\ m \in Nat \ {0}
  BY LinesType
<1>4. ASSUME NEW i \in 1..m, EndsIn(ls[i], {"sp", "tab"})
      PROVE  i + o \in 1..M /\ b[i + o] = IF Last(ls[i]) = "sp" THEN 0 ELSE 1
  <2> DEFINE l == ls[i]
             z == StripZw(l)
  <2>1. l \in Seq(Chars)
    <3> HIDE DEF ls
    <3> QED
      BY <1>3
  <2>2. l # << >> /\ Last(l) \in {"sp", "tab"} /\ Last(l) \notin ZeroWidth
    BY <1>4 DEF EndsIn, ZeroWidth
  <2>3. Trail(l, i + o, mark)
    BY DEF Trails
  <2> HIDE DEF l
  <2>4. z # << >> /\ Last(z) = Last(l)
    BY <2>1, <2>2, StripLast
  <2>5. EndsIn(z, Blank)
    BY <2>2, <2>4 DEF EndsIn, Blank
  <2>6. i + o \in 1..M /\ Last(l) = Sign(mark, i + o)
    BY <2>3, <2>4, <2>5 DEF Trail
  <2>7. b[i + o] \in {0, 1}
    BY <1>2, <2>6
  <2> QED
    BY <2>6, <2>7 DEF Sign, l
<1> HIDE DEF ls, m, M, b
<1> DEFINE Good(i) == Len(f[i]) <= Q(i) /\ (Len(f[i]) = Q(i) => \A k \in 1..Len(f[i]) : f[i][k] = b[k])
           S == {i \in 0..m : Good(i)}
<1>5. 0 \in S
  <2>1. Len(f[0]) = 0
    BY <1>1
  <2> QED
    BY <1>2, <1>3, <2>1
<1>6. ASSUME NEW j \in 0..m, j # m, j \in S PROVE j + 1 \in S
  <2> DEFINE i == j + 1
             F == f[j]
             G == f[i]
  <2>0. j \in Nat /\ i \in 1..m /\ i - 1 = j
    BY <1>3, <1>6
  <2>1. F \in Seq({0, 1}) /\ G \in Seq({0, 1}) /\ Len(F) \in Nat
    BY <1>1, <2>0
  <2>2. G = IF Len(F) < M /\ EndsIn(ls[i], {"sp", "tab"})
            THEN Append(F, IF Last(ls[i]) = "sp" THEN 0 ELSE 1) ELSE F
    BY <1>1, <2>0
  <2>3. Len(F) <= Q(j) /\ (Len(F) = Q(j) => \A k \in 1..Len(F) : F[k] = b[k])
    BY <1>6
  <2> HIDE DEF F, G
  <2>4. CASE Len(F) < M /\ EndsIn(ls[i], {"sp", "tab"})
    <3> DEFINE v == IF Last(ls[i]) = "sp" THEN 0 ELSE 1
    <3>1. i + o \in 1..M /\ b[i + o] = v
      BY <1>4, <2>0, <2>4
    <3>2. G = Append(F, v)
      BY <2>2, <2>4
    <3>3. v \in {0, 1}
      OBVIOUS
    <3> HIDE DEF v
    <3>4. Len(G) = Len(F) + 1 /\ G[Len(F) + 1] = v /\ \A k \in 1..Len(F) : G[k] = F[k]
      BY <2>1, <3>2, <3>3
    <3>5. Q(i) = i + o /\ Q(j) = j + o
      BY <1>2, <2>0, <3>1
    <3>6. Len(G) <= Q(i)
      <4>1. Len(F) <= j + o
        BY <2>3, <3>5
      <4>2. Len(F) + 1 <= i + o
        BY <2>0, <2>1, <4>1
      <4> QED
        BY <3>4, <3>5, <4>2
    <3>7. ASSUME Len(G) = Q(i), NEW k \in 1..Len(G) PROVE G[k] = b[k]
      <4>1. Len(F) = Q(j) /\ Len(F) + 1 = i + o
        <5> DEFINE lf == Len(F)
                   qj == Q(j)
        <5>1. lf + 1 = i + o
          BY <3>4, <3>5, <3>7
        <5>2. qj = j + o /\ lf \in Nat
          BY <2>1, <3>5
        <5> HIDE DEF lf, qj
        <5>3. lf = qj
          BY <2>0, <5>1, <5>2
        <5> QED
          BY <5>1, <5>3 DEF lf, qj
      <4>2. CASE k \in 1..Len(F)
        BY <2>3, <3>4, <4>1, <4>2
      <4>3. CASE k = Len(F) + 1
        BY <3>1, <3>4, <4>1, <4>3
      <4> QED
        BY <2>1, <3>4, <4>2, <4>3
    <3> QED
      BY <2>0, <3>6, <3>7 DEF G
  <2>5. CASE ~ (Len(F) < M /\ EndsIn(ls[i], {"sp", "tab"}))
    <3>1. G = F
      BY <2>2, <2>5
    <3>2. Q(j) <= Q(i) /\ Q(j) \in Nat /\ Q(i) \in Nat
      BY <1>2, <2>0
    <3>3. Len(G) <= Q(i) /\ (Len(G) = Q(i) => Len(F) = Q(j))
      BY <2>1, <2>3, <3>1, <3>2
    <3>4. Len(G) = Q(i) => \A k \in 1..Len(G) : G[k] = b[k]
      BY <2>3, <3>1, <3>3
    <3> QED
      BY <2>0, <3>3, <3>4, SMTT(30) DEF G
  <2> QED
    BY <2>4, <2>5
<1>7. m \in S
  <2>1. m \in Nat /\ m \in 0..m
    BY <1>3
  <2> HIDE DEF S
  <2>2. \A i \in 0..m : i \in S
    BY <1>5, <1>6, <2>1, BoundedInduction
  <2> QED
    BY <2>1, <2>2
<1> DEFINE w == WsBits(t)
<1>8. w = f[m] /\ w \in Seq({0, 1}) /\ Len(w) \in Nat
  <2>1. m \in 0..m
    BY <1>3
  <2> QED
    BY <1>1, <2>1
<1>9. Len(w) <= Q(m) /\ (Len(w) = Q(m) => \A k \in 1..Len(w) : w[k] = b[k])
  BY <1>7, <1>8
<1> HIDE DEF w
<1>10. CASE Len(w) < M
  BY <1>10 DEF ExtractWs, w, M
<1>11. CASE ~ (Len(w) < M)
  <2>1. Len(w) = M /\ \A k \in 1..M : w[k] = b[k]
    <3>1. Q(m) <= M /\ Q(m) \in Nat
      BY <1>2, <1>3
    <3>2. Len(w) = M /\ Len(w) = Q(m)
      BY <1>2, <1>8, <1>9, <1>11, <3>1
    <3> QED
      BY <1>9, <3>2
  <2>2. w = b
    <3>1. b \in Seq({0, 1})
      BY <1>2, FunIsSeq
    <3> QED
      BY <1>2, <1>8, <2>1, <3>1, SeqEqual
  <2> QED
    BY <1>2, <1>11, <2>2 DEF ExtractWs, w, M
<1> QED
  BY <1>10, <1>11

\* The lines of a text, without newlines.
LEMMA PlainLines ==
  ASSUME NEW t \in Seq(Chars)
  PROVE  /\ Lines(t) \in Seq(Seq(Chars \ {"nl"})) /\ Len(Lines(t)) \in Nat \ {0} /\ DOMAIN Lines(t) = 1..Len(Lines(t))
         /\ \A n \in 1..Len(Lines(t)) : Lines(t)[n] \in Seq(Chars \ {"nl"})
<1> DEFINE ls == Lines(t)
           D == Seq(Chars \ {"nl"})
<1>1. ls \in Seq(Seq(Chars)) /\ Len(ls) \in Nat \ {0}
  BY LinesType
<1>2. \A n \in 1..Len(ls) : ls[n] \in D
  BY LinesEnd
<1> HIDE DEF ls, D
<1>3. DOMAIN ls = 1..Len(ls)
  BY <1>1, LenProperties
<1>4. ls \in [1..Len(ls) -> D]
  BY <1>1, <1>2, <1>3
<1>5. ls \in Seq(D)
  BY <1>1, <1>4, FunIsSeq
<1> QED
  BY <1>1, <1>2, <1>3, <1>5 DEF ls, D

\* Dropping the whitespace at the end of a line.
LEMMA TrailTrim ==
  ASSUME NEW mark, NEW k, NEW l \in Seq(Chars), Trail(l, k, mark)
  PROVE  Trail(RStrip(l), k, mark)
<1> DEFINE r == RStrip(l)
           n == Len(l)
           f == Front(l)
<1>1. r \in Seq(Chars) /\ Stripped(r, l)
  BY RStripFacts
<1> HIDE DEF r
<1>2. /\ Len(r) \in Nat /\ n \in Nat /\ Len(r) <= n /\ \A i \in 1..Len(r) : r[i] = l[i]
      /\ \A i \in (Len(r) + 1)..n : l[i] \in Blank
  BY <1>1 DEF Stripped
<1> HIDE DEF n
<1>3. CASE Len(r) = n
  <2>1. r = l
    BY <1>1, <1>2, <1>3, SeqEqual DEF n
  <2> QED
    BY <2>1 DEF r
<1>4. CASE Len(r) < n
  <2>1. l # << >> /\ Last(l) = l[n] /\ l[n] \in Blank
    BY <1>2, <1>4 DEF Last, n
  <2>2. Last(l) \notin ZeroWidth
    BY <2>1 DEF Blank, ZeroWidth
  <2>3. StripZw(l) # << >> /\ Last(StripZw(l)) = Last(l) /\ Front(StripZw(l)) = StripZw(f)
    BY <2>1, <2>2, StripLast
  <2>4. ~ EndsIn(StripZw(f), Blank)
    BY <2>1, <2>3 DEF Trail, EndsIn
  <2>5. f \in Seq(Chars) /\ Len(f) = n - 1 /\ \A i \in 1..(n - 1) : f[i] = l[i]
    <3>1. 1 \in Int /\ n - 1 \in Int /\ \A i \in 1..(n - 1) : l[i] \in Chars
      BY <1>2 DEF n
    <3>2. f = SubSeq(l, 1, n - 1)
      BY DEF Front, n
    <3>3. /\ SubSeq(l, 1, n - 1) \in Seq(Chars)
          /\ Len(SubSeq(l, 1, n - 1)) = IF 1 <= n - 1 THEN (n - 1) - 1 + 1 ELSE 0
          /\ \A i \in 1..((n - 1) - 1 + 1) : SubSeq(l, 1, n - 1)[i] = l[1 + i - 1]
      BY <3>1, SubSeqProperties
    <3> HIDE DEF f
    <3>4. /\ f \in Seq(Chars)
          /\ Len(f) = IF 1 <= n - 1 THEN (n - 1) - 1 + 1 ELSE 0
          /\ \A i \in 1..((n - 1) - 1 + 1) : f[i] = l[1 + i - 1]
      BY <3>2, <3>3
    <3> QED
      BY <1>2, <1>4, <3>4
  <2> HIDE DEF f
  <2>6. Len(r) = n - 1
    <3> SUFFICES ASSUME Len(r) # n - 1 PROVE FALSE
      OBVIOUS
    <3>1. n - 1 \in (Len(r) + 1)..n /\ n - 1 \in 1..(n - 1)
      BY <1>2, <1>4
    <3>2. f # << >> /\ Last(f) = l[n - 1] /\ l[n - 1] \in Blank
      BY <1>2, <2>5, <3>1 DEF Last
    <3>3. Last(f) \notin ZeroWidth
      BY <3>2 DEF Blank, ZeroWidth
    <3>4. StripZw(f) # << >> /\ Last(StripZw(f)) = Last(f)
      BY <2>5, <3>2, <3>3, StripLast
    <3> QED
      BY <2>4, <3>2, <3>4 DEF EndsIn
  <2>7. r = f
    BY <1>1, <1>2, <2>5, <2>6, SeqEqual
  <2> QED
    BY <2>4, <2>7 DEF Trail, r
<1> QED
  BY <1>2, <1>3, <1>4

HasTrails(t, mark) == \E o \in Nat : Trails(Lines(t), o, mark)

\* What is done to a leaked text leaves the lines it keeps in place.
LEMMA EditsTrails ==
  ASSUME NEW mark, NEW t \in Seq(Chars), HasTrails(t, mark)
  PROVE  /\ HasTrails(StripZw(t), mark) /\ HasTrails(Trimmed(t), mark)
         /\ \A i, j \in Nat \ {0} : HasTrails(Quoted(t, i, j), mark)
<1> DEFINE ls == Lines(t)
           D == Seq(Chars \ {"nl"})
<1>1. PICK o \in Nat : Trails(ls, o, mark)
  BY DEF HasTrails
<1>2. ls \in Seq(D) /\ Len(ls) \in Nat \ {0} /\ DOMAIN ls = 1..Len(ls) /\ \A n \in 1..Len(ls) : ls[n] \in D
  BY PlainLines
<1>3. D \subseteq Seq(Chars) /\ "nl" \in Chars
  BY SeqMonotonic DEF Chars, Blank
<1>4. HasTrails(StripZw(t), mark)
  <2>1. Len(Lines(StripZw(t))) = Len(ls) /\ \A n \in 1..Len(ls) : Lines(StripZw(t))[n] = StripZw(ls[n])
    BY LinesStrip
  <2> DEFINE zs == Lines(StripZw(t))
  <2> HIDE DEF ls, zs
  <2>2. \A n \in 1..Len(ls) : StripZw(StripZw(ls[n])) = StripZw(ls[n])
    BY <1>2, <1>3, StripType
  <2>3. \A n \in 1..Len(ls) : Trail(zs[n], n + o, mark)
    BY <1>1, <2>1, <2>2 DEF Trails, Trail, zs
  <2>4. Trails(zs, o, mark)
    BY <2>1, <2>3 DEF Trails, zs
  <2> QED
    BY <2>4 DEF HasTrails, zs
<1>5. HasTrails(Trimmed(t), mark)
  <2> DEFINE ms == [n \in DOMAIN ls |-> RStrip(ls[n])]
  <2>1. \A n \in 1..Len(ls) : RStrip(ls[n]) \in D
    BY <1>2, RStripFacts
  <2>2. ms \in [1..Len(ls) -> D] /\ \A n \in 1..Len(ls) : ms[n] = RStrip(ls[n])
    BY <2>1, <1>2
  <2>3. Trimmed(t) = JoinLines(ms)
    BY DEF Trimmed
  <2> HIDE DEF ms, ls, D
  <2>4. ms \in Seq(D) /\ Len(ms) = Len(ls)
    BY <2>2, <1>2, FunIsSeq
  <2>5. ms # << >>
    BY <2>4, <1>2
  <2>6. Lines(JoinLines(ms)) = ms
    BY <1>3, <2>4, <2>5, LinesJoin DEF D
  <2>7. \A n \in 1..Len(ls) : Trail(ms[n], n + o, mark)
    <3> TAKE n \in 1..Len(ls)
    <3>1. ls[n] \in Seq(Chars) /\ Trail(ls[n], n + o, mark)
      BY <1>1, <1>2, <1>3 DEF Trails
    <3>2. Trail(RStrip(ls[n]), n + o, mark)
      BY <3>1, TrailTrim
    <3> QED
      BY <2>2, <3>2
  <2>8. Trails(ms, o, mark)
    BY <2>4, <2>7 DEF Trails
  <2> QED
    BY <2>3, <2>6, <2>8 DEF HasTrails
<1>6. ASSUME NEW i \in Nat \ {0}, NEW j \in Nat \ {0} PROVE HasTrails(Quoted(t, i, j), mark)
  <2> DEFINE m == Min({j, Len(ls)})
             ms == Some(ls, i, j)
  <2>1. m \in Nat /\ m <= Len(ls)
    <3>1. \E x \in {j, Len(ls)} : \A y \in {j, Len(ls)} : x <= y
      BY <1>2
    <3>2. m \in {j, Len(ls)} /\ \A y \in {j, Len(ls)} : m <= y
      BY <3>1 DEF Min
    <3> QED
      BY <3>2, <1>2
  <2>2. ms = SubSeq(ls, i, m)
    BY DEF Some
  <2>3. Quoted(t, i, j) = IF ms = << >> THEN << >> ELSE JoinLines(ms)
    BY DEF Quoted
  <2> HIDE DEF m, ms, D, ls
  <2>4. /\ ms \in Seq(D) /\ Len(ms) = (IF i <= m THEN m - i + 1 ELSE 0)
        /\ \A n \in 1..(m - i + 1) : ms[n] = ls[i + n - 1]
    <3>1. \A k \in i..m : ls[k] \in D
      BY <1>2, <2>1
    <3>2. i \in Int /\ m \in Int
      BY <2>1
    <3> QED
      BY <2>2, <3>1, <3>2, SubSeqProperties
  <2>5. CASE ms = << >>
    <3>1. Lines(<< >>) = << << >> >> /\ StripZw(<< >>) = << >>
      BY LinesNil, WithoutNil DEF StripZw
    <3> DEFINE w == Lines(<< >>)
    <3>2. Len(w) = 1 /\ w[1] = << >>
      BY <3>1
    <3> HIDE DEF w
    <3>3. \A n \in 1..Len(w) : Trail(w[n], n + 0, mark)
      BY <3>1, <3>2 DEF Trail, EndsIn
    <3>4. Trails(w, 0, mark)
      BY <3>3 DEF Trails
    <3>5. Quoted(t, i, j) = << >>
      BY <2>3, <2>5
    <3> QED
      BY <3>4, <3>5 DEF HasTrails, w
  <2>6. CASE ms # << >>
    <3>1. Lines(JoinLines(ms)) = ms
      BY <1>3, <2>4, <2>6, LinesJoin DEF D
    <3>2. \A n \in 1..Len(ms) : Trail(ms[n], n + (o + i - 1), mark)
      <4> TAKE n \in 1..Len(ms)
      <4>0. n \in Int /\ i \in Nat \ {0} /\ m \in Nat /\ o \in Int /\ Len(ls) \in Nat /\ m <= Len(ls) /\ 1 <= n
        BY <1>1, <1>2, <2>1
      <4>3. i <= m /\ n <= m - i + 1
        <5>1. n <= Len(ms)
          BY <2>4
        <5>2. Len(ms) = (IF i <= m THEN m - i + 1 ELSE 0)
          BY <2>4
        <5> QED
          BY <4>0, <5>1, <5>2
      <4>1. n \in 1..(m - i + 1) /\ i + n - 1 \in 1..Len(ls) /\ (i + n - 1) + o = n + (o + i - 1)
        BY <4>0, <4>3
      <4>2. Trail(ls[i + n - 1], (i + n - 1) + o, mark)
        BY <1>1, <4>1 DEF Trails
      <4> QED
        BY <2>4, <4>1, <4>2
    <3>3. Trails(ms, o + i - 1, mark) /\ o + i - 1 \in Nat
      BY <3>2 DEF Trails
    <3> QED
      BY <2>3, <2>6, <3>1, <3>3 DEF HasTrails
  <2> QED
    BY <2>5, <2>6
<1> QED
  BY <1>4, <1>5, <1>6

\* The copy: every line is free, so the n-th bit is on the n-th line.
LEMMA CopyTrails ==
  ASSUME NEW mark \in MarkIds, NEW text \in Seq(Chars), NoTrailing(StripZw(text))
  PROVE  HasTrails(EmbedZw(EmbedWs(text, mark), mark), mark)
<1> DEFINE ls == Lines(text)
           bits == BitsOf(mark)
           Free(n) == {k \in 1..n : ~ EndsIn(ls[k], Blank)}
           MarkLine(n) ==
             LET bi == Cardinality(Free(n))
             IN  IF n \in Free(n) /\ bi <= Len(bits)
                 THEN Append(ls[n], IF bits[bi] = 0 THEN "sp" ELSE "tab")
                 ELSE ls[n]
           ms == [n \in DOMAIN ls |-> MarkLine(n)]
           w == EmbedWs(text, mark)
           t == EmbedZw(w, mark)
           D == Seq(Chars \ {"nl"})
<1>1. ls \in Seq(D) /\ Len(ls) \in Nat \ {0} /\ DOMAIN ls = 1..Len(ls) /\ \A n \in 1..Len(ls) : ls[n] \in D
  BY PlainLines
<1>2. w = JoinLines(ms)
  BY DEF EmbedWs
<1>3. Len(bits) = MarkBits /\ MarkBits \in Nat \ {0}
  BY MarkShape
<1>4. D \subseteq Seq(Chars) /\ "nl" \in Chars /\ {"sp", "tab"} \subseteq Chars \ {"nl"}
  BY SeqMonotonic DEF Chars, Blank
<1>5. \A n \in 1..Len(ls) : ~ EndsIn(StripZw(ls[n]), Blank)
  <2>1. Len(Lines(StripZw(text))) = Len(ls) /\ \A n \in 1..Len(ls) : Lines(StripZw(text))[n] = StripZw(ls[n])
    BY LinesStrip
  <2>2. DOMAIN Lines(StripZw(text)) = 1..Len(Lines(StripZw(text)))
    <3>1. StripZw(text) \in Seq(Chars)
      BY StripType
    <3> DEFINE z == StripZw(text)
    <3> HIDE DEF z
    <3>2. DOMAIN Lines(z) = 1..Len(Lines(z))
      BY <3>1, PlainLines DEF z
    <3> QED
      BY <3>2 DEF z
  <2> QED
    BY <2>1, <2>2 DEF NoTrailing
<1>6. \A n \in 1..Len(ls) : ~ EndsIn(ls[n], Blank)
  <2> SUFFICES ASSUME NEW n \in 1..Len(ls), EndsIn(ls[n], Blank) PROVE FALSE
    OBVIOUS
  <2> DEFINE l == ls[n]
  <2>1. l \in Seq(Chars) /\ l # << >> /\ Last(l) \in Blank /\ ~ EndsIn(StripZw(l), Blank)
    BY <1>1, <1>4, <1>5 DEF EndsIn
  <2> HIDE DEF l
  <2>2. Last(l) \notin ZeroWidth
    BY <2>1 DEF Blank, ZeroWidth
  <2>3. StripZw(l) # << >> /\ Last(StripZw(l)) = Last(l)
    BY <2>1, <2>2, StripLast
  <2> QED
    BY <2>1, <2>3 DEF EndsIn
<1> HIDE DEF ls
<1>7. ASSUME NEW n \in 1..Len(ls)
      PROVE  MarkLine(n) = IF n <= MarkBits THEN Append(ls[n], Sign(mark, n)) ELSE ls[n]
  <2>1. Free(n) = 1..n
    <3>1. \A k \in 1..n : k \in 1..Len(ls)
      BY <1>1
    <3> QED
      BY <1>6, <3>1
  <2>2. Cardinality(1..n) = n
    <3>1. 1 \in Int /\ n \in Int /\ n >= 1
      BY <1>1
    <3>2. Cardinality(1..n) = IF 1 > n THEN 0 ELSE n - 1 + 1
      BY <3>1, FS_Interval
    <3> QED
      BY <3>1, <3>2
  <2>3. n \in 1..n
    BY <1>1
  <2> HIDE DEF Free, bits
  <2>4. n \in Free(n) /\ Cardinality(Free(n)) = n
    BY <2>1, <2>2, <2>3
  <2>5. MarkLine(n) = IF n <= MarkBits THEN Append(ls[n], IF bits[n] = 0 THEN "sp" ELSE "tab") ELSE ls[n]
    BY <1>3, <2>4
  <2> QED
    BY <2>5 DEF Sign, bits
<1> HIDE DEF MarkLine, bits, Free
<1>8. ASSUME NEW n \in 1..Len(ls) PROVE MarkLine(n) \in D /\ Trail(MarkLine(n), n, mark)
  <2> DEFINE l == ls[n]
             g == Sign(mark, n)
             a == Append(l, g)
  <2>1. l \in D /\ l \in Seq(Chars) /\ ~ EndsIn(StripZw(l), Blank)
    BY <1>1, <1>4, <1>5
  <2>2. g \in {"sp", "tab"}
    BY DEF Sign
  <2>3. MarkLine(n) = IF n <= MarkBits THEN a ELSE l
    BY <1>7
  <2> HIDE DEF l, g
  <2>4. a \in D /\ a \in Seq(Chars) /\ a # << >> /\ Last(a) = g /\ Front(a) = l
    <3>1. g \in Chars \ {"nl"}
      BY <1>4, <2>2
    <3>2. a \in Seq(Chars \ {"nl"}) /\ Len(a) = Len(l) + 1 /\ a[Len(l) + 1] = g
          /\ (\A i \in 1..Len(l) : a[i] = l[i]) /\ Len(l) \in Nat
      BY <2>1, <3>1
    <3> HIDE DEF a
    <3>3. a # << >> /\ Last(a) = g
      BY <3>2 DEF Last
    <3> DEFINE h == SubSeq(a, 1, Len(a) - 1)
    <3>4. Front(a) = h /\ Len(a) - 1 = Len(l)
      BY <3>2 DEF Front
    <3>5. h \in Seq(Chars \ {"nl"}) /\ Len(h) = Len(l) /\ \A i \in 1..Len(l) : h[i] = a[i]
      BY <3>2
    <3> HIDE DEF h
    <3>6. h = l
      BY <2>1, <3>2, <3>5, SeqEqual
    <3> QED
      BY <1>4, <3>2, <3>3, <3>4, <3>6
  <2> HIDE DEF a
  <2>5. StripZw(a) # << >> /\ Last(StripZw(a)) = g /\ Front(StripZw(a)) = StripZw(l)
    <3>1. Last(a) \notin ZeroWidth
      BY <2>2, <2>4 DEF ZeroWidth
    <3>2. StripZw(a) # << >> /\ Last(StripZw(a)) = Last(a) /\ Front(StripZw(a)) = StripZw(Front(a))
      BY <2>4, <3>1, StripLast
    <3> QED
      BY <2>4, <3>2
  <2>6. CASE n <= MarkBits
    <3>1. n \in 1..MarkBits
      BY <1>1, <1>3, <2>6
    <3>2. Trail(a, n, mark)
      BY <2>1, <2>5, <3>1 DEF Trail, g
    <3> QED
      BY <2>3, <2>4, <2>6, <3>2
  <2>7. CASE ~ (n <= MarkBits)
    BY <2>1, <2>3, <2>7 DEF Trail
  <2> QED
    BY <2>6, <2>7
<1>9. ms \in [1..Len(ls) -> D] /\ \A n \in 1..Len(ls) : ms[n] = MarkLine(n)
  BY <1>1, <1>8
<1> HIDE DEF ms, D, w
<1>10. ms \in Seq(D) /\ Len(ms) = Len(ls) /\ ms # << >>
  <2>1. ms \in Seq(D) /\ Len(ms) = Len(ls)
    BY <1>1, <1>9, FunIsSeq
  <2> QED
    BY <1>1, <2>1
<1>11. Lines(w) = ms
  BY <1>2, <1>4, <1>10, LinesJoin DEF D
<1>12. w \in Seq(Chars) /\ t \in Seq(Chars) /\ StripZw(t) = StripZw(w)
  <2>1. Blank \subseteq Chars
    BY DEF Chars
  <2>2. w \in Seq(Chars)
    BY <2>1, EmbedWsType DEF w
  <2>3. t \in Seq(Chars)
    BY CopyFramed DEF w
  <2> QED
    BY <2>2, <2>3, StripEmbed
<1> HIDE DEF t
<1>13. /\ Len(Lines(StripZw(w))) = Len(Lines(w))
       /\ \A n \in 1..Len(Lines(w)) : Lines(StripZw(w))[n] = StripZw(Lines(w)[n])
  BY <1>12, LinesStrip
<1>14. /\ Len(Lines(StripZw(t))) = Len(Lines(t))
       /\ \A n \in 1..Len(Lines(t)) : Lines(StripZw(t))[n] = StripZw(Lines(t)[n])
  BY <1>12, LinesStrip
<1>15. Len(Lines(t)) = Len(ls) /\ \A n \in 1..Len(ls) : StripZw(Lines(t)[n]) = StripZw(MarkLine(n))
  BY <1>9, <1>10, <1>11, <1>12, <1>13, <1>14
<1>16. \A n \in 1..Len(ls) : Trail(Lines(t)[n], n + 0, mark)
  <2> TAKE n \in 1..Len(ls)
  <2>1. Trail(MarkLine(n), n, mark) /\ n + 0 = n
    BY <1>8
  <2> QED
    BY <1>15, <2>1 DEF Trail
<1>17. Trails(Lines(t), 0, mark)
  BY <1>15, <1>16 DEF Trails
<1> QED
  BY <1>17 DEF HasTrails, t, w

\* The whitespace of a leaked text.
WsInv ==
  phase \notin {"sealing", "refused"} /\ NoTrailing(StripZw(source.layout)) =>
    HasTrails(leak.layout, copy.mark)

\* Every step keeps the invariant.
LEMMA WsStep ==
  ASSUME FramesInv, WsInv, [Next]_vars
  PROVE  WsInv'
<1>0. DOMAIN leak = Fields /\ leak.layout \in Seq(Chars) /\ source \in Sources
  BY DEF FramesInv
<1>1. ASSUME NEW m \in Marks, NEW registered \in BOOLEAN, Seal(m, registered) PROVE WsInv'
  <2> DEFINE t == EmbedZw(EmbedWs(source.layout, m), m)
  <2>1. /\ source' = source /\ copy' = MarkCopy(source, m)
        /\ leak' = [layout |-> copy'.layout, doc |-> copy'.doc, keywords |-> copy'.keywords]
    BY <1>1 DEF Seal
  <2>2. m \in MarkIds /\ source.layout \in Seq(Chars)
    BY <1>0, AttributionAssumption
  <2>3. copy'.mark = m /\ copy'.layout = t
    BY <2>1 DEF MarkCopy
  <2>4. leak'.layout = t
    BY <2>1, <2>3
  <2>5. NoTrailing(StripZw(source.layout)) => HasTrails(t, m)
    BY <2>2, CopyTrails
  <2> HIDE DEF t
  <2> QED
    BY <2>1, <2>3, <2>4, <2>5 DEF WsInv
<1>2. CASE SealRefused
  BY <1>2 DEF SealRefused, WsInv
<1>3. ASSUME NoTrailing(StripZw(source.layout)), phase = "leaking"
      PROVE  /\ HasTrails(StripZw(leak.layout), copy.mark) /\ HasTrails(Trimmed(leak.layout), copy.mark)
             /\ \A i, j \in Nat \ {0} : HasTrails(Quoted(leak.layout, i, j), copy.mark)
  <2> DEFINE t == leak.layout
             m == copy.mark
  <2>1. HasTrails(t, m) /\ t \in Seq(Chars)
    BY <1>0, <1>3 DEF WsInv
  <2> HIDE DEF t, m
  <2>2. /\ HasTrails(StripZw(t), m) /\ HasTrails(Trimmed(t), m)
        /\ \A i, j \in Nat \ {0} : HasTrails(Quoted(t, i, j), m)
    BY <2>1, EditsTrails
  <2> QED
    BY <2>2 DEF t, m
<1>4. CASE DropInvisible
  <2>1. leak'.layout = StripZw(leak.layout)
    BY <1>0, <1>4 DEF DropInvisible, Fields
  <2>2. phase = "leaking" /\ source' = source /\ copy' = copy
    BY <1>4 DEF DropInvisible
  <2> QED
    BY <1>3, <2>1, <2>2 DEF WsInv
<1>5. CASE DropTrailing
  <2>1. leak'.layout = Trimmed(leak.layout)
    BY <1>0, <1>5 DEF DropTrailing, Fields, Trimmed
  <2>2. phase = "leaking" /\ source' = source /\ copy' = copy
    BY <1>5 DEF DropTrailing
  <2> QED
    BY <1>3, <2>1, <2>2 DEF WsInv
<1>6. CASE DropMetadata
  <2>1. leak'.layout = leak.layout
    BY <1>0, <1>6 DEF DropMetadata, Fields
  <2>2. phase' = phase /\ source' = source /\ copy' = copy
    BY <1>6 DEF DropMetadata
  <2> QED
    BY <2>1, <2>2 DEF WsInv
<1>7. ASSUME NEW i \in 1..MaxLines, NEW j \in 1..MaxLines, i <= j, Excerpt(i, j) PROVE WsInv'
  <2>1. leak'.layout = Quoted(leak.layout, i, j)
    BY <1>7 DEF Excerpt, Quoted
  <2>2. i \in Nat \ {0} /\ j \in Nat \ {0}
    OBVIOUS
  <2>3. phase = "leaking" /\ source' = source /\ copy' = copy
    BY <1>7 DEF Excerpt
  <2> QED
    BY <1>3, <2>1, <2>2, <2>3 DEF WsInv
<1>9. ASSUME NEW online, NEW listed, NEW seen, CmdAttribute(online, listed, seen) PROVE WsInv'
  BY <1>9 DEF CmdAttribute, WsInv
<1>10. ASSUME NEW readable, NEW seen, HandleScraped(readable, seen) PROVE WsInv'
  BY <1>10 DEF HandleScraped, WsInv
<1>11. CASE JobFails
  BY <1>11 DEF JobFails, WsInv
<1>12. CASE UNCHANGED vars
  BY <1>12 DEF vars, WsInv
<1> QED
  BY <1>1, <1>2, <1>4, <1>5, <1>6, <1>7, <1>9, <1>10, <1>11, <1>12 DEF Next

\* Nothing is read from an empty text.
LEMMA EmptyReadsNothing == ExtractWs(<< >>) = NoMark
<1> DEFINE t == << >>
           ls == Lines(t)
<1>1. ls = << << >> >> /\ t \in Seq({})
  BY LinesNil, EmptySeq
<1>2. Len(ls) = 1 /\ ls[1] = << >>
  BY <1>1
<1> HIDE DEF t, ls
<1>3. PICK f \in [0..Len(ls) -> Seq({0, 1})] :
        /\ f[0] = << >> /\ f[Len(ls)] = WsBits(t)
        /\ \A i \in 1..Len(ls) : f[i] = IF Len(f[i - 1]) < MarkBits /\ EndsIn(ls[i], {"sp", "tab"})
                                        THEN Append(f[i - 1], IF Last(ls[i]) = "sp" THEN 0 ELSE 1) ELSE f[i - 1]
  BY <1>1, WsBitsSteps DEF ls
<1>4. ~ EndsIn(ls[1], {"sp", "tab"})
  BY <1>2 DEF EndsIn
<1>5. f[1] = f[1 - 1] /\ 1 - 1 = 0
  BY <1>2, <1>3, <1>4
<1>6. WsBits(t) = << >>
  BY <1>2, <1>3, <1>5
<1>7. MarkBits \in Nat \ {0}
  <2>1. MarkBytes \in Nat \ {0} /\ ByteBits \in Nat \ {0}
    BY WatermarkAssumption
  <2> QED
    BY <2>1 DEF MarkBits
<1>8. Len(WsBits(t)) < MarkBits
  BY <1>6, <1>7
<1> QED
  BY <1>8 DEF ExtractWs, t

\* The invariant implies what is read.
LEMMA WsReads ==
  ASSUME FramesInv, WsInv
  PROVE  WhitespaceReadsExactly
<1> SUFFICES ASSUME NoTrailing(StripZw(source.layout)) PROVE ExtractWs(leak.layout) \in {NoMark, copy.mark}
  BY DEF WhitespaceReadsExactly
<1>1. CASE phase \in {"sealing", "refused"}
  BY <1>1, EmptyReadsNothing DEF FramesInv
<1>2. CASE phase \notin {"sealing", "refused"}
  <2> DEFINE t == leak.layout
             m == copy.mark
  <2>1. HasTrails(t, m) /\ t \in Seq(Chars) /\ m \in MarkIds
    BY <1>2 DEF WsInv, FramesInv
  <2>2. PICK o \in Nat : Trails(Lines(t), o, m)
    BY <2>1 DEF HasTrails
  <2> HIDE DEF t, m
  <2>3. ExtractWs(t) \in {NoMark, m}
    BY <2>1, <2>2, TrailsRead
  <2> QED
    BY <2>3 DEF t, m
<1> QED
  BY <1>1, <1>2

\* WhitespaceReadsExactly: extract_ws reads the leaker's mark from a leaked
\* text or nothing, whatever was dropped from it.
THEOREM WhitespaceAlwaysReadsExactly == Spec => []WhitespaceReadsExactly
<1>1. Init => FramesInv /\ WsInv
  <2>1. Init => WsInv
    BY DEF Init, WsInv
  <2> QED
    BY <2>1, DocInit
<1>2. FramesInv /\ WsInv /\ [Next]_vars => FramesInv' /\ WsInv'
  BY FramesStep, WsStep
<1>3. FramesInv /\ WsInv => WhitespaceReadsExactly
  BY WsReads
<1> QED
  BY <1>1, <1>2, <1>3, PTL DEF Spec

-----------------------------------------------------------------------------
(***************************************************************************)
(* The Flywheel matcher.                                                   *)
(***************************************************************************)

Modes == {"off", "full", "boilerplate"}

\* decide_l3 returns a mode.
LEMMA ModeType ==
  ASSUME NEW src \in Sources, NEW m
  PROVE  MarkCopy(src, m).mode \in Modes /\ MarkCopy(src, m).mark = m
<1>1. src.requested \in {"auto", "off", "full", "boilerplate"}
  BY AttributionAssumption
<1>2. DecideL3(ClassifyDocument(src.declared, src.hints), src.requested) \in Modes
  BY <1>1 DEF DecideL3, Modes
<1> QED
  BY <1>2 DEF MarkCopy

\* The rows of a copy: none is registered under the layer L3_semantic.
LEMMA RowsFacts ==
  ASSUME NEW c, NEW who, c.mode \in Modes
  PROVE  /\ \A r \in RowsOf(c, who) : r.mark = c.mark /\ r.recipient = who /\ r.layer # "L3_semantic"
         /\ [mark |-> c.mark, layer |-> "L1_zero_width", recipient |-> who] \in RowsOf(c, who)
<1> DEFINE L == Layers(c)
<1>1. "L3_semantic" \notin L /\ "L1_zero_width" \in L
  BY DEF Layers, Modes
<1>2. RowsOf(c, who) = {[mark |-> c.mark, layer |-> l, recipient |-> who] : l \in L}
  BY DEF RowsOf
<1> HIDE DEF L
<1> QED
  BY <1>1, <1>2

\* The watermarks table and the metadata of the leaked file.
RowIsOf(r, mark, who) == r.mark = mark /\ r.recipient = who

RowsInv ==
  /\ other.mark \in MarkIds
  /\ \A r \in rows : r.layer # "L3_semantic"
  /\ phase \in {"sealing", "refused"} => \A r \in rows : RowIsOf(r, other.mark, Bystander)
  /\ phase \notin {"sealing", "refused"} =>
       /\ \A r \in rows : RowIsOf(r, other.mark, Bystander) \/ RowIsOf(r, copy.mark, Leaker)
       /\ copy.mark # other.mark /\ copy.mode \in Modes
       /\ source.keywords.tag = NoMark => leak.keywords.tag \in {NoMark, copy.mark}

\* The table holds the bystander's rows at first.
LEMMA RowsInit ==
  ASSUME Init
  PROVE  RowsInv
<1>1. PICK m \in Marks : other = MarkCopy(source, m)
  BY DEF Init
<1>2. source \in Sources /\ rows = RowsOf(other, Bystander) /\ phase = "sealing"
  BY DEF Init
<1>3. other.mode \in Modes /\ other.mark = m
  BY <1>1, <1>2, ModeType
<1>4. m \in MarkIds
  BY AttributionAssumption
<1>5. \A r \in rows : r.mark = other.mark /\ r.recipient = Bystander /\ r.layer # "L3_semantic"
  BY <1>2, <1>3, RowsFacts
<1> QED
  BY <1>2, <1>3, <1>4, <1>5 DEF RowsInv, RowIsOf

\* Every step keeps the invariant.
LEMMA RowsStep ==
  ASSUME FramesInv, RowsInv, [Next]_vars
  PROVE  RowsInv'
<1>0. DOMAIN leak = Fields /\ source \in Sources
  BY DEF FramesInv
<1>1. ASSUME NEW m \in Marks, NEW registered \in BOOLEAN, Seal(m, registered) PROVE RowsInv'
  <2>1. /\ phase = "sealing" /\ phase' = "leaking" /\ source' = source /\ other' = other
        /\ m # other.mark /\ copy' = MarkCopy(source, m)
        /\ rows' = (IF registered THEN rows \cup RowsOf(copy', Leaker) ELSE rows)
        /\ leak' = [layout |-> copy'.layout, doc |-> copy'.doc, keywords |-> copy'.keywords]
    BY <1>1 DEF Seal
  <2>2. copy'.mode \in Modes /\ copy'.mark = m
    BY <1>0, <2>1, ModeType
  <2>3. \A r \in RowsOf(copy', Leaker) : r.mark = m /\ r.recipient = Leaker /\ r.layer # "L3_semantic"
    <3> DEFINE c == MarkCopy(source, m)
    <3>1. c.mode \in Modes /\ c.mark = m /\ copy' = c
      BY <2>1, <2>2
    <3> HIDE DEF c
    <3>2. \A r \in RowsOf(c, Leaker) : r.mark = c.mark /\ r.recipient = Leaker /\ r.layer # "L3_semantic"
      BY <3>1, RowsFacts
    <3>3. RowsOf(copy', Leaker) = RowsOf(c, Leaker)
      BY <3>1
    <3> QED
      BY <3>1, <3>2, <3>3
  <2>4. \A r \in rows : RowIsOf(r, other.mark, Bystander) /\ r.layer # "L3_semantic"
    BY <2>1 DEF RowsInv
  <2>5. \A r \in rows' : r \in rows \/ r \in RowsOf(copy', Leaker)
    BY <2>1
  <2>6. source.keywords.tag = NoMark => leak'.keywords.tag \in {NoMark, m}
    <3> SUFFICES ASSUME source.keywords.tag = NoMark PROVE leak'.keywords.tag \in {NoMark, m}
      OBVIOUS
    <3>1. leak'.keywords = EmbedMetadata(source, m)
      BY <2>1 DEF MarkCopy
    <3>2. source.carrier \in {"text", "pdf", "docx"} /\ source.keywords \in [words : BOOLEAN, tag : MarkIds \cup {NoMark}]
      BY <1>0, AttributionAssumption
    <3>3. CASE source.carrier = "text"
      BY <3>1, <3>3 DEF EmbedMetadata
    <3>4. CASE source.carrier = "pdf"
      BY <3>1, <3>4 DEF EmbedMetadata
    <3>5. CASE source.carrier = "docx"
      <4>1. leak'.keywords = [source.keywords EXCEPT !.tag = m]
        BY <3>1, <3>5 DEF EmbedMetadata, DocxEmbed
      <4> QED
        BY <3>2, <4>1
    <3> QED
      BY <3>2, <3>3, <3>4, <3>5
  <2>7. \A r \in rows' : /\ RowIsOf(r, other.mark, Bystander) \/ RowIsOf(r, m, Leaker)
                         /\ r.layer # "L3_semantic"
    BY <2>3, <2>4, <2>5 DEF RowIsOf
  <2>8. other.mark \in MarkIds
    BY DEF RowsInv
  <2> QED
    BY <2>1, <2>2, <2>6, <2>7, <2>8 DEF RowsInv
<1>2. CASE SealRefused
  BY <1>2 DEF SealRefused, RowsInv
<1>3. ASSUME UNCHANGED <<source, other, copy, rows>>, phase = "leaking", phase' \in {"leaking", "reported"},
             leak'.keywords.tag \in {leak.keywords.tag, NoMark}
      PROVE  RowsInv'
  BY <1>3 DEF RowsInv
<1>4. CASE DropInvisible
  <2>1. leak'.keywords = leak.keywords
    BY <1>0, <1>4 DEF DropInvisible, Fields
  <2> QED
    BY <1>3, <1>4, <2>1 DEF DropInvisible
<1>5. CASE DropTrailing
  <2>1. leak'.keywords = leak.keywords
    BY <1>0, <1>5 DEF DropTrailing, Fields
  <2> QED
    BY <1>3, <1>5, <2>1 DEF DropTrailing
<1>6. CASE DropMetadata
  <2>1. leak'.keywords = NoKeywords
    BY <1>0, <1>6 DEF DropMetadata, Fields
  <2>2. leak'.keywords.tag = NoMark
    BY <2>1 DEF NoKeywords
  <2> QED
    BY <1>3, <1>6, <2>2 DEF DropMetadata
<1>7. ASSUME NEW i, NEW j, Excerpt(i, j) PROVE RowsInv'
  <2>1. leak'.keywords = leak.keywords
    BY <1>7 DEF Excerpt
  <2> QED
    BY <1>3, <1>7, <2>1 DEF Excerpt
<1>9. ASSUME NEW online, NEW listed, NEW seen, CmdAttribute(online, listed, seen) PROVE RowsInv'
  BY <1>3, <1>9 DEF CmdAttribute
<1>10. ASSUME NEW readable, NEW seen, HandleScraped(readable, seen) PROVE RowsInv'
  BY <1>3, <1>10 DEF HandleScraped
<1>11. CASE JobFails
  BY <1>3, <1>11 DEF JobFails
<1>12. CASE UNCHANGED vars
  BY <1>12 DEF vars, RowsInv
<1> QED
  BY <1>1, <1>2, <1>4, <1>5, <1>6, <1>7, <1>9, <1>10, <1>11, <1>12 DEF Next

\* The report of the matcher is about the leaked text.
Tagged == {r.recipient : r \in {q \in rows : q.mark = DocxExtract(leak.keywords)}}

Named(readable, seen) ==
  (IF source.carrier = "text" THEN {} ELSE Tagged) \cup (IF readable THEN CheckText(seen) ELSE {})

MatcherInv ==
  report.by = "flywheel" =>
    /\ phase = "reported"
    /\ \E readable \in BOOLEAN, seen \in Seen :
         (~ readable => source.carrier # "text") /\ report.named = Named(readable, seen)

\* Nothing happens after the report.
LEMMA MatcherStep ==
  ASSUME MatcherInv, [Next]_vars
  PROVE  MatcherInv'
<1>1. ASSUME phase # "reported", report' = report PROVE MatcherInv'
  BY <1>1 DEF MatcherInv
<1>2. ASSUME NEW m, NEW registered, Seal(m, registered) PROVE MatcherInv'
  BY <1>1, <1>2 DEF Seal
<1>3. CASE SealRefused
  BY <1>1, <1>3 DEF SealRefused
<1>4. CASE DropInvisible
  BY <1>1, <1>4 DEF DropInvisible
<1>5. CASE DropTrailing
  BY <1>1, <1>5 DEF DropTrailing
<1>6. CASE DropMetadata
  BY <1>1, <1>6 DEF DropMetadata
<1>7. ASSUME NEW i, NEW j, Excerpt(i, j) PROVE MatcherInv'
  BY <1>1, <1>7 DEF Excerpt
<1>8. ASSUME leak' = leak, rows' = rows, source' = source, NEW readable, NEW seen
      PROVE  Named(readable, seen)' = Named(readable, seen) /\ Seen' = Seen
  BY <1>8 DEF Seen, Named, Tagged, CheckText, Attribute, CandidatesSemantic
<1>9. ASSUME NEW online, NEW listed, NEW seen, CmdAttribute(online, listed, seen) PROVE MatcherInv'
  <2>1. report'.by = "cli"
    BY <1>9 DEF CmdAttribute
  <2> QED
    BY <2>1 DEF MatcherInv
<1>10. ASSUME NEW readable \in BOOLEAN, NEW seen \in Seen, HandleScraped(readable, seen) PROVE MatcherInv'
  <2>1. phase' = "reported" /\ leak' = leak /\ rows' = rows /\ source' = source /\ (~ readable => source.carrier # "text")
    BY <1>10 DEF HandleScraped
  <2>2. report'.named = Named(readable, seen)
    BY <1>10 DEF HandleScraped, NoReport, Named, Tagged
  <2>3. Named(readable, seen)' = Named(readable, seen) /\ Seen' = Seen
    BY <1>8, <2>1
  <2> QED
    BY <2>1, <2>2, <2>3 DEF MatcherInv
<1>11. CASE JobFails
  <2>1. report'.by = "failed"
    BY <1>11 DEF JobFails, NoReport
  <2> QED
    BY <2>1 DEF MatcherInv
<1>12. CASE UNCHANGED vars
  <2>1. leak' = leak /\ rows' = rows /\ source' = source /\ report' = report /\ phase' = phase
    BY <1>12 DEF vars
  <2> QED
    BY <1>8, <2>1 DEF MatcherInv
<1> QED
  BY <1>2, <1>3, <1>4, <1>5, <1>6, <1>7, <1>9, <1>10, <1>11, <1>12 DEF Next

\* A lookup of the leaker's mark, or of no mark, names nobody else.
LEMMA LookupNames ==
  ASSUME RowsInv, phase \notin {"sealing", "refused"}, copy.mark \in MarkIds
  PROVE  \A r \in rows : r.mark \in {NoMark, copy.mark} => r.recipient = Leaker
<1>1. NoMark \notin MarkIds
  BY AttributionAssumption
<1> QED
  BY <1>1 DEF RowsInv, RowIsOf

\* MatcherNamesLeaker: _check_text of the Flywheel matcher names nobody but
\* the leaker, and names the leaker when a registered frame or tag survives.
THEOREM MatcherAlwaysNamesLeaker == Spec => []MatcherNamesLeaker
<1> DEFINE Inv == FramesInv /\ WsInv /\ RowsInv /\ MatcherInv
<1>1. Init => Inv
  <2>1. Init => WsInv
    BY DEF Init, WsInv
  <2>2. Init => MatcherInv
    BY DEF Init, MatcherInv, NoReport
  <2> QED
    BY <2>1, <2>2, DocInit, RowsInit
<1>2. Inv /\ [Next]_vars => Inv'
  BY FramesStep, WsStep, RowsStep, MatcherStep
<1>3. Inv => MatcherNamesLeaker
  <2> DEFINE t == leak.layout
             cm == copy.mark
             l2 == ExtractWs(t)
             l1 == ToSet(ExtractZw(t))
  <2> SUFFICES ASSUME Inv, report.by = "flywheel", NoBits(source.layout),
                      NoTrailing(StripZw(source.layout)), source.keywords.tag = NoMark
               PROVE  /\ report.named \subseteq {Leaker}
                      /\ /\ RowsOf(copy, Leaker) \subseteq rows
                         /\ \/ source.carrier = "text" /\ ExtractZw(leak.layout) # << >>
                            \/ source.carrier # "text" /\ leak.keywords = [words |-> FALSE, tag |-> copy.mark]
                         => Leaker \in report.named
    BY DEF MatcherNamesLeaker
  <2>1. PICK readable \in BOOLEAN, seen \in Seen :
          (~ readable => source.carrier # "text") /\ report.named = Named(readable, seen)
    BY DEF MatcherInv
  <2>2. phase = "reported"
    BY DEF MatcherInv
  <2>3. cm \in MarkIds /\ t \in Seq(Chars) /\ Framed(t, cm)
    BY <2>2 DEF FramesInv
  <2>4. l1 \subseteq {cm} /\ (ExtractZw(t) # << >> => cm \in l1)
    <3>1. ExtractZw(t) \in Seq({cm})
      BY <2>3, ReadsOnlyMark
    <3> DEFINE z == ExtractZw(t)
    <3> HIDE DEF z
    <3>2. z \in Seq({cm}) /\ Len(z) \in Nat /\ DOMAIN z = 1..Len(z) /\ \A i \in 1..Len(z) : z[i] = cm
      BY <3>1 DEF z
    <3>3. ToSet(z) = {z[i] : i \in 1..Len(z)}
      BY <3>2 DEF ToSet
    <3>4. z # << >> => 1 \in 1..Len(z)
      BY <3>2, EmptySeq
    <3>5. ToSet(z) \subseteq {cm} /\ (z # << >> => cm \in ToSet(z))
      BY <3>2, <3>3, <3>4
    <3> QED
      BY <3>5 DEF z
  <2>5. l2 \in {NoMark, cm}
    BY WsReads DEF WhitespaceReadsExactly
  <2>6. \A r \in rows : r.mark \in {NoMark, cm} => r.recipient = Leaker
    BY <2>2, <2>3, LookupNames
  <2>7. CandidatesSemantic = {} /\ \A m : Attribute(m, "L3_semantic") = {}
    <3>1. \A r \in rows : r.layer # "L3_semantic"
      BY DEF RowsInv
    <3> QED
      BY <3>1 DEF CandidatesSemantic, Attribute
  <2> DEFINE l3 == VerifyL3(DocText(leak.doc), seen, CandidatesSemantic)
             X == UNION {Attribute(m, "L1_zero_width") : m \in l1}
             Y == IF l2 = NoMark THEN {} ELSE Attribute(l2, "L2_whitespace")
             Z == UNION {Attribute(h.mark, "L3_semantic") : h \in l3}
  <2>8. CheckText(seen) = X \cup Y \cup Z
    BY DEF CheckText
  <2> HIDE DEF l1, l2, l3
  <2>9. Z = {}
    BY <2>7
  <2>10. \A m \in {NoMark, cm} : \A layer : Attribute(m, layer) \subseteq {Leaker}
    BY <2>6 DEF Attribute
  <2>11. CheckText(seen) \subseteq {Leaker}
    <3>1. \A m \in l1 : Attribute(m, "L1_zero_width") \subseteq {Leaker}
      BY <2>4, <2>10 DEF l1
    <3>2. UNION {Attribute(m, "L1_zero_width") : m \in l1} \subseteq {Leaker}
      BY <3>1
    <3>3. Attribute(l2, "L2_whitespace") \subseteq {Leaker}
      BY <2>5, <2>10 DEF l2
    <3>4. Y \subseteq {Leaker}
      BY <3>3
    <3> HIDE DEF X, Y, Z
    <3> QED
      BY <2>8, <2>9, <3>2, <3>4 DEF X
  <2>12. Tagged \subseteq {Leaker}
    <3>1. DocxExtract(leak.keywords) \in {NoMark, cm}
      BY <2>2 DEF DocxExtract, RowsInv
    <3> QED
      BY <2>6, <3>1 DEF Tagged
  <2>13. report.named \subseteq {Leaker}
    BY <2>1, <2>11, <2>12 DEF Named
  <2>14. ASSUME RowsOf(copy, Leaker) \subseteq rows,
                \/ source.carrier = "text" /\ ExtractZw(leak.layout) # << >>
                \/ source.carrier # "text" /\ leak.keywords = [words |-> FALSE, tag |-> copy.mark]
         PROVE  Leaker \in report.named
    <3> DEFINE row == [mark |-> copy.mark, layer |-> "L1_zero_width", recipient |-> Leaker]
    <3>1. row \in rows
      <4>1. copy.mode \in Modes
        BY <2>2 DEF RowsInv
      <4>2. row \in RowsOf(copy, Leaker)
        BY <4>1, RowsFacts
      <4> QED
        BY <2>14, <4>2
    <3>2. row.mark = cm /\ row.layer = "L1_zero_width" /\ row.recipient = Leaker
      OBVIOUS
    <3> HIDE DEF row
    <3>3. CASE source.carrier = "text" /\ ExtractZw(t) # << >>
      <4>1. readable /\ cm \in l1
        BY <2>1, <2>4, <3>3 DEF l1
      <4>2. Leaker \in Attribute(cm, "L1_zero_width")
        BY <3>1, <3>2 DEF Attribute
      <4>3. Leaker \in X
        BY <4>1, <4>2
      <4>4. Leaker \in CheckText(seen)
        <5> HIDE DEF X, Y, Z
        <5> QED
          BY <2>8, <4>3
      <4> QED
        BY <2>1, <4>1, <4>4 DEF Named
    <3>4. CASE source.carrier # "text" /\ leak.keywords = [words |-> FALSE, tag |-> copy.mark]
      <4>1. DocxExtract(leak.keywords) = cm
        BY <3>4 DEF DocxExtract
      <4>2. Leaker \in Tagged
        BY <3>1, <3>2, <4>1 DEF Tagged
      <4> QED
        BY <2>1, <3>4, <4>2 DEF Named
    <3> QED
      BY <2>14, <3>3, <3>4
  <2> QED
    BY <2>13, <2>14
<1> HIDE DEF Inv
<1> QED
  BY <1>1, <1>2, <1>3, PTL DEF Spec
=============================================================================
