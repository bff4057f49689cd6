---------------------------- MODULE BeaconProofs ----------------------------
(***************************************************************************)
(* What becomes of a beacon, in two parts.                                 *)
(*                                                                         *)
(* Detection, for every set of hosts, every burst, size of the limiter's   *)
(* table, limit of an export, and every bound: the limiter lets through no *)
(* more than it should and refuses no more than it should, and successive  *)
(* exports skip no event.  Both limiter theorems come from one account     *)
(* kept per bucket.  With tokens t left at the time of its last use, the   *)
(* requests granted from it since any earlier time are at most the burst   *)
(* and the refill less t (Earned), and from some earlier time on they are  *)
(* at least that (Spent): the time at which the bucket was last full.      *)
(*                                                                         *)
(* CanaryKeeper, for any page size, any length of the log and any number   *)
(* of failures: the agent's position.  NoTrapSkipped is not inductive: it  *)
(* says nothing of the leaves between the position and the head, which     *)
(* Advance moves past.  PageKept adds that each of them is alerted, missed *)
(* or about to be, or still among the entries to be processed.             *)
(***************************************************************************)
EXTENDS Detection, CanaryKeeper, FiniteSetTheorems, SequenceTheorems, TLAPS

BucketRecord == [key : Hosts, tokens : Nat, last : Nat, born : Nat]
Grant == [key : Hosts, born : Nat, time : Nat]
Row == [id : Nat, time : Nat]
Beacon == [host : Hosts, at : {"handler", "unauthorised", "limited", "lost", "failed",
                               "recorded"},
           time : Nat, life : Nat]

Types ==
  /\ clock \in Nat /\ since \in Nat /\ crashes \in Nat
  /\ buckets \in Seq(BucketRecord)
  /\ grants \in Seq(Grant)
  /\ rows \in Seq(Row)
  /\ beacons \in Seq(Beacon)

\* The requests of a host that were let through in a span of time.
Used(key, from, to) ==
  {i \in DOMAIN grants : grants[i].key = key /\ grants[i].time \in from..to}

Spent(b) ==
  \E from \in 0..b.last :
    Cardinality(Used(b.key, from, b.last)) + b.tokens >= Burst + (b.last - from)

Earned(b) ==
  /\ \A i \in DOMAIN grants :
       grants[i].key = b.key /\ grants[i].born = b.born => grants[i].time <= b.last
  /\ \A from \in 0..b.last :
       Cardinality(GrantsOf(b.born, b.key, from, b.last)) + b.tokens
         <= Burst + (b.last - from)

BucketOK(b) ==
  /\ b.last <= clock /\ b.tokens <= Burst /\ b.born <= Len(grants)
  /\ Spent(b) /\ Earned(b)

LimiterOK ==
  /\ \A i, j \in DOMAIN buckets : buckets[i].key = buckets[j].key => i = j
  /\ \A i \in DOMAIN buckets : BucketOK(buckets[i])
  /\ \A i \in DOMAIN grants : grants[i].time <= clock /\ grants[i].born < i

DetectionInv ==
  /\ Types
  /\ LimiterOK
  /\ AdmissionsBounded
  /\ RefusedOnlyIfSpent
  /\ ExportsSkipNothing
-----------------------------------------------------------------------------
(***************************************************************************)
(* Sets of grants and their sizes.                                         *)
(***************************************************************************)

\* Any set of positions of a list is finite.
LEMMA PositionsFinite ==
  ASSUME NEW n \in Nat, NEW S, S \subseteq 1..n
  PROVE  IsFiniteSet(S) /\ Cardinality(S) \in Nat
<1>1. IsFiniteSet(1..n)
  BY FS_Interval
<1> QED
  BY <1>1, FS_Subset, FS_CardinalityType

\* A subset of positions has no more of them.
LEMMA PositionsMonotone ==
  ASSUME NEW n \in Nat, NEW S, NEW T, S \subseteq T, T \subseteq 1..n
  PROVE  Cardinality(S) <= Cardinality(T)
<1>1. IsFiniteSet(T)
  BY PositionsFinite
<1> QED
  BY <1>1, FS_Subset

\* The next position makes one more.
LEMMA PositionAdded ==
  ASSUME NEW n \in Nat, NEW S, S \subseteq 1..n
  PROVE  Cardinality(S \cup {n + 1}) = Cardinality(S) + 1
<1> DEFINE x == n + 1
<1>0. IsFiniteSet(S)
  BY PositionsFinite
<1>1. x \notin S
  OBVIOUS
<1> HIDE DEF x
<1>2. Cardinality(S \cup {x}) = IF x \in S THEN Cardinality(S) ELSE Cardinality(S) + 1
  BY <1>0, FS_AddElement
<1> QED
  BY <1>1, <1>2 DEF x

\* min() of two numbers.
LEMMA MinOfTwo ==
  ASSUME NEW a \in Nat, NEW b \in Nat
  PROVE  /\ Min({a, b}) \in Nat
         /\ Min({a, b}) <= a /\ Min({a, b}) <= b
         /\ Min({a, b}) = a \/ Min({a, b}) = b
<1>1. \E x \in {a, b} : \A y \in {a, b} : x <= y
  OBVIOUS
<1>2. Min({a, b}) \in {a, b} /\ \A y \in {a, b} : Min({a, b}) <= y
  BY <1>1 DEF Min
<1> QED
  BY <1>2

\* Taking an element out of a list leaves the others, in order.
LEMMA RemoveAtFacts ==
  ASSUME NEW S, NEW s \in Seq(S), NEW p \in 1..Len(s)
  PROVE  /\ RemoveAt(s, p) \in Seq(S)
         /\ Len(RemoveAt(s, p)) = Len(s) - 1
         /\ \A i \in 1..(Len(s) - 1) : RemoveAt(s, p)[i] = s[IF i < p THEN i ELSE i + 1]
<1> DEFINE n == Len(s)
           s1 == SubSeq(s, 1, p - 1)
           s2 == SubSeq(s, p + 1, n)
<1>1. n \in Nat /\ p \in 1..n
  OBVIOUS
<1>2. s1 \in Seq(S) /\ Len(s1) = p - 1 /\ \A i \in 1..(p - 1) : s1[i] = s[i]
  BY <1>1
<1>3. s2 \in Seq(S) /\ Len(s2) = n - p /\ \A i \in 1..(n - p) : s2[i] = s[p + i]
  BY <1>1
<1>4. RemoveAt(s, p) = s1 \o s2
  BY DEF RemoveAt
<1> HIDE DEF s1, s2, n
<1>5. s1 \in Seq(S) /\ s2 \in Seq(S)
  BY <1>2, <1>3
<1>6. /\ s1 \o s2 \in Seq(S) /\ Len(s1 \o s2) = Len(s1) + Len(s2)
      /\ \A i \in 1..(Len(s1) + Len(s2)) :
           (s1 \o s2)[i] = IF i <= Len(s1) THEN s1[i] ELSE s2[i - Len(s1)]
  BY <1>5, ConcatProperties
<1>7. Len(s1) + Len(s2) = n - 1
  BY <1>1, <1>2, <1>3
<1>8. ASSUME NEW i \in 1..(n - 1)
      PROVE  (s1 \o s2)[i] = s[IF i < p THEN i ELSE i + 1]
  <2>0. (s1 \o s2)[i] = IF i <= p - 1 THEN s1[i] ELSE s2[i - (p - 1)]
    BY <1>2, <1>6, <1>7
  <2>1. CASE i < p
    <3>1. i \in 1..(p - 1)
      BY <1>1, <2>1
    <3> QED
      BY <1>2, <2>0, <2>1, <3>1
  <2>2. CASE ~ (i < p)
    <3>1. i - (p - 1) \in 1..(n - p) /\ p + (i - (p - 1)) = i + 1 /\ ~ (i <= p - 1)
      BY <1>1, <2>2
    <3> QED
      BY <1>3, <2>0, <2>2, <3>1
  <2> QED
    BY <2>1, <2>2
<1> QED
  BY <1>4, <1>6, <1>7, <1>8 DEF n

\* A bucket that is new or unused lately: nothing was granted from it, and it
\* is full.
LEMMA NewBucketOK ==
  ASSUME DetectionInv, NEW h \in Hosts,
         NEW b, b = [key |-> h, tokens |-> Burst, last |-> clock, born |-> Len(grants)]
  PROVE  b \in BucketRecord /\ BucketOK(b)
<1>1. clock \in Nat /\ Burst \in Nat /\ Len(grants) \in Nat /\ grants \in Seq(Grant)
  BY DetectionAssumption DEF DetectionInv, Types
<1>2. b \in BucketRecord
  BY <1>1 DEF BucketRecord
<1>3. Spent(b)
  <2>1. Cardinality(Used(b.key, clock, clock)) \in Nat
    BY <1>1, PositionsFinite DEF Used
  <2>2. clock \in 0..b.last /\ b.last = clock /\ b.tokens = Burst
    BY <1>1
  <2> QED
    BY <1>1, <2>1, <2>2 DEF Spent
<1>4. \A i \in DOMAIN grants : grants[i].born # Len(grants)
  BY <1>1 DEF DetectionInv, LimiterOK, Grant
<1>5. Earned(b)
  <2>1. \A from \in 0..b.last : GrantsOf(b.born, b.key, from, b.last) = {}
    BY <1>4 DEF GrantsOf
  <2>2. \A from \in 0..b.last : Cardinality(GrantsOf(b.born, b.key, from, b.last)) = 0
    BY <2>1, FS_EmptySet
  <2>3. b.last = clock /\ b.tokens = Burst /\ b.born = Len(grants)
    OBVIOUS
  <2> QED
    BY <1>1, <1>4, <2>2, <2>3 DEF Earned
<1> QED
  BY <1>1, <1>2, <1>3, <1>5 DEF BucketOK

\* Bucket(h) is the bucket of h, and it is in order.
LEMMA BucketFacts ==
  ASSUME DetectionInv, NEW h \in Hosts
  PROVE  /\ Bucket(h) \in BucketRecord /\ Bucket(h).key = h
         /\ BucketOK(Bucket(h))
<1>1. CASE Known(h) = {}
  <2>1. Bucket(h) = [key |-> h, tokens |-> Burst, last |-> clock, born |-> Len(grants)]
    BY <1>1 DEF Bucket
  <2> QED
    BY <2>1, NewBucketOK
<1>2. CASE Known(h) # {}
  <2>1. Place(h) \in Known(h)
    BY <1>2 DEF Place
  <2>2. Bucket(h) = buckets[Place(h)] /\ Place(h) \in DOMAIN buckets /\ Bucket(h).key = h
    BY <1>2, <2>1 DEF Bucket, Known
  <2> QED
    BY <2>2 DEF DetectionInv, Types, LimiterOK
<1> QED
  BY <1>1, <1>2

\* The refill: never above the burst, and no less than the smaller of the two.
LEMMA RefillFacts ==
  ASSUME DetectionInv, NEW b \in BucketRecord, b.last <= clock
  PROVE  /\ Refilled(b) \in Nat /\ Refilled(b) <= Burst
         /\ Refilled(b) <= b.tokens + (clock - b.last)
         /\ Refilled(b) = Burst \/ Refilled(b) = b.tokens + (clock - b.last)
<1>1. Burst \in Nat /\ b.tokens + (clock - b.last) \in Nat
  BY DetectionAssumption DEF DetectionInv, Types, BucketRecord
<1> QED
  BY <1>1, MinOfTwo DEF Refilled

\* What Touched makes of the table: the bucket in question is last, the others
\* are buckets of other hosts that were there before.
LEMMA TouchedFacts ==
  ASSUME DetectionInv, NEW h \in Hosts, NEW b \in BucketRecord, b.key = h, NEW t \in Nat
  PROVE  LET new == [b EXCEPT !.tokens = t, !.last = clock]
             all == Touched(b, t)
         IN  /\ new \in BucketRecord
             /\ all \in Seq(BucketRecord)
             /\ \A i, j \in DOMAIN all : all[i].key = all[j].key => i = j
             /\ \A i \in DOMAIN all :
                  \/ all[i] = new
                  \/ all[i].key # h /\ \E j \in DOMAIN buckets : all[i] = buckets[j]
<1> DEFINE new == [b EXCEPT !.tokens = t, !.last = clock]
           others == IF Known(b.key) = {} THEN buckets ELSE RemoveAt(buckets, Place(b.key))
           all == Append(others, new)
<1>0. buckets \in Seq(BucketRecord) /\ clock \in Nat
  BY DEF DetectionInv, Types
<1>1. new \in BucketRecord /\ new.key = h
  BY <1>0 DEF BucketRecord
<1>2. /\ others \in Seq(BucketRecord)
      /\ \A i, j \in DOMAIN others : others[i].key = others[j].key => i = j
      /\ \A i \in DOMAIN others :
           others[i].key # h /\ \E j \in DOMAIN buckets : others[i] = buckets[j]
  <2>1. CASE Known(h) = {}
    <3>1. others = buckets /\ \A i \in DOMAIN buckets : buckets[i].key # h
      BY <2>1 DEF Known
    <3> QED
      BY <1>0, <3>1 DEF DetectionInv, LimiterOK
  <2>2. CASE Known(h) # {}
    <3> DEFINE p == Place(h)
    <3>1. p \in Known(h)
      BY <2>2 DEF Place
    <3>2. p \in DOMAIN buckets /\ p \in 1..Len(buckets) /\ buckets[p].key = h
      BY <1>0, <3>1 DEF Known
    <3>3. others = RemoveAt(buckets, p)
      BY <2>2
    <3> HIDE DEF p, others
    <3>4. /\ others \in Seq(BucketRecord) /\ Len(others) = Len(buckets) - 1
          /\ \A i \in 1..(Len(buckets) - 1) :
               others[i] = buckets[IF i < p THEN i ELSE i + 1]
      BY <1>0, <3>2, <3>3, RemoveAtFacts
    <3>5. DOMAIN others = 1..(Len(buckets) - 1)
      BY <3>4
    <3>6. \A i \in DOMAIN others :
            /\ (IF i < p THEN i ELSE i + 1) \in DOMAIN buckets
            /\ (IF i < p THEN i ELSE i + 1) # p
      BY <1>0, <3>2, <3>5
    <3>7. \A i, j \in DOMAIN buckets : buckets[i].key = buckets[j].key => i = j
      BY DEF DetectionInv, LimiterOK
    <3>8. \A i \in DOMAIN others :
            others[i].key # h /\ \E j \in DOMAIN buckets : others[i] = buckets[j]
      BY <3>2, <3>4, <3>5, <3>6, <3>7
    <3>9. ASSUME NEW i \in DOMAIN others, NEW j \in DOMAIN others,
                 others[i].key = others[j].key
          PROVE  i = j
      <4>1. (IF i < p THEN i ELSE i + 1) = (IF j < p THEN j ELSE j + 1)
        BY <3>4, <3>5, <3>6, <3>7, <3>9
      <4> QED
        BY <1>0, <3>2, <3>5, <4>1
    <3> QED
      BY <3>4, <3>8, <3>9
  <2> QED
    BY <2>1, <2>2
<1> HIDE DEF others, new
<1>3. /\ all \in Seq(BucketRecord)
      /\ \A i, j \in DOMAIN all : all[i].key = all[j].key => i = j
      /\ \A i \in DOMAIN all :
           \/ all[i] = new
           \/ all[i].key # h /\ \E j \in DOMAIN buckets : all[i] = buckets[j]
  BY <1>1, <1>2
<1>4. Touched(b, t) = IF Len(all) > MaxKeys THEN Tail(all) ELSE all
  BY DEF Touched, others, new
<1> HIDE DEF all
<1>5. CASE Len(all) > MaxKeys
  <2>1. Len(all) \in Nat /\ Len(all) > 0
    BY <1>3, <1>5, DetectionAssumption
  <2>2. /\ Tail(all) \in Seq(BucketRecord) /\ Len(Tail(all)) = Len(all) - 1
        /\ \A i \in 1..(Len(all) - 1) : Tail(all)[i] = all[i + 1] /\ i + 1 \in DOMAIN all
    BY <1>3, <2>1
  <2>3. DOMAIN Tail(all) = 1..(Len(all) - 1)
    BY <2>1, <2>2
  <2>4. ASSUME NEW i \in DOMAIN Tail(all), NEW j \in DOMAIN Tail(all),
               Tail(all)[i].key = Tail(all)[j].key
        PROVE  i = j
    <3>1. i + 1 = j + 1
      BY <1>3, <2>2, <2>3, <2>4
    <3> QED
      BY <2>1, <2>3, <3>1
  <2>5. \A i \in DOMAIN Tail(all) :
           \/ Tail(all)[i] = new
           \/ Tail(all)[i].key # h /\ \E j \in DOMAIN buckets : Tail(all)[i] = buckets[j]
    BY <1>3, <2>2, <2>3
  <2> QED
    BY <1>1, <1>4, <1>5, <2>2, <2>4, <2>5 DEF new
<1>6. CASE ~ (Len(all) > MaxKeys)
  BY <1>1, <1>3, <1>4, <1>6 DEF new
<1> QED
  BY <1>5, <1>6
-----------------------------------------------------------------------------
(***************************************************************************)
(* The account of a bucket.                                                *)
(***************************************************************************)

\* What one more grant does to the sets of grants.
LEMMA GrantAdded ==
  ASSUME grants \in Seq(Grant), NEW g \in Grant, grants' = Append(grants, g),
         NEW key, NEW born, NEW from \in Nat, NEW to \in Nat
  PROVE  /\ Used(key, from, to)' =
              IF g.key = key /\ g.time \in from..to
              THEN Used(key, from, to) \cup {Len(grants) + 1} ELSE Used(key, from, to)
         /\ GrantsOf(born, key, from, to)' =
              IF g.key = key /\ g.born = born /\ from <= g.time /\ g.time <= to
              THEN GrantsOf(born, key, from, to) \cup {Len(grants) + 1}
              ELSE GrantsOf(born, key, from, to)
<1>1. /\ Len(grants) \in Nat /\ DOMAIN grants = 1..Len(grants)
      /\ DOMAIN grants' = 1..(Len(grants) + 1)
      /\ grants'[Len(grants) + 1] = g
      /\ \A i \in 1..Len(grants) : grants'[i] = grants[i]
  OBVIOUS
<1>2. \A i \in 1..(Len(grants) + 1) : i \in 1..Len(grants) \/ i = Len(grants) + 1
  BY <1>1
<1> QED
  BY <1>1, <1>2 DEF Used, GrantsOf

\* The sets of grants are sets of positions.
LEMMA GrantSets ==
  ASSUME grants \in Seq(Grant), NEW key, NEW born, NEW from, NEW to
  PROVE  /\ Len(grants) \in Nat
         /\ Used(key, from, to) \subseteq 1..Len(grants)
         /\ GrantsOf(born, key, from, to) \subseteq 1..Len(grants)
         /\ Cardinality(Used(key, from, to)) \in Nat
         /\ Cardinality(GrantsOf(born, key, from, to)) \in Nat
<1>1. /\ Len(grants) \in Nat
      /\ Used(key, from, to) \subseteq 1..Len(grants)
      /\ GrantsOf(born, key, from, to) \subseteq 1..Len(grants)
  BY DEF Used, GrantsOf
<1> QED
  BY <1>1, PositionsFinite

\* A refill, or the passing of time on a full bucket, keeps the account.
LEMMA RefreshOK ==
  ASSUME DetectionInv, NEW b \in BucketRecord, BucketOK(b),
         NEW c \in BucketRecord, c.key = b.key, c.born = b.born, c.last = clock,
         c.tokens = Refilled(b)
  PROVE  BucketOK(c)
<1>0. /\ clock \in Nat /\ Burst \in Nat /\ grants \in Seq(Grant)
      /\ b.last \in Nat /\ b.tokens \in Nat /\ b.last <= clock
      /\ \A i \in DOMAIN grants : grants[i].time \in Nat
  <2>1. clock \in Nat /\ Burst \in Nat /\ grants \in Seq(Grant)
    BY DetectionAssumption DEF DetectionInv, Types
  <2>2. b.last \in Nat /\ b.tokens \in Nat /\ b.last <= clock
    BY DEF BucketOK, BucketRecord
  <2>3. \A i \in DOMAIN grants : grants[i] \in Grant
    BY <2>1
  <2>4. \A i \in DOMAIN grants : grants[i].time \in Nat
    BY <2>3 DEF Grant
  <2> QED
    BY <2>1, <2>2, <2>4
<1>1. /\ c.tokens \in Nat /\ c.tokens <= Burst /\ c.tokens <= b.tokens + (clock - b.last)
      /\ c.tokens = Burst \/ c.tokens = b.tokens + (clock - b.last)
  BY <1>0, RefillFacts
<1>2. Spent(c)
  <2>1. CASE c.tokens = Burst
    <3>1. Cardinality(Used(c.key, clock, clock)) \in Nat
      BY <1>0, GrantSets
    <3>2. clock \in 0..c.last
      BY <1>0
    <3> QED
      BY <1>0, <2>1, <3>1, <3>2 DEF Spent
  <2>2. CASE c.tokens = b.tokens + (clock - b.last)
    <3>1. PICK from \in 0..b.last :
            Cardinality(Used(b.key, from, b.last)) + b.tokens >= Burst + (b.last - from)
      BY DEF BucketOK, Spent
    <3>2. Used(b.key, from, b.last) \subseteq Used(b.key, from, clock)
      BY <1>0 DEF Used
    <3>3. /\ Cardinality(Used(b.key, from, b.last)) \in Nat
          /\ Cardinality(Used(b.key, from, clock)) \in Nat
          /\ Used(b.key, from, clock) \subseteq 1..Len(grants) /\ Len(grants) \in Nat
      BY <1>0, GrantSets
    <3>4. Cardinality(Used(b.key, from, b.last)) <= Cardinality(Used(b.key, from, clock))
      BY <3>2, <3>3, PositionsMonotone
    <3>5. from \in 0..c.last
      BY <1>0
    <3>6. Cardinality(Used(c.key, from, c.last)) + c.tokens >= Burst + (c.last - from)
      BY <1>0, <2>2, <3>1, <3>3, <3>4, SMTT(30)
    <3> QED
      BY <3>5, <3>6 DEF Spent
  <2> QED
    BY <1>1, <2>1, <2>2
<1>3. Earned(c)
  <2>1. \A i \in DOMAIN grants :
          grants[i].key = b.key /\ grants[i].born = b.born => grants[i].time <= b.last
    BY DEF BucketOK, Earned
  <2>2. \A i \in DOMAIN grants :
          grants[i].key = c.key /\ grants[i].born = c.born => grants[i].time <= c.last
    BY <1>0, <2>1
  <2>3. ASSUME NEW from \in 0..c.last
        PROVE  Cardinality(GrantsOf(c.born, c.key, from, c.last)) + c.tokens
                 <= Burst + (c.last - from)
    <3>1. CASE from <= b.last
      <4>1. GrantsOf(c.born, c.key, from, c.last) = GrantsOf(b.born, b.key, from, b.last)
        BY <1>0, <2>1 DEF GrantsOf
      <4>2. Cardinality(GrantsOf(b.born, b.key, from, b.last)) + b.tokens
              <= Burst + (b.last - from)
        BY <1>0, <3>1 DEF BucketOK, Earned
      <4>3. Cardinality(GrantsOf(b.born, b.key, from, b.last)) \in Nat
        BY <1>0, GrantSets
      <4> QED
        BY <1>0, <1>1, <4>1, <4>2, <4>3, SMTT(30)
    <3>2. CASE ~ (from <= b.last)
      <4>1. GrantsOf(c.born, c.key, from, c.last) = {}
        BY <1>0, <2>1, <3>2 DEF GrantsOf
      <4>2. Cardinality(GrantsOf(c.born, c.key, from, c.last)) = 0
        BY <4>1, FS_EmptySet
      <4> QED
        BY <1>0, <1>1, <4>2
    <3> QED
      BY <3>1, <3>2
  <2> QED
    BY <2>2, <2>3 DEF Earned
<1> QED
  BY <1>0, <1>1, <1>2, <1>3 DEF BucketOK

\* A request let through costs a token and is one more grant.
LEMMA ChargedOK ==
  ASSUME DetectionInv, NEW c \in BucketRecord, BucketOK(c), c.last = clock, c.tokens >= 1,
         NEW d \in BucketRecord, d.key = c.key, d.born = c.born, d.last = c.last,
         d.tokens = c.tokens - 1,
         NEW g \in Grant, g.key = c.key, g.born = c.born, g.time = clock,
         grants' = Append(grants, g), clock' = clock
  PROVE  BucketOK(d)'
<1>0. /\ clock \in Nat /\ Burst \in Nat /\ grants \in Seq(Grant) /\ Len(grants) \in Nat
      /\ c.tokens \in Nat /\ c.tokens <= Burst /\ c.born <= Len(grants) /\ c.born \in Nat
      /\ Len(grants') = Len(grants) + 1
  BY DetectionAssumption DEF DetectionInv, Types, BucketOK, BucketRecord
<1>1. Spent(d)'
  <2>1. PICK from \in 0..c.last :
          Cardinality(Used(c.key, from, c.last)) + c.tokens >= Burst + (c.last - from)
    BY DEF BucketOK, Spent
  <2>2. from \in Nat /\ g.time \in from..c.last /\ c.last \in Nat
    BY <1>0
  <2>3. Used(c.key, from, c.last)' = Used(c.key, from, c.last) \cup {Len(grants) + 1}
    BY <1>0, <2>2, GrantAdded
  <2>4. /\ Used(c.key, from, c.last) \subseteq 1..Len(grants)
        /\ Cardinality(Used(c.key, from, c.last)) \in Nat
    BY <1>0, GrantSets
  <2>5. Cardinality(Used(c.key, from, c.last)') = Cardinality(Used(c.key, from, c.last)) + 1
    BY <1>0, <2>3, <2>4, PositionAdded
  <2>6. Cardinality(Used(d.key, from, d.last)') + d.tokens >= Burst + (d.last - from)
    BY <1>0, <2>1, <2>2, <2>4, <2>5
  <2> QED
    BY <2>6 DEF Spent
<1>2. Earned(d)'
  <2>1. \A i \in DOMAIN grants' :
          grants'[i].key = d.key /\ grants'[i].born = d.born => grants'[i].time <= d.last
    BY <1>0 DEF DetectionInv, LimiterOK
  <2>2. ASSUME NEW from \in 0..d.last
        PROVE  Cardinality(GrantsOf(d.born, d.key, from, d.last)') + d.tokens
                 <= Burst + (d.last - from)
    <3>1. from \in Nat /\ from <= g.time /\ g.time <= c.last /\ c.last \in Nat
      BY <1>0
    <3>2. GrantsOf(c.born, c.key, from, c.last)'
            = GrantsOf(c.born, c.key, from, c.last) \cup {Len(grants) + 1}
      BY <1>0, <3>1, GrantAdded
    <3>3. /\ GrantsOf(c.born, c.key, from, c.last) \subseteq 1..Len(grants)
          /\ Cardinality(GrantsOf(c.born, c.key, from, c.last)) \in Nat
      BY <1>0, GrantSets
    <3>4. Cardinality(GrantsOf(c.born, c.key, from, c.last)')
            = Cardinality(GrantsOf(c.born, c.key, from, c.last)) + 1
      BY <1>0, <3>2, <3>3, PositionAdded
    <3>5. Cardinality(GrantsOf(c.born, c.key, from, c.last)) + c.tokens
            <= Burst + (c.last - from)
      BY DEF BucketOK, Earned
    <3> QED
      BY <1>0, <3>1, <3>3, <3>4, <3>5
  <2> QED
    BY <2>1, <2>2 DEF Earned
<1> QED
  BY <1>0, <1>1, <1>2 DEF BucketOK

\* Without a new grant every bucket stays in order.
LEMMA BucketUntouched ==
  ASSUME DetectionInv, NEW b \in BucketRecord, BucketOK(b), clock' \in Nat, clock <= clock',
         grants' = grants
  PROVE  BucketOK(b)'
<1>1. (\A key, from, to : Used(key, from, to)' = Used(key, from, to))
      /\ \A born, key, from, to :
           GrantsOf(born, key, from, to)' = GrantsOf(born, key, from, to)
  BY DEF Used, GrantsOf
<1>2. Spent(b)' /\ Earned(b)'
  BY <1>1 DEF BucketOK, Spent, Earned
<1>3. b.last \in Nat /\ clock \in Nat
  BY DEF DetectionInv, Types, BucketRecord
<1> QED
  BY <1>2, <1>3 DEF BucketOK

\* A grant concerns the bucket of its own host only.
LEMMA OtherBucketKept ==
  ASSUME DetectionInv, NEW b \in BucketRecord, BucketOK(b), clock' = clock,
         NEW g \in Grant, g.key # b.key, grants' = Append(grants, g)
  PROVE  BucketOK(b)'
<1>0. /\ clock \in Nat /\ grants \in Seq(Grant) /\ Len(grants) \in Nat /\ b.last \in Nat
      /\ b.born \in Nat
  BY DEF DetectionInv, Types, BucketRecord
<1>1. /\ \A from, to : Used(b.key, from, to)' = Used(b.key, from, to)
      /\ \A from, to : GrantsOf(b.born, b.key, from, to)' = GrantsOf(b.born, b.key, from, to)
  <2>1. /\ DOMAIN grants = 1..Len(grants) /\ DOMAIN grants' = 1..(Len(grants) + 1)
        /\ grants'[Len(grants) + 1].key # b.key
        /\ \A i \in 1..Len(grants) : grants'[i] = grants[i]
        /\ \A i \in 1..(Len(grants) + 1) : i \in 1..Len(grants) \/ i = Len(grants) + 1
        /\ 1..Len(grants) \subseteq 1..(Len(grants) + 1)
    BY <1>0
  <2> QED
    BY <2>1 DEF Used, GrantsOf
<1>2. Spent(b)'
  BY <1>1 DEF BucketOK, Spent
<1>3. \A i \in DOMAIN grants' :
        grants'[i].key = b.key /\ grants'[i].born = b.born => grants'[i].time <= b.last
  BY <1>0 DEF BucketOK, Earned
<1>4. Earned(b)'
  BY <1>1, <1>3 DEF BucketOK, Earned
<1> QED
  BY <1>0, <1>2, <1>4 DEF BucketOK
-----------------------------------------------------------------------------
(***************************************************************************)
(* The table of the limiter, the history of grants and the beacons.        *)
(***************************************************************************)

\* The table after a request of h, given what the step does to each bucket.
LEMMA TableKept ==
  ASSUME DetectionInv, NEW h \in Hosts, NEW b \in BucketRecord, b.key = h, NEW t \in Nat,
         NEW new, new = [b EXCEPT !.tokens = t, !.last = clock], BucketOK(new)',
         \A c \in BucketRecord : c.key # h /\ BucketOK(c) => BucketOK(c)',
         buckets' = Touched(b, t)
  PROVE  /\ buckets' \in Seq(BucketRecord)
         /\ \A i, j \in DOMAIN buckets' : buckets'[i].key = buckets'[j].key => i = j
         /\ \A i \in DOMAIN buckets' : BucketOK(buckets[i])'
<1>1. /\ Touched(b, t) \in Seq(BucketRecord)
      /\ \A i, j \in DOMAIN Touched(b, t) :
           Touched(b, t)[i].key = Touched(b, t)[j].key => i = j
      /\ \A i \in DOMAIN Touched(b, t) :
           \/ Touched(b, t)[i] = new
           \/ Touched(b, t)[i].key # h
              /\ \E j \in DOMAIN buckets : Touched(b, t)[i] = buckets[j]
  BY TouchedFacts, ZenonT(30)
<1>2. /\ buckets' \in Seq(BucketRecord)
      /\ \A i, j \in DOMAIN buckets' : buckets'[i].key = buckets'[j].key => i = j
      /\ \A i \in DOMAIN buckets' :
           \/ buckets'[i] = new
           \/ buckets'[i].key # h /\ \E j \in DOMAIN buckets : buckets'[i] = buckets[j]
  BY <1>1
<1>3. buckets \in Seq(BucketRecord) /\ \A j \in DOMAIN buckets : BucketOK(buckets[j])
  BY DEF DetectionInv, Types, LimiterOK
<1>4. ASSUME NEW i \in DOMAIN buckets'
      PROVE  BucketOK(buckets[i])'
  <2>1. PICK c \in BucketRecord : c = buckets'[i] /\ (c = new \/ (c.key # h /\ BucketOK(c)))
    BY <1>2, <1>3
  <2>2. BucketOK(c)'
    BY <2>1
  <2>3. c = buckets'[i]
    BY <2>1
  <2>4. Spent(c)' => Spent(buckets[i])'
    BY <2>3, Zenon DEF Spent, Used
  <2>5. Earned(c)' => Earned(buckets[i])'
    BY <2>3, Zenon DEF Earned, GrantsOf
  <2> QED
    BY <2>2, <2>3, <2>4, <2>5, Zenon DEF BucketOK
<1> QED
  BY <1>2, <1>4

\* What is known of every grant.
LEMMA GrantFacts ==
  ASSUME DetectionInv
  PROVE  /\ clock \in Nat /\ grants \in Seq(Grant) /\ Len(grants) \in Nat
         /\ DOMAIN grants = 1..Len(grants)
         /\ \A i \in DOMAIN grants :
              /\ grants[i].key \in Hosts /\ grants[i].born \in Nat /\ grants[i].time \in Nat
              /\ grants[i].time <= clock /\ grants[i].born < i
<1>1. clock \in Nat /\ grants \in Seq(Grant)
  BY DEF DetectionInv, Types
<1>2. \A i \in DOMAIN grants : grants[i] \in Grant
  BY <1>1
<1> QED
  BY <1>1, <1>2 DEF DetectionInv, LimiterOK, Grant

\* A grant from a bucket that is in order afterwards keeps the bound on the
\* requests let through: the spans that end now are those Earned speaks of, and
\* the others end before the new grant.
LEMMA BoundKept ==
  ASSUME DetectionInv, NEW d \in BucketRecord, BucketOK(d)', d.last = clock,
         NEW g \in Grant, g.key = d.key, g.born = d.born, g.time = clock,
         grants' = Append(grants, g)
  PROVE  AdmissionsBounded'
<1>0. Burst \in Nat /\ d.tokens \in Nat
  BY DetectionAssumption DEF BucketRecord
<1>1. /\ clock \in Nat /\ grants \in Seq(Grant) /\ Len(grants) \in Nat
      /\ DOMAIN grants = 1..Len(grants) /\ grants' \in Seq(Grant)
      /\ DOMAIN grants' = 1..(Len(grants) + 1)
      /\ grants'[Len(grants) + 1] = g
      /\ \A i \in 1..Len(grants) : grants'[i] = grants[i]
  BY GrantFacts
<1>2. \A i \in 1..(Len(grants) + 1) : i \in 1..Len(grants) \/ i = Len(grants) + 1
  BY <1>1
<1>3. ASSUME NEW i \in DOMAIN grants', NEW j \in DOMAIN grants',
             grants'[i].key = grants'[j].key, grants'[i].born = grants'[j].born,
             grants'[i].time <= grants'[j].time
      PROVE  Cardinality(GrantsOf(grants[i].born, grants[i].key, grants[i].time,
                                  grants[j].time)')
               <= Burst + (grants'[j].time - grants'[i].time)
  <2>0. PICK key \in Hosts, born \in Nat, from \in Nat, to \in Nat :
          /\ key = grants'[i].key /\ born = grants'[i].born
          /\ from = grants'[i].time /\ to = grants'[j].time
    <3>1. grants'[i] \in Grant /\ grants'[j] \in Grant
      BY <1>1, <1>3
    <3> QED
      BY <3>1 DEF Grant
  <2>1. from <= to /\ to <= clock
    <3>1. \A k \in DOMAIN grants' : grants'[k].time <= clock
      BY <1>1, <1>2, GrantFacts
    <3> QED
      BY <1>3, <2>0, <3>1
  <2>2. CASE key = d.key /\ born = d.born /\ to = clock
    <3>1. Cardinality(GrantsOf(d.born, d.key, from, d.last)') + d.tokens
            <= Burst + (d.last - from)
      BY <1>1, <2>1, <2>2 DEF BucketOK, Earned
    <3>2. Cardinality(GrantsOf(d.born, d.key, from, d.last)') \in Nat
      <4>1. GrantsOf(d.born, d.key, from, d.last)' \subseteq 1..(Len(grants) + 1)
        BY <1>1 DEF GrantsOf
      <4> QED
        BY <1>1, <4>1, PositionsFinite
    <3>3. Cardinality(GrantsOf(born, key, from, to)') <= Burst + (to - from)
      BY <1>0, <1>1, <2>2, <3>1, <3>2
    <3> QED
      BY <2>0, <3>3 DEF GrantsOf
  <2>3. CASE ~ (key = d.key /\ born = d.born /\ to = clock)
    <3>1. GrantsOf(born, key, from, to)' = GrantsOf(born, key, from, to)
      <4>1. ~ (g.key = key /\ g.born = born /\ from <= g.time /\ g.time <= to)
        BY <1>1, <2>1, <2>3
      <4>2. \A k \in DOMAIN grants' :
              k \in DOMAIN grants \/ (k = Len(grants) + 1 /\ grants'[k] = g)
        BY <1>1, <1>2
      <4> QED
        BY <1>1, <4>1, <4>2 DEF GrantsOf
    <3>2. i \in DOMAIN grants /\ j \in DOMAIN grants
      BY <1>1, <1>2, <1>3, <2>0, <2>1, <2>3
    <3>3. /\ grants[i].key = key /\ grants[i].born = born /\ grants[i].time = from
          /\ grants[j].key = key /\ grants[j].born = born /\ grants[j].time = to
      BY <1>1, <1>3, <2>0, <3>2
    <3>4. Cardinality(GrantsOf(born, key, from, to)) <= Burst + (to - from)
      BY <2>1, <3>2, <3>3 DEF DetectionInv, AdmissionsBounded
    <3> QED
      BY <2>0, <3>1, <3>4 DEF GrantsOf
  <2> QED
    BY <2>2, <2>3
<1> QED
  BY <1>3 DEF AdmissionsBounded

\* Nothing happens in the limiter.
LEMMA LimiterIdle ==
  ASSUME DetectionInv, UNCHANGED <<clock, buckets, grants>>
  PROVE  LimiterOK' /\ AdmissionsBounded'
<1>1. LimiterOK'
  <2>1. clock' = clock /\ buckets' = buckets /\ grants' = grants
    OBVIOUS
  <2>2. ASSUME NEW b PROVE BucketOK(b)' <=> BucketOK(b)
    BY <2>1 DEF BucketOK, Spent, Earned, Used, GrantsOf
  <2>3. ASSUME NEW i \in DOMAIN buckets PROVE BucketOK(buckets[i])'
    BY <2>1, <2>2 DEF DetectionInv, LimiterOK
  <2> QED
    BY <2>1, <2>3 DEF DetectionInv, LimiterOK
<1>2. AdmissionsBounded'
  BY DEF DetectionInv, AdmissionsBounded, GrantsOf
<1> QED
  BY <1>1, <1>2

\* What RefusedOnlyIfSpent says of one beacon.
FairlyRefused(b) ==
  b.at = "limited" =>
    \E from \in 0..b.time : Cardinality(Used(b.host, from, b.time)) >= Burst + (b.time - from)

LEMMA EachBeacon == RefusedOnlyIfSpent <=> \A n \in DOMAIN beacons : FairlyRefused(beacons[n])
BY DEF RefusedOnlyIfSpent, FairlyRefused, Used

\* More grants do not spoil it.
LEMMA RefusalStays ==
  ASSUME DetectionInv, NEW b \in Beacon, FairlyRefused(b),
         grants' \in Seq(Grant), Len(grants) <= Len(grants'),
         \A i \in DOMAIN grants : grants'[i] = grants[i]
  PROVE  FairlyRefused(b)'
<1>1. ASSUME b.at = "limited"
      PROVE  \E from \in 0..b.time :
               Cardinality(Used(b.host, from, b.time)') >= Burst + (b.time - from)
  <2>1. PICK from \in 0..b.time :
          Cardinality(Used(b.host, from, b.time)) >= Burst + (b.time - from)
    BY <1>1 DEF FairlyRefused
  <2>2. /\ grants \in Seq(Grant) /\ Len(grants) \in Nat /\ Len(grants') \in Nat
        /\ DOMAIN grants = 1..Len(grants) /\ DOMAIN grants' = 1..Len(grants')
    BY GrantFacts
  <2>3. /\ Used(b.host, from, b.time) \subseteq Used(b.host, from, b.time)'
        /\ Used(b.host, from, b.time)' \subseteq 1..Len(grants')
    BY <2>2 DEF Used
  <2>4. /\ Cardinality(Used(b.host, from, b.time)) <= Cardinality(Used(b.host, from, b.time)')
        /\ Cardinality(Used(b.host, from, b.time)) \in Nat
        /\ Cardinality(Used(b.host, from, b.time)') \in Nat
    BY <2>2, <2>3, GrantSets, PositionsMonotone, PositionsFinite
  <2>5. b.time \in Nat /\ Burst \in Nat /\ from \in Nat
    BY DetectionAssumption DEF Beacon
  <2>6. Cardinality(Used(b.host, from, b.time)') >= Burst + (b.time - from)
    BY <2>1, <2>4, <2>5
  <2> QED
    BY <2>6
<1> QED
  BY <1>1 DEF FairlyRefused

LEMMA SameBeacon ==
  ASSUME NEW a, NEW n, beacons'[n] = a, FairlyRefused(a)'
  PROVE  FairlyRefused(beacons[n])'
BY DEF FairlyRefused, Used

\* No step after the arrival of a beacon makes it one that was refused.
LEMMA RefusalsSettled ==
  ASSUME DetectionInv, UNCHANGED grants, DOMAIN beacons' = DOMAIN beacons,
         \A n \in DOMAIN beacons : beacons'[n] = beacons[n] \/ beacons'[n].at # "limited"
  PROVE  RefusedOnlyIfSpent'
<1>1. \A key, from, to : Used(key, from, to)' = Used(key, from, to)
  BY DEF Used
<1>2. \A n \in DOMAIN beacons : FairlyRefused(beacons[n])
  BY EachBeacon DEF DetectionInv
<1>3. \A n \in DOMAIN beacons' : FairlyRefused(beacons[n])'
  BY <1>1, <1>2 DEF FairlyRefused
<1> QED
  BY <1>3 DEF RefusedOnlyIfSpent, FairlyRefused, Used

LEMMA BeaconArrives ==
  ASSUME DetectionInv, NEW a, beacons' = Append(beacons, a), FairlyRefused(a)',
         \A c \in Beacon : FairlyRefused(c) => FairlyRefused(c)'
  PROVE  RefusedOnlyIfSpent'
<1>0. beacons \in Seq(Beacon)
  BY DEF DetectionInv, Types
<1>1. ASSUME NEW n \in DOMAIN beacons'
      PROVE  FairlyRefused(beacons[n])'
  <2>1. CASE n \in DOMAIN beacons
    <3>1. PICK c \in Beacon : c = beacons[n] /\ c = beacons'[n]
      BY <1>0, <2>1
    <3>2. FairlyRefused(c)
      BY <2>1, <3>1, EachBeacon DEF DetectionInv
    <3>3. FairlyRefused(c)'
      BY <3>2
    <3> QED
      BY <3>1, <3>3, SameBeacon
  <2>2. CASE n = Len(beacons) + 1
    <3>1. beacons'[n] = a
      BY <1>0, <2>2
    <3> QED
      BY <3>1, SameBeacon
  <2> QED
    BY <1>0, <1>1, <2>1, <2>2
<1> QED
  BY <1>1 DEF RefusedOnlyIfSpent, FairlyRefused, Used
-----------------------------------------------------------------------------
(***************************************************************************)
(* Every action keeps the invariant.                                       *)
(***************************************************************************)
LEMMA DetectionInit == Init => DetectionInv
<1> SUFFICES ASSUME Init PROVE DetectionInv
  OBVIOUS
<1>1. /\ clock = 0 /\ since = 0 /\ buckets = << >> /\ grants = << >>
      /\ rows = << >> /\ beacons = << >> /\ crashes = 0
  BY DEF Init
<1>2. Types /\ LimiterOK
  BY <1>1 DEF Types, LimiterOK
<1>3. AdmissionsBounded /\ RefusedOnlyIfSpent /\ ExportsSkipNothing
  BY <1>1 DEF AdmissionsBounded, RefusedOnlyIfSpent, ExportsSkipNothing
<1> QED
  BY <1>2, <1>3 DEF DetectionInv

\* The limiter refuses: the bucket of the host is empty, and so the host has
\* spent its burst and the refill since the bucket was last full.
LEMMA RefusedStep ==
  ASSUME DetectionInv, NEW h \in Hosts, Arrive(h), ~ Allowed(Bucket(h))
  PROVE  DetectionInv'
<1>0. /\ clock \in Nat /\ Burst \in Nat /\ grants \in Seq(Grant) /\ rows \in Seq(Row)
      /\ crashes \in Nat
      /\ beacons \in Seq(Beacon) /\ since \in Nat
  BY DetectionAssumption DEF DetectionInv, Types
<1>1. PICK b \in BucketRecord : b = Bucket(h) /\ b.key = h /\ BucketOK(b)
  BY BucketFacts
<1>2. b.last <= clock
  BY <1>1 DEF BucketOK
<1>3. Refilled(b) = 0
  BY <1>0, <1>1, <1>2, RefillFacts DEF Allowed
<1>4. /\ buckets' = Touched(b, Refilled(b))
      /\ beacons' = Append(beacons, [host |-> h, at |-> "limited", time |-> clock, life |-> crashes])
      /\ UNCHANGED <<clock, table, grants, crashes>>
  BY <1>1 DEF Arrive, faults
<1>5. PICK new : new = [b EXCEPT !.tokens = 0, !.last = clock]
  OBVIOUS
<1>6. /\ new \in BucketRecord /\ new.key = b.key /\ new.born = b.born
      /\ new.last = clock /\ new.tokens = Refilled(b)
  BY <1>0, <1>3, <1>5 DEF BucketRecord
<1>7. BucketOK(new)
  BY <1>1, <1>6, RefreshOK
<1>8. \A c \in BucketRecord : BucketOK(c) => BucketOK(c)'
  BY <1>0, <1>4, BucketUntouched
<1>9. /\ buckets' \in Seq(BucketRecord)
      /\ \A i, j \in DOMAIN buckets' : buckets'[i].key = buckets'[j].key => i = j
      /\ \A i \in DOMAIN buckets' : BucketOK(buckets[i])'
  <2>1. BucketOK(new)' /\ buckets' = Touched(b, 0) /\ 0 \in Nat
    BY <1>3, <1>4, <1>6, <1>7, <1>8
  <2> QED
    BY <1>1, <1>5, <1>8, <2>1, TableKept
<1>10. Types' /\ LimiterOK'
  BY <1>0, <1>4, <1>9 DEF Types, LimiterOK, DetectionInv, Beacon, table
<1>11. AdmissionsBounded' /\ ExportsSkipNothing'
  BY <1>4 DEF DetectionInv, AdmissionsBounded, GrantsOf, ExportsSkipNothing, table
<1>12. RefusedOnlyIfSpent'
  <2>1. PICK from \in 0..clock :
          Cardinality(Used(h, from, clock)) + 0 >= Burst + (clock - from)
    BY <1>1, <1>3, <1>6, <1>7 DEF BucketOK, Spent
  <2>2. Cardinality(Used(h, from, clock)) \in Nat
    BY <1>0, GrantSets
  <2>3. Cardinality(Used(h, from, clock)) >= Burst + (clock - from)
    BY <1>0, <2>1, <2>2
  <2>4. PICK a : a = [host |-> h, at |-> "limited", time |-> clock, life |-> crashes]
    OBVIOUS
  <2>5. FairlyRefused(a)'
    BY <1>4, <2>3, <2>4 DEF FairlyRefused, Used
  <2>6. \A c \in Beacon : FairlyRefused(c) => FairlyRefused(c)'
    BY <1>0, <1>4, RefusalStays
  <2> QED
    BY <1>4, <2>4, <2>5, <2>6, BeaconArrives
<1> QED
  BY <1>10, <1>11, <1>12 DEF DetectionInv

\* The limiter lets a request through: one token less, one grant more.
LEMMA GrantedStep ==
  ASSUME DetectionInv, NEW h \in Hosts, Arrive(h), Allowed(Bucket(h))
  PROVE  DetectionInv'
<1>0. /\ clock \in Nat /\ Burst \in Nat /\ grants \in Seq(Grant) /\ rows \in Seq(Row)
      /\ crashes \in Nat
      /\ beacons \in Seq(Beacon) /\ since \in Nat /\ Len(grants) \in Nat
  BY DetectionAssumption DEF DetectionInv, Types
<1>1. PICK b \in BucketRecord : b = Bucket(h) /\ b.key = h /\ BucketOK(b)
  BY BucketFacts
<1>2. b.last <= clock
  BY <1>1 DEF BucketOK
<1>3. PICK t \in Nat : t = Refilled(b) - 1 /\ Refilled(b) = t + 1
  <2>1. Refilled(b) \in Nat /\ Refilled(b) >= 1
    BY <1>1, <1>2, RefillFacts DEF Allowed
  <2> QED
    BY <2>1
<1>4. PICK g : g = [key |-> h, born |-> b.born, time |-> clock]
  OBVIOUS
<1>5. PICK a : a = [host |-> h, at |-> IF Authorised(h) THEN "handler"
                                      ELSE "unauthorised", time |-> clock,
                    life |-> crashes]
  OBVIOUS
<1>6. /\ buckets' = Touched(b, t) /\ grants' = Append(grants, g)
      /\ beacons' = Append(beacons, a)
      /\ UNCHANGED <<clock, table, crashes>>
  BY <1>1, <1>3, <1>4, <1>5 DEF Arrive, faults
<1>7. PICK c : c = [b EXCEPT !.tokens = Refilled(b), !.last = clock]
  OBVIOUS
<1>8. PICK d : d = [b EXCEPT !.tokens = t, !.last = clock]
  OBVIOUS
<1>9. /\ c \in BucketRecord /\ c.key = b.key /\ c.born = b.born
      /\ c.last = clock /\ c.tokens = Refilled(b)
      /\ d \in BucketRecord /\ d.key = c.key /\ d.born = c.born
      /\ d.last = c.last /\ d.tokens = c.tokens - 1 /\ c.tokens >= 1
  <2>0. Refilled(b) \in Nat /\ t = Refilled(b) - 1 /\ Refilled(b) >= 1
    BY <1>3
  <2>1. /\ c \in BucketRecord /\ c.key = b.key /\ c.born = b.born
        /\ c.last = clock /\ c.tokens = Refilled(b)
    BY <1>0, <1>7, <2>0 DEF BucketRecord
  <2>2. /\ d \in BucketRecord /\ d.key = b.key /\ d.born = b.born
        /\ d.last = clock /\ d.tokens = t
    BY <1>0, <1>8 DEF BucketRecord
  <2> QED
    BY <2>0, <2>1, <2>2
<1>10. g \in Grant /\ g.key = c.key /\ g.born = c.born /\ g.time = clock
  BY <1>0, <1>1, <1>4, <1>9 DEF Grant, BucketRecord
<1>11. BucketOK(c)
  BY <1>1, <1>9, RefreshOK
<1>12. BucketOK(d)'
  BY <1>6, <1>9, <1>10, <1>11, ChargedOK
<1>13. ASSUME NEW k \in BucketRecord, k.key # h, BucketOK(k)
       PROVE  BucketOK(k)'
  BY <1>1, <1>6, <1>9, <1>10, <1>13, OtherBucketKept
<1>14. /\ buckets' \in Seq(BucketRecord)
       /\ \A i, j \in DOMAIN buckets' : buckets'[i].key = buckets'[j].key => i = j
       /\ \A i \in DOMAIN buckets' : BucketOK(buckets[i])'
  BY <1>1, <1>6, <1>8, <1>12, <1>13, TableKept
<1>15. /\ grants' \in Seq(Grant) /\ Len(grants') = Len(grants) + 1
       /\ \A i \in DOMAIN grants : grants'[i] = grants[i]
  BY <1>0, <1>6, <1>10
<1>16. \A i \in DOMAIN grants' : grants'[i].time <= clock /\ grants'[i].born < i
  <2>1. b.born <= Len(grants) /\ b.born \in Nat
    BY <1>1 DEF BucketOK, BucketRecord
  <2>2. grants'[Len(grants) + 1] = g /\ g.time <= clock /\ g.born < Len(grants) + 1
    BY <1>0, <1>4, <1>6, <2>1
  <2>3. \A i \in DOMAIN grants' : i \in DOMAIN grants \/ i = Len(grants) + 1
    BY <1>0, <1>15
  <2> QED
    BY <1>15, <2>2, <2>3, GrantFacts
<1>17. Types' /\ LimiterOK'
  <2>1. beacons' \in Seq(Beacon)
    <3>1. CASE Authorised(h)
      BY <1>0, <1>5, <1>6, <3>1 DEF Beacon
    <3>2. CASE ~ Authorised(h)
      BY <1>0, <1>5, <1>6, <3>2 DEF Beacon
    <3> QED
      BY <3>1, <3>2
  <2> QED
    BY <1>0, <1>6, <1>14, <1>15, <1>16, <2>1 DEF Types, LimiterOK, table
<1>18. AdmissionsBounded'
  BY <1>6, <1>9, <1>10, <1>12, BoundKept
<1>19. ExportsSkipNothing'
  BY <1>6 DEF DetectionInv, ExportsSkipNothing, table
<1>20. RefusedOnlyIfSpent'
  <2>1. FairlyRefused(a)'
    BY <1>5 DEF FairlyRefused
  <2>2. \A k \in Beacon : FairlyRefused(k) => FairlyRefused(k)'
    BY <1>0, <1>15, RefusalStays
  <2> QED
    BY <1>6, <2>1, <2>2, BeaconArrives
<1> QED
  BY <1>17, <1>18, <1>19, <1>20 DEF DetectionInv

\* A handler ends: its beacon is recorded, or failed.
LEMMA BeaconMoves ==
  ASSUME DetectionInv, NEW n \in DOMAIN beacons, NEW at \in {"recorded", "failed"},
         beacons' = [beacons EXCEPT ![n].at = at]
  PROVE  /\ beacons' \in Seq(Beacon) /\ DOMAIN beacons' = DOMAIN beacons
         /\ \A m \in DOMAIN beacons : beacons'[m] = beacons[m] \/ beacons'[m].at # "limited"
<1>0. beacons \in Seq(Beacon) /\ n \in 1..Len(beacons) /\ beacons[n] \in Beacon
  BY DEF DetectionInv, Types
<1> DEFINE e == [beacons[n] EXCEPT !.at = at]
<1>1. e \in Beacon /\ e.at # "limited" /\ beacons' = [beacons EXCEPT ![n] = e]
  BY <1>0 DEF Beacon
<1> HIDE DEF e
<1>2. /\ beacons' \in Seq(Beacon) /\ Len(beacons') = Len(beacons)
      /\ \A j \in 1..Len(beacons) : beacons'[j] = IF j = n THEN e ELSE beacons[j]
  BY <1>0, <1>1, ExceptSeq
<1> QED
  BY <1>0, <1>1, <1>2

\* A row is committed: its beacon is recorded, and a row older than the last
\* export is late.
LEMMA CommitStep ==
  ASSUME DetectionInv, NEW n \in DOMAIN beacons, Commit(n)
  PROVE  DetectionInv'
<1>0. /\ clock \in Nat /\ since \in Nat /\ grants \in Seq(Grant) /\ rows \in Seq(Row)
      /\ crashes \in Nat
      /\ beacons \in Seq(Beacon) /\ buckets \in Seq(BucketRecord)
  BY DEF DetectionInv, Types
<1>1. PICK row : row = [id |-> n, time |-> beacons[n].time]
  OBVIOUS
<1>2. /\ rows' = Append(rows, row)
      /\ beacons' = [beacons EXCEPT ![n].at = "recorded"]
      /\ late' = IF row.time < since THEN late \cup {n} ELSE late
      /\ UNCHANGED <<clock, buckets, exported, since, grants, crashes>>
  BY <1>1 DEF Commit, faults
<1>3. row \in Row /\ row.id = n
  <2>1. beacons[n] \in Beacon /\ n \in Nat
    BY <1>0
  <2> QED
    BY <1>1, <2>1 DEF Beacon, Row
<1>4. /\ rows' \in Seq(Row) /\ rows'[Len(rows) + 1] = row
      /\ Len(rows) + 1 \in DOMAIN rows'
      /\ \A i \in DOMAIN rows : i \in DOMAIN rows' /\ rows'[i] = rows[i]
      /\ \A i \in DOMAIN rows' : i \in DOMAIN rows \/ i = Len(rows) + 1
  BY <1>0, <1>2, <1>3
<1>5. /\ beacons' \in Seq(Beacon) /\ DOMAIN beacons' = DOMAIN beacons
      /\ \A m \in DOMAIN beacons : beacons'[m] = beacons[m] \/ beacons'[m].at # "limited"
  BY <1>2, BeaconMoves
<1>6. Types' /\ LimiterOK' /\ AdmissionsBounded'
  <2>1. Types'
    BY <1>0, <1>2, <1>4, <1>5 DEF Types
  <2>2. LimiterOK' /\ AdmissionsBounded'
    BY <1>2, LimiterIdle
  <2> QED
    BY <2>1, <2>2
<1>7. ExportsSkipNothing'
  <2>1. ASSUME NEW i \in DOMAIN rows'
        PROVE  rows'[i].id \in exported' \/ rows'[i].time >= since' \/ rows'[i].id \in late'
    <3>1. CASE i \in DOMAIN rows
      BY <1>2, <1>4, <3>1 DEF DetectionInv, ExportsSkipNothing
    <3>2. CASE i = Len(rows) + 1
      <4>1. rows'[i] = row /\ row.time \in Nat
        BY <1>3, <1>4, <3>2 DEF Row
      <4> QED
        BY <1>0, <1>2, <1>3, <4>1
    <3> QED
      BY <1>4, <3>1, <3>2
  <2> QED
    BY <2>1 DEF ExportsSkipNothing
<1>8. RefusedOnlyIfSpent'
  BY <1>2, <1>5, RefusalsSettled
<1> QED
  BY <1>6, <1>7, <1>8 DEF DetectionInv

\* A handler raises: its beacon has failed, and nothing else changes.
LEMMA CommitFailsStep ==
  ASSUME DetectionInv, NEW n \in DOMAIN beacons, CommitFails(n)
  PROVE  DetectionInv'
<1>1. /\ beacons' = [beacons EXCEPT ![n].at = "failed"]
      /\ UNCHANGED <<clock, buckets, rows, exported, since, late, grants, crashes>>
  BY DEF CommitFails, table
<1>2. /\ beacons' \in Seq(Beacon) /\ DOMAIN beacons' = DOMAIN beacons
      /\ \A m \in DOMAIN beacons : beacons'[m] = beacons[m] \/ beacons'[m].at # "limited"
  BY <1>1, BeaconMoves
<1>3. Types' /\ ExportsSkipNothing'
  BY <1>1, <1>2 DEF DetectionInv, Types, ExportsSkipNothing
<1>4. LimiterOK' /\ AdmissionsBounded'
  BY <1>1, LimiterIdle
<1>5. RefusedOnlyIfSpent'
  BY <1>1, <1>2, RefusalsSettled
<1> QED
  BY <1>3, <1>4, <1>5 DEF DetectionInv

\* The rows before an exported one are exported with it: each has fewer rows
\* before it.
LEMMA BatchClosed ==
  ASSUME DetectionInv, NEW last \in Batch, NEW r \in NewEvents, rows[r].time < rows[last].time
  PROVE  r \in Batch
<1>0. /\ rows \in Seq(Row) /\ Len(rows) \in Nat /\ DOMAIN rows = 1..Len(rows)
      /\ \A i \in DOMAIN rows : rows[i].time \in Nat
  <2>1. rows \in Seq(Row)
    BY DEF DetectionInv, Types
  <2>2. \A i \in DOMAIN rows : rows[i] \in Row
    BY <2>1
  <2> QED
    BY <2>1, <2>2 DEF Row
<1> DEFINE S == {i \in NewEvents : Before(i, r)}
           T == {i \in NewEvents : Before(i, last)}
<1>1. NewEvents \subseteq DOMAIN rows /\ last \in NewEvents
  BY DEF NewEvents, Batch
<1>2. S \subseteq T
  BY <1>0, <1>1 DEF Before
<1>3. T \subseteq 1..Len(rows)
  BY <1>0, <1>1
<1>4. Cardinality(T) < Limit
  BY DEF Batch
<1> HIDE DEF S, T
<1>5. Cardinality(S) <= Cardinality(T) /\ Cardinality(S) \in Nat /\ Cardinality(T) \in Nat
  <2>1. S \subseteq 1..Len(rows)
    BY <1>2, <1>3
  <2> QED
    BY <1>0, <1>2, <1>3, <2>1, PositionsMonotone, PositionsFinite
<1>6. Cardinality(S) < Limit
  BY <1>4, <1>5, DetectionAssumption
<1> QED
  BY <1>6 DEF Batch, S

LEMMA ExportStep ==
  ASSUME DetectionInv, Export
  PROVE  DetectionInv'
<1>0. rows \in Seq(Row) /\ since \in Nat
  BY DEF DetectionInv, Types
<1>1. PICK last \in Batch : since' = rows[last].time
  BY DEF Export
<1>2. exported' = Delivered /\ UNCHANGED <<clock, buckets, beacons, rows, late, grants, crashes>>
  BY DEF Export, faults
<1>3. \A i \in DOMAIN rows : rows[i].time \in Nat
  <2>1. \A i \in DOMAIN rows : rows[i] \in Row
    BY <1>0
  <2> QED
    BY <2>1 DEF Row
<1>4. last \in DOMAIN rows
  BY DEF Batch, NewEvents
<1>5. Types'
  BY <1>1, <1>2, <1>3, <1>4 DEF DetectionInv, Types
<1>6. LimiterOK' /\ AdmissionsBounded'
  BY <1>2, LimiterIdle
<1>7. RefusedOnlyIfSpent'
  BY <1>2, RefusalsSettled
<1>8. ExportsSkipNothing'
  <2>1. ASSUME NEW r \in DOMAIN rows
        PROVE  rows[r].id \in exported' \/ rows[r].time >= since' \/ rows[r].id \in late
    <3>1. CASE rows[r].time >= since
      <4>1. CASE rows[r].time < rows[last].time
        <5>1. r \in NewEvents
          BY <3>1 DEF NewEvents
        <5>2. r \in Batch
          BY <4>1, <5>1, BatchClosed
        <5> QED
          BY <1>2, <5>2 DEF Delivered
      <4>2. CASE ~ (rows[r].time < rows[last].time)
        BY <1>1, <1>3, <1>4, <4>2
      <4> QED
        BY <4>1, <4>2
    <3>2. CASE ~ (rows[r].time >= since)
      BY <1>2, <3>2 DEF DetectionInv, ExportsSkipNothing, Delivered
    <3> QED
      BY <3>1, <3>2
  <2> QED
    BY <1>2, <2>1 DEF ExportsSkipNothing
<1> QED
  BY <1>5, <1>6, <1>7, <1>8 DEF DetectionInv

LEMMA ExportUnansweredStep ==
  ASSUME DetectionInv, ExportUnanswered
  PROVE  DetectionInv'
<1>1. /\ exported \subseteq exported'
      /\ UNCHANGED <<clock, buckets, beacons, rows, since, late, grants, crashes>>
  BY DEF ExportUnanswered, faults, Delivered
<1>2. Types' /\ ExportsSkipNothing' /\ RefusedOnlyIfSpent'
  BY <1>1, RefusalsSettled DEF DetectionInv, Types, ExportsSkipNothing
<1>3. LimiterOK' /\ AdmissionsBounded'
  BY <1>1, LimiterIdle
<1> QED
  BY <1>2, <1>3 DEF DetectionInv

\* The registry dies: the buckets are gone, the handlers' beacons are lost.
LEMMA DieStep ==
  ASSUME DetectionInv, Die
  PROVE  DetectionInv'
<1>0. beacons \in Seq(Beacon) /\ DOMAIN beacons = 1..Len(beacons) /\ Len(beacons) \in Nat
  BY DEF DetectionInv, Types
<1>1. /\ buckets' = << >> /\ UNCHANGED <<clock, rows, exported, since, late, grants>>
      /\ crashes' = crashes + 1
      /\ beacons' = [n \in DOMAIN beacons |->
                       IF beacons[n].at = "handler" THEN [beacons[n] EXCEPT !.at = "lost"]
                       ELSE beacons[n]]
  BY DEF Die, table
<1>2. beacons' \in Seq(Beacon)
  <2>1. \A n \in DOMAIN beacons : beacons[n] \in Beacon
    BY <1>0
  <2>2. \A n \in DOMAIN beacons : [beacons[n] EXCEPT !.at = "lost"] \in Beacon
    BY <2>1 DEF Beacon
  <2>3. beacons' \in [1..Len(beacons) -> Beacon]
    BY <1>0, <1>1, <2>1, <2>2
  <2> QED
    BY <1>0, <2>3, SeqDef
<1>3. Types' /\ LimiterOK'
  BY <1>1, <1>2 DEF DetectionInv, Types, LimiterOK
<1>4. AdmissionsBounded' /\ ExportsSkipNothing'
  BY <1>1 DEF DetectionInv, AdmissionsBounded, GrantsOf, ExportsSkipNothing
<1>5. RefusedOnlyIfSpent'
  <2>1. ASSUME NEW n \in DOMAIN beacons
        PROVE  beacons'[n] = beacons[n] \/ beacons'[n].at # "limited"
    <3>1. beacons[n] \in Beacon
      BY <1>0
    <3> QED
      BY <1>1, <3>1 DEF Beacon
  <2> QED
    BY <1>1, <2>1, RefusalsSettled
<1> QED
  BY <1>3, <1>4, <1>5 DEF DetectionInv

LEMMA TickStep ==
  ASSUME DetectionInv, Tick
  PROVE  DetectionInv'
<1>0. clock \in Nat /\ buckets \in Seq(BucketRecord)
  BY DEF DetectionInv, Types
<1>1. /\ clock' = clock + 1
      /\ UNCHANGED <<buckets, beacons, rows, exported, since, late, grants, crashes>>
  BY DEF Tick, table, faults
<1>2. Types' /\ AdmissionsBounded' /\ RefusedOnlyIfSpent' /\ ExportsSkipNothing'
  <2>1. Types' /\ ExportsSkipNothing' /\ RefusedOnlyIfSpent'
    BY <1>0, <1>1, RefusalsSettled DEF DetectionInv, Types, ExportsSkipNothing
  <2>2. AdmissionsBounded'
    BY <1>1 DEF DetectionInv, AdmissionsBounded, GrantsOf
  <2> QED
    BY <2>1, <2>2
<1>3. ASSUME NEW i \in DOMAIN buckets
      PROVE  BucketOK(buckets[i])'
  <2>1. PICK b \in BucketRecord : b = buckets[i] /\ BucketOK(b)
    BY <1>0 DEF DetectionInv, LimiterOK
  <2>2. BucketOK(b)'
    BY <1>0, <1>1, <2>1, BucketUntouched
  <2> QED
    BY <1>1, <2>1, <2>2
<1>4. \A i \in DOMAIN grants : grants[i].time <= clock'
  BY <1>0, <1>1, GrantFacts
<1>5. LimiterOK'
  BY <1>1, <1>3, <1>4 DEF DetectionInv, LimiterOK
<1> QED
  BY <1>2, <1>5 DEF DetectionInv

\* Steps of the network and of a start.
LEMMA QuietStep ==
  ASSUME DetectionInv,
         UNCHANGED <<clock, buckets, beacons, rows, exported, since, late, grants>>,
         crashes' \in Nat
  PROVE  DetectionInv'
<1>1. Types' /\ RefusedOnlyIfSpent' /\ ExportsSkipNothing'
  BY RefusalsSettled DEF DetectionInv, Types, ExportsSkipNothing
<1>2. LimiterOK' /\ AdmissionsBounded'
  BY LimiterIdle
<1> QED
  BY <1>1, <1>2 DEF DetectionInv

LEMMA DetectionNext == DetectionInv /\ [Next]_vars => DetectionInv'
<1> SUFFICES ASSUME DetectionInv, [Next]_vars PROVE DetectionInv'
  OBVIOUS
<1>1. CASE \E h \in Hosts : Arrive(h)
  BY <1>1, RefusedStep, GrantedStep
<1>2. CASE \E n \in DOMAIN beacons : Commit(n)
  BY <1>2, CommitStep
<1>9. CASE \E n \in DOMAIN beacons : CommitFails(n)
  BY <1>9, CommitFailsStep
<1>3. CASE Export \/ ExportUnanswered
  BY <1>3, ExportStep, ExportUnansweredStep
<1>4. CASE Die
  BY <1>4, DieStep
<1>5. CASE Tick
  BY <1>5, TickStep
<1>6. CASE Start \/ DieInStart
  BY <1>6, QuietStep DEF Start, DieInStart, DetectionInv, Types, table, faults
<1>7. CASE Resolve \/ (\E c \in Clients : FetchBeacon(c)) \/ \E h \in Hosts : Lose(h)
  BY <1>7, QuietStep DEF Resolve, FetchBeacon, Send, Lose, DetectionInv, Types, table, faults
<1>8. CASE UNCHANGED vars
  BY <1>8, QuietStep DEF vars, DetectionInv, Types, table, faults
<1> QED
  BY <1>1, <1>2, <1>3, <1>4, <1>5, <1>6, <1>7, <1>8, <1>9 DEF Next
-----------------------------------------------------------------------------
LEMMA DetectionInvariant == Spec => []DetectionInv
BY DetectionInit, DetectionNext, PTL DEF Spec

(***************************************************************************)
(* Whatever the hosts send, in whatever order their requests arrive, and   *)
(* however many hosts push each other out of the limiter's table: no       *)
(* bucket lets more through in any span of time than the burst and the     *)
(* refill of that span (TokenBucket.allow).                                *)
(***************************************************************************)
THEOREM LimiterLimits == Spec => []AdmissionsBounded
BY DetectionInvariant, PTL DEF DetectionInv

(***************************************************************************)
(* For any hosts, burst and table size: a beacon is refused only to a host *)
(* that has had its burst and the refill of a span of time ending with the *)
(* refusal let through, whatever other hosts send, whichever buckets are   *)
(* evicted and however often the registry restarts.                        *)
(***************************************************************************)
THEOREM LimiterIsFair == Spec => []RefusedOnlyIfSpent
BY DetectionInvariant, PTL DEF DetectionInv

(***************************************************************************)
(* Exports that each go on from the last event of the one before leave no  *)
(* row out, whatever the limit, also when a sink fails after storing the   *)
(* batch; the only exception is a row committed after a later one was      *)
(* exported.                                                               *)
(***************************************************************************)
THEOREM NoEventSkipped == Spec => []ExportsSkipNothing
BY DetectionInvariant, PTL DEF DetectionInv
-----------------------------------------------------------------------------
(***************************************************************************)
(* CanaryKeeper.                                                           *)
(***************************************************************************)
\* Leaf i needs no more work: it is no trap, or it was alerted, or it is one
\* of those that were missed.
Settled(i) == log[i + 1] # "trap" \/ i \in alerts \/ Missed(i)

Waiting(i) == \E n \in 1..Len(entries) : entries[n] = i

PageKept ==
  pc = "process" =>
    \A i \in seen..(size - 1) : Settled(i) \/ Waiting(i) \/ i \in NotFetched

\* The head of the cycle under way is not behind the position.
HeadBeyond == pc \in {"range", "process"} => seen <= size

KeeperInv ==
  /\ TypeOK
  /\ HeadBeyond
  /\ NeverAhead
  /\ NoTrapSkipped
  /\ PageKept
-----------------------------------------------------------------------------
(***************************************************************************)
(* What is left of a sequence once its first element is taken.             *)
(***************************************************************************)
LEMMA TailFacts ==
  ASSUME NEW s \in Seq(Nat), s # << >>
  PROVE  /\ Tail(s) \in Seq(Nat) /\ Head(s) \in Nat
         /\ \A n \in 1..Len(Tail(s)) : \E m \in 1..Len(s) : Tail(s)[n] = s[m]
         /\ \A n \in 1..Len(s) :
              s[n] = Head(s) \/ \E m \in 1..Len(Tail(s)) : Tail(s)[m] = s[n]
<1>1. /\ Len(s) \in Nat \ {0} /\ Head(s) = s[1] /\ s[1] \in Nat
      /\ Tail(s) \in Seq(Nat) /\ Len(Tail(s)) = Len(s) - 1
      /\ \A n \in 1..(Len(s) - 1) : Tail(s)[n] = s[n + 1]
  OBVIOUS
<1>2. ASSUME NEW n \in 1..Len(Tail(s)) PROVE \E m \in 1..Len(s) : Tail(s)[n] = s[m]
  <2>1. n + 1 \in 1..Len(s) /\ Tail(s)[n] = s[n + 1]
    BY <1>1
  <2> QED
    BY <2>1
<1>3. ASSUME NEW n \in 1..Len(s), s[n] # Head(s)
      PROVE  \E m \in 1..Len(Tail(s)) : Tail(s)[m] = s[n]
  <2>1. n # 1
    BY <1>1, <1>3
  <2>2. n - 1 \in 1..Len(Tail(s)) /\ Tail(s)[n - 1] = s[n]
    BY <1>1, <2>1
  <2> QED
    BY <2>2
<1> QED
  BY <1>1, <1>2, <1>3

(***************************************************************************)
(* Counting a failure keeps the counters within their bounds.              *)
(***************************************************************************)
LEMMA TriesFacts ==
  ASSUME NEW t \in Tries
  PROVE  /\ t.head < MaxHeadFailures => [t EXCEPT !.head = @ + 1] \in Tries
         /\ t.range < MaxRangeFailures => [t EXCEPT !.range = @ + 1] \in Tries
         /\ t.alert < MaxLostAlerts => [t EXCEPT !.alert = @ + 1] \in Tries
         /\ t.save < MaxSaveFailures => [t EXCEPT !.save = @ + 1] \in Tries
         /\ t.kill < MaxKills => [t EXCEPT !.kill = @ + 1] \in Tries
BY KeeperAssumption DEF Tries

(***************************************************************************)
(* A page starts at the position, stays within the log, and has every leaf *)
(* of the log up to its length.                                            *)
(***************************************************************************)
LEMMA PageFacts ==
  ASSUME TypeOK, seen <= Len(log)
  PROVE  /\ PageOf(seen) \in Seq(Nat)
         /\ \A n \in 1..Len(PageOf(seen)) :
              PageOf(seen)[n] >= seen /\ PageOf(seen)[n] < Len(log)
         /\ \A i \in seen..(Len(log) - 1) :
              i < seen + Page => \E n \in 1..Len(PageOf(seen)) : PageOf(seen)[n] = i
<1> DEFINE last == IF seen + Page <= Len(log) THEN seen + Page ELSE Len(log)
           N == last - seen
<1>1. /\ seen \in Nat /\ Page \in Nat /\ Len(log) \in Nat /\ last \in Nat /\ N \in Nat
      /\ last <= Len(log)
  BY KeeperAssumption DEF TypeOK
<1>2. PageOf(seen) = [i \in 1..N |-> seen + i - 1]
  BY DEF PageOf
<1> HIDE DEF last, N
<1>3. PageOf(seen) \in Seq(Nat) /\ Len(PageOf(seen)) = N
  <2>1. \A i \in 1..N : seen + i - 1 \in Nat
    BY <1>1
  <2> QED
    BY <1>1, <1>2, <2>1
<1>4. seen + N <= Len(log)
  BY <1>1 DEF N
<1>5. \A n \in 1..N : PageOf(seen)[n] >= seen /\ PageOf(seen)[n] < Len(log)
  BY <1>1, <1>2, <1>4
<1>6. ASSUME NEW i \in seen..(Len(log) - 1), i < seen + Page
      PROVE  \E n \in 1..N : PageOf(seen)[n] = i
  <2>1. i - seen + 1 \in 1..N
    BY <1>1, <1>6 DEF N, last
  <2>2. PageOf(seen)[i - seen + 1] = i
    BY <1>1, <1>2, <2>1
  <2> QED
    BY <2>1, <2>2
<1> QED
  BY <1>3, <1>5, <1>6

(***************************************************************************)
(* The agent starts at the beginning of an empty log.                      *)
(***************************************************************************)
LEMMA KeeperStarts == KeeperInit => KeeperInv
BY KeeperAssumption
DEF KeeperInit, NoFaults, KeeperInv, TypeOK, NeverAhead, NoTrapSkipped, PageKept, HeadBeyond, Kinds, Tries

(***************************************************************************)
(* A leaf that the registry appends is beyond everything the agent has seen. *)
(***************************************************************************)
LEMMA GrowStep ==
  ASSUME KeeperInv, NEW k \in Kinds, Grow(k)
  PROVE  KeeperInv'
<1> USE DEF KeeperInv, Grow, history
<1>1. /\ Len(log') = Len(log) + 1 /\ log' \in Seq(Kinds)
      /\ \A i \in 1..Len(log) : log'[i] = log[i]
  BY DEF TypeOK
<1>2. TypeOK'
  BY <1>1 DEF TypeOK
<1>3. NeverAhead'
  BY <1>1 DEF TypeOK, NeverAhead
<1>4. NoTrapSkipped'
  BY <1>1 DEF TypeOK, NeverAhead, NoTrapSkipped, Missed
<1>5. PageKept'
  BY <1>1 DEF TypeOK, NeverAhead, PageKept, NotFetched, Settled, Waiting, Missed
<1>6. HeadBeyond'
  BY DEF HeadBeyond
<1> QED
  BY <1>2, <1>3, <1>4, <1>5, <1>6

(***************************************************************************)
(* Every step of the agent, and every failure, keeps the invariant.        *)
(***************************************************************************)
LEMMA AgentStep == KeeperInv /\ (RunOnce \/ Fault) => KeeperInv'
<1> SUFFICES ASSUME KeeperInv, RunOnce \/ Fault PROVE KeeperInv'
  OBVIOUS
<1> USE KeeperAssumption DEF KeeperInv
<1>0. seen <= Len(log) /\ seen \in Nat /\ Len(log) \in Nat /\ Page \in Nat
  BY DEF NeverAhead, TypeOK
<1>1. CASE PollHead
  <2>1. TypeOK'
    BY <1>1 DEF PollHead, TypeOK
  <2>2. HeadBeyond'
    BY <1>0, <1>1 DEF PollHead, TypeOK, HeadBeyond
  <2>3. NeverAhead'
    BY <1>0, <1>1 DEF PollHead, TypeOK, HeadBeyond, NeverAhead
  <2>4. NoTrapSkipped'
    BY <1>0, <1>1 DEF PollHead, TypeOK, NeverAhead, NoTrapSkipped, Missed
  <2>5. PageKept'
    BY <1>1 DEF PollHead, PageKept
  <2> QED
    BY <2>1, <2>2, <2>3, <2>4, <2>5
<1>2. CASE FetchRange
  <2>1. TypeOK'
    BY <1>0, <1>2, PageFacts DEF FetchRange, history, TypeOK
  <2>2. HeadBeyond'
    BY <1>0, <1>2 DEF FetchRange, history, TypeOK, HeadBeyond
  <2>3. NeverAhead'
    BY <1>0, <1>2, PageFacts DEF FetchRange, history, TypeOK, HeadBeyond, NeverAhead
  <2>4. NoTrapSkipped'
    BY <1>0, <1>2 DEF FetchRange, history, TypeOK, NeverAhead, NoTrapSkipped, Missed
  <2>5. PageKept'
    <3>1. /\ entries' = PageOf(seen) /\ seen' = seen /\ size' = size /\ page' = page
          /\ size \in Nat /\ size <= Len(log)
      BY <1>2 DEF FetchRange, history, TypeOK, NeverAhead
    <3>2. ASSUME NEW i \in seen'..(size' - 1), i \notin NotFetched'
          PROVE  Waiting(i)'
      <4>1. i \in Nat /\ seen <= i /\ i < size /\ i < seen + Page
        BY <1>0, <3>1, <3>2 DEF NotFetched
      <4> QED
        <5>1. i \in seen..(Len(log) - 1)
          BY <1>0, <3>1, <4>1
        <5>2. \E n \in 1..Len(PageOf(seen)) : PageOf(seen)[n] = i
          BY <1>0, <4>1, <5>1, PageFacts
        <5> QED
          BY <3>1, <5>2 DEF Waiting
    <3> QED
      BY <3>2 DEF PageKept
  <2> QED
    BY <2>1, <2>2, <2>3, <2>4, <2>5
<1>3. CASE ProcessEvent
  <2>0. /\ entries' \in Seq(Nat) /\ Head(entries) \in Nat
        /\ \A m \in 1..Len(entries') : \E n \in 1..Len(entries) : entries'[m] = entries[n]
        /\ \A i : Waiting(i) => i = Head(entries) \/ Waiting(i)'
    BY <1>3, TailFacts, ZenonT(30) DEF ProcessEvent, history, TypeOK, Waiting
  <2>1. TypeOK'
    BY <1>3, <2>0 DEF ProcessEvent, history, TypeOK, Alerting
  <2>2. HeadBeyond'
    BY <1>0, <1>3 DEF ProcessEvent, history, TypeOK, HeadBeyond
  <2>3. NeverAhead'
    BY <1>0, <1>3, <2>0 DEF ProcessEvent, history, TypeOK, HeadBeyond, NeverAhead
  <2>4. NoTrapSkipped'
    BY <1>0, <1>3 DEF ProcessEvent, history, TypeOK, NeverAhead, NoTrapSkipped, Missed
  <2>5. PageKept'
    BY <1>0, <1>3, <2>0 DEF ProcessEvent, history, TypeOK, NeverAhead, PageKept, NotFetched, Settled, Missed, Alerting
  <2> QED
    BY <2>1, <2>2, <2>3, <2>4, <2>5
<1>4. CASE Advance
  <2>0. NotFetched \subseteq Nat
    BY DEF NotFetched, TypeOK
  <2>1. TypeOK'
    BY <1>4, <2>0 DEF Advance, TypeOK
  <2>2. HeadBeyond'
    BY <1>0, <1>4 DEF Advance, TypeOK, HeadBeyond
  <2>3. NeverAhead'
    BY <1>0, <1>4 DEF Advance, TypeOK, HeadBeyond, NeverAhead
  <2>4. NoTrapSkipped'
    BY <1>0, <1>4 DEF Advance, TypeOK, NeverAhead, NoTrapSkipped, Missed, PageKept, Settled, Waiting
  <2>5. PageKept'
    BY <1>4 DEF Advance, PageKept
  <2> QED
    BY <2>1, <2>2, <2>3, <2>4, <2>5
<1>5. CASE SaveState
  <2>1. TypeOK'
    BY <1>5 DEF SaveState, history, TypeOK
  <2>2. HeadBeyond'
    BY <1>0, <1>5 DEF SaveState, history, TypeOK, HeadBeyond
  <2>3. NeverAhead'
    BY <1>0, <1>5 DEF SaveState, history, TypeOK, HeadBeyond, NeverAhead
  <2>4. NoTrapSkipped'
    BY <1>0, <1>5 DEF SaveState, history, TypeOK, NeverAhead, NoTrapSkipped, Missed
  <2>5. PageKept'
    BY <1>5 DEF SaveState, history, PageKept
  <2> QED
    BY <2>1, <2>2, <2>3, <2>4, <2>5
<1>6. CASE PollFails
  <2>1. TypeOK'
    BY <1>6, TriesFacts DEF PollFails, history, TypeOK
  <2>2. HeadBeyond'
    BY <1>0, <1>6 DEF PollFails, history, TypeOK, HeadBeyond
  <2>3. NeverAhead'
    BY <1>0, <1>6 DEF PollFails, history, TypeOK, HeadBeyond, NeverAhead
  <2>4. NoTrapSkipped'
    BY <1>0, <1>6, TriesFacts DEF PollFails, history, TypeOK, NeverAhead, NoTrapSkipped, Missed
  <2>5. PageKept'
    BY <1>6 DEF PollFails, history, PageKept
  <2> QED
    BY <2>1, <2>2, <2>3, <2>4, <2>5
<1>7. CASE FetchFails
  <2>6. tries' \in Tries
    BY <1>7, TriesFacts DEF FetchFails, TypeOK
  <2>1. TypeOK'
    BY <1>7, <2>6 DEF FetchFails, TypeOK
  <2>2. HeadBeyond'
    BY <1>0, <1>7 DEF FetchFails, TypeOK, HeadBeyond
  <2>3. NeverAhead'
    BY <1>0, <1>7 DEF FetchFails, TypeOK, HeadBeyond, NeverAhead
  <2>4. NoTrapSkipped'
    BY <1>7 DEF FetchFails, NoTrapSkipped, Missed
  <2>5. PageKept'
    BY <1>0, <1>7 DEF FetchFails, TypeOK, PageKept, NotFetched
  <2> QED
    BY <2>1, <2>2, <2>3, <2>4, <2>5
<1>8. CASE LoseAlert
  <2>0. /\ entries' \in Seq(Nat) /\ Head(entries) \in Nat
        /\ \A m \in 1..Len(entries') : \E n \in 1..Len(entries) : entries'[m] = entries[n]
        /\ \A i : Waiting(i) => i = Head(entries) \/ Waiting(i)'
    BY <1>8, TailFacts, ZenonT(30) DEF LoseAlert, TypeOK, Waiting
  <2>1. TypeOK'
    BY <1>8, <2>0, TriesFacts DEF LoseAlert, TypeOK, Alerting
  <2>2. HeadBeyond'
    BY <1>0, <1>8 DEF LoseAlert, TypeOK, HeadBeyond
  <2>3. NeverAhead'
    BY <1>0, <1>8, <2>0 DEF LoseAlert, TypeOK, HeadBeyond, NeverAhead
  <2>4. NoTrapSkipped'
    BY <1>8 DEF LoseAlert, NoTrapSkipped, Missed
  <2>5. PageKept'
    BY <1>0, <1>8, <2>0 DEF LoseAlert, TypeOK, PageKept, NotFetched, Settled, Missed
  <2> QED
    BY <2>1, <2>2, <2>3, <2>4, <2>5
<1>9. CASE SaveFails
  <2>1. TypeOK'
    BY <1>9, TriesFacts DEF SaveFails, history, TypeOK
  <2>2. HeadBeyond'
    BY <1>0, <1>9 DEF SaveFails, history, TypeOK, HeadBeyond
  <2>3. NeverAhead'
    BY <1>0, <1>9 DEF SaveFails, history, TypeOK, HeadBeyond, NeverAhead
  <2>4. NoTrapSkipped'
    BY <1>0, <1>9, TriesFacts DEF SaveFails, history, TypeOK, NeverAhead, NoTrapSkipped, Missed
  <2>5. PageKept'
    BY <1>9 DEF SaveFails, history, PageKept
  <2> QED
    BY <2>1, <2>2, <2>3, <2>4, <2>5
<1>10. CASE Restart
  <2>6. tries' \in Tries
    BY <1>10, TriesFacts DEF Restart, history, TypeOK
  <2>1. TypeOK'
    BY <1>10, <2>6 DEF Restart, history, TypeOK
  <2>2. HeadBeyond'
    BY <1>0, <1>10 DEF Restart, history, TypeOK, HeadBeyond
  <2>3. NeverAhead'
    BY <1>0, <1>10 DEF Restart, history, TypeOK, HeadBeyond, NeverAhead
  <2>4. NoTrapSkipped'
    BY <1>0, <1>10, TriesFacts DEF Restart, history, TypeOK, NeverAhead, NoTrapSkipped, Missed
  <2>5. PageKept'
    BY <1>10 DEF Restart, history, PageKept
  <2> QED
    BY <2>1, <2>2, <2>3, <2>4, <2>5
<1> QED
  BY <1>1, <1>2, <1>3, <1>4, <1>5, <1>6, <1>7, <1>8, <1>9, <1>10 DEF RunOnce, Fault

(***************************************************************************)
(* KeeperInv is inductive.                                                 *)
(***************************************************************************)
LEMMA KeeperInductive == KeeperSpec => []KeeperInv
<1>1. KeeperInv /\ [KeeperNext]_keeperVars => KeeperInv'
  <2> SUFFICES ASSUME KeeperInv, [KeeperNext]_keeperVars PROVE KeeperInv'
    OBVIOUS
  <2>1. CASE UNCHANGED keeperVars
    BY <2>1 DEF keeperVars, KeeperInv, TypeOK, HeadBeyond, NeverAhead, NoTrapSkipped, PageKept,
                NotFetched, Settled, Waiting, Missed, history
  <2> QED
    BY <2>1, GrowStep, AgentStep DEF KeeperNext
<1> QED
  BY <1>1, KeeperStarts, PTL DEF KeeperSpec

(***************************************************************************)
(* Every variable of CanaryKeeper has its type in every state.             *)
(***************************************************************************)
THEOREM TypeCorrect == KeeperSpec => []TypeOK
<1>1. KeeperInv => TypeOK
  BY DEF KeeperInv
<1> QED
  BY <1>1, KeeperInductive, PTL

(***************************************************************************)
(* The agent is never ahead of the log, and its file never ahead of the    *)
(* agent, for any page size and any failures.                              *)
(***************************************************************************)
THEOREM PositionBehindLog == KeeperSpec => []NeverAhead
<1>1. KeeperInv => NeverAhead
  BY DEF KeeperInv
<1> QED
  BY <1>1, KeeperInductive, PTL

(***************************************************************************)
(* No trap beacon is passed without its alert, unless an alert for it was  *)
(* not taken, the request for its page failed in the cycle that passed it, *)
(* or it was behind the first page of the backlog of that cycle, for any   *)
(* page size, log and number of failures.                                  *)
(***************************************************************************)
THEOREM TrapsNotSkipped == KeeperSpec => []NoTrapSkipped
<1>1. KeeperInv => NoTrapSkipped
  BY DEF KeeperInv
<1> QED
  BY <1>1, KeeperInductive, PTL
=============================================================================
