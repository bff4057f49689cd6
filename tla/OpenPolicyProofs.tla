-------------------------- MODULE OpenPolicyProofs --------------------------
(***************************************************************************)
(* The limit on opens, proved for any number of processes, attempts,       *)
(* unreadable counters and power failures.                                 *)
(*                                                                         *)
(* OpensCovered is not inductive by itself.  It needs the lock (Exclusive),*)
(* the same inequality for the value that the holder of the lock has read  *)
(* (ReadCovered), and the limit on the counter and on every file a power   *)
(* failure can bring back (CountBounded).                                  *)
(***************************************************************************)
EXTENDS OpenPolicy, FiniteSetTheorems, TLAPS

\* Only the holder of the lock is between the read and the rename.
Exclusive == \A p \in Openers : pc[p] \in {"read", "check", "unlock"} => lock = p

\* Neither the counter nor a file that can come back is above the limit.
CountBounded == count <= MaxOpens /\ \A n \in older : n <= MaxOpens

\* Every open is covered by the value that the holder of the lock has read.
ReadCovered ==
  \A p \in Openers :
    pc[p] = "check" => opens + Cardinality(Charged) <= Excess + cur[p]

\* Opens are left uncounted only by openers without a context.
OnlyWithoutContext == (\A p \in Openers : Mode[p] # "none") => uncounted = 0

BudgetInv ==
  /\ TypeOK
  /\ Exclusive
  /\ CountBounded
  /\ OpensCovered
  /\ ReadCovered
  /\ OnlyWithoutContext
-----------------------------------------------------------------------------
(***************************************************************************)
(* Every variable of OpenPolicy keeps its type in a step.                  *)
(***************************************************************************)
LEMMA TypeStep == TypeOK /\ [Next]_vars => TypeOK'
<1> SUFFICES ASSUME TypeOK, [Next]_vars PROVE TypeOK'
  OBVIOUS
<1> USE OpenAssumption DEF TypeOK, results, bounds
<1>1. CASE UNCHANGED vars
  BY <1>1 DEF vars
<1>2. CASE PowerLoss
  BY <1>2 DEF PowerLoss
<1>3. CASE Writeback
  BY <1>3 DEF Writeback
<1>4. ASSUME NEW p \in Openers, Open(p) PROVE TypeOK'
  <2>1. CASE Decrypt(p)
    BY <2>1 DEF Decrypt
  <2>2. CASE RecordNothing(p)
    BY <2>2 DEF RecordNothing
  <2>3. CASE RecordUnsupported(p)
    BY <2>3 DEF RecordUnsupported
  <2>4. CASE Lock(p)
    BY <2>4 DEF Lock
  <2>5. CASE ReadCount(p)
    BY <2>5 DEF ReadCount
  <2>6. CASE ReadZero(p)
    BY <2>6 DEF ReadZero
  <2>7. CASE Refuse(p)
    BY <2>7 DEF Refuse
  <2>8. CASE Bump(p)
    BY <2>8 DEF Bump
  <2>9. CASE Unlock(p)
    BY <2>9 DEF Unlock
  <2>10. CASE ReturnPlaintext(p)
    BY <2>10 DEF ReturnPlaintext
  <2>11. CASE Die(p)
    BY <2>11 DEF Die
  <2> QED
    BY <1>4, <2>1, <2>2, <2>3, <2>4, <2>5, <2>6, <2>7, <2>8, <2>9, <2>10, <2>11 DEF Open
<1> QED
  BY <1>1, <1>2, <1>3, <1>4 DEF Next

(***************************************************************************)
(* The lock protects the section from the read to the rename in every step, *)
(* also when its holder dies.                                              *)
(***************************************************************************)
LEMMA ExclusiveStep == TypeOK /\ Exclusive /\ [Next]_vars => Exclusive'
<1> SUFFICES ASSUME TypeOK, Exclusive, [Next]_vars PROVE Exclusive'
  OBVIOUS
<1> USE OpenAssumption DEF TypeOK, Exclusive, results, bounds
<1>1. CASE UNCHANGED vars
  BY <1>1 DEF vars
<1>2. CASE PowerLoss
  BY <1>2 DEF PowerLoss
<1>3. CASE Writeback
  BY <1>3 DEF Writeback
<1>4. ASSUME NEW p \in Openers, Open(p) PROVE Exclusive'
  <2>1. CASE Decrypt(p)
    BY <2>1 DEF Decrypt
  <2>2. CASE RecordNothing(p)
    BY <2>2 DEF RecordNothing
  <2>3. CASE RecordUnsupported(p)
    BY <2>3 DEF RecordUnsupported
  <2>4. CASE Lock(p)
    BY <2>4 DEF Lock
  <2>5. CASE ReadCount(p)
    BY <2>5 DEF ReadCount
  <2>6. CASE ReadZero(p)
    BY <2>6 DEF ReadZero
  <2>7. CASE Refuse(p)
    BY <2>7 DEF Refuse
  <2>8. CASE Bump(p)
    BY <2>8 DEF Bump
  <2>9. CASE Unlock(p)
    BY <2>9 DEF Unlock
  <2>10. CASE ReturnPlaintext(p)
    BY <2>10 DEF ReturnPlaintext
  <2>11. CASE Die(p)
    BY <2>11 DEF Die
  <2> QED
    BY <1>4, <2>1, <2>2, <2>3, <2>4, <2>5, <2>6, <2>7, <2>8, <2>9, <2>10, <2>11 DEF Open
<1> QED
  BY <1>1, <1>2, <1>3, <1>4 DEF Next

(***************************************************************************)
(* The counter stays within the limit in every step.                       *)
(***************************************************************************)
LEMMA CountBoundedStep == TypeOK /\ CountBounded /\ [Next]_vars => CountBounded'
<1> SUFFICES ASSUME TypeOK, CountBounded, [Next]_vars PROVE CountBounded'
  OBVIOUS
<1> USE OpenAssumption DEF TypeOK, CountBounded, results, bounds
<1>1. CASE UNCHANGED vars
  BY <1>1 DEF vars
<1>2. CASE PowerLoss
  BY <1>2 DEF PowerLoss
<1>3. CASE Writeback
  BY <1>3 DEF Writeback
<1>4. ASSUME NEW p \in Openers, Open(p) PROVE CountBounded'
  <2>1. CASE Decrypt(p)
    BY <2>1 DEF Decrypt
  <2>2. CASE RecordNothing(p)
    BY <2>2 DEF RecordNothing
  <2>3. CASE RecordUnsupported(p)
    BY <2>3 DEF RecordUnsupported
  <2>4. CASE Lock(p)
    BY <2>4 DEF Lock
  <2>5. CASE ReadCount(p)
    BY <2>5 DEF ReadCount
  <2>6. CASE ReadZero(p)
    BY <2>6 DEF ReadZero
  <2>7. CASE Refuse(p)
    BY <2>7 DEF Refuse
  <2>8. CASE Bump(p)
    BY <2>8 DEF Bump
  <2>9. CASE Unlock(p)
    BY <2>9 DEF Unlock
  <2>10. CASE ReturnPlaintext(p)
    BY <2>10 DEF ReturnPlaintext
  <2>11. CASE Die(p)
    BY <2>11 DEF Die
  <2> QED
    BY <1>4, <2>1, <2>2, <2>3, <2>4, <2>5, <2>6, <2>7, <2>8, <2>9, <2>10, <2>11 DEF Open
<1> QED
  BY <1>1, <1>2, <1>3, <1>4 DEF Next

(***************************************************************************)
(* Only an opener without a context adds to uncounted.                     *)
(***************************************************************************)
LEMMA OnlyWithoutContextStep == TypeOK /\ OnlyWithoutContext /\ [Next]_vars => OnlyWithoutContext'
<1> SUFFICES ASSUME TypeOK, OnlyWithoutContext, [Next]_vars PROVE OnlyWithoutContext'
  OBVIOUS
<1> USE OpenAssumption DEF TypeOK, OnlyWithoutContext, results, bounds
<1>1. CASE UNCHANGED vars
  BY <1>1 DEF vars
<1>2. CASE PowerLoss
  BY <1>2 DEF PowerLoss
<1>3. CASE Writeback
  BY <1>3 DEF Writeback
<1>4. ASSUME NEW p \in Openers, Open(p) PROVE OnlyWithoutContext'
  <2>1. CASE Decrypt(p)
    BY <2>1 DEF Decrypt
  <2>2. CASE RecordNothing(p)
    BY <2>2 DEF RecordNothing
  <2>3. CASE RecordUnsupported(p)
    BY <2>3 DEF RecordUnsupported
  <2>4. CASE Lock(p)
    BY <2>4 DEF Lock
  <2>5. CASE ReadCount(p)
    BY <2>5 DEF ReadCount
  <2>6. CASE ReadZero(p)
    BY <2>6 DEF ReadZero
  <2>7. CASE Refuse(p)
    BY <2>7 DEF Refuse
  <2>8. CASE Bump(p)
    BY <2>8 DEF Bump
  <2>9. CASE Unlock(p)
    BY <2>9 DEF Unlock
  <2>10. CASE ReturnPlaintext(p)
    BY <2>10 DEF ReturnPlaintext
  <2>11. CASE Die(p)
    BY <2>11 DEF Die
  <2> QED
    BY <1>4, <2>1, <2>2, <2>3, <2>4, <2>5, <2>6, <2>7, <2>8, <2>9, <2>10, <2>11 DEF Open
<1> QED
  BY <1>1, <1>2, <1>3, <1>4 DEF Next

(***************************************************************************)
(* The openers that were counted are finitely many, and the excess is a    *)
(* number.                                                                 *)
(***************************************************************************)
LEMMA ChargedFacts ==
  TypeOK => /\ IsFiniteSet(Charged)
            /\ Cardinality(Charged) \in Nat
            /\ Excess \in Nat
<1> SUFFICES ASSUME TypeOK
             PROVE  /\ IsFiniteSet(Charged)
                    /\ Cardinality(Charged) \in Nat
                    /\ Excess \in Nat
  OBVIOUS
<1>1. Charged \subseteq Openers
  BY DEF Charged
<1>2. IsFiniteSet(Charged) /\ Cardinality(Charged) \in Nat
  BY <1>1, OpenAssumption, FS_Subset, FS_CardinalityType
<1>3. Excess \in Nat
  BY OpenAssumption DEF TypeOK, Excess
<1> QED
  BY <1>2, <1>3

(***************************************************************************)
(* A step that changes neither the counter, nor what was returned, nor who *)
(* is owed a plaintext, nor what any holder of the lock has read keeps     *)
(* both inequalities.                                                      *)
(***************************************************************************)
LEMMA NothingCharged ==
  ASSUME BudgetInv, Charged' = Charged, Excess' = Excess, opens' = opens, count' = count,
         \A p \in Openers : pc'[p] = "check" => pc[p] = "check" /\ cur'[p] = cur[p]
  PROVE  OpensCovered' /\ ReadCovered'
BY DEF BudgetInv, OpensCovered, ReadCovered

(***************************************************************************)
(* Every open is covered by the counter and by what the holder of the lock *)
(* has read, after every step of one opener.                               *)
(***************************************************************************)
LEMMA OpenerCovered ==
  ASSUME BudgetInv, NEW p \in Openers, Open(p)
  PROVE  OpensCovered' /\ ReadCovered'
<1> USE OpenAssumption DEF BudgetInv, TypeOK, results, bounds
<1>0. /\ IsFiniteSet(Charged) /\ Cardinality(Charged) \in Nat /\ Excess \in Nat
  BY ChargedFacts
<1>1. CASE Decrypt(p) \/ RecordNothing(p) \/ RecordUnsupported(p) \/ Lock(p) \/ Refuse(p) \/ Unlock(p)
  <2>1. Charged' = Charged
    BY <1>1 DEF Charged, Decrypt, RecordNothing, RecordUnsupported, Lock, Refuse, Unlock
  <2>2. Excess' = Excess /\ opens' = opens /\ count' = count
    BY <1>1 DEF Excess, Decrypt, RecordNothing, RecordUnsupported, Lock, Refuse, Unlock
  <2>3. \A q \in Openers : pc'[q] = "check" => pc[q] = "check" /\ cur'[q] = cur[q]
    BY <1>1 DEF Decrypt, RecordNothing, RecordUnsupported, Lock, Refuse, Unlock
  <2> QED
    BY <2>1, <2>2, <2>3, NothingCharged
<1>2. CASE ReadCount(p)
  <2>1. Charged' = Charged
    BY <1>2 DEF Charged, ReadCount
  <2>2. Excess' = Excess /\ opens' = opens /\ count' = count
    BY <1>2 DEF Excess, ReadCount
  <2>3. cur'[p] = count /\ \A q \in Openers \ {p} : pc'[q] = pc[q] /\ cur'[q] = cur[q]
    BY <1>2 DEF ReadCount
  <2> QED
    BY <2>1, <2>2, <2>3 DEF OpensCovered, ReadCovered
<1>3. CASE ReadZero(p)
  <2>1. Charged' = Charged
    BY <1>3 DEF Charged, ReadZero
  <2>2. Excess' = Excess + MaxOpens /\ opens' = opens /\ count' = count
    BY <1>3 DEF Excess, ReadZero
  <2>3. cur'[p] = 0 /\ \A q \in Openers \ {p} : pc'[q] = pc[q] /\ cur'[q] = cur[q]
    BY <1>3 DEF ReadZero
  <2> QED
    BY <1>0, <2>1, <2>2, <2>3 DEF OpensCovered, ReadCovered, CountBounded
<1>4. CASE Bump(p)
  <2>1. Charged' \subseteq Charged \cup {p}
    BY <1>4 DEF Charged, Bump
  <2>2. Cardinality(Charged') \in Nat /\ Cardinality(Charged') <= Cardinality(Charged) + 1
    <3>1. /\ IsFiniteSet(Charged \cup {p})
          /\ Cardinality(Charged \cup {p}) \in Nat
          /\ Cardinality(Charged \cup {p}) <= Cardinality(Charged) + 1
      <4>1. /\ IsFiniteSet(Charged \cup {p})
            /\ \/ Cardinality(Charged \cup {p}) = Cardinality(Charged)
               \/ Cardinality(Charged \cup {p}) = Cardinality(Charged) + 1
        BY <1>0, FS_AddElement
      <4> QED
        BY <1>0, <4>1
    <3> QED
      BY <1>0, <2>1, <3>1, FS_Subset, FS_CardinalityType
  <2>3. Excess' = Excess /\ opens' = opens /\ count' = cur[p] + 1
    BY <1>4 DEF Excess, Bump
  <2>4. opens + Cardinality(Charged) <= Excess + cur[p]
    BY <1>4 DEF ReadCovered, Bump
  <2>5. \A q \in Openers : pc'[q] # "check"
    BY <1>4 DEF Bump, Exclusive
  <2> QED
    BY <1>0, <2>2, <2>3, <2>4, <2>5 DEF OpensCovered, ReadCovered
<1>5. CASE ReturnPlaintext(p)
  <2>1. count' = count /\ cur' = cur /\ opens' = opens + 1
        /\ \A q \in Openers : pc'[q] = "check" => pc[q] = "check"
    BY <1>5 DEF ReturnPlaintext
  <2>2. CASE Mode[p] = "none"
    <3>1. Charged' = Charged
      BY <1>5, <2>2 DEF Charged, ReturnPlaintext
    <3>2. Excess' = Excess + 1
      BY <1>5, <2>2 DEF Excess, ReturnPlaintext
    <3> QED
      BY <1>0, <2>1, <3>1, <3>2 DEF OpensCovered, ReadCovered
  <2>3. CASE Mode[p] # "none"
    <3>1. Charged' = Charged \ {p} /\ p \in Charged
      BY <1>5, <2>3 DEF Charged, ReturnPlaintext
    <3>2. Cardinality(Charged') = Cardinality(Charged) - 1
      BY <1>0, <3>1, FS_RemoveElement
    <3>3. Excess' = Excess
      BY <1>5, <2>3 DEF Excess, ReturnPlaintext
    <3> QED
      BY <1>0, <2>1, <3>2, <3>3 DEF OpensCovered, ReadCovered
  <2> QED
    BY <2>2, <2>3
<1>6. CASE Die(p)
  <2>1. Charged' \subseteq Charged
    BY <1>6 DEF Charged, Die
  <2>2. Cardinality(Charged') \in Nat /\ Cardinality(Charged') <= Cardinality(Charged)
    BY <1>0, <2>1, FS_Subset, FS_CardinalityType
  <2>3. Excess' = Excess /\ opens' = opens /\ count' = count /\ cur' = cur
        /\ \A q \in Openers : pc'[q] = "check" => pc[q] = "check"
    BY <1>6 DEF Excess, Die
  <2> QED
    BY <1>0, <2>2, <2>3 DEF OpensCovered, ReadCovered
<1> QED
  BY <1>1, <1>2, <1>3, <1>4, <1>5, <1>6 DEF Open

(***************************************************************************)
(* The same for every step, a power failure included: what it takes back   *)
(* from the counter is within the limit, which the excess grows by.        *)
(***************************************************************************)
LEMMA CoveredStep == BudgetInv /\ [Next]_vars => OpensCovered' /\ ReadCovered'
<1> SUFFICES ASSUME BudgetInv, [Next]_vars PROVE OpensCovered' /\ ReadCovered'
  OBVIOUS
<1>0. IsFiniteSet(Charged) /\ Cardinality(Charged) \in Nat /\ Excess \in Nat
  BY ChargedFacts DEF BudgetInv
<1>1. CASE UNCHANGED vars
  BY <1>1 DEF vars, results, bounds, BudgetInv, OpensCovered, ReadCovered, Charged, Excess
<1>2. CASE Writeback
  BY <1>2 DEF Writeback, results, bounds, BudgetInv, OpensCovered, ReadCovered, Charged, Excess
<1>3. CASE PowerLoss
  <2>1. Charged' = {}
    BY <1>3 DEF PowerLoss, Charged
  <2>2. Cardinality(Charged') = 0
    BY <2>1, FS_EmptySet
  <2>3. Excess' = Excess + MaxOpens /\ opens' = opens
    BY <1>3, OpenAssumption DEF BudgetInv, TypeOK, PowerLoss, Excess, results
  <2>4. opens + Cardinality(Charged) <= Excess + MaxOpens
    BY <1>0, OpenAssumption DEF BudgetInv, TypeOK, OpensCovered, CountBounded
  <2>5. count' \in Nat
    BY <1>3 DEF BudgetInv, TypeOK, PowerLoss
  <2>6. OpensCovered'
    <3>1. opens \in Nat /\ MaxOpens \in Nat
      BY OpenAssumption DEF BudgetInv, TypeOK
    <3>2. opens <= (Excess + MaxOpens) + count'
      <4>1. \A a, b, c, d, m \in Nat : a + d <= b + m => a <= (b + m) + c
        OBVIOUS
      <4> QED
        BY <1>0, <2>4, <2>5, <3>1, <4>1
    <3> QED
      BY <2>2, <2>3, <3>1, <3>2 DEF OpensCovered
  <2>7. ReadCovered'
    BY <1>3 DEF PowerLoss, ReadCovered
  <2> QED
    BY <2>6, <2>7
<1> QED
  BY <1>1, <1>2, <1>3, OpenerCovered DEF Next

(***************************************************************************)
(* BudgetInv is inductive.                                                 *)
(***************************************************************************)
LEMMA BudgetInductive == Spec => []BudgetInv
<1>1. Init => BudgetInv
  <2> SUFFICES ASSUME Init PROVE BudgetInv
    OBVIOUS
  <2>1. TypeOK /\ Exclusive /\ CountBounded /\ OnlyWithoutContext
    BY OpenAssumption DEF Init, TypeOK, Exclusive, CountBounded, OnlyWithoutContext
  <2>2. Charged = {}
    BY DEF Init, Charged
  <2>3. Cardinality(Charged) = 0
    BY <2>2, FS_EmptySet
  <2>4. OpensCovered /\ ReadCovered
    BY <2>1, <2>3, ChargedFacts DEF Init, OpensCovered, ReadCovered
  <2> QED
    BY <2>1, <2>4 DEF BudgetInv
<1>2. BudgetInv /\ [Next]_vars => BudgetInv'
  BY TypeStep, ExclusiveStep, CountBoundedStep, OnlyWithoutContextStep, CoveredStep
  DEF BudgetInv
<1> QED
  BY <1>1, <1>2, PTL DEF Spec

(***************************************************************************)
(* Every variable of OpenPolicy has its type in every state.               *)
(***************************************************************************)
THEOREM TypeCorrect == Spec => []TypeOK
<1>1. BudgetInv => TypeOK
  BY DEF BudgetInv
<1> QED
  BY <1>1, BudgetInductive, PTL

(***************************************************************************)
(* Every plaintext that open_sealed returned or is about to return is      *)
(* covered by the counter file, for any number of concurrent openers that  *)
(* die at any point.                                                       *)
(***************************************************************************)
THEOREM Covered == Spec => []OpensCovered
<1>1. BudgetInv => OpensCovered
  BY DEF BudgetInv
<1> QED
  BY <1>1, BudgetInductive, PTL

(***************************************************************************)
(* An unreadable counter file or a power failure gives at most max_opens   *)
(* opens more, and only opens without a PolicyContext are unlimited.       *)
(***************************************************************************)
THEOREM Budget == Spec => []OpensWithinBudget
<1>1. BudgetInv => OpensWithinBudget
  BY ChargedFacts, OpenAssumption
  DEF BudgetInv, TypeOK, OpensCovered, CountBounded, OpensWithinBudget
<1> QED
  BY <1>1, BudgetInductive, PTL

(***************************************************************************)
(* "max_opens: decryption refused after this many successful opens", when  *)
(* every opener has a PolicyContext, the counter file can be read and the  *)
(* power does not fail: the plaintext is returned at most max_opens times, *)
(* whichever openers race or die.                                          *)
(***************************************************************************)
THEOREM LimitHolds ==
  ASSUME \A p \in Openers : Mode[p] # "none", MaxReadErrors = 0, MaxPowerLosses = 0
  PROVE  Spec => [](opens <= MaxOpens)
<1>1. BudgetInv => opens <= MaxOpens
  <2> SUFFICES ASSUME BudgetInv PROVE opens <= MaxOpens
    OBVIOUS
  <2>1. uncounted = 0 /\ readErrors = 0 /\ powerLosses = 0
    BY DEF BudgetInv, TypeOK, OnlyWithoutContext
  <2>2. Excess = 0
    BY <2>1, OpenAssumption DEF Excess
  <2> QED
    BY <2>2, ChargedFacts, OpenAssumption DEF BudgetInv, TypeOK, OpensCovered, CountBounded
<1> QED
  BY <1>1, BudgetInductive, PTL
=============================================================================
