----------------------------- MODULE OpenPolicy -----------------------------
(***************************************************************************)
(* max_opens: oversight_core/policy.py and oversight-policy/src/lib.rs as  *)
(* open_sealed() uses them, for one sealed file opened by several          *)
(* processes that share a state directory (Python and Rust use the same    *)
(* lock file and the same counter file).                                   *)
(*                                                                         *)
(* An open decrypts first, then record_open() takes an exclusive file lock,*)
(* reads the counter, and replaces the counter file by rename; only then   *)
(* is the plaintext returned.  A reader that cannot read or parse the      *)
(* counter file takes it for zero.  The file is fsynced before the rename  *)
(* but the directory is not, so a power failure can bring back the file    *)
(* that was there before.                                                  *)
(***************************************************************************)
EXTENDS Naturals, FiniteSets

CONSTANTS
  Openers,         \* processes that open the file
  Mode,            \* the mode of each opener's PolicyContext, "none" without one
  NoOpener,        \* the lock is free
  MaxOpens,        \* policy["max_opens"] of the manifest
  MaxAttempts,     \* bound on the number of calls of open_sealed
  MaxReadErrors,   \* bound on the number of counter reads that fail
  MaxPowerLosses   \* bound on the number of power failures

ASSUME OpenAssumption ==
  /\ IsFiniteSet(Openers) /\ NoOpener \notin Openers
  /\ Mode \in [Openers -> {"none", "LOCAL_ONLY", "REGISTRY", "HYBRID"}]
  /\ MaxOpens \in Nat /\ MaxAttempts \in Nat
  /\ MaxReadErrors \in Nat /\ MaxPowerLosses \in Nat

VARIABLES
  count,      \* the number in <file_id>.opens.json, 0 when there is no file
  older,      \* the counts whose file a power failure can bring back
  lock,       \* the process that holds <file_id>.opens.lock
  pc,         \* where each process is in open_sealed
  cur,        \* the count it read
  opens,      \* number of times open_sealed returned the plaintext
  uncounted,  \* how many of these were made without a context
  attempts, readErrors, powerLosses

bounds == <<attempts, readErrors, powerLosses>>
results == <<opens, uncounted>>
vars == <<count, older, lock, pc, cur, results, bounds>>

Init ==
  /\ count = 0
  /\ older = {}
  /\ lock = NoOpener
  /\ pc = [p \in Openers |-> "idle"]
  /\ cur = [p \in Openers |-> 0]
  /\ opens = 0 /\ uncounted = 0
  /\ attempts = 0 /\ readErrors = 0 /\ powerLosses = 0
-----------------------------------------------------------------------------
\* Signature, trust, time window, jurisdiction and the key all pass, the
\* plaintext is decrypted and its hash is right.
Decrypt(p) ==
  /\ pc[p] = "idle" /\ attempts < MaxAttempts
  /\ attempts' = attempts + 1
  /\ pc' = [pc EXCEPT ![p] = "record"]
  /\ UNCHANGED <<count, older, lock, cur, results, readErrors, powerLosses>>

\* record_open without a context: nothing is counted.
RecordNothing(p) ==
  /\ pc[p] = "record" /\ Mode[p] = "none"
  /\ pc' = [pc EXCEPT ![p] = "return"]
  /\ UNCHANGED <<count, older, lock, cur, results, bounds>>

\* REGISTRY and HYBRID are refused.
RecordUnsupported(p) ==
  /\ pc[p] = "record" /\ Mode[p] \in {"REGISTRY", "HYBRID"}
  /\ pc' = [pc EXCEPT ![p] = "idle"]
  /\ UNCHANGED <<count, older, lock, cur, results, bounds>>

\* Mutant: the lock file is opened but not locked.
LockNotTaken(p) ==
  /\ pc[p] = "record" /\ Mode[p] = "LOCAL_ONLY"
  /\ pc' = [pc EXCEPT ![p] = "read"]
  /\ UNCHANGED <<count, older, lock, cur, results, bounds>>

Lock(p) ==
  /\ pc[p] = "record" /\ Mode[p] = "LOCAL_ONLY"
  /\ lock = NoOpener
  /\ lock' = p
  /\ pc' = [pc EXCEPT ![p] = "read"]
  /\ UNCHANGED <<count, older, cur, results, bounds>>

ReadCount(p) ==
  /\ pc[p] = "read"
  /\ cur' = [cur EXCEPT ![p] = count]
  /\ pc' = [pc EXCEPT ![p] = "check"]
  /\ UNCHANGED <<count, older, lock, results, bounds>>

\* _local_read_count / read_count: an error or a file that does not parse.
ReadZero(p) ==
  /\ pc[p] = "read" /\ readErrors < MaxReadErrors
  /\ readErrors' = readErrors + 1
  /\ cur' = [cur EXCEPT ![p] = 0]
  /\ pc' = [pc EXCEPT ![p] = "check"]
  /\ UNCHANGED <<count, older, lock, results, attempts, powerLosses>>

\* The limit is reached, or the temporary file cannot be written or renamed:
\* the lock is released and the error leaves open_sealed.
Refuse(p) ==
  /\ pc[p] = "check"
  /\ lock' = NoOpener
  /\ pc' = [pc EXCEPT ![p] = "idle"]
  /\ UNCHANGED <<count, older, cur, results, bounds>>

\* Mutant: counts down.
BumpDown(p) ==
  /\ pc[p] = "check" /\ cur[p] < MaxOpens
  /\ count' = cur[p] - 1
  /\ older' = older \cup {count}
  /\ pc' = [pc EXCEPT ![p] = "unlock"]
  /\ UNCHANGED <<lock, cur, results, bounds>>

\* Mutant: the limit is compared with > instead of >=.
BumpOneMore(p) ==
  /\ pc[p] = "check" /\ cur[p] <= MaxOpens
  /\ count' = cur[p] + 1
  /\ older' = older \cup {count}
  /\ pc' = [pc EXCEPT ![p] = "unlock"]
  /\ UNCHANGED <<lock, cur, results, bounds>>

Bump(p) ==
  /\ pc[p] = "check" /\ cur[p] < MaxOpens
  /\ count' = cur[p] + 1
  /\ older' = older \cup {count}
  /\ pc' = [pc EXCEPT ![p] = "unlock"]
  /\ UNCHANGED <<lock, cur, results, bounds>>

Unlock(p) ==
  /\ pc[p] = "unlock"
  /\ lock' = NoOpener
  /\ pc' = [pc EXCEPT ![p] = "return"]
  /\ UNCHANGED <<count, older, cur, results, bounds>>

ReturnPlaintext(p) ==
  /\ pc[p] = "return"
  /\ opens' = opens + 1
  /\ uncounted' = IF Mode[p] = "none" THEN uncounted + 1 ELSE uncounted
  /\ pc' = [pc EXCEPT ![p] = "idle"]
  /\ UNCHANGED <<count, older, lock, cur, bounds>>

\* A process dies: the kernel releases its lock.
Die(p) ==
  /\ pc[p] # "idle"
  /\ pc' = [pc EXCEPT ![p] = "idle"]
  /\ lock' = IF lock = p THEN NoOpener ELSE lock
  /\ UNCHANGED <<count, older, cur, results, bounds>>

PowerLoss ==
  /\ powerLosses < MaxPowerLosses
  /\ powerLosses' = powerLosses + 1
  /\ count' \in older \cup {count}
  /\ older' = {}
  /\ lock' = NoOpener
  /\ pc' = [p \in Openers |-> "idle"]
  /\ UNCHANGED <<cur, results, attempts, readErrors>>

\* The filesystem writes the directory back.
Writeback ==
  /\ older # {}
  /\ older' = {}
  /\ UNCHANGED <<count, lock, pc, cur, results, bounds>>

Open(p) ==
  \/ Decrypt(p) \/ RecordNothing(p) \/ RecordUnsupported(p) \/ Lock(p)
  \/ ReadCount(p) \/ ReadZero(p) \/ Refuse(p) \/ Bump(p) \/ Unlock(p)
  \/ ReturnPlaintext(p) \/ Die(p)

Next == PowerLoss \/ Writeback \/ \E p \in Openers : Open(p)

Spec == Init /\ [][Next]_vars
-----------------------------------------------------------------------------
(***************************************************************************)
(* Every variable keeps its type.                                          *)
(***************************************************************************)
TypeOK ==
  /\ count \in Nat
  /\ older \subseteq Nat
  /\ lock \in Openers \cup {NoOpener}
  /\ pc \in [Openers -> {"idle", "record", "read", "check", "unlock", "return"}]
  /\ cur \in [Openers -> Nat]
  /\ opens \in Nat /\ uncounted \in Nat
  /\ attempts \in 0..MaxAttempts /\ readErrors \in 0..MaxReadErrors
  /\ powerLosses \in 0..MaxPowerLosses

\* Openers that were counted and have not yet been given the plaintext.
Charged == {p \in Openers : pc[p] \in {"unlock", "return"} /\ Mode[p] # "none"}

\* What the opens may exceed the counter by: those that were not counted,
\* and max_opens for each counter file that was not read or was taken back.
Excess == uncounted + MaxOpens * (readErrors + powerLosses)

(***************************************************************************)
(* Every plaintext returned, or about to be, is covered by the counter: an *)
(* opener that dies between the bump and its return can cost an open but   *)
(* never gain one.                                                         *)
(***************************************************************************)
OpensCovered == opens + Cardinality(Charged) <= Excess + count

(***************************************************************************)
(* "max_opens: decryption refused after this many successful opens", and   *)
(* what the faults cost of it: a counter file that could not be read, or   *)
(* that a power failure took back, gives at most max_opens opens more;     *)
(* only opens without a PolicyContext are unlimited.                       *)
(***************************************************************************)
OpensWithinBudget == opens <= Excess + MaxOpens
=============================================================================
