--------------------------- MODULE AppendOnlyLog ---------------------------
(***************************************************************************)
(* What a transparency log promises to its callers and its auditors: a     *)
(* sequence that only grows at its end, an index is handed to a caller     *)
(* only for a leaf that is in the sequence at that index, and a tree head  *)
(* is published only for a prefix of the sequence.  Nothing is said of     *)
(* memory, files, locks or crashes: none of them may show.                 *)
(***************************************************************************)
EXTENDS Naturals, Sequences

CONSTANT Data

VARIABLES
  log,     \* the leaves, in order
  acked,   \* [index, data] pairs returned to the callers of append
  roots    \* the prefixes whose root was published in a tree head

vars == <<log, acked, roots>>

Init ==
  /\ log = << >>
  /\ acked = {}
  /\ roots = {}

Extend(d) ==
  /\ log' = Append(log, d)
  /\ UNCHANGED <<acked, roots>>

\* A leaf becomes durable and its index is returned in the same step.
ExtendAndAck(d) ==
  /\ log' = Append(log, d)
  /\ acked' = acked \cup {[index |-> Len(log), data |-> d]}
  /\ UNCHANGED roots

\* The head of the first n leaves is published, now or late.
Publish(n) ==
  /\ roots' = roots \cup {SubSeq(log, 1, n)}
  /\ UNCHANGED <<log, acked>>

Next ==
  \/ \E d \in Data : Extend(d) \/ ExtendAndAck(d)
  \/ \E n \in 0..Len(log) : Publish(n)

Spec == Init /\ [][Next]_vars
=============================================================================
