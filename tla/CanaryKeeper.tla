---------------------------- MODULE CanaryKeeper ----------------------------
(***************************************************************************)
(* The polling agent integrations/perseus_canarykeeper.py against a        *)
(* registry's transparency log: main(), run_once(), process_event() and    *)
(* the state file.                                                         *)
(*                                                                         *)
(* A cycle asks for the signed head, then for at most Page leaves from the *)
(* last size it has seen, raises an alert for each of them, and records    *)
(* the size of the head as seen.  The log grows meanwhile; either request  *)
(* can fail, an alert can get lost, the agent can be killed and restarted. *)
(***************************************************************************)
EXTENDS Naturals, Sequences

CONSTANTS
  Page,              \* the limit of the range request (500)
  MaxLog,            \* bound on the length of the log
  MaxHeadFailures,   \* bound on failed /tlog/head requests
  MaxRangeFailures,  \* bound on failed /tlog/range requests
  MaxLostAlerts,     \* bound on alerts Discord does not take
  MaxSaveFailures,   \* bound on failed writes of the state file
  MaxKills           \* bound on the number of times the agent is killed

ASSUME KeeperAssumption ==
  /\ Page \in Nat \ {0} /\ MaxLog \in Nat
  /\ MaxHeadFailures \in Nat /\ MaxRangeFailures \in Nat
  /\ MaxLostAlerts \in Nat /\ MaxSaveFailures \in Nat /\ MaxKills \in Nat

\* What process_event tells apart: a beacon of a trap file, a beacon of
\* another file, and everything else (registrations, unknown tokens).
Kinds == {"trap", "real", "other"}

VARIABLES
  log,       \* the leaves of the registry, in order
  saved,     \* last_tlog_seen in the state file
  seen,      \* last_tlog_seen in memory
  pc,        \* where run_once is
  size,      \* new_size
  entries,   \* indices of new_entries that are still to be processed
  alerts,    \* indices of the leaves whose alert was delivered
  tries,     \* how often each fault has happened
  page,      \* history: what the range request of this cycle gave
  refused,   \* history: the leaves one of whose alerts was not taken
  passed     \* history: the leaves the agent moved past without having had them

history == <<page, refused, passed>>
keeperVars == <<log, saved, seen, pc, size, entries, alerts, tries, history>>

NoFaults == [head |-> 0, range |-> 0, alert |-> 0, save |-> 0, kill |-> 0]

KeeperInit ==
  /\ log = << >>
  /\ saved = 0 /\ seen = 0
  /\ pc = "sleep"
  /\ size = 0
  /\ entries = << >>
  /\ alerts = {}
  /\ tries = NoFaults
  /\ page = "served" /\ refused = {} /\ passed = {}
-----------------------------------------------------------------------------
\* The registry appends a leaf.
Grow(k) ==
  /\ Len(log) < MaxLog
  /\ log' = Append(log, k)
  /\ UNCHANGED <<saved, seen, pc, size, entries, alerts, tries, history>>

\* The head is fetched; nothing more is done when it shows nothing new.
PollHead ==
  /\ pc = "sleep"
  /\ Len(log) > seen
  /\ size' = Len(log)
  /\ pc' = "range"
  /\ page' = "served"
  /\ UNCHANGED <<log, saved, seen, entries, alerts, tries, refused, passed>>

\* The registry is unreachable, or the head's signature does not verify: the
\* cycle ends.
PollFails ==
  /\ pc = "sleep" /\ tries.head < MaxHeadFailures
  /\ tries' = [tries EXCEPT !.head = @ + 1]
  /\ UNCHANGED <<log, saved, seen, pc, size, entries, alerts, history>>

\* The leaves from the last size seen, which may go beyond the head when
\* the log has grown since.
PageOf(from) ==
  LET last == IF from + Page <= Len(log) THEN from + Page ELSE Len(log)
  IN  [i \in 1..(last - from) |-> from + i - 1]

\* Mutant: the page starts after the first new leaf.
FetchRangeLate ==
  /\ pc = "range"
  /\ entries' = IF seen < Len(log) THEN PageOf(seen + 1) ELSE << >>
  /\ pc' = "process"
  /\ UNCHANGED <<log, saved, seen, size, alerts, tries, history>>

FetchRange ==
  /\ pc = "range"
  /\ entries' = PageOf(seen)
  /\ pc' = "process"
  /\ UNCHANGED <<log, saved, seen, size, alerts, tries, history>>

\* raw_tlog_entries catches httpx.HTTPError and returns no entries.
FetchFails ==
  /\ pc = "range" /\ tries.range < MaxRangeFailures
  /\ tries' = [tries EXCEPT !.range = @ + 1]
  /\ entries' = << >>
  /\ pc' = "process"
  /\ page' = "failed"
  /\ UNCHANGED <<log, saved, seen, size, alerts, refused, passed>>

Alerting(i) == log[i + 1] \in {"trap", "real"}

ProcessEvent ==
  /\ pc = "process" /\ entries # << >>
  /\ alerts' = IF Alerting(Head(entries)) THEN alerts \cup {Head(entries)} ELSE alerts
  /\ entries' = Tail(entries)
  /\ UNCHANGED <<log, saved, seen, pc, size, tries, history>>

\* DiscordNotifier.alert logs the error and goes on.
LoseAlert ==
  /\ pc = "process" /\ entries # << >>
  /\ Alerting(Head(entries))
  /\ tries.alert < MaxLostAlerts
  /\ tries' = [tries EXCEPT !.alert = @ + 1]
  /\ entries' = Tail(entries)
  /\ refused' = refused \cup {Head(entries)}
  /\ UNCHANGED <<log, saved, seen, pc, size, alerts, page, passed>>

\* The leaves up to the head that this cycle did not get: all of them if the
\* request failed, else those behind the first Page.
NotFetched == {i \in seen..(size - 1) : page = "failed" \/ i >= seen + Page}

\* Mutant: counts one leaf more than the head has.
AdvanceOneMore ==
  /\ pc = "process" /\ entries = << >>
  /\ seen' = size + 1
  /\ pc' = "save"
  /\ passed' = passed \cup NotFetched
  /\ UNCHANGED <<log, saved, size, entries, alerts, tries, page, refused>>

\* Mutant: takes the position from the entries that are left.
AdvanceByEntries ==
  /\ pc = "process" /\ entries = << >>
  /\ seen' = Len(entries) - 1
  /\ pc' = "save"
  /\ passed' = passed \cup NotFetched
  /\ UNCHANGED <<log, saved, size, entries, alerts, tries, page, refused>>

Advance ==
  /\ pc = "process" /\ entries = << >>
  /\ seen' = size
  /\ pc' = "save"
  /\ passed' = passed \cup NotFetched
  /\ UNCHANGED <<log, saved, size, entries, alerts, tries, page, refused>>

\* save_state writes a temporary file and renames it.
SaveState ==
  /\ pc = "save"
  /\ saved' = seen
  /\ pc' = "sleep"
  /\ UNCHANGED <<log, seen, size, entries, alerts, tries, history>>

\* save_state raises: main() logs it, the state in memory is kept.
SaveFails ==
  /\ pc = "save" /\ tries.save < MaxSaveFailures
  /\ tries' = [tries EXCEPT !.save = @ + 1]
  /\ pc' = "sleep"
  /\ UNCHANGED <<log, saved, seen, size, entries, alerts, history>>

\* The agent is killed and started again: load_state reads the file back.
Restart ==
  /\ tries.kill < MaxKills
  /\ tries' = [tries EXCEPT !.kill = @ + 1]
  /\ seen' = saved
  /\ pc' = "sleep"
  /\ size' = 0
  /\ entries' = << >>
  /\ UNCHANGED <<log, saved, alerts, history>>

RunOnce == PollHead \/ FetchRange \/ ProcessEvent \/ Advance \/ SaveState

Fault == PollFails \/ FetchFails \/ LoseAlert \/ SaveFails \/ Restart

KeeperNext == (\E k \in Kinds : Grow(k)) \/ RunOnce \/ Fault

KeeperSpec == KeeperInit /\ [][KeeperNext]_keeperVars

\* main() polls for ever.
FairSpec == KeeperSpec /\ WF_keeperVars(RunOnce)
-----------------------------------------------------------------------------
Tries == [head : 0..MaxHeadFailures, range : 0..MaxRangeFailures,
          alert : 0..MaxLostAlerts, save : 0..MaxSaveFailures, kill : 0..MaxKills]

(***************************************************************************)
(* Every variable keeps its type.                                          *)
(***************************************************************************)
TypeOK ==
  /\ log \in Seq(Kinds)
  /\ saved \in Nat /\ seen \in Nat /\ size \in Nat
  /\ pc \in {"sleep", "range", "process", "save"}
  /\ entries \in Seq(Nat)
  /\ alerts \subseteq Nat
  /\ tries \in Tries
  /\ page \in {"served", "failed"} /\ refused \subseteq Nat /\ passed \subseteq Nat

(***************************************************************************)
(* The agent is never ahead of the log, and its file never ahead of it: a  *)
(* restart can repeat leaves but cannot skip any that was not recorded.    *)
(***************************************************************************)
NeverAhead ==
  /\ saved <= seen /\ seen <= Len(log) /\ size <= Len(log)
  /\ \A n \in 1..Len(entries) : entries[n] >= seen /\ entries[n] < Len(log)

\* What can cost the alert of this very leaf: an alert for it that Discord
\* did not take, a failed request for the page that had it, or a backlog at
\* that poll that did not fit in a page.
Missed(i) == i \in refused \/ i \in passed

(***************************************************************************)
(* "Trap beacon fire = intruder. Always P1.": once the agent has moved     *)
(* past a trap beacon its alert was delivered, unless it is one of the     *)
(* leaves that were missed.  Unreachable heads, kills and failed saves     *)
(* cost no alert, nor does a failure in another cycle or for another leaf. *)
(***************************************************************************)
NoTrapSkipped ==
  \A i \in 0..(seen - 1) : log[i + 1] = "trap" => i \in alerts \/ Missed(i)

(***************************************************************************)
(* Every trap beacon in the log is alerted in the end, or is itself one of *)
(* the missed leaves, however polls, saves and runs failed before.         *)
(***************************************************************************)
TrapsAlerted ==
  \A i \in 0..(MaxLog - 1) :
    (i < Len(log) /\ log[i + 1] = "trap") ~> (i \in alerts \/ Missed(i))
=============================================================================
