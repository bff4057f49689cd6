----------------------------- MODULE Detection ------------------------------
(***************************************************************************)
(* From a beacon to the operator's SIEM: the DNS beacon server             *)
(* (oversight_dns/server.py) and direct HTTP beacons, the start, the rate  *)
(* limiter and the beacon handlers of registry/server.py, the events table *)
(* and `oversight siem export' (oversight_core/siem.py).                   *)
(*                                                                         *)
(* The DNS server answers every query and posts the event with a short     *)
(* timeout; it does not look at the status of the reply.  All its posts    *)
(* come from one host and share one bucket of the limiter.  A handler      *)
(* takes the time of its row before it has the database's write lock, so   *)
(* rows can be committed in another order than their timestamps.  The      *)
(* operator exports again and again, from the timestamp of the last event  *)
(* of the export before.                                                   *)
(*                                                                         *)
(* One unit of time is what the limiter needs to add one token.            *)
(***************************************************************************)
EXTENDS Naturals, Sequences, FiniteSets, SequencesExt, FiniteSetsExt

CONSTANTS
  Clients,     \* hosts that fetch HTTP beacons
  Bridge,      \* the host of the DNS server
  Burst,       \* TokenBucket.burst (30)
  MaxKeys,     \* TokenBucket.max_keys (100000)
  Limit,       \* --limit of the export
  MaxTime,     \* bound on the clock
  MaxBeacons,  \* bound on the number of beacons that fire
  MaxCrashes,  \* bound on the number of times the registry dies
  MaxErrors    \* bound on the number of handlers that raise

ASSUME DetectionAssumption ==
  /\ Bridge \notin Clients
  /\ Burst \in Nat \ {0} /\ MaxKeys \in Nat \ {0} /\ Limit \in Nat \ {0}
  /\ MaxTime \in Nat /\ MaxBeacons \in Nat /\ MaxCrashes \in Nat
  /\ MaxErrors \in Nat

VARIABLES
  clock,
  status,     \* "down", "up", or "refused" when the start raised
  identity,   \* identity.json: "none", "torn" or "whole"
  config,     \* is there an operator token or the override for development (auth),
              \* are the posts of the DNS server accepted (secret)
  buckets,    \* TokenBucket._state, least recently used first
  fired,      \* number of beacons that fired
  net,        \* number of requests on their way, by the host that sends them
  beacons,    \* the requests that arrived, and what became of each
  rows,       \* the committed rows of the events table, in order
  exported,   \* ids of the rows the SIEM has
  since,      \* --since of the next export
  grants,     \* history: the requests that the limiter let through
  late,       \* history: rows committed after an export of later ones
  crashes,
  errors

service == <<status, identity, config>>
table   == <<rows, exported, since, late>>
wire    == <<fired, net>>
faults  == <<crashes, errors>>
vars    == <<clock, service, buckets, wire, beacons, table, grants, faults>>

Hosts == Clients \cup {Bridge}

Init ==
  /\ clock = 0
  /\ status = "down" /\ identity = "none"
  /\ config \in [auth : BOOLEAN, secret : BOOLEAN]
  /\ buckets = << >> /\ beacons = << >>
  /\ fired = 0 /\ net = [h \in Hosts |-> 0]
  /\ rows = << >> /\ exported = {} /\ since = 0 /\ late = {}
  /\ grants = << >> /\ crashes = 0 /\ errors = 0

Tick ==
  /\ clock < MaxTime
  /\ clock' = clock + 1
  /\ UNCHANGED <<service, buckets, wire, beacons, table, grants, faults>>
-----------------------------------------------------------------------------
(***************************************************************************)
(* lifespan: _enforce_auth_config, then load_or_create_identity.           *)
(***************************************************************************)
AuthConfigured == config.auth

Start ==
  /\ status = "down"
  /\ IF AuthConfigured /\ identity # "torn"
     THEN status' = "up" /\ identity' = "whole"
     ELSE status' = "refused" /\ UNCHANGED identity
  /\ UNCHANGED <<clock, config, buckets, wire, beacons, table, grants, faults>>

\* The file is truncated before the new identity is in it.
DieInStart ==
  /\ status = "down" /\ AuthConfigured /\ identity = "none" /\ crashes < MaxCrashes
  /\ identity' = "torn" /\ crashes' = crashes + 1
  /\ UNCHANGED <<clock, status, config, buckets, wire, beacons, table, grants, errors>>

\* The limiter's state and the handlers are gone, the table is not.
Die ==
  /\ status = "up" /\ crashes < MaxCrashes
  /\ status' = "down" /\ crashes' = crashes + 1
  /\ buckets' = << >>
  /\ beacons' = [n \in DOMAIN beacons |->
                   IF beacons[n].at = "handler" THEN [beacons[n] EXCEPT !.at = "lost"]
                   ELSE beacons[n]]
  /\ UNCHANGED <<clock, identity, config, table, grants, wire, errors>>
-----------------------------------------------------------------------------
(***************************************************************************)
(* Beacons on their way.                                                   *)
(***************************************************************************)
Send(h) ==
  /\ fired < MaxBeacons
  /\ fired' = fired + 1
  /\ net' = [net EXCEPT ![h] = @ + 1]
  /\ UNCHANGED <<clock, service, buckets, beacons, table, grants, faults>>

\* The DNS server has answered a query for a token and posts the event.
Resolve == Send(Bridge)

FetchBeacon(c) == Send(c)

\* The registry is not reached: the DNS server logs a warning, a reader gets
\* no image.
Lose(h) ==
  /\ net[h] > 0
  /\ net' = [net EXCEPT ![h] = @ - 1]
  /\ UNCHANGED <<clock, service, buckets, fired, beacons, table, grants, faults>>
-----------------------------------------------------------------------------
(***************************************************************************)
(* TokenBucket.allow.  A bucket remembers when it was filled, for the      *)
(* properties only.                                                        *)
(***************************************************************************)
Known(key) == {i \in DOMAIN buckets : buckets[i].key = key}

Place(key) == CHOOSE i \in Known(key) : TRUE

Bucket(key) ==
  IF Known(key) = {} THEN [key |-> key, tokens |-> Burst, last |-> clock, born |-> Len(grants)]
  ELSE buckets[Place(key)]

\* Mutant: the refill is not capped at the burst.
RefilledFreely(b) == b.tokens + (clock - b.last)

Refilled(b) == Min({Burst, b.tokens + (clock - b.last)})

\* Mutant: the bucket of a known key keeps its place.
TouchedInPlace(b, tokens) ==
  LET new == [b EXCEPT !.tokens = tokens, !.last = clock]
      all == IF Known(b.key) = {} THEN Append(buckets, new)
             ELSE [buckets EXCEPT ![Place(b.key)] = new]
  IN IF Len(all) > MaxKeys THEN Tail(all) ELSE all

\* The bucket moves to the end, and the first one goes when there are too many.
Touched(b, tokens) ==
  LET others == IF Known(b.key) = {} THEN buckets ELSE RemoveAt(buckets, Place(b.key))
      all    == Append(others, [b EXCEPT !.tokens = tokens, !.last = clock])
  IN IF Len(all) > MaxKeys THEN Tail(all) ELSE all

\* Mutant: one token is kept back.
AllowedEarly(b) == Refilled(b) >= 2

Allowed(b) == Refilled(b) >= 1

\* _verify_dns_event_auth, for the posts of the DNS server alone: a secret that
\* differs, or none between two hosts, is refused.
Authorised(h) == h = Bridge => config.secret

\* The request reaches the handler: _rate_limit, then the authorisation, then
\* the row gets its time.
Arrive(h) ==
  LET b == Bucket(h)
      Enter(at) == beacons' = Append(beacons, [host |-> h, at |-> at, time |-> clock, life |-> crashes])
  IN
  /\ status = "up" /\ net[h] > 0
  /\ net' = [net EXCEPT ![h] = @ - 1]
  /\ IF Allowed(b)
     THEN /\ buckets' = Touched(b, Refilled(b) - 1)
          /\ grants' = Append(grants, [key |-> h, born |-> b.born, time |-> clock])
          /\ Enter(IF Authorised(h) THEN "handler" ELSE "unauthorised")
     ELSE /\ buckets' = Touched(b, Refilled(b))
          /\ Enter("limited")
          /\ UNCHANGED grants
  /\ UNCHANGED <<clock, service, fired, table, faults>>

\* The leaf is appended and the row committed.
Commit(n) ==
  /\ status = "up" /\ beacons[n].at = "handler"
  /\ rows' = Append(rows, [id |-> n, time |-> beacons[n].time])
  /\ beacons' = [beacons EXCEPT ![n].at = "recorded"]
  /\ late' = IF beacons[n].time < since THEN late \cup {n} ELSE late
  /\ UNCHANGED <<clock, service, buckets, exported, since, grants, faults, wire>>

\* _record_event raises, in the append of the leaf or in the insert: the
\* handler answers 500 and there is no row.  (Module Registry tells the two
\* apart by the leaf they leave.)
CommitFails(n) ==
  /\ status = "up" /\ beacons[n].at = "handler" /\ errors < MaxErrors
  /\ errors' = errors + 1
  /\ beacons' = [beacons EXCEPT ![n].at = "failed"]
  /\ UNCHANGED <<clock, service, buckets, wire, table, grants, crashes>>
-----------------------------------------------------------------------------
(***************************************************************************)
(* siem export.                                                            *)
(***************************************************************************)
\* Mutant: events of the last second are left out.
NewEventsAfter == {i \in DOMAIN rows : rows[i].time > since \/ since = 0}

NewEvents == {i \in DOMAIN rows : rows[i].time >= since}

\* ORDER BY timestamp, id
Before(i, j) == rows[i].time < rows[j].time \/ (rows[i].time = rows[j].time /\ i < j)

\* LIMIT
Batch == {j \in NewEvents : Cardinality({i \in NewEvents : Before(i, j)}) < Limit}

Delivered == exported \cup {rows[i].id : i \in Batch}

\* The sink takes the batch; the operator sees it and goes on from its last event.
Export ==
  /\ \E last \in Batch :
       /\ \A i \in Batch : ~ Before(last, i)
       /\ since' = rows[last].time
  /\ exported' = Delivered
  /\ UNCHANGED <<clock, service, buckets, wire, beacons, rows, late, grants, faults>>

\* The sink raises, after it has stored the batch: the next export repeats it.
ExportUnanswered ==
  /\ Batch # {}
  /\ exported' = Delivered
  /\ UNCHANGED <<clock, service, buckets, wire, beacons, rows, since, late, grants, faults>>

Next ==
  \/ Tick \/ Start \/ DieInStart \/ Die
  \/ Resolve \/ \E c \in Clients : FetchBeacon(c)
  \/ \E h \in Hosts : Lose(h) \/ Arrive(h)
  \/ \E n \in DOMAIN beacons : Commit(n) \/ CommitFails(n)
  \/ Export \/ ExportUnanswered

Spec == Init /\ [][Next]_vars
-----------------------------------------------------------------------------
GrantsOf(born, key, from, to) ==
  {i \in DOMAIN grants : /\ grants[i].born = born /\ grants[i].key = key
                         /\ from <= grants[i].time /\ grants[i].time <= to}

(***************************************************************************)
(* The limiter limits: while a host keeps its bucket (it is not evicted    *)
(* and the registry does not restart), no span of time lets more requests  *)
(* of it through than the burst and what is refilled meanwhile.            *)
(***************************************************************************)
AdmissionsBounded ==
  \A i, j \in DOMAIN grants :
    LET g == grants[i] h == grants[j] IN
    g.key = h.key /\ g.born = h.born /\ g.time <= h.time =>
      Cardinality(GrantsOf(g.born, g.key, g.time, h.time)) <= Burst + (h.time - g.time)

(***************************************************************************)
(* The limiter refuses only a host that has used up, in some span of time  *)
(* that ends with the refusal, its burst and the refill of that span.      *)
(* What other hosts send, an eviction or a restart never costs a host a    *)
(* beacon: the DNS server, whose posts all share one bucket, included.     *)
(***************************************************************************)
RefusedOnlyIfSpent ==
  \A n \in DOMAIN beacons : beacons[n].at = "limited" =>
    \E from \in 0..beacons[n].time :
      Cardinality({i \in DOMAIN grants : /\ grants[i].key = beacons[n].host
                                         /\ grants[i].time \in from..beacons[n].time})
        >= Burst + (beacons[n].time - from)

(***************************************************************************)
(* A host loses its bucket, and gets a fresh burst, only when at least     *)
(* max_keys other hosts have been heard since its last request (or the     *)
(* registry was restarted): _evict_if_needed drops the least recently used *)
(* key, so AdmissionsBounded holds of a host however busy the others are,  *)
(* as long as there are fewer of them than that.                           *)
(***************************************************************************)
EvictsLeastRecent ==
  status = "up" =>
    \A n \in DOMAIN beacons :
      beacons[n].life = crashes /\ Known(beacons[n].host) = {} =>
        Cardinality({beacons[m].host : m \in {k \in DOMAIN beacons : k > n}}) >= MaxKeys

(***************************************************************************)
(* Successive exports skip no event, except one whose handler was still    *)
(* waiting to commit when a later one was exported.                        *)
(***************************************************************************)
ExportsSkipNothing ==
  \A i \in DOMAIN rows : rows[i].id \in exported \/ rows[i].time >= since \/ rows[i].id \in late
=============================================================================
