--------------------------- MODULE RegistryProofs ---------------------------
(***************************************************************************)
(* Theorems about Registry, for every set of files, requests, tokens,      *)
(* worker threads, and every bound on calls and failures.                  *)
(*                                                                         *)
(* The log itself may lose leaves: after a failed append the registry may  *)
(* start without the leaf whose record was not written.  What only grows   *)
(* is acked, the indices that append returned, so the rows, the replies    *)
(* and the bundles are tied to acked (Acked, Noted), and LogOK says that   *)
(* an acknowledged leaf is in the log, at its index, and has its record.   *)
(* The rows of a manifest are covered by the tables or by taken, which     *)
(* only grows too.  FrameOK says what a handler in the middle of its work  *)
(* has already secured, DbOK what holds of the database and of each state  *)
(* of it that a power failure can bring back.                              *)
(***************************************************************************)
EXTENDS Registry, TLAPS

\* append returned index i for leaf l.
Acked(i, l) == [index |-> i, data |-> l] \in acked

Noted(e) == Acked(e.tlog_index, BeaconLeaf(e.event))

LogOK ==
  /\ log \in Seq(Leaf)
  /\ acked \subseteq [index : Nat, data : Leaf]
  /\ lost \subseteq 0..(Len(log) - 1)
  /\ \A a \in acked : LeafAt(a.index, a.data) /\ a.index \notin lost

\* The beacons and watermarks of a manifest have their rows, or another file
\* took them.
Covers(d, r) ==
  /\ \A k \in r.beacons :
       k \in OwnedBy(d.beacons, r.file_id) \/ TakenFrom("beacons", k, r.file_id)
  /\ \A m \in r.watermarks :
       m \in OwnedBy(d.watermarks, r.file_id) \/ TakenFrom("watermarks", m, r.file_id)

DbOK(d) ==
  /\ \A e \in d.events : Noted(e)
  /\ \A f \in Files :
       d.manifests[f] # None =>
         d.manifests[f].file_id = f /\ Covers(d, d.manifests[f])

Reading == {"ev_events", "ev_beacons", "ev_watermarks", "ev_head", "ev_proofs"}

\* A handler at p with the locals fr has what its next steps rely on.
FrameOK(p, fr) ==
  /\ p \in {"reg_insert", "reg_append", "reg_reply"} \cup Reading => fr.req # None
  /\ p \in {"evt_append", "evt_insert"} => fr.event # None
  /\ p \in {"att_manifest", "att_events"} => fr.row # None
  /\ p = "reg_reply" => Acked(fr.index, RegisterLeaf(fr.req))
  /\ p = "evt_insert" => Acked(fr.index, BeaconLeaf(fr.event))
  /\ \A e \in fr.events : Noted(e)
  /\ p = "ev_proofs" => \A e \in fr.events : e.tlog_index < fr.head
  /\ p \in Reading => Covers(db, fr.req)
  /\ p \in {"ev_watermarks", "ev_head", "ev_proofs"} =>
       \A k \in fr.req.beacons :
         k \in fr.beacons \/ TakenFrom("beacons", k, fr.req.file_id)
  /\ p \in {"ev_head", "ev_proofs"} =>
       \A m \in fr.req.watermarks :
         m \in fr.watermarks \/ TakenFrom("watermarks", m, fr.req.file_id)

Types ==
  /\ db \in Database /\ unsynced \subseteq Database
  /\ replies \subseteq Reply /\ bundles \subseteq Bundle

ThreadsOK ==
  /\ pc \in [Threads -> Labels] /\ frame \in [Threads -> Frame]
  /\ \A t \in Threads : FrameOK(pc[t], frame[t])

RepliesAcked == \A p \in replies : Acked(p.tlog_index, RegisterLeaf(p.req))

BundlesAcked ==
  \A b \in bundles : \A e \in b.events :
    /\ e.tlog_index \in b.tlog_proofs
    /\ Noted(e)
    /\ e.tlog_index < b.tlog_head

SentOK == RepliesAcked /\ BundlesAcked /\ BundleCoversManifest

RegistryInv ==
  /\ Types
  /\ LogOK
  /\ ThreadsOK
  /\ \A d \in unsynced \cup {db} : DbOK(d)
  /\ SentOK
-----------------------------------------------------------------------------
(***************************************************************************)
(* The operators.                                                          *)
(***************************************************************************)
LEMMA RequestFields ==
  ASSUME NEW r \in Requests
  PROVE  /\ r # None /\ r.file_id \in Files /\ r.issuer_pub \in Issuers
         /\ r.recipient_id \in Recipients /\ r.beacons \subseteq Tokens
         /\ r.watermarks \subseteq Marks /\ r.corpus \subseteq Hashes
<1>1. r \in Request /\ r # None
  BY RegistryAssumption
<1> QED
  BY <1>1 DEF Request

\* What Registered makes of the four tables.
LEMMA RegisteredFields ==
  ASSUME NEW d \in Database, NEW r \in Requests
  PROVE  LET n == Registered(d, r) IN
         /\ n \in Database
         /\ n.manifests = [d.manifests EXCEPT ![r.file_id] = r]
         /\ n.beacons = [k \in Tokens |-> IF k \in r.beacons THEN OwnerOf(r) ELSE d.beacons[k]]
         /\ n.watermarks = [m \in Marks |-> IF m \in r.watermarks THEN OwnerOf(r)
                                            ELSE d.watermarks[m]]
         /\ n.events = d.events
         /\ OwnerOf(r) # None /\ OwnerOf(r).file_id = r.file_id
<1> DEFINE n == Registered(d, r)
<1>1. /\ n.manifests = [d.manifests EXCEPT ![r.file_id] = r]
      /\ n.beacons = [k \in Tokens |-> IF k \in r.beacons THEN OwnerOf(r) ELSE d.beacons[k]]
      /\ n.watermarks = [m \in Marks |-> IF m \in r.watermarks THEN OwnerOf(r)
                                         ELSE d.watermarks[m]]
      /\ n.corpus = d.corpus \cup ({r.file_id} \X r.corpus)
      /\ n.events = d.events
  BY DEF Registered, Database
<1>2. OwnerOf(r) \in Owner /\ OwnerOf(r).file_id = r.file_id
  BY RequestFields DEF OwnerOf, Owner
<1>3. OwnerOf(r) # None
  BY <1>2, RegistryAssumption DEF Owner, Row
<1>4. n \in Database
  <2>1. r.file_id \in Files /\ r.corpus \subseteq Hashes
    BY RequestFields
  <2>2. /\ d.manifests \in [Files -> Requests \cup {None}]
        /\ d.beacons \in [Tokens -> Owner \cup {None}]
        /\ d.watermarks \in [Marks -> Owner \cup {None}]
        /\ d.corpus \subseteq Files \X Hashes
        /\ d.events \subseteq EventRow
    BY DEF Database
  <2>3. /\ n.manifests \in [Files -> Requests \cup {None}]
        /\ n.beacons \in [Tokens -> Owner \cup {None}]
        /\ n.watermarks \in [Marks -> Owner \cup {None}]
        /\ n.corpus \subseteq Files \X Hashes
        /\ n.events \subseteq EventRow
    BY <1>1, <1>2, <2>1, <2>2
  <2>4. n = [d EXCEPT !.manifests = n.manifests, !.beacons = n.beacons,
                      !.watermarks = n.watermarks, !.corpus = n.corpus]
    BY DEF Registered, Database
  <2> HIDE DEF n
  <2> QED
    BY <2>2, <2>3, <2>4 DEF Database
<1> QED
  BY <1>1, <1>2, <1>3, <1>4

\* A registration removes no row that covers a manifest, unless it is of
\* another file, and then the row is in taken.
LEMMA RegisteredCovers ==
  ASSUME NEW d \in Database, NEW r \in Requests, taken' = taken \cup RowsTaken(d, r),
         NEW n, n = Registered(d, r)
  PROVE  /\ Covers(n, r)'
         /\ \A s \in Requests : Covers(d, s) => Covers(n, s)'
<1>1. /\ n.beacons = [k \in Tokens |-> IF k \in r.beacons THEN OwnerOf(r) ELSE d.beacons[k]]
      /\ n.watermarks = [m \in Marks |-> IF m \in r.watermarks THEN OwnerOf(r)
                                         ELSE d.watermarks[m]]
      /\ OwnerOf(r) # None /\ OwnerOf(r).file_id = r.file_id
  BY RegisteredFields
<1>2. DOMAIN d.beacons = Tokens /\ DOMAIN d.watermarks = Marks
  BY DEF Database
<1>3. Covers(n, r)'
  BY <1>1, RequestFields DEF Covers, OwnedBy
<1>4. ASSUME NEW s \in Requests, Covers(d, s)
      PROVE  Covers(n, s)'
  <2>1. \A table, k : TakenFrom(table, k, s.file_id) => TakenFrom(table, k, s.file_id)'
    BY DEF TakenFrom
  <2>2. ASSUME NEW k \in s.beacons
        PROVE  (k \in OwnedBy(n.beacons, s.file_id)
                \/ TakenFrom("beacons", k, s.file_id))'
    <3>1. CASE TakenFrom("beacons", k, s.file_id)
      BY <2>1, <3>1
    <3>2. CASE k \in Tokens /\ d.beacons[k] # None /\ d.beacons[k].file_id = s.file_id
               /\ (k \notin r.beacons \/ r.file_id = s.file_id)
      BY <1>1, <3>2 DEF OwnedBy
    <3>3. CASE k \in Tokens /\ d.beacons[k] # None /\ d.beacons[k].file_id = s.file_id
               /\ k \in r.beacons /\ r.file_id # s.file_id
      <4>1. [table |-> "beacons", key |-> k, from |-> d.beacons[k], to |-> OwnerOf(r)]
              \in RowsTaken(d, r)
        BY <1>1, <3>3 DEF RowsTaken
      <4> QED
        BY <1>1, <3>3, <4>1 DEF TakenFrom
    <3> QED
      BY <1>2, <1>4, <3>1, <3>2, <3>3 DEF Covers, OwnedBy
  <2>3. ASSUME NEW m \in s.watermarks
        PROVE  (m \in OwnedBy(n.watermarks, s.file_id)
                \/ TakenFrom("watermarks", m, s.file_id))'
    <3>1. CASE TakenFrom("watermarks", m, s.file_id)
      BY <2>1, <3>1
    <3>2. CASE m \in Marks /\ d.watermarks[m] # None /\ d.watermarks[m].file_id = s.file_id
               /\ (m \notin r.watermarks \/ r.file_id = s.file_id)
      BY <1>1, <3>2 DEF OwnedBy
    <3>3. CASE m \in Marks /\ d.watermarks[m] # None /\ d.watermarks[m].file_id = s.file_id
               /\ m \in r.watermarks /\ r.file_id # s.file_id
      <4>1. [table |-> "watermarks", key |-> m, from |-> d.watermarks[m], to |-> OwnerOf(r)]
              \in RowsTaken(d, r)
        BY <1>1, <3>3 DEF RowsTaken
      <4> QED
        BY <1>1, <3>3, <4>1 DEF TakenFrom
    <3> QED
      BY <1>2, <1>4, <3>1, <3>2, <3>3 DEF Covers, OwnedBy
  <2> QED
    BY <2>2, <2>3 DEF Covers
<1> QED
  BY <1>3, <1>4

LEMMA RegisteredOK ==
  ASSUME NEW d \in Database, NEW r \in Requests, DbOK(d),
         taken' = taken \cup RowsTaken(d, r), UNCHANGED acked,
         NEW n, n = Registered(d, r)
  PROVE  DbOK(n)'
<1>1. /\ n.manifests = [d.manifests EXCEPT ![r.file_id] = r]
      /\ n.events = d.events
  BY RegisteredFields
<1>2. Covers(n, r)' /\ \A s \in Requests : Covers(d, s) => Covers(n, s)'
  BY RegisteredCovers
<1>3. d.manifests \in [Files -> Requests \cup {None}]
  BY DEF Database
<1>4. \A e \in n.events : Noted(e)'
  BY <1>1 DEF DbOK, Noted, Acked
<1>5. ASSUME NEW f \in Files, n.manifests[f] # None
      PROVE  n.manifests[f].file_id = f /\ Covers(n, n.manifests[f])'
  <2>1. CASE f = r.file_id
    <3>1. n.manifests[f] = r
      BY <1>1, <1>3, <2>1
    <3> QED
      BY <1>2, <2>1, <3>1 DEF Covers
  <2>2. CASE f # r.file_id
    <3>1. PICK s \in Requests : s = d.manifests[f] /\ n.manifests[f] = s
      BY <1>1, <1>3, <1>5, <2>2
    <3>2. s # None /\ s.file_id = f /\ Covers(d, s)
      BY <1>5, <3>1 DEF DbOK
    <3>3. Covers(n, s)'
      BY <1>2, <3>2
    <3> QED
      BY <3>1, <3>2, <3>3 DEF Covers
  <2> QED
    BY <2>1, <2>2
<1> QED
  BY <1>4, <1>5 DEF DbOK
-----------------------------------------------------------------------------
(***************************************************************************)
(* The log: what an append, a failed append and a start make of it.        *)
(***************************************************************************)
LEMMA LogAppends ==
  ASSUME LogOK, NEW l \in Leaf, log' = Append(log, l), NEW i, i = Len(log),
         \/ acked' = acked \cup {[index |-> i, data |-> l]} /\ lost' = lost
         \/ acked' = acked /\ lost' \in {lost, lost \cup {i}}
  PROVE  LogOK'
<1>1. /\ Len(log) \in Nat /\ log' \in Seq(Leaf) /\ Len(log') = Len(log) + 1
      /\ \A j \in 1..Len(log) : log'[j] = log[j]
      /\ log'[Len(log) + 1] = l
  BY DEF LogOK
<1>2. acked' \subseteq [index : Nat, data : Leaf]
  BY <1>1 DEF LogOK
<1>3. lost' \subseteq 0..(Len(log') - 1)
  <2>1. lost \subseteq 0..(Len(log) - 1) /\ lost' \subseteq lost \cup {i}
    BY DEF LogOK
  <2>2. \A j \in lost \cup {i} : j \in 0..(Len(log') - 1)
    BY <1>1, <2>1
  <2> QED
    BY <2>1, <2>2
<1>4. ASSUME NEW a \in acked
      PROVE  LeafAt(a.index, a.data)' /\ a.index \notin lost'
  <2>1. a.index \in Nat /\ a.index < Len(log) /\ log[a.index + 1] = a.data
        /\ a.index \notin lost
    BY DEF LogOK, LeafAt
  <2> QED
    BY <1>1, <2>1 DEF LeafAt
<1>5. ASSUME NEW a \in acked', a \notin acked
      PROVE  LeafAt(a.index, a.data)' /\ a.index \notin lost'
  <2>1. a.index = i /\ a.data = l /\ lost' = lost
    BY <1>5
  <2>2. i \notin lost
    BY <1>1 DEF LogOK
  <2> QED
    BY <1>1, <2>1, <2>2 DEF LeafAt
<1> QED
  BY <1>1, <1>2, <1>3, <1>4, <1>5 DEF LogOK

\* The leaves without a record go when the log is read back; an acknowledged
\* leaf is before all of them.
LEMMA LogStarts ==
  ASSUME LogOK, Startup
  PROVE  LogOK'
<1>1. PICK n \in 0..Len(log) : lost = n..(Len(log) - 1) /\ log' = SubSeq(log, 1, n)
  BY DEF Startup
<1>2. lost' = {} /\ acked' = acked
  BY DEF Startup
<1>3. /\ Len(log) \in Nat /\ log' \in Seq(Leaf) /\ Len(log') = n
      /\ \A j \in 1..n : log'[j] = log[j]
  BY <1>1 DEF LogOK
<1>4. ASSUME NEW a \in acked
      PROVE  LeafAt(a.index, a.data)'
  <2>1. a.index \in Nat /\ a.index < Len(log) /\ log[a.index + 1] = a.data
        /\ a.index \notin lost
    BY DEF LogOK, LeafAt
  <2>2. a.index < n
    BY <1>1, <1>3, <2>1
  <2> QED
    BY <1>3, <2>1, <2>2 DEF LeafAt
<1> QED
  BY <1>2, <1>3, <1>4 DEF LogOK

LEMMA LogSame ==
  ASSUME LogOK, UNCHANGED <<log, acked, lost>>
  PROVE  LogOK'
BY DEF LogOK, LeafAt

\* What append returned is in the log.
LEMMA AckedInLog ==
  ASSUME LogOK, NEW i, NEW l, Acked(i, l)
  PROVE  LeafAt(i, l) /\ i \in Nat
<1>1. PICK a \in acked : a = [index |-> i, data |-> l]
  BY DEF Acked
<1>2. a.index = i /\ a.data = l
  BY <1>1
<1>3. LeafAt(a.index, a.data) /\ a.index \in Nat
  BY DEF LogOK
<1> QED
  BY <1>2, <1>3
-----------------------------------------------------------------------------
(***************************************************************************)
(* What stays true while acked and taken grow.                             *)
(***************************************************************************)
Grows == acked \subseteq acked' /\ taken \subseteq taken'

\* The rows of every manifest a handler holds are still there.
RowsStay == \A s \in Requests : Covers(db, s) => Covers(db, s)'

LEMMA FactsStay ==
  ASSUME Grows
  PROVE  /\ \A i, l : Acked(i, l) => Acked(i, l)'
         /\ \A e : Noted(e) => Noted(e)'
         /\ \A table, k, f : TakenFrom(table, k, f) => TakenFrom(table, k, f)'
BY DEF Grows, Acked, Noted, TakenFrom

LEMMA CoversStays ==
  ASSUME Grows, NEW d, NEW r, Covers(d, r)
  PROVE  Covers(d, r)'
BY FactsStay DEF Covers

LEMMA DbStays ==
  ASSUME Grows, NEW d, DbOK(d)
  PROVE  DbOK(d)'
<1>1. \A e \in d.events : Noted(e)'
  BY FactsStay DEF DbOK
<1>2. ASSUME NEW f \in Files, d.manifests[f] # None
      PROVE  Covers(d, d.manifests[f])'
  <2>1. PICK r : r = d.manifests[f]
    OBVIOUS
  <2>2. Covers(d, r)'
    BY <1>2, <2>1, CoversStays DEF DbOK
  <2> QED
    BY <2>1, <2>2 DEF Covers
<1> QED
  BY <1>1, <1>2 DEF DbOK

LEMMA FrameStays ==
  ASSUME Grows, RowsStay, NEW p \in Labels, NEW fr \in Frame, FrameOK(p, fr)
  PROVE  FrameOK(p, fr)'
<1>1. fr.req \in Requests \cup {None}
  BY DEF Frame
<1>2. \A e \in fr.events : Noted(e)'
  BY FactsStay DEF FrameOK
<1>3. p = "reg_reply" => Acked(fr.index, RegisterLeaf(fr.req))'
  BY FactsStay DEF FrameOK
<1>4. p = "evt_insert" => Acked(fr.index, BeaconLeaf(fr.event))'
  BY FactsStay DEF FrameOK
<1>5. p \in Reading => Covers(db, fr.req)'
  <2>1. CASE p \in Reading
    <3>1. PICK r \in Requests : r = fr.req
      BY <1>1, <2>1 DEF FrameOK
    <3>2. Covers(db, r)
      BY <2>1, <3>1 DEF FrameOK
    <3>3. Covers(db, r)'
      BY <3>2 DEF RowsStay
    <3> QED
      BY <3>1, <3>3 DEF Covers
  <2> QED
    BY <2>1
<1>6. p \in {"ev_watermarks", "ev_head", "ev_proofs"} =>
        \A k \in fr.req.beacons :
          k \in fr.beacons \/ TakenFrom("beacons", k, fr.req.file_id)'
  BY FactsStay DEF FrameOK
<1>7. p \in {"ev_head", "ev_proofs"} =>
        \A m \in fr.req.watermarks :
          m \in fr.watermarks \/ TakenFrom("watermarks", m, fr.req.file_id)'
  BY FactsStay DEF FrameOK
<1> QED
  BY <1>2, <1>3, <1>4, <1>5, <1>6, <1>7 DEF FrameOK

\* The answers that were sent stay right.
LEMMA SentStays ==
  ASSUME SentOK, Grows, UNCHANGED <<replies, bundles>>
  PROVE  SentOK'
<1>1. RepliesAcked'
  BY FactsStay DEF SentOK, RepliesAcked
<1>2. BundlesAcked'
  BY FactsStay DEF SentOK, BundlesAcked
<1>3. BundleCoversManifest'
  BY FactsStay DEF SentOK, BundleCoversManifest
<1> QED
  BY <1>1, <1>2, <1>3 DEF SentOK
-----------------------------------------------------------------------------
(***************************************************************************)
(* Every action keeps the invariant.                                       *)
(***************************************************************************)
LEMMA NoFrameOK == NoFrame \in Frame /\ FrameOK("idle", NoFrame) /\ "idle" \in Labels
BY DEF NoFrame, Frame, FrameOK, Reading, Labels

\* One thread goes on; what the others have secured stays.
LEMMA ThreadMoves ==
  ASSUME ThreadsOK, Grows, RowsStay, NEW t \in Threads, NEW p \in Labels,
         NEW fr \in Frame, FrameOK(p, fr)', Goto(t, p, fr)
  PROVE  ThreadsOK'
<1>1. /\ pc \in [Threads -> Labels] /\ frame \in [Threads -> Frame]
      /\ \A u \in Threads : FrameOK(pc[u], frame[u])
  BY DEF ThreadsOK
<1>2. /\ pc' = [pc EXCEPT ![t] = p] /\ frame' = [frame EXCEPT ![t] = fr]
      /\ pc' \in [Threads -> Labels] /\ frame' \in [Threads -> Frame]
  BY <1>1 DEF Goto
<1>3. ASSUME NEW u \in Threads
      PROVE  FrameOK(pc[u], frame[u])'
  <2>1. PICK q \in Labels, x \in Frame : q = pc'[u] /\ x = frame'[u]
    BY <1>2
  <2>2. FrameOK(q, x)'
    <3>1. CASE u = t
      <4>1. q = p /\ x = fr
        BY <1>1, <1>2, <2>1, <3>1
      <4> QED
        BY <4>1
    <3>2. CASE u # t
      <4>1. q = pc[u] /\ x = frame[u]
        BY <1>1, <1>2, <2>1, <3>2
      <4>2. FrameOK(q, x)
        BY <1>1, <4>1
      <4> QED
        BY <4>2, FrameStays
    <3> QED
      BY <3>1, <3>2
  <2> QED
    BY <2>1, <2>2
       DEF FrameOK, Noted, Acked, Covers, OwnedBy, TakenFrom, RegisterLeaf, BeaconLeaf
<1> QED
  BY <1>2, <1>3 DEF ThreadsOK

\* A step of one thread that leaves the tables alone and sends nothing.
LEMMA LocalStep ==
  ASSUME RegistryInv, LogOK', acked \subseteq acked',
         UNCHANGED <<db, unsynced, taken, replies, bundles>>,
         NEW t \in Threads, NEW p \in Labels, NEW fr \in Frame, FrameOK(p, fr)',
         Goto(t, p, fr)
  PROVE  RegistryInv'
<1>1. Grows /\ Types'
  BY DEF RegistryInv, Types, Grows
<1>2. RowsStay
  BY <1>1, CoversStays DEF RowsStay, Covers
<1>3. ThreadsOK'
  BY <1>1, <1>2, ThreadMoves DEF RegistryInv
<1>4. \A d \in unsynced' \cup {db'} : DbOK(d)'
  BY <1>1, DbStays DEF RegistryInv
<1>5. SentOK'
  BY <1>1, SentStays DEF RegistryInv
<1> QED
  BY <1>1, <1>3, <1>4, <1>5 DEF RegistryInv

quiet == <<db, unsynced, taken, log, acked, lost, replies, bundles>>

\* One that only reads.
LEMMA ReadStep ==
  ASSUME RegistryInv, UNCHANGED quiet,
         NEW t \in Threads, NEW p \in Labels, NEW fr \in Frame, FrameOK(p, fr),
         Goto(t, p, fr)
  PROVE  RegistryInv'
<1>1. LogOK' /\ Grows
  BY LogSame DEF RegistryInv, Grows, quiet
<1>2. RowsStay
  BY <1>1, CoversStays DEF RowsStay, Covers, quiet
<1>3. FrameOK(p, fr)'
  BY <1>1, <1>2, FrameStays
<1> QED
  BY <1>1, <1>3, LocalStep DEF quiet, Grows

\* A step that changes no table and no handler; a start is one, and a
\* checkpoint.
LEMMA QuietStep ==
  ASSUME RegistryInv, LogOK', UNCHANGED <<db, taken, acked, pc, frame, replies, bundles>>,
         unsynced' \subseteq unsynced
  PROVE  RegistryInv'
<1>1. Grows /\ Types'
  BY DEF RegistryInv, Types, Grows
<1>2. ThreadsOK'
  BY DEF RegistryInv, ThreadsOK, FrameOK, Noted, Acked, Covers, OwnedBy, TakenFrom
<1>3. \A d \in unsynced' \cup {db'} : DbOK(d)'
  BY <1>1, DbStays DEF RegistryInv
<1>4. SentOK'
  BY <1>1, SentStays DEF RegistryInv
<1> QED
  BY <1>1, <1>2, <1>3, <1>4 DEF RegistryInv

\* A transaction commits, and its handler goes on.
LEMMA CommitStep ==
  ASSUME RegistryInv, UNCHANGED <<log, acked, lost, replies, bundles>>,
         taken \subseteq taken',
         NEW new \in Database, DbOK(new)', Commit(new),
         \A s \in Requests : Covers(db, s) => Covers(new, s)',
         NEW t \in Threads, NEW p \in Labels, NEW fr \in Frame, FrameOK(p, fr),
         Goto(t, p, fr)
  PROVE  RegistryInv'
<1>1. LogOK' /\ Grows /\ Types' /\ db' = new /\ unsynced' = unsynced \cup {db}
  BY LogSame DEF RegistryInv, Types, Grows, Commit
<1>2. RowsStay
  <2>1. ASSUME NEW s \in Requests, Covers(db, s)
        PROVE  Covers(db, s)'
    <3>1. Covers(new, s)'
      BY <2>1
    <3> QED
      BY <1>1, <3>1 DEF Covers
  <2> QED
    BY <2>1 DEF RowsStay
<1>3. FrameOK(p, fr)'
  BY <1>1, <1>2, FrameStays
<1>4. ThreadsOK'
  BY <1>1, <1>2, <1>3, ThreadMoves DEF RegistryInv
<1>5. \A d \in unsynced' \cup {db'} : DbOK(d)'
  <2>1. \A d \in unsynced \cup {db} : DbOK(d)'
    BY <1>1, DbStays DEF RegistryInv
  <2> QED
    BY <1>1, <2>1
<1>6. SentOK'
  BY <1>1, SentStays DEF RegistryInv
<1> QED
  BY <1>1, <1>4, <1>5, <1>6 DEF RegistryInv

\* The state of a thread that an action speaks of.
LEMMA ThreadFacts ==
  ASSUME RegistryInv, NEW t \in Threads
  PROVE  pc[t] \in Labels /\ frame[t] \in Frame /\ FrameOK(pc[t], frame[t])
BY DEF RegistryInv, ThreadsOK

LEMMA ManifestFacts ==
  ASSUME RegistryInv, NEW f \in Files
  PROVE  /\ db.manifests[f] \in Requests \cup {None}
         /\ db.manifests[f] # None =>
              db.manifests[f].file_id = f /\ Covers(db, db.manifests[f])
BY DEF RegistryInv, Types, Database, DbOK

LEMMA RegisterSteps ==
  ASSUME RegistryInv, NEW t \in Threads, RegisterStep(t)
  PROVE  RegistryInv'
<1>0. PICK fr \in Frame : fr = frame[t] /\ FrameOK(pc[t], fr)
  BY ThreadFacts
<1>1. CASE RegisterCommit(t)
  <2>1. fr.req \in Requests /\ pc[t] = "reg_insert"
    BY <1>0, <1>1 DEF RegisterCommit, FrameOK, Frame
  <2>2. PICK new : new = Registered(db, fr.req)
    OBVIOUS
  <2>3. /\ Commit(new) /\ Goto(t, "reg_append", fr)
        /\ taken' = taken \cup RowsTaken(db, fr.req)
        /\ UNCHANGED <<log, acked, lost, replies, bundles>>
    BY <1>0, <1>1, <2>2 DEF RegisterCommit, tlog, sent
  <2>4. PICK d \in Database : d = db /\ DbOK(d)
    BY DEF RegistryInv, Types
  <2>5. new \in Database /\ DbOK(new)' /\ \A s \in Requests : Covers(d, s) => Covers(new, s)'
    <3>1. new = Registered(d, fr.req) /\ taken' = taken \cup RowsTaken(d, fr.req)
      BY <2>2, <2>3, <2>4
    <3> QED
      BY <2>1, <2>3, <2>4, <3>1, RegisteredFields, RegisteredOK, RegisteredCovers
  <2>6. \A s \in Requests : Covers(db, s) => Covers(new, s)'
    BY <2>4, <2>5 DEF Covers
  <2>7. FrameOK("reg_append", fr) /\ "reg_append" \in Labels
    BY <1>0, <2>1 DEF FrameOK, Reading, Labels
  <2> QED
    BY <2>3, <2>5, <2>6, <2>7, CommitStep
<1>2. CASE RegisterAppend(t)
  <2>1. fr.req \in Requests /\ pc[t] = "reg_append"
    BY <1>0, <1>2 DEF RegisterAppend, FrameOK, Frame
  <2>2. PICK l, x : l = RegisterLeaf(fr.req) /\ x = [fr EXCEPT !.index = Len(log)]
    OBVIOUS
  <2>3. l \in Leaf
    BY <2>1, <2>2, RequestFields DEF RegisterLeaf, Leaf
  <2>4. /\ log' = Append(log, l) /\ Goto(t, "reg_reply", x)
        /\ acked' = acked \cup {[index |-> Len(log), data |-> l]}
        /\ UNCHANGED <<db, unsynced, taken, lost, replies, bundles>>
    BY <1>0, <1>2, <2>2 DEF RegisterAppend, TLOG!ExtendAndAck, tables, sent
  <2>5. LogOK /\ Len(log) \in Nat
    BY DEF RegistryInv, LogOK
  <2>6. x \in Frame /\ x.index = Len(log) /\ x.req = fr.req /\ x.events = fr.events
    BY <2>2, <2>5 DEF Frame
  <2>7. LogOK' /\ Acked(x.index, l)' /\ acked \subseteq acked'
    BY <2>3, <2>4, <2>5, <2>6, LogAppends DEF Acked
  <2>8. \A e \in x.events : Noted(e)'
    BY <1>0, <2>6, <2>7 DEF FrameOK, Noted, Acked
  <2>9. FrameOK("reg_reply", x)' /\ "reg_reply" \in Labels
    BY <2>1, <2>2, <2>6, <2>7, <2>8, RequestFields DEF FrameOK, Reading, Labels
  <2> QED
    BY <2>4, <2>6, <2>7, <2>9, LocalStep
<1>3. CASE RegisterReply(t)
  <2>1. fr.req \in Requests /\ Acked(fr.index, RegisterLeaf(fr.req)) /\ fr.index \in Nat
    BY <1>0, <1>3 DEF RegisterReply, FrameOK, Frame
  <2>2. /\ replies' = replies \cup {[req |-> fr.req, tlog_index |-> fr.index]}
        /\ Goto(t, "idle", NoFrame)
        /\ UNCHANGED <<db, unsynced, taken, log, acked, lost, bundles>>
    BY <1>0, <1>3 DEF RegisterReply, Return, tables, tlog
  <2>3. Grows /\ Types' /\ LogOK'
    BY <2>1, <2>2, LogSame DEF RegistryInv, Types, Grows, Reply
  <2>4. RowsStay
    BY <2>2, <2>3, CoversStays DEF RowsStay, Covers
  <2>5. ThreadsOK'
    <3>1. FrameOK("idle", NoFrame)'
      BY <2>3, <2>4, NoFrameOK, FrameStays
    <3> QED
      BY <2>2, <2>3, <2>4, <3>1, NoFrameOK, ThreadMoves DEF RegistryInv
  <2>6. \A d \in unsynced' \cup {db'} : DbOK(d)'
    BY <2>2, <2>3, DbStays DEF RegistryInv
  <2>7. RepliesAcked'
    BY <2>1, <2>2 DEF RegistryInv, SentOK, RepliesAcked, Acked
  <2>8. BundlesAcked'
    BY <2>2, <2>3, FactsStay DEF RegistryInv, SentOK, BundlesAcked
  <2>9. BundleCoversManifest'
    BY <2>2, <2>3, FactsStay DEF RegistryInv, SentOK, BundleCoversManifest
  <2> QED
    BY <2>3, <2>5, <2>6, <2>7, <2>8, <2>9 DEF RegistryInv, SentOK
<1> QED
  BY <1>1, <1>2, <1>3 DEF RegisterStep

LEMMA EventSteps ==
  ASSUME RegistryInv, NEW t \in Threads, EventStep(t)
  PROVE  RegistryInv'
<1>0. PICK fr \in Frame : fr = frame[t] /\ FrameOK(pc[t], fr)
  BY ThreadFacts
<1>1. CASE EventAppend(t)
  <2>1. fr.event \in Event /\ fr.event # None
    BY <1>0, <1>1 DEF EventAppend, FrameOK, Frame
  <2>2. PICK l, x : l = BeaconLeaf(fr.event) /\ x = [fr EXCEPT !.index = Len(log)]
    OBVIOUS
  <2>3. l \in Leaf
    BY <2>1, <2>2 DEF BeaconLeaf, Leaf
  <2>4. /\ log' = Append(log, l) /\ Goto(t, "evt_insert", x)
        /\ acked' = acked \cup {[index |-> Len(log), data |-> l]}
        /\ UNCHANGED <<db, unsynced, taken, lost, replies, bundles>>
    BY <1>0, <1>1, <2>2 DEF EventAppend, TLOG!ExtendAndAck, tables, sent
  <2>5. LogOK /\ Len(log) \in Nat
    BY DEF RegistryInv, LogOK
  <2>6. x \in Frame /\ x.index = Len(log) /\ x.event = fr.event /\ x.events = fr.events
    BY <2>2, <2>5 DEF Frame
  <2>7. LogOK' /\ Acked(x.index, l)' /\ acked \subseteq acked'
    BY <2>3, <2>4, <2>5, <2>6, LogAppends DEF Acked
  <2>8. \A e \in x.events : Noted(e)'
    BY <1>0, <2>6, <2>7 DEF FrameOK, Noted, Acked
  <2>9. FrameOK("evt_insert", x)' /\ "evt_insert" \in Labels
    BY <2>1, <2>2, <2>6, <2>7, <2>8, RequestFields DEF FrameOK, Reading, Labels
  <2> QED
    BY <2>4, <2>6, <2>7, <2>9, LocalStep
<1>2. CASE EventInsert(t)
  <2>1. /\ fr.event \in Event /\ fr.index \in Nat
        /\ Acked(fr.index, BeaconLeaf(fr.event))
    BY <1>0, <1>2 DEF EventInsert, FrameOK, Frame
  <2>2. PICK e : e = [event |-> fr.event, tlog_index |-> fr.index]
    OBVIOUS
  <2>3. e \in EventRow /\ Noted(e)
    BY <2>1, <2>2 DEF EventRow, Noted
  <2>4. PICK new : new = [db EXCEPT !.events = @ \cup {e}]
    OBVIOUS
  <2>5. /\ new \in Database /\ new.events = db.events \cup {e}
        /\ new.manifests = db.manifests /\ new.beacons = db.beacons
        /\ new.watermarks = db.watermarks
    BY <2>3, <2>4 DEF RegistryInv, Types, Database
  <2>6. DbOK(new) /\ \A s \in Requests : Covers(db, s) => Covers(new, s)
    BY <2>3, <2>5 DEF RegistryInv, DbOK, Covers
  <2>7. /\ Commit(new) /\ Goto(t, "idle", NoFrame)
        /\ UNCHANGED <<taken, log, acked, lost, replies, bundles>>
    BY <1>0, <1>2, <2>2, <2>4 DEF EventInsert, Return, tlog, sent
  <2>8. DbOK(new)' /\ \A s \in Requests : Covers(db, s) => Covers(new, s)'
    BY <2>6, <2>7, DbStays, CoversStays DEF Grows
  <2> QED
    BY <2>5, <2>7, <2>8, NoFrameOK, CommitStep
<1> QED
  BY <1>1, <1>2 DEF EventStep

LEMMA AttributeSteps ==
  ASSUME RegistryInv, NEW t \in Threads, AttributeStep(t)
  PROVE  RegistryInv'
<1>0. PICK fr \in Frame : fr = frame[t] /\ FrameOK(pc[t], fr)
  BY ThreadFacts
<1>1. CASE AttributeManifest(t)
  <2>1. fr.row \in Row /\ fr.row # None
    BY <1>0, <1>1 DEF AttributeManifest, FrameOK, Frame
  <2>2. PICK x : x = [fr EXCEPT !.req = db.manifests[fr.row.file_id]]
    OBVIOUS
  <2>3. db.manifests[fr.row.file_id] \in Requests \cup {None}
    BY <2>1, ManifestFacts DEF Row
  <2>4. x \in Frame /\ x.row = fr.row /\ x.events = fr.events
    BY <2>2, <2>3 DEF Frame
  <2>5. FrameOK("att_events", x) /\ "att_events" \in Labels
    BY <1>0, <2>1, <2>4 DEF FrameOK, Reading, Labels
  <2>6. Goto(t, "att_events", x) /\ UNCHANGED quiet
    BY <1>0, <1>1, <2>2 DEF AttributeManifest, tlog, sent, tables, quiet
  <2> QED
    BY <2>4, <2>5, <2>6, ReadStep
<1>2. CASE AttributeReply(t)
  <2>1. Goto(t, "idle", NoFrame) /\ UNCHANGED quiet
    BY <1>2 DEF AttributeReply, Return, tlog, sent, tables, quiet
  <2> QED
    BY <2>1, NoFrameOK, ReadStep
<1> QED
  BY <1>1, <1>2 DEF AttributeStep

\* The rows of a bundle: an event that was read is in the log, and the head
\* that is taken afterwards covers it; the rows of the manifest that was read
\* are still there when the tables are.
LEMMA EvidenceSteps ==
  ASSUME RegistryInv, NEW t \in Threads, EvidenceStep(t)
  PROVE  RegistryInv'
<1>0. PICK fr \in Frame : fr = frame[t] /\ FrameOK(pc[t], fr)
  BY ThreadFacts
<1>1. pc[t] \in Reading /\ fr.req \in Requests /\ Covers(db, fr.req)
  <2>1. pc[t] \in Reading
    BY DEF EvidenceStep, EvidenceEvents, EvidenceBeacons, EvidenceWatermarks, EvidenceHead,
           EvidenceReply, Reading
  <2> QED
    BY <1>0, <2>1 DEF FrameOK, Frame
<1>2. Reading \subseteq Labels
  BY DEF Reading, Labels
<1>3. db \in Database /\ DbOK(db) /\ LogOK /\ Len(log) \in Nat
  BY DEF RegistryInv, Types, LogOK
<1>4. CASE EvidenceEvents(t)
  <2>1. PICK x : x = [fr EXCEPT !.events = EventsOf(db, fr.req.file_id)]
    OBVIOUS
  <2>2. EventsOf(db, fr.req.file_id) \subseteq EventRow
        /\ \A e \in EventsOf(db, fr.req.file_id) : Noted(e)
    BY <1>3 DEF EventsOf, DbOK, Database
  <2>3. x \in Frame /\ x.req = fr.req /\ x.events = EventsOf(db, fr.req.file_id)
    BY <2>1, <2>2 DEF Frame
  <2>4. FrameOK("ev_beacons", x) /\ "ev_beacons" \in Labels
    BY <1>1, <2>2, <2>3, RequestFields DEF FrameOK, Labels
  <2>5. Goto(t, "ev_beacons", x) /\ UNCHANGED quiet
    BY <1>0, <1>4, <2>1 DEF EvidenceEvents, tlog, sent, tables, quiet
  <2> QED
    BY <2>3, <2>4, <2>5, ReadStep
<1>5. CASE EvidenceBeacons(t)
  <2>1. PICK x : x = [fr EXCEPT !.beacons = OwnedBy(db.beacons, fr.req.file_id)]
    OBVIOUS
  <2>2. OwnedBy(db.beacons, fr.req.file_id) \subseteq Tokens
        /\ \A k \in fr.req.beacons :
             k \in OwnedBy(db.beacons, fr.req.file_id)
             \/ TakenFrom("beacons", k, fr.req.file_id)
    BY <1>1, <1>3 DEF OwnedBy, Covers, Database
  <2>3. x \in Frame /\ x.req = fr.req /\ x.events = fr.events
        /\ x.beacons = OwnedBy(db.beacons, fr.req.file_id)
    BY <2>1, <2>2 DEF Frame
  <2>4. FrameOK("ev_watermarks", x) /\ "ev_watermarks" \in Labels
    BY <1>0, <1>1, <2>2, <2>3, RequestFields DEF FrameOK, Labels
  <2>5. Goto(t, "ev_watermarks", x) /\ UNCHANGED quiet
    BY <1>0, <1>5, <2>1 DEF EvidenceBeacons, tlog, sent, tables, quiet
  <2> QED
    BY <2>3, <2>4, <2>5, ReadStep
<1>6. CASE EvidenceWatermarks(t)
  <2>1. PICK x : x = [fr EXCEPT !.watermarks = OwnedBy(db.watermarks, fr.req.file_id)]
    OBVIOUS
  <2>2. OwnedBy(db.watermarks, fr.req.file_id) \subseteq Marks
        /\ \A m \in fr.req.watermarks :
             m \in OwnedBy(db.watermarks, fr.req.file_id)
             \/ TakenFrom("watermarks", m, fr.req.file_id)
    BY <1>1, <1>3 DEF OwnedBy, Covers, Database
  <2>3. x \in Frame /\ x.req = fr.req /\ x.events = fr.events /\ x.beacons = fr.beacons
        /\ x.watermarks = OwnedBy(db.watermarks, fr.req.file_id)
    BY <2>1, <2>2 DEF Frame
  <2>4. pc[t] = "ev_watermarks"
    BY <1>6 DEF EvidenceWatermarks
  <2>5. FrameOK("ev_head", x) /\ "ev_head" \in Labels
    BY <1>0, <1>1, <2>2, <2>3, <2>4, RequestFields DEF FrameOK, Labels
  <2>6. Goto(t, "ev_head", x) /\ UNCHANGED quiet
    BY <1>0, <1>6, <2>1 DEF EvidenceWatermarks, tlog, sent, tables, quiet
  <2> QED
    BY <2>3, <2>5, <2>6, ReadStep
<1>7. CASE EvidenceHead(t)
  <2>1. PICK x : x = [fr EXCEPT !.head = Len(log)]
    OBVIOUS
  <2>2. /\ x \in Frame /\ x.req = fr.req /\ x.events = fr.events /\ x.beacons = fr.beacons
        /\ x.watermarks = fr.watermarks /\ x.head = Len(log)
    BY <1>3, <2>1 DEF Frame
  <2>3. pc[t] = "ev_head"
    BY <1>7 DEF EvidenceHead
  <2>4. \A e \in x.events : Noted(e) /\ e.tlog_index < x.head
    BY <1>0, <1>3, <2>2, AckedInLog DEF FrameOK, Noted, LeafAt
  <2>5. FrameOK("ev_proofs", x) /\ "ev_proofs" \in Labels
    BY <1>0, <1>1, <2>2, <2>3, <2>4, RequestFields DEF FrameOK, Labels
  <2>6. Goto(t, "ev_proofs", x) /\ UNCHANGED quiet
    BY <1>0, <1>7, <2>1 DEF EvidenceHead, TLOG!Publish, sent, tables, quiet
  <2> QED
    BY <2>2, <2>5, <2>6, ReadStep
<1>8. CASE EvidenceReply(t)
  <2>1. PICK b : b = [manifest |-> fr.req, events |-> fr.events, beacons |-> fr.beacons,
                      watermarks |-> fr.watermarks, tlog_head |-> fr.head,
                      tlog_proofs |-> ProofsFor(fr.events)]
    OBVIOUS
  <2>2. /\ bundles' = bundles \cup {b} /\ Goto(t, "idle", NoFrame)
        /\ UNCHANGED <<db, unsynced, taken, log, acked, lost, replies>>
    BY <1>0, <1>8, <2>1 DEF EvidenceReply, Return, tables, tlog
  <2>3. pc[t] = "ev_proofs"
    BY <1>8 DEF EvidenceReply
  <2>4. /\ fr.events \subseteq EventRow /\ fr.beacons \subseteq Tokens
        /\ fr.watermarks \subseteq Marks /\ fr.head \in Nat
    BY DEF Frame
  <2>5. \A e \in fr.events : Noted(e) /\ e.tlog_index < fr.head
    BY <1>0, <2>3 DEF FrameOK
  <2>6. \A e \in fr.events : e.tlog_index \in ProofsFor(fr.events)
    BY <1>3, <2>5, AckedInLog DEF ProofsFor, Noted, LeafAt
  <2>7. ProofsFor(fr.events) \subseteq Nat
    BY <2>4 DEF ProofsFor, EventRow
  <2>8. b \in Bundle
    BY <1>1, <2>1, <2>4, <2>7 DEF Bundle
  <2>9. Grows /\ Types' /\ LogOK'
    BY <1>3, <2>2, <2>8, LogSame DEF RegistryInv, Types, Grows
  <2>10. RowsStay
    BY <2>2, <2>9, CoversStays DEF RowsStay, Covers
  <2>11. ThreadsOK'
    <3>1. FrameOK("idle", NoFrame)'
      BY <2>9, <2>10, NoFrameOK, FrameStays
    <3> QED
      BY <2>2, <2>9, <2>10, <3>1, NoFrameOK, ThreadMoves DEF RegistryInv
  <2>12. \A d \in unsynced' \cup {db'} : DbOK(d)'
    BY <2>2, <2>9, DbStays DEF RegistryInv
  <2>13. RepliesAcked'
    BY <2>2, <2>9, FactsStay DEF RegistryInv, SentOK, RepliesAcked
  <2>14. BundlesAcked'
    <3>1. \A e \in b.events : e.tlog_index \in b.tlog_proofs /\ Noted(e)
                              /\ e.tlog_index < b.tlog_head
      BY <2>1, <2>5, <2>6
    <3>2. \A c \in bundles \cup {b} : \A e \in c.events :
            e.tlog_index \in c.tlog_proofs /\ Noted(e) /\ e.tlog_index < c.tlog_head
      BY <3>1 DEF RegistryInv, SentOK, BundlesAcked
    <3> QED
      BY <2>2, <2>9, <3>2, FactsStay DEF BundlesAcked
  <2>15. BundleCoversManifest'
    <3>1. /\ \A k \in b.manifest.beacons :
               k \in b.beacons \/ TakenFrom("beacons", k, b.manifest.file_id)
          /\ \A m \in b.manifest.watermarks :
               m \in b.watermarks \/ TakenFrom("watermarks", m, b.manifest.file_id)
      BY <1>0, <2>1, <2>3 DEF FrameOK
    <3>2. \A c \in bundles \cup {b} :
            /\ \A k \in c.manifest.beacons :
                 k \in c.beacons \/ TakenFrom("beacons", k, c.manifest.file_id)
            /\ \A m \in c.manifest.watermarks :
                 m \in c.watermarks \/ TakenFrom("watermarks", m, c.manifest.file_id)
      BY <3>1 DEF RegistryInv, SentOK, BundleCoversManifest
    <3> QED
      BY <2>2, <2>9, <3>2, FactsStay DEF BundleCoversManifest
  <2> QED
    BY <2>9, <2>11, <2>12, <2>13, <2>14, <2>15 DEF RegistryInv, SentOK
<1> QED
  BY <1>4, <1>5, <1>6, <1>7, <1>8 DEF EvidenceStep

\* What a query finds is a row.
LEMMA RowsTyped ==
  ASSUME NEW d \in Database, NEW key
  PROVE  key \in Tokens \cup Marks \cup Hashes => RowsFor(d, key) \subseteq Row
<1>1. /\ d.beacons \in [Tokens -> Owner \cup {None}]
      /\ d.watermarks \in [Marks -> Owner \cup {None}]
  BY DEF Database
<1>2. Owner \subseteq Row
  BY DEF Owner, Row
<1>3. ByHash(d, key) \subseteq Row
  <2>1. {o \in {d.beacons[k] : k \in Tokens} \ {None} : <<o.file_id, key>> \in d.corpus}
          \subseteq Row
    BY <1>1, <1>2
  <2>2. \A f \in Files : [file_id |-> f, recipient_id |-> None, issuer_id |-> None] \in Row
    BY DEF Row
  <2> QED
    BY <2>1, <2>2 DEF ByHash
<1>4. CASE key \in Tokens
  BY <1>1, <1>2, <1>4 DEF RowsFor
<1>5. CASE key \notin Tokens /\ key \in Marks
  BY <1>1, <1>2, <1>5 DEF RowsFor
<1>6. CASE key \notin Tokens /\ key \notin Marks
  BY <1>3, <1>6 DEF RowsFor
<1> QED
  BY <1>4, <1>5, <1>6

\* A handler starts.
LEMMA ReceiveStep ==
  ASSUME RegistryInv, NEW t \in Threads, Receive(t)
  PROVE  RegistryInv'
<1>0. db \in Database
  BY DEF RegistryInv, Types
<1>1. CASE \E r \in Requests : RegisterSelect(t, r)
  <2>1. PICK r \in Requests : RegisterSelect(t, r)
    BY <1>1
  <2>2. PICK x : x = [NoFrame EXCEPT !.req = r]
    OBVIOUS
  <2>4. x \in Frame /\ x.req = r /\ x.events = {}
    BY <2>2, NoFrameOK DEF NoFrame, Frame
  <2>5. FrameOK("reg_insert", x) /\ "reg_insert" \in Labels
    BY <2>1, <2>4, RequestFields DEF RegisterSelect, FrameOK, Reading, Labels
  <2>6. Goto(t, "reg_insert", x) /\ UNCHANGED quiet
    BY <2>1, <2>2 DEF RegisterSelect, tlog, sent, tables, quiet
  <2> QED
    BY <2>4, <2>5, <2>6, ReadStep
<1>2. CASE \E k \in Tokens, kind \in LoopKinds \cup {"dns"} : EventSelect(t, k, kind)
  <2>1. PICK k \in Tokens, kind \in LoopKinds \cup {"dns"} : EventSelect(t, k, kind)
    BY <1>2
  <2>2. PICK x : x = [NoFrame EXCEPT !.event = Fired(db, k, kind)]
    OBVIOUS
  <2>3. Fired(db, k, kind) \in Event
    <3>1. db.beacons[k] \in Owner \cup {None}
      BY <1>0 DEF Database
    <3>2. /\ (IF db.beacons[k] = None THEN None ELSE db.beacons[k].file_id)
               \in Files \cup {None}
          /\ (IF db.beacons[k] = None THEN None ELSE db.beacons[k].recipient_id)
               \in Recipients \cup {None}
      BY <3>1 DEF Owner
    <3> QED
      BY <3>2 DEF Fired, Event
  <2>4. x \in Frame /\ x.event = Fired(db, k, kind) /\ x.events = {}
    BY <2>2, <2>3, NoFrameOK DEF NoFrame, Frame
  <2>5. FrameOK("evt_append", x) /\ "evt_append" \in Labels
    BY <2>3, <2>4, RegistryAssumption DEF FrameOK, Reading, Labels
  <2>6. Goto(t, "evt_append", x) /\ UNCHANGED quiet
    BY <2>1, <2>2 DEF EventSelect, tlog, sent, tables, quiet
  <2> QED
    BY <2>4, <2>5, <2>6, ReadStep
<1>3. CASE \E key \in Tokens \cup Marks \cup Hashes :
             \E row \in RowsFor(db, key) : AttributeRow(t, key, row)
  <2>0. PICK key \in Tokens \cup Marks \cup Hashes :
          \E row \in RowsFor(db, key) : AttributeRow(t, key, row)
    BY <1>3
  <2>1. PICK row \in RowsFor(db, key) : AttributeRow(t, key, row)
    BY <2>0
  <2>2. PICK x : x = [NoFrame EXCEPT !.row = row]
    OBVIOUS
  <2>3. row \in Row
    BY <1>0, RowsTyped
  <2>4. x \in Frame /\ x.row = row /\ x.events = {}
    BY <2>2, <2>3, NoFrameOK DEF NoFrame, Frame
  <2>5. FrameOK("att_manifest", x) /\ "att_manifest" \in Labels
    BY <2>3, <2>4, RegistryAssumption DEF FrameOK, Reading, Labels
  <2>6. Goto(t, "att_manifest", x) /\ UNCHANGED quiet
    BY <2>1, <2>2 DEF AttributeRow, tlog, sent, tables, quiet
  <2> QED
    BY <2>4, <2>5, <2>6, ReadStep
<1>4. CASE \E f \in Files : EvidenceManifest(t, f)
  <2>1. PICK f \in Files : EvidenceManifest(t, f)
    BY <1>4
  <2>2. PICK x : x = [NoFrame EXCEPT !.req = db.manifests[f]]
    OBVIOUS
  <2>3. db.manifests[f] \in Requests /\ Covers(db, db.manifests[f])
    BY <2>1, ManifestFacts DEF EvidenceManifest
  <2>4. x \in Frame /\ x.req = db.manifests[f] /\ x.events = {}
    BY <2>2, <2>3, NoFrameOK DEF NoFrame, Frame
  <2>5. FrameOK("ev_events", x) /\ "ev_events" \in Labels
    BY <2>3, <2>4, RequestFields DEF FrameOK, Labels
  <2>6. Goto(t, "ev_events", x) /\ UNCHANGED quiet
    BY <2>1, <2>2 DEF EvidenceManifest, tlog, sent, tables, quiet
  <2> QED
    BY <2>4, <2>5, <2>6, ReadStep
<1>5. CASE \/ \E r \in Requests : RegisterRefuse(t, r)
           \/ \E key \in Tokens \cup Marks \cup Hashes : AttributeMiss(t, key)
  BY <1>5, LogSame, QuietStep DEF RegistryInv, RegisterRefuse, AttributeMiss, tables, tlog, calls, sent
<1> QED
  BY <1>1, <1>2, <1>3, <1>4, <1>5 DEF Receive

\* The leaf a handler is about to append.
LEMMA LeafOfTyped ==
  ASSUME RegistryInv, NEW t \in Threads, pc[t] \in {"reg_append", "evt_append"}
  PROVE  LeafOf(t) \in Leaf
<1>1. frame[t] \in Frame /\ FrameOK(pc[t], frame[t])
  BY ThreadFacts
<1>2. CASE pc[t] = "reg_append"
  <2>1. frame[t].req \in Requests
    BY <1>1, <1>2 DEF FrameOK, Frame
  <2> QED
    BY <1>2, <2>1, RequestFields DEF LeafOf, RegisterLeaf, Leaf
<1>3. CASE pc[t] = "evt_append"
  <2>1. frame[t].event \in Event
    BY <1>1, <1>3 DEF FrameOK, Frame
  <2> QED
    BY <1>3, <2>1 DEF LeafOf, BeaconLeaf, Leaf
<1> QED
  BY <1>2, <1>3

\* An append that raises: its leaf may or may not have a record.
LEMMA LogErrorStep ==
  ASSUME RegistryInv, NEW t \in Threads, LogError(t)
  PROVE  RegistryInv'
<1>1. PICK l \in Leaf : l = LeafOf(t)
  BY LeafOfTyped DEF LogError
<1>2. /\ log' = Append(log, l) /\ acked' = acked /\ lost' \in {lost, lost \cup {Len(log)}}
      /\ Goto(t, "idle", NoFrame) /\ UNCHANGED <<db, unsynced, taken, replies, bundles>>
  BY <1>1 DEF LogError, Return, TLOG!Extend, tables, sent
<1>3. LogOK'
  BY <1>2, LogAppends DEF RegistryInv
<1>4. FrameOK("idle", NoFrame)'
  BY DEF FrameOK, NoFrame, Reading
<1> QED
  BY <1>2, <1>3, <1>4, NoFrameOK, LocalStep

\* The process stops: no handler is left, the log has what it had and perhaps
\* a leaf more, and the database is as it was or as it had been.
LEMMA StopStep ==
  ASSUME RegistryInv, Stop, db' \in unsynced \cup {db}, unsynced' \subseteq unsynced,
         UNCHANGED taken
  PROVE  RegistryInv'
<1>0. LogOK
  BY DEF RegistryInv
<1>1. LogOK' /\ acked' = acked
  <2>1. CASE UNCHANGED tlog
    BY <1>0, <2>1, LogSame DEF tlog
  <2>2. CASE \E t \in Threads : /\ pc[t] \in {"reg_append", "evt_append"}
                                /\ TLOG!Extend(LeafOf(t)) /\ UNCHANGED lost
    <3>1. PICK t \in Threads : /\ pc[t] \in {"reg_append", "evt_append"}
                               /\ TLOG!Extend(LeafOf(t)) /\ UNCHANGED lost
      BY <2>2
    <3>2. PICK l \in Leaf : l = LeafOf(t)
      BY <3>1, LeafOfTyped
    <3>3. log' = Append(log, l) /\ acked' = acked /\ lost' = lost
      BY <3>1, <3>2 DEF TLOG!Extend
    <3> QED
      BY <1>0, <3>3, LogAppends
  <2> QED
    BY <2>1, <2>2 DEF Stop
<1>2. /\ pc' = [t \in Threads |-> "idle"] /\ frame' = [t \in Threads |-> NoFrame]
      /\ UNCHANGED <<replies, bundles>>
  BY DEF Stop, sent
<1>3. Types' /\ Grows
  BY <1>1, <1>2 DEF RegistryInv, Types, Grows
<1>4. ThreadsOK'
  BY <1>2, NoFrameOK DEF ThreadsOK, FrameOK, NoFrame, Reading
<1>5. \A d \in unsynced' \cup {db'} : DbOK(d)'
  BY <1>3, DbStays DEF RegistryInv
<1>6. SentOK'
  BY <1>2, <1>3, SentStays DEF RegistryInv
<1> QED
  BY <1>1, <1>3, <1>4, <1>5, <1>6 DEF RegistryInv

LEMMA RegistryInit == Init => RegistryInv
<1> SUFFICES ASSUME Init PROVE RegistryInv
  OBVIOUS
<1>1. /\ db = EmptyDb /\ unsynced = {} /\ replies = {} /\ bundles = {}
      /\ log = << >> /\ acked = {} /\ lost = {}
      /\ pc = [t \in Threads |-> "idle"] /\ frame = [t \in Threads |-> NoFrame]
  BY DEF Init, TLOG!Init
<1>2. Types /\ DbOK(db)
  BY <1>1 DEF Types, DbOK, EmptyDb, Database
<1>3. LogOK
  BY <1>1 DEF LogOK
<1>4. ThreadsOK
  BY <1>1, NoFrameOK DEF ThreadsOK
<1>5. SentOK
  BY <1>1 DEF SentOK, RepliesAcked, BundlesAcked, BundleCoversManifest
<1> QED
  BY <1>1, <1>2, <1>3, <1>4, <1>5 DEF RegistryInv

LEMMA RegistryNext == RegistryInv /\ [Next]_vars => RegistryInv'
<1> SUFFICES ASSUME RegistryInv, [Next]_vars PROVE RegistryInv'
  OBVIOUS
<1>0. LogOK
  BY DEF RegistryInv
<1>1. CASE Checkpoint \/ UNCHANGED vars
  BY <1>0, <1>1, LogSame, QuietStep DEF Checkpoint, vars, tables, tlog, calls, sent
<1>2. CASE Startup
  <2>1. LogOK'
    BY <1>0, <1>2, LogStarts
  <2> QED
    BY <1>2, <2>1, QuietStep DEF Startup, tables, calls, sent
<1>3. CASE Crash
  BY <1>3, StopStep DEF Crash, tables
<1>4. CASE PowerLoss
  BY <1>4, StopStep DEF PowerLoss
<1>5. ASSUME NEW t \in Threads, DbError(t)
      PROVE  RegistryInv'
  <2>1. Goto(t, "idle", NoFrame) /\ UNCHANGED quiet
    BY <1>5 DEF DbError, Return, tables, tlog, sent, quiet
  <2> QED
    BY <2>1, NoFrameOK, ReadStep
<1>6. ASSUME NEW t \in Threads, Proceed(t)
      PROVE  RegistryInv'
  BY <1>6, RegisterSteps, EventSteps, AttributeSteps, EvidenceSteps DEF Proceed
<1>7. ASSUME NEW t \in Threads, Receive(t)
      PROVE  RegistryInv'
  BY <1>7, ReceiveStep
<1>8. ASSUME NEW t \in Threads, LogError(t)
      PROVE  RegistryInv'
  BY <1>8, LogErrorStep
<1> QED
  BY <1>1, <1>2, <1>3, <1>4, <1>5, <1>6, <1>7, <1>8 DEF Next

LEMMA RegistryInvariant == Spec => []RegistryInv
BY RegistryInit, RegistryNext, PTL DEF Spec
-----------------------------------------------------------------------------
(***************************************************************************)
(* Every row of events, also in the states of the database that a power    *)
(* failure can bring back, names the leaf of the log that describes it:    *)
(* the beacon handlers append first and insert then, whatever fails in     *)
(* between, and a log that starts has every leaf whose index it returned.  *)
(***************************************************************************)
THEOREM RowsAnchored == Spec => []EventsAnchored
<1>1. RegistryInv => EventsAnchored
  <2> SUFFICES ASSUME RegistryInv, NEW d \in unsynced \cup {db}, NEW e \in d.events
               PROVE  /\ Anchored(e)
                      /\ \A x \in d.events : x.tlog_index = e.tlog_index => x = e
    BY DEF EventsAnchored
  <2>1. d.events \subseteq EventRow /\ \A x \in d.events : Noted(x)
    BY DEF RegistryInv, Types, Database, DbOK
  <2>2. \A x \in d.events : Anchored(x)
    BY <2>1, AckedInLog DEF RegistryInv, Noted, Anchored
  <2>3. ASSUME NEW x \in d.events, x.tlog_index = e.tlog_index
        PROVE  x = e
    <3>1. BeaconLeaf(x.event) = BeaconLeaf(e.event)
      BY <2>2, <2>3 DEF Anchored, LeafAt
    <3>2. x.event = e.event
      BY <3>1 DEF BeaconLeaf
    <3>3. x \in EventRow /\ e \in EventRow
      BY <2>1
    <3> QED
      BY <2>3, <3>2, <3>3 DEF EventRow
  <2> QED
    BY <2>2, <2>3
<1> QED
  BY <1>1, RegistryInvariant, PTL

(***************************************************************************)
(* Every event of an evidence bundle has its inclusion proof and is below  *)
(* the tree head of the bundle, however the six steps of evidence_bundle   *)
(* interleave with the appends of other handlers, failed ones included.    *)
(***************************************************************************)
THEOREM BundlesProve == Spec => []BundleProvable
<1>1. RegistryInv => BundleProvable
  BY AckedInLog DEF RegistryInv, SentOK, BundlesAcked, BundleProvable, Noted, Anchored
<1> QED
  BY <1>1, RegistryInvariant, PTL

(***************************************************************************)
(* A beacon or watermark of the manifest in a bundle that is not among the *)
(* rows of the bundle was taken from the file by a registration of another *)
(* file: registrations of the same file that commit between the reads, and *)
(* older tables that a power failure brings back, leave no gap.            *)
(***************************************************************************)
THEOREM BundlesCover == Spec => []BundleCoversManifest
BY RegistryInvariant, PTL DEF RegistryInv, SentOK

(***************************************************************************)
(* register answers 200 only with the index of the leaf of that            *)
(* registration, whatever appends failed and however often the log was     *)
(* read back.                                                              *)
(***************************************************************************)
THEOREM RepliesNameTheirLeaf == Spec => []RepliesLogged
<1>1. RegistryInv => RepliesLogged
  BY AckedInLog DEF RegistryInv, SentOK, RepliesAcked, RepliesLogged
<1> QED
  BY <1>1, RegistryInvariant, PTL
=============================================================================
