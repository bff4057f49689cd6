------------------------------ MODULE Registry ------------------------------
(***************************************************************************)
(* The request handlers of registry/server.py over the SQLite database and *)
(* the transparency log.                                                   *)
(*                                                                         *)
(* register, dns_event, attribute and evidence_bundle are plain functions, *)
(* which FastAPI runs on a pool of worker threads; the beacon routes are   *)
(* coroutines without an await, so one at a time runs on the event loop    *)
(* thread while the workers go on.  Every SELECT is an autocommit read of  *)
(* its own; the writes of one handler are one transaction, visible at its  *)
(* commit.  The log is taken at its contract: AppendOnlyLog until a write   *)
(* of it fails, and after that what AckedInTree of TransparencyLog says.   *)
(*                                                                         *)
(* The database runs in WAL mode with synchronous=NORMAL: a transaction    *)
(* survives the death of the process, but a power failure can take back    *)
(* the commits since the last checkpoint, newest first, while the log,     *)
(* which is fsynced, keeps its leaves.                                     *)
(***************************************************************************)
EXTENDS Naturals, Sequences, FiniteSets

CONSTANTS
  Files, Issuers, Recipients, Tokens, Marks, Hashes,
  Requests,       \* the POST /register bodies that can arrive
  LoopKinds,      \* the kinds of the beacon routes: http_img, ocsp, license
  Loop,           \* the event loop thread
  Workers,        \* the threads of the pool
  None,           \* NULL, no row
  MaxRequests,    \* bound on the number of calls
  MaxCrashes,     \* bound on the number of process and power failures
  MaxDbErrors,    \* bound on the number of failed transactions
  MaxLogErrors    \* bound on the number of failed appends to the log

\* A registration body: the manifest, whether its signature verifies, and
\* whether the beacons and watermarks beside it equal the signed ones.
Request == [file_id : Files, issuer_pub : Issuers, recipient_id : Recipients,
            beacons : SUBSET Tokens, watermarks : SUBSET Marks,
            corpus : SUBSET Hashes, sig_ok : BOOLEAN, sidecars_match : BOOLEAN]

Threads == Workers \cup {Loop}

\* A row of beacons or watermarks: whom the token or the mark names.  An
\* issuer has one id and one key, and Issuers stands for both.
Owner == [file_id : Files, recipient_id : Recipients, issuer_id : Issuers]

\* What a query finds: a file known by its text alone has no identity columns.
Row == [file_id : Files, recipient_id : Recipients \cup {None},
        issuer_id : Issuers \cup {None}]

\* Who fired: the identity columns are NULL when the token is unknown.
Event == [token_id : Tokens, kind : LoopKinds \cup {"dns"},
          file_id : Files \cup {None}, recipient_id : Recipients \cup {None}]

ASSUME RegistryAssumption ==
  /\ Requests \subseteq Request
  /\ Loop \notin Workers
  /\ None \notin Requests /\ None \notin Files /\ None \notin Recipients
  /\ None \notin Issuers /\ None \notin Row /\ None \notin Event
  /\ MaxRequests \in Nat /\ MaxCrashes \in Nat /\ MaxDbErrors \in Nat
  /\ MaxLogErrors \in Nat

EventRow == [event : Event, tlog_index : Nat]

Leaf == [event : {"register"}, file_id : Files, recipient_id : Recipients,
         issuer_pub : Issuers]
        \cup [event : {"beacon"}, fired : Event]

Database ==
  [manifests : [Files -> Requests \cup {None}],
   beacons : [Tokens -> Owner \cup {None}],
   watermarks : [Marks -> Owner \cup {None}],
   corpus : SUBSET (Files \X Hashes),
   events : SUBSET EventRow]

VARIABLES
  status,     \* "down" or "up"
  db,         \* the database as a new connection reads it
  unsynced,   \* earlier states of it that a power failure can bring back
  taken,      \* the rows a registration took from another file or issuer
  log,        \* the leaves of TLOG
  acked,      \* what TLOG.append returned
  roots,      \* the tree heads TLOG.signed_head returned
  lost,       \* the leaves of log, from 0, that have no record in its file
  pc,         \* where each thread is in its handler
  frame,      \* the locals of that handler
  replies,    \* the 200 answers of register
  answers,    \* the answers of attribute
  bundles,    \* the answers of evidence_bundle
  started, crashes, dbErrors, logErrors

TLOG == INSTANCE AppendOnlyLog WITH Data <- Leaf

tables  == <<db, unsynced, taken>>
tlog    == <<log, acked, roots, lost>>
calls   == <<pc, frame>>
sent    == <<replies, answers, bundles>>
counts  == <<started, crashes, dbErrors, logErrors>>
faults  == <<crashes, dbErrors, logErrors>>
vars    == <<status, tables, tlog, calls, sent, counts>>

NoFrame == [req |-> None, event |-> None, index |-> 0,
            row |-> None, events |-> {}, beacons |-> {}, watermarks |-> {}, head |-> 0]

EmptyDb == [manifests |-> [f \in Files |-> None],
            beacons |-> [k \in Tokens |-> None],
            watermarks |-> [m \in Marks |-> None],
            corpus |-> {}, events |-> {}]

Init ==
  /\ status = "down"
  /\ db = EmptyDb
  /\ unsynced = {} /\ taken = {}
  /\ TLOG!Init /\ lost = {}
  /\ pc = [t \in Threads |-> "idle"]
  /\ frame = [t \in Threads |-> NoFrame]
  /\ replies = {} /\ answers = {} /\ bundles = {}
  /\ started = 0 /\ crashes = 0 /\ dbErrors = 0 /\ logErrors = 0
-----------------------------------------------------------------------------
Begin(t) ==
  /\ status = "up" /\ pc[t] = "idle"
  /\ started < MaxRequests
  /\ started' = started + 1

Goto(t, label, locals) ==
  /\ pc' = [pc EXCEPT ![t] = label]
  /\ frame' = [frame EXCEPT ![t] = locals]

Return(t) == Goto(t, "idle", NoFrame)

\* con.commit(): the new state is visible, the old one may come back.
Commit(new) ==
  /\ db' = new
  /\ unsynced' = unsynced \cup {db}

\* lifespan(): the schema exists already, the log is read back.  TLOG starts
\* without the leaves that have no record, and raises, so that the registry
\* stays down, if another record follows theirs.
Startup ==
  /\ status = "down"
  /\ status' = "up"
  /\ \E n \in 0..Len(log) :
       /\ lost = n..(Len(log) - 1)
       /\ log' = SubSeq(log, 1, n)
  /\ lost' = {}
  /\ UNCHANGED <<tables, acked, roots, calls, sent, counts>>

(***************************************************************************)
(* POST /register                                                          *)
(***************************************************************************)
Accepted(r) == r.sig_ok /\ r.sidecars_match

OwnerOf(r) == [file_id |-> r.file_id, recipient_id |-> r.recipient_id,
               issuer_id |-> r.issuer_pub]

RegisterLeaf(r) == [event |-> "register", file_id |-> r.file_id,
                    recipient_id |-> r.recipient_id, issuer_pub |-> r.issuer_pub]

\* Mutant: a second registration of a file replaces its manifest only.
RegisteredManifestOnly(d, r) ==
  IF d.manifests[r.file_id] # None THEN [d EXCEPT !.manifests[r.file_id] = r]
  ELSE [d EXCEPT
    !.manifests[r.file_id] = r,
    !.beacons = [k \in Tokens |-> IF k \in r.beacons THEN OwnerOf(r) ELSE @[k]],
    !.watermarks = [m \in Marks |-> IF m \in r.watermarks THEN OwnerOf(r) ELSE @[m]],
    !.corpus = @ \cup ({r.file_id} \X r.corpus)]

\* INSERT OR REPLACE into the four tables; rows of an earlier registration
\* of the same file that are not replaced stay.
Registered(d, r) ==
  [d EXCEPT
    !.manifests[r.file_id] = r,
    !.beacons = [k \in Tokens |-> IF k \in r.beacons THEN OwnerOf(r) ELSE @[k]],
    !.watermarks = [m \in Marks |-> IF m \in r.watermarks THEN OwnerOf(r) ELSE @[m]],
    !.corpus = @ \cup ({r.file_id} \X r.corpus)]

\* The rows that Registered takes from another file or another issuer.
RowsTaken(d, r) ==
  LET o == OwnerOf(r)
      From(table, key, row) == [table |-> table, key |-> key, from |-> row, to |-> o]
      Foreign(row) == row # None /\ (row.file_id # o.file_id \/ row.issuer_id # o.issuer_id)
      old == d.manifests[r.file_id]
  IN {From("beacons", k, d.beacons[k]) : k \in {x \in r.beacons : Foreign(d.beacons[x])}}
     \cup {From("watermarks", m, d.watermarks[m]) :
              m \in {x \in r.watermarks : Foreign(d.watermarks[x])}}
     \cup {From("manifests", f, OwnerOf(old)) :
              f \in {x \in {r.file_id} : old # None /\ Foreign(OwnerOf(old))}}

SameIssuer(existing, r) == existing # None => existing.issuer_pub = r.issuer_pub

RegisterSelect(t, r) ==
  /\ Begin(t)
  /\ Accepted(r)
  /\ SameIssuer(db.manifests[r.file_id], r)
  /\ Goto(t, "reg_insert", [NoFrame EXCEPT !.req = r])
  /\ UNCHANGED <<status, tables, tlog, sent, faults>>

\* 400 for a manifest that does not verify, 409 for another issuer.
RegisterRefuse(t, r) ==
  /\ Begin(t)
  /\ ~Accepted(r) \/ ~SameIssuer(db.manifests[r.file_id], r)
  /\ UNCHANGED <<status, tables, tlog, calls, sent, faults>>

RegisterCommit(t) ==
  /\ pc[t] = "reg_insert"
  /\ Commit(Registered(db, frame[t].req))
  /\ taken' = taken \cup RowsTaken(db, frame[t].req)
  /\ Goto(t, "reg_append", frame[t])
  /\ UNCHANGED <<status, tlog, sent, counts>>

RegisterAppend(t) ==
  /\ pc[t] = "reg_append"
  /\ TLOG!ExtendAndAck(RegisterLeaf(frame[t].req))
  /\ Goto(t, "reg_reply", [frame[t] EXCEPT !.index = Len(log)])
  /\ UNCHANGED <<status, tables, lost, sent, counts>>

\* _attest_to_rekor never raises and changes nothing here.
RegisterReply(t) ==
  /\ pc[t] = "reg_reply"
  /\ replies' = replies \cup {[req |-> frame[t].req, tlog_index |-> frame[t].index]}
  /\ Return(t)
  /\ UNCHANGED <<status, tables, tlog, answers, bundles, counts>>

(***************************************************************************)
(* GET /p, /r, /v (_record_event) and POST /dns_event                      *)
(***************************************************************************)
Fired(d, token, kind) ==
  [token_id |-> token, kind |-> kind,
   file_id |-> IF d.beacons[token] = None THEN None ELSE d.beacons[token].file_id,
   recipient_id |-> IF d.beacons[token] = None THEN None
                    ELSE d.beacons[token].recipient_id]

BeaconLeaf(e) == [event |-> "beacon", fired |-> e]

EventSelect(t, token, kind) ==
  /\ Begin(t)
  /\ (t = Loop) <=> (kind \in LoopKinds)
  /\ Goto(t, "evt_append", [NoFrame EXCEPT !.event = Fired(db, token, kind)])
  /\ UNCHANGED <<status, tables, tlog, sent, faults>>

\* Mutant: the size after the append is taken for the index.
EventAppendSize(t) ==
  /\ pc[t] = "evt_append"
  /\ TLOG!ExtendAndAck(BeaconLeaf(frame[t].event))
  /\ Goto(t, "evt_insert", [frame[t] EXCEPT !.index = Len(log) + 1])
  /\ UNCHANGED <<status, tables, lost, sent, counts>>

EventAppend(t) ==
  /\ pc[t] = "evt_append"
  /\ TLOG!ExtendAndAck(BeaconLeaf(frame[t].event))
  /\ Goto(t, "evt_insert", [frame[t] EXCEPT !.index = Len(log)])
  /\ UNCHANGED <<status, tables, lost, sent, counts>>

EventInsert(t) ==
  /\ pc[t] = "evt_insert"
  /\ Commit([db EXCEPT !.events =
               @ \cup {[event |-> frame[t].event, tlog_index |-> frame[t].index]}])
  /\ Return(t)
  /\ UNCHANGED <<status, taken, tlog, sent, counts>>

\* "database is locked" or a disk error: rolled back, the handler raises.
DbError(t) ==
  /\ pc[t] \in {"reg_insert", "evt_insert"}
  /\ dbErrors < MaxDbErrors
  /\ dbErrors' = dbErrors + 1
  /\ Return(t)
  /\ UNCHANGED <<status, tables, tlog, sent, started, crashes, logErrors>>

\* The leaf that a thread at its append is writing.
LeafOf(t) == IF pc[t] = "reg_append" THEN RegisterLeaf(frame[t].req)
             ELSE BeaconLeaf(frame[t].event)

\* Mutant: register answers with the index of the leaf in memory.
LogErrorAnswered(t) ==
  /\ pc[t] \in {"reg_append", "evt_append"}
  /\ logErrors < MaxLogErrors
  /\ logErrors' = logErrors + 1
  /\ TLOG!Extend(LeafOf(t))
  /\ lost' \in {lost, lost \cup {Len(log)}}
  /\ IF pc[t] = "reg_append"
     THEN Goto(t, "reg_reply", [frame[t] EXCEPT !.index = Len(log)])
     ELSE Return(t)
  /\ UNCHANGED <<status, tables, sent, started, crashes, dbErrors>>

\* TLOG.append raises (open, write, flush or fsync): the leaf stays in the
\* log's memory, its record is in the file or not, and the handler raises
\* too.  A registration is then in the tables and has no index; a beacon
\* has no row.
LogError(t) ==
  /\ pc[t] \in {"reg_append", "evt_append"}
  /\ logErrors < MaxLogErrors
  /\ logErrors' = logErrors + 1
  /\ TLOG!Extend(LeafOf(t))
  /\ lost' \in {lost, lost \cup {Len(log)}}
  /\ Return(t)
  /\ UNCHANGED <<status, tables, sent, started, crashes, dbErrors>>

(***************************************************************************)
(* POST /attribute: the row of the token, mark or hash, then the manifest  *)
(* of its file, then the events of that file.                              *)
(***************************************************************************)
\* corpus LEFT JOIN beacons ... LIMIT 1: some file with the hash, some
\* beacon of it, or no identity when it has none.
ByHash(d, h) ==
  {o \in {d.beacons[k] : k \in Tokens} \ {None} : <<o.file_id, h>> \in d.corpus}
  \cup {[file_id |-> f, recipient_id |-> None, issuer_id |-> None] :
          f \in {g \in Files :
                   /\ <<g, h>> \in d.corpus
                   /\ \A k \in Tokens : d.beacons[k] # None => d.beacons[k].file_id # g}}

RowsFor(d, key) ==
  CASE key \in Tokens -> {d.beacons[key]} \ {None}
    [] key \in Marks  -> {d.watermarks[key]} \ {None}
    [] OTHER          -> ByHash(d, key)

EventsOf(d, f) == {e \in d.events : e.event.file_id = f}

AttributeMiss(t, key) ==
  /\ Begin(t)
  /\ t \in Workers
  /\ RowsFor(db, key) = {}
  /\ UNCHANGED <<status, tables, tlog, calls, sent, faults>>

AttributeRow(t, key, row) ==
  /\ Begin(t)
  /\ t \in Workers
  /\ row \in RowsFor(db, key)
  /\ Goto(t, "att_manifest", [NoFrame EXCEPT !.row = row])
  /\ UNCHANGED <<status, tables, tlog, sent, faults>>

AttributeManifest(t) ==
  /\ pc[t] = "att_manifest"
  /\ Goto(t, "att_events", [frame[t] EXCEPT !.req = db.manifests[frame[t].row.file_id]])
  /\ UNCHANGED <<status, tables, tlog, sent, counts>>

AttributeReply(t) ==
  /\ pc[t] = "att_events"
  /\ answers' = answers \cup
       {[row |-> frame[t].row, manifest |-> frame[t].req,
         events |-> EventsOf(db, frame[t].row.file_id)]}
  /\ Return(t)
  /\ UNCHANGED <<status, tables, tlog, replies, bundles, counts>>

(***************************************************************************)
(* GET /evidence/{file_id}: four reads, the tree head, the proofs.         *)
(***************************************************************************)
OwnedBy(table, f) == {k \in DOMAIN table : table[k] # None /\ table[k].file_id = f}

EvidenceManifest(t, f) ==
  /\ Begin(t)
  /\ t \in Workers
  /\ db.manifests[f] # None
  /\ Goto(t, "ev_events", [NoFrame EXCEPT !.req = db.manifests[f]])
  /\ UNCHANGED <<status, tables, tlog, sent, faults>>

EvidenceEvents(t) ==
  /\ pc[t] = "ev_events"
  /\ Goto(t, "ev_beacons",
          [frame[t] EXCEPT !.events = EventsOf(db, frame[t].req.file_id)])
  /\ UNCHANGED <<status, tables, tlog, sent, counts>>

EvidenceBeacons(t) ==
  /\ pc[t] = "ev_beacons"
  /\ Goto(t, "ev_watermarks",
          [frame[t] EXCEPT !.beacons = OwnedBy(db.beacons, frame[t].req.file_id)])
  /\ UNCHANGED <<status, tables, tlog, sent, counts>>

EvidenceWatermarks(t) ==
  /\ pc[t] = "ev_watermarks"
  /\ Goto(t, "ev_head",
          [frame[t] EXCEPT !.watermarks = OwnedBy(db.watermarks, frame[t].req.file_id)])
  /\ UNCHANGED <<status, tables, tlog, sent, counts>>

EvidenceHead(t) ==
  /\ pc[t] = "ev_head"
  /\ TLOG!Publish(Len(log))
  /\ Goto(t, "ev_proofs", [frame[t] EXCEPT !.head = Len(log)])
  /\ UNCHANGED <<status, tables, lost, sent, counts>>

\* Mutant: the newest leaf is taken to be out of range.
ProofsForOlder(events) == {e.tlog_index : e \in {x \in events : x.tlog_index + 1 < Len(log)}}

\* _tlog_proofs_for_events: inclusion_proof returns None for an index that
\* is not in the log, and such an event gets no proof.
ProofsFor(events) == {e.tlog_index : e \in {x \in events : x.tlog_index < Len(log)}}

EvidenceReply(t) ==
  /\ pc[t] = "ev_proofs"
  /\ bundles' = bundles \cup
       {[manifest |-> frame[t].req, events |-> frame[t].events,
         beacons |-> frame[t].beacons, watermarks |-> frame[t].watermarks,
         tlog_head |-> frame[t].head, tlog_proofs |-> ProofsFor(frame[t].events)]}
  /\ Return(t)
  /\ UNCHANGED <<status, tables, tlog, replies, answers, counts>>

(***************************************************************************)
(* The process dies, or the machine loses power.  A leaf that an append    *)
(* was writing may be in the log without its index having been returned;   *)
(* TLOG writes one leaf at a time.                                         *)
(***************************************************************************)
Stop ==
  /\ status = "up" /\ crashes < MaxCrashes
  /\ \/ UNCHANGED tlog
     \/ \E t \in Threads :
          /\ pc[t] \in {"reg_append", "evt_append"}
          /\ TLOG!Extend(LeafOf(t)) /\ UNCHANGED lost
  /\ status' = "down"
  /\ pc' = [t \in Threads |-> "idle"]
  /\ frame' = [t \in Threads |-> NoFrame]
  /\ crashes' = crashes + 1
  /\ UNCHANGED <<sent, started, dbErrors, logErrors>>

Crash == Stop /\ UNCHANGED tables

PowerLoss ==
  /\ Stop
  /\ db' \in unsynced \cup {db}
  /\ unsynced' = {} /\ UNCHANGED taken

\* SQLite checkpoints the WAL when it is long or the last connection closes.
Checkpoint ==
  /\ unsynced # {}
  /\ unsynced' = {}
  /\ UNCHANGED <<status, db, taken, tlog, calls, sent, counts>>
-----------------------------------------------------------------------------
RegisterStep(t) == RegisterCommit(t) \/ RegisterAppend(t) \/ RegisterReply(t)

EventStep(t) == EventAppend(t) \/ EventInsert(t)

AttributeStep(t) == AttributeManifest(t) \/ AttributeReply(t)

EvidenceStep(t) ==
  \/ EvidenceEvents(t) \/ EvidenceBeacons(t) \/ EvidenceWatermarks(t)
  \/ EvidenceHead(t) \/ EvidenceReply(t)

Proceed(t) == RegisterStep(t) \/ EventStep(t) \/ AttributeStep(t) \/ EvidenceStep(t)

Receive(t) ==
  \/ /\ t \in Workers
     /\ \E r \in Requests : RegisterSelect(t, r) \/ RegisterRefuse(t, r)
  \/ \E k \in Tokens, kind \in LoopKinds \cup {"dns"} : EventSelect(t, k, kind)
  \/ \E key \in Tokens \cup Marks \cup Hashes :
       AttributeMiss(t, key) \/ \E row \in RowsFor(db, key) : AttributeRow(t, key, row)
  \/ \E f \in Files : EvidenceManifest(t, f)

Next ==
  \/ Startup \/ Crash \/ PowerLoss \/ Checkpoint
  \/ \E t \in Threads : Receive(t) \/ Proceed(t) \/ DbError(t) \/ LogError(t)

Spec == Init /\ [][Next]_vars
-----------------------------------------------------------------------------
Labels == {"idle", "reg_insert", "reg_append", "reg_reply", "evt_append", "evt_insert",
           "att_manifest", "att_events", "ev_events", "ev_beacons", "ev_watermarks",
           "ev_head", "ev_proofs"}

Frame ==
  [req : Requests \cup {None}, event : Event \cup {None}, index : Nat, row : Row \cup {None},
   events : SUBSET EventRow, beacons : SUBSET Tokens, watermarks : SUBSET Marks,
   head : Nat]

Taking == [table : {"beacons"}, key : Tokens, from : Owner, to : Owner]
          \cup [table : {"watermarks"}, key : Marks, from : Owner, to : Owner]
          \cup [table : {"manifests"}, key : Files, from : Owner, to : Owner]

Reply == [req : Requests, tlog_index : Nat]

Answer == [row : Row, manifest : Requests \cup {None}, events : SUBSET EventRow]

Bundle ==
  [manifest : Requests, events : SUBSET EventRow, beacons : SUBSET Tokens,
   watermarks : SUBSET Marks, tlog_head : Nat, tlog_proofs : SUBSET Nat]

(***************************************************************************)
(* Every variable keeps its type; a handler that is past its first read    *)
(* has the locals its next step uses.                                      *)
(***************************************************************************)
TypeOK ==
  /\ status \in {"down", "up"}
  /\ db \in Database
  /\ unsynced \subseteq Database
  /\ log \in Seq(Leaf)
  /\ acked \subseteq [index : Nat, data : Leaf]
  /\ roots \subseteq Seq(Leaf)
  /\ lost \subseteq Nat
  /\ taken \subseteq Taking
  /\ pc \in [Threads -> Labels]
  /\ frame \in [Threads -> Frame]
  /\ \A t \in Threads :
       /\ pc[t] \in {"reg_insert", "reg_append", "reg_reply", "ev_events", "ev_beacons",
                    "ev_watermarks", "ev_head", "ev_proofs"} => frame[t].req # None
       /\ pc[t] \in {"evt_append", "evt_insert"} => frame[t].event # None
       /\ pc[t] \in {"att_manifest", "att_events"} => frame[t].row # None
  /\ replies \subseteq Reply
  /\ answers \subseteq Answer
  /\ bundles \subseteq Bundle
  /\ started \in 0..MaxRequests /\ crashes \in 0..MaxCrashes
  /\ dbErrors \in 0..MaxDbErrors /\ logErrors \in 0..MaxLogErrors

\* Leaf i of the log, from 0, is l.
LeafAt(i, l) == i < Len(log) /\ log[i + 1] = l

Anchored(e) == LeafAt(e.tlog_index, BeaconLeaf(e.event))

(***************************************************************************)
(* Every row of events, in the database or in a state of it that a power   *)
(* failure can bring back, names the leaf that describes the same event,   *)
(* and no two rows name the same leaf.  The handlers append to the log     *)
(* before they insert, a beacon whose append failed has no row, and a log  *)
(* that starts after a failed append has every leaf whose index it         *)
(* returned.                                                               *)
(***************************************************************************)
EventsAnchored ==
  \A d \in unsynced \cup {db} :
    \A e \in d.events :
      /\ Anchored(e)
      /\ \A x \in d.events : x.tlog_index = e.tlog_index => x = e

(***************************************************************************)
(* A signed evidence bundle proves what it shows: every event in it has an *)
(* inclusion proof, of the leaf that describes that event, and is covered  *)
(* by the tree head of the bundle.  The head and the proofs are taken      *)
(* after the events were read, while other handlers append.                *)
(***************************************************************************)
BundleProvable ==
  \A b \in bundles : \A e \in b.events :
    /\ e.tlog_index \in b.tlog_proofs
    /\ Anchored(e)
    /\ e.tlog_index < b.tlog_head

\* A registration of another file took the row of this key from file f.
TakenFrom(table, key, f) ==
  \E x \in taken : /\ x.table = table /\ x.key = key
                   /\ x.from.file_id = f /\ x.to.file_id # f

(***************************************************************************)
(* The manifest and the tables of a bundle are separate reads, and a       *)
(* registration may commit between them; still every beacon and watermark  *)
(* of the manifest that was read is among the rows that were read, unless  *)
(* a registration of another file, which register lets replace rows by     *)
(* token_id and mark_id, took the row from this file.  Neither the         *)
(* interleaving nor a power failure makes a bundle incomplete.             *)
(***************************************************************************)
BundleCoversManifest ==
  \A b \in bundles :
    /\ \A k \in b.manifest.beacons :
         k \in b.beacons \/ TakenFrom("beacons", k, b.manifest.file_id)
    /\ \A m \in b.manifest.watermarks :
         m \in b.watermarks \/ TakenFrom("watermarks", m, b.manifest.file_id)

(***************************************************************************)
(* register answers 200 only for a registration that the log has, and the  *)
(* tlog_index of the answer is that of its leaf, however many handlers     *)
(* were appending and whichever of their appends failed; the leaf is still *)
(* there when the log has been read back after a crash.                    *)
(***************************************************************************)
RepliesLogged == \A p \in replies : LeafAt(p.tlog_index, RegisterLeaf(p.req))

(***************************************************************************)
(* "If the file_id already exists in our DB, the re-registration's issuer  *)
(* pubkey MUST match the original. This prevents hostile overwrites of     *)
(* another issuer's attribution record": no registration takes a manifest, *)
(* a beacon or a watermark row from another issuer.                        *)
(***************************************************************************)
NoHostileOverwrite == \A x \in taken : x.from.issuer_id = x.to.issuer_id
=============================================================================
