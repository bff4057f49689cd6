--------------------------- MODULE EvidenceAudit ----------------------------
(***************************************************************************)
(* What a registration leaves behind for an auditor besides its leaf: the  *)
(* attestation that _attest_to_rekor of registry/server.py signs and sends *)
(* to a public Rekor log (oversight_core/rekor.py), the evidence bundle    *)
(* built from it, and its offline verification.                            *)
(*                                                                         *)
(* A registry without Rekor is audited by inclusion proofs of its own log  *)
(* (MerkleAudit).  With Rekor each registration appends its leaf, then     *)
(* uploads; the upload is refused, or accepted, or accepted while the      *)
(* answer gets lost, and it is never repeated.  A bundle may be put        *)
(* together from an envelope and a log entry of different uploads.         *)
(***************************************************************************)
EXTENDS MerkleAudit, FiniteSets

CONSTANTS
  NoValue,       \* None
  MaxAttested    \* bound on the number of registrations with Rekor

VARIABLES
  rekor,      \* REKOR_ENABLED
  pending,    \* the registration whose leaf is appended and not yet attested
  uploads,    \* envelope and answer of every upload
  public,     \* the envelopes in the public log
  bundle      \* the bundle an auditor examines

evidence == <<rekor, pending, uploads, public, bundle>>
allVars == <<vars, evidence>>

\* A registration d is about the content d.
Digest(d) == [sha256 |-> d]
-----------------------------------------------------------------------------
(***************************************************************************)
(* rekor.py.                                                               *)
(***************************************************************************)
\* OversightRegistrationPredicate: hashes, never the recipient's key itself.
Predicate(d) == [file_id |-> d, issuer |-> "issuer", recipient |-> [sha256 |-> "recipient"]]

BuildStatement(d) == [digest |-> Digest(d), predicate |-> Predicate(d)]

Pae(type, payload) == [type |-> type, payload |-> payload]

SignDsse(statement, key) ==
  [payload |-> statement, type |-> "in-toto",
   signatures |-> {[by |-> key, of |-> Pae("in-toto", statement)]}]

VerifyDsse(envelope, key) ==
  [by |-> key, of |-> Pae(envelope.type, envelope.payload)] \in envelope.signatures

\* The answers of upload_dsse: an error, or an entry of which the checkpoint
\* and the key of the log are never filled in, with or without a proof.
Answers(index) ==
  {[error |-> TRUE, entry |-> NoValue],
   [error |-> FALSE, entry |-> [log_index |-> index, proof |-> TRUE]],
   [error |-> FALSE, entry |-> [log_index |-> index, proof |-> FALSE]]}

BuildBundle(upload, envelope, key, expected) ==
  [entry |-> upload.answer.entry, envelope |-> envelope, key |-> key, expected |-> expected,
   own |-> upload.envelope = envelope]

\* Mutant: the subject of the statement is not compared.
VerifyAnySubject(entry, envelope, key, expected) ==
  VerifyDsse(envelope, key) /\ entry # NoValue /\ entry.proof

VerifyInclusionOffline(entry, envelope, key, expected) ==
  /\ VerifyDsse(envelope, key)
  /\ envelope.payload.digest = expected
  /\ entry # NoValue /\ entry.proof
-----------------------------------------------------------------------------
AuditInit ==
  /\ Init
  /\ rekor \in BOOLEAN
  /\ pending = NoValue
  /\ uploads = {} /\ public = {} /\ bundle = NoValue

\* register() up to its leaf.
Register(d) ==
  /\ rekor /\ pending = NoValue /\ bundle = NoValue
  /\ Len(leaves) < MaxAttested
  /\ Grow(d)
  /\ pending' = d
  /\ UNCHANGED <<rekor, uploads, public, bundle>>

\* _attest_to_rekor: signed with the registry's key.  An error is reported in
\* the reply of register() and forgotten.
AttestToRekor ==
  /\ pending # NoValue
  /\ LET envelope == SignDsse(BuildStatement(pending), "registry") IN
       \E answer \in Answers(Cardinality(public)) :
         /\ uploads' = uploads \cup {[envelope |-> envelope, answer |-> answer]}
         /\ \E arrived \in {TRUE, ~answer.error} :
              public' = IF arrived THEN public \cup {envelope} ELSE public
  /\ pending' = NoValue
  /\ UNCHANGED <<vars, rekor, bundle>>

Examine ==
  /\ rekor /\ pending = NoValue /\ bundle = NoValue
  /\ \E u, v \in uploads, key \in {"registry", "issuer"}, d \in Data :
       bundle' = BuildBundle(u, v.envelope, key, Digest(d))
  /\ UNCHANGED <<vars, rekor, pending, uploads, public>>

AuditNext ==
  \/ ~rekor /\ Next /\ UNCHANGED evidence
  \/ \E d \in Data : Register(d)
  \/ AttestToRekor
  \/ Examine

AuditSpec == AuditInit /\ [][AuditNext]_allVars
-----------------------------------------------------------------------------
(***************************************************************************)
(* A bundle that verify_inclusion_offline accepts is signed by the         *)
(* registry and is about a registration that is a leaf of its log; it is   *)
(* in the public log when envelope and entry are of one upload (the        *)
(* function does not tie them together).                                   *)
(***************************************************************************)
AcceptedEvidenceHolds ==
  (bundle # NoValue
     /\ VerifyInclusionOffline(bundle.entry, bundle.envelope, bundle.key, bundle.expected)) =>
    /\ bundle.key = "registry"
    /\ bundle.own => bundle.envelope \in public
    /\ \E d \in Data, i \in 1..Len(leaves) :
         bundle.expected = Digest(d) /\ leaves[i] = LeafHash(d)
=============================================================================
