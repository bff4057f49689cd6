----------------------------- MODULE Container ------------------------------
(***************************************************************************)
(* The sealed container: oversight_core/container.py, manifest.py and      *)
(* crypto.py, with ideal cryptography.  An identity is named by a number   *)
(* that stands for both of its key pairs.  A hash is the thing hashed, a   *)
(* signature names its key and all it covers, a ciphertext names its key,  *)
(* nonce and associated data, and opens with exactly these.                *)
(*                                                                         *)
(* A text is a record [doc, mark]: the source and the mark embedded in it, *)
(* 0 when it is sealed as it is.                                           *)
(***************************************************************************)
EXTENDS Naturals, Sequences, FiniteSets

CONSTANTS
  Failed,     \* the call raised
  Malformed,  \* JSON that does not parse, or has unknown fields
  NoValue     \* None, or the empty string of a field that is not set

Suites == {"OSGT-CLASSIC-v1", "OSGT-HYBRID-v1", "OSGT-HW-P256-v1"}
-----------------------------------------------------------------------------
(***************************************************************************)
(* crypto.py.                                                              *)
(***************************************************************************)
ContentHash(data) == [sha256 |-> data]

AeadEncrypt(key, nonce, data, aad) ==
  [key |-> key, nonce |-> nonce, data |-> data, aad |-> aad]

AeadDecrypt(key, nonce, box, aad) ==
  IF box.key = key /\ box.nonce = nonce /\ box.aad = aad THEN box.data ELSE Failed

\* The key-encryption key that X25519, P-256 or X25519 with ML-KEM agree on:
\* only the holder of the recipient's private key gets to it.  The HKDF info
\* and the associated data are different for each suite.
Kek(suite, id) == [agreed |-> suite, with |-> id]

WrapDekForRecipient(dek, nonce, id) ==
  [suite |-> "OSGT-CLASSIC-v1",
   box |-> AeadEncrypt(Kek("OSGT-CLASSIC-v1", id), nonce, dek, "oversight-dek")]

WrapDekForRecipientP256(dek, nonce, id) ==
  [suite |-> "OSGT-HW-P256-v1",
   box |-> AeadEncrypt(Kek("OSGT-HW-P256-v1", id), nonce, dek, "oversight-hw-p256-dek")]

HybridWrapDek(dek, nonce, id) ==
  [suite |-> "OSGT-HYBRID-v1",
   box |-> AeadEncrypt(Kek("OSGT-HYBRID-v1", id), nonce, dek, "oversight-hybrid-dek")]

\* A P-256 point is not an X25519 key and the hybrid envelope has no field
\* ephemeral_pub: both raise.
UnwrapDek(wrapped, id) ==
  IF wrapped.suite # "OSGT-CLASSIC-v1" THEN Failed
  ELSE AeadDecrypt(Kek("OSGT-CLASSIC-v1", id), wrapped.box.nonce, wrapped.box, "oversight-dek")
-----------------------------------------------------------------------------
(***************************************************************************)
(* manifest.py.                                                            *)
(***************************************************************************)
\* Manifest.new: not_after and max_opens are left out when they are 0.
NewManifest(file, text, issuer, recipient, notAfter) ==
  [file_id |-> file, suite |-> "OSGT-CLASSIC-v1", content_hash |-> ContentHash(text),
   canonical_content_hash |-> ContentHash(text), issuer |-> issuer,
   recipient |-> recipient, watermarks |-> {},
   not_after |-> IF notAfter = 0 THEN NoValue ELSE notAfter, signature |-> NoValue]

ManifestFields == DOMAIN NewManifest(0, NoValue, 0, 0, 0)

CanonicalBytes(m) == [m EXCEPT !.signature = NoValue]

Sign(m, id) == [m EXCEPT !.signature = [by |-> id, of |-> CanonicalBytes(m)]]

Verify(m) == m.signature # NoValue /\ m.signature = [by |-> m.issuer, of |-> CanonicalBytes(m)]

\* from_json rejects what is not an object and what has an unknown field.
ManifestFromJson(data) == IF data = Malformed THEN Failed ELSE data
-----------------------------------------------------------------------------
(***************************************************************************)
(* container.py.                                                           *)
(***************************************************************************)
\* from_bytes: bad magic or version, a length over its cap, a truncated file
\* and trailing bytes are all the file that is not whole.
FromBytes(blob) ==
  IF /\ blob.whole
     /\ ManifestFromJson(blob.manifest) # Failed
     /\ blob.suite \in Suites
     /\ blob.manifest.suite = blob.suite
     /\ blob.wrapped # Malformed
  THEN blob ELSE Failed

\* dek and nonce are drawn by the call.
SealBlob(text, manifest, issuer, recipient, dek, nonce) ==
  IF \/ manifest.content_hash # ContentHash(text)
     \/ manifest.recipient # recipient
  THEN Failed
  ELSE [whole |-> TRUE, suite |-> "OSGT-CLASSIC-v1", manifest |-> Sign(manifest, issuer),
        wrapped |-> WrapDekForRecipient(dek, nonce, recipient), nonce |-> nonce,
        ciphertext |-> AeadEncrypt(dek, nonce, text, manifest.content_hash)]

\* check_policy without a context: the time window alone.  Manifest.new never
\* sets not_before.
CheckPolicy(m, now) == m.not_after = NoValue \/ now <= m.not_after

\* The key of the first slot that opens, for an envelope with a list of slots.
RecoverDek(wrapped, id) ==
  IF "slots" \in DOMAIN wrapped
  THEN LET good == {i \in DOMAIN wrapped.slots : UnwrapDek(wrapped.slots[i], id) # Failed}
       IN IF good = {} THEN Failed
          ELSE UnwrapDek(wrapped.slots[CHOOSE i \in good : \A j \in good : i <= j], id)
  ELSE UnwrapDek(wrapped, id)

\* Steps 5 to 7 of open_sealed, on a container that passed 1 to 4.
Decrypted(blob, id) ==
  LET dek  == RecoverDek(blob.wrapped, id)
      text == AeadDecrypt(dek, blob.nonce, blob.ciphertext, blob.manifest.content_hash)
  IN IF \/ dek = Failed
        \/ text = Failed
        \/ ContentHash(text) # blob.manifest.content_hash
     THEN Failed ELSE text

\* Mutant: the manifest's signature is not verified.
OpenUnverified(blob, id, now) ==
  IF FromBytes(blob) = Failed \/ ~CheckPolicy(blob.manifest, now) THEN Failed
  ELSE Decrypted(blob, id)

\* open_sealed as the commands call it: no trusted issuers, no context.
OpenSealed(blob, id, now) ==
  IF FromBytes(blob) = Failed THEN Failed
  ELSE IF ~Verify(blob.manifest) THEN Failed
  ELSE IF ~CheckPolicy(blob.manifest, now) THEN Failed
  ELSE Decrypted(blob, id)
=============================================================================
