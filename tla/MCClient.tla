------------------------------ MODULE MCClient ------------------------------
(***************************************************************************)
(* A directory with an issuer's and a recipient's identity, output names   *)
(* one of which is the fingerprint path of another, and a container from   *)
(* before: one of another suite, an expired one, or a copy made by an      *)
(* earlier seal.                                                           *)
(***************************************************************************)
EXTENDS Client

MCOutPaths == {"issuer.json", "a.sealed", "a.fingerprint.json"}

MCPaths == MCOutPaths \cup {"alice.json", "issuer.pub.json", "alice.pub.json", "a.pub.json",
                            "a.fingerprint.pub.json", "issuer.fingerprint.json",
                            "a.fingerprint.fingerprint.json", "report.txt"}

MCPubOf ==
  [p \in MCOutPaths |-> CASE p = "issuer.json" -> "issuer.pub.json"
                         [] p = "a.sealed" -> "a.pub.json"
                         [] OTHER -> "a.fingerprint.pub.json"]

MCSideOf ==
  [p \in MCOutPaths |-> CASE p = "issuer.json" -> "issuer.fingerprint.json"
                         [] p = "a.sealed" -> "a.fingerprint.json"
                         [] OTHER -> "a.fingerprint.fingerprint.json"]

MCRecipients == {"issuer.pub.json", "alice.pub.json"}

MCText(mark) == [doc |-> "d", mark |-> mark]

MCCopy(file, to, mark, notAfter) ==
  SealBlob(MCText(mark), NewManifest(file, MCText(mark), 1, to, notAfter), 1, to, file, file)

\* A container of a suite that open_sealed has no key for.
MCForeign(file, suite, wrapped) ==
  LET m == [NewManifest(file, MCText(0), 1, 2, 0) EXCEPT !.suite = suite]
  IN [whole |-> TRUE, suite |-> suite, manifest |-> Sign(m, 1), wrapped |-> wrapped,
      nonce |-> file, ciphertext |-> AeadEncrypt(file, file, MCText(0), m.content_hash)]

\* Of the other suites, expired, two plain copies, and a marked one for each reader.
MCReceived ==
  {MCForeign(1, "OSGT-HW-P256-v1", WrapDekForRecipientP256(1, 1, 2)),
   MCForeign(7, "OSGT-HYBRID-v1", HybridWrapDek(7, 7, 2)),
   MCCopy(2, 2, 0, 5), MCCopy(3, 1, 0, 0), MCCopy(4, 2, 0, 0),
   MCCopy(5, 1, 5, 0), MCCopy(6, 2, 6, 0)}
=============================================================================
