----------------------------- MODULE MCRegistry -----------------------------
(***************************************************************************)
(* Registry for TLC: a file registered twice by the issuer that owns it    *)
(* (with a new token and another recipient) and claimed by another issuer, *)
(* a second file, of that issuer, whose manifest has a token and a mark of *)
(* the first, and a manifest whose signature does not verify.              *)
(***************************************************************************)
EXTENDS Registry

CONSTANTS f1, f2, i1, i2, r1, r2, k1, k2, m1, h1

Body(f, i, r, ks, ms, hs, ok) ==
  [file_id |-> f, issuer_pub |-> i, recipient_id |-> r, beacons |-> ks,
   watermarks |-> ms, corpus |-> hs, sig_ok |-> ok, sidecars_match |-> TRUE]

First    == Body(f1, i1, r1, {k1}, {m1}, {h1}, TRUE)
Again    == Body(f1, i1, r2, {k2}, {m1}, {}, TRUE)
Claim    == Body(f1, i2, r1, {}, {}, {}, TRUE)
Taker    == Body(f2, i2, r1, {k1}, {m1}, {}, TRUE)
Unsigned == Body(f2, i2, r1, {}, {}, {}, FALSE)

Shared    == {First, Again, Taker, Unsigned}
AllBodies == {First, Again, Claim, Taker, Unsigned}
=============================================================================
