---------------------------- MODULE MCOpenPolicy ----------------------------
(***************************************************************************)
(* OpenPolicy for TLC.                                                     *)
(***************************************************************************)
EXTENDS OpenPolicy

CONSTANTS p1, p2, p3, p4

\* Two openers that count, one without a context, one with an unsupported mode.
Modes ==
  [p \in Openers |-> CASE p = p3 -> "none" [] p = p4 -> "REGISTRY" [] OTHER -> "LOCAL_ONLY"]
=============================================================================
