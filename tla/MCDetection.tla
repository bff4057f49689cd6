---------------------------- MODULE MCDetection -----------------------------
(***************************************************************************)
(* The instance of Detection for TLC.  Two hosts that fetch beacons are    *)
(* interchangeable, and the run checks invariants only.                    *)
(***************************************************************************)
EXTENDS Detection, TLC

ClientSymmetry == Permutations(Clients)
=============================================================================
