---------------------------- MODULE MCTrustEngine ----------------------------
(***************************************************************************)
(* A small instance of TrustEngine for TLC.                                 *)
(***************************************************************************)
EXTENDS TrustEngine, TLC
CONSTANTS pid, qeaa
Symmetry == Permutations({pid, qeaa})
==============================================================================
