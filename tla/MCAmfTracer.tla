----------------------------- MODULE MCAmfTracer -----------------------------
(***************************************************************************)
(* AmfTracer for TLC.                                                      *)
(***************************************************************************)
EXTENDS AmfTracer, TLC

MCSymmetry == Permutations(Threads)

=============================================================================
