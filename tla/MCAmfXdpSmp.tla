----------------------------- MODULE MCAmfXdpSmp -----------------------------
(***************************************************************************)
(* AmfXdpSmp for TLC: two CPUs, interchangeable, and elements that are     *)
(* alike.                                                                  *)
(***************************************************************************)
EXTENDS AmfXdpSmp, TLC

MCSymmetry == Permutations(CPUs) \cup Permutations(RateElems) \cup Permutations(UeElems)

\* Either the clock runs, or the loader; without the clock a message less.
MCBound ==
    \/ populate.run = 0 /\ populate.next = 1 /\ populate.new = NULL
    \/ now = 0 /\ rx < MaxRx

=============================================================================
