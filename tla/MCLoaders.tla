------------------------------ MODULE MCLoaders ------------------------------
(***************************************************************************)
(* Loaders for TLC.                                                        *)
(***************************************************************************)
EXTENDS Loaders

\* Restarts and reuse of the pid concern the NRF's loader, the one with tracepoints,
\* and each costs a failure.
MCBound ==
    \/ last <= 1 /\ reuses = 0
    \/ nf = "nrf" /\ failures + reuses <= MaxFailures

=============================================================================
