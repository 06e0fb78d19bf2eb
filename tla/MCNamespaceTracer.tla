-------------------------- MODULE MCNamespaceTracer --------------------------
(***************************************************************************)
(* NamespaceTracer for TLC.                                                *)
(***************************************************************************)
EXTENDS NamespaceTracer

MCSymmetry == Permutations(Resolvable)

MCPids == 1..3

\* An empty message, as many iovecs as are looked at, and one more.
MCIovs == { <<0>>, <<1, 2>>, <<1, 2, 1>> }

\* The scan may meet all processes and cgroups.  Calls are made by two
\* callers that start or exit meanwhile, with two network functions' cgroups at most.
MCBound ==
    \/ pc \in {"load", "opendir", "comm", "cgroup", "stat"}
    \/ /\ proc[3] = NULL
       /\ Cardinality((nfCgroups \cup {proc[p].cg : p \in {q \in Callers : proc[q] # NULL}})
                        \cap Resolvable) <= 2

=============================================================================
