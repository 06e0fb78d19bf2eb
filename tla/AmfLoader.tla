------------------------------ MODULE AmfLoader ------------------------------
(***************************************************************************)
(* amf_loader.c and amf_comm.c: main() from the search for the AMF to the  *)
(* cleanup, with every call that may fail, signals at any moment, and runs *)
(* that follow a killed one.  The kernel takes back all a dead process     *)
(* held except the maps pinned in bpffs, sm_nodes and sm_edges.            *)
(***************************************************************************)
EXTENDS SmMap, Integers

CONSTANTS
    UprobeCnt,          \* targets of the 22 attach groups of amf_functions.c
    TpCnt,              \* entries of syscall_tps
    MaxRuns             \* bound on the runs of the loader

ASSUME LoaderAssumption ==
    /\ UprobeCnt \in Nat
    /\ TpCnt \in Nat
    /\ MaxRuns \in Nat

\* The tables are not empty, and no two entries of one share a key, so none
\* overwrites another.
ASSUME TableAssumption ==
    /\ Len(sm_node_data) \in Nat \ {0}
    /\ Len(sm_edge_data) \in Nat \ {0}
    /\ \A i, j \in 1..Len(sm_node_data) : NodeKey(i) = NodeKey(j) => i = j
    /\ \A i, j \in 1..Len(sm_edge_data) : EdgeKey(i) = EdgeKey(j) => i = j

VARIABLES
    sm_nodes, sm_edges, \* the pinned maps
    pc,                 \* what main() does next, "returned" or "killed"
    idx,                \* the loop index of the step under way
    uprobes, tps,       \* the targets whose link is set
    rb,                 \* the ring buffer consumer exists
    handled,            \* signals with handle_signal installed
    stop,
    err,
    runs,               \* runs started
    failed              \* history: the places where a call of this run has failed

maps == << sm_nodes, sm_edges >>
links == << uprobes, tps >>
vars == << maps, pc, idx, links, rb, handled, stop, err, runs, failed >>

Signals == {"SIGINT", "SIGTERM"}
EINTR == -4
Ended == {"returned", "killed"}

Init ==
    /\ sm_nodes = << >>
    /\ sm_edges = << >>
    /\ pc = "killed"
    /\ idx = 1
    /\ uprobes = {}
    /\ tps = {}
    /\ rb = FALSE
    /\ handled = {}
    /\ stop = FALSE
    /\ err = 0
    /\ runs = 0
    /\ failed = {}

-----------------------------------------------------------------------------
(***************************************************************************)
(* The frame of a step: main() goes from one place to the next with the    *)
(* loop index of that place, or fails there with an error code.            *)
(***************************************************************************)
Goto(from, to, n) ==
    /\ pc = from
    /\ pc' = to
    /\ idx' = n

Fail(from, to, code) ==
    /\ Goto(from, to, 1)
    /\ err' = code
    /\ failed' = {from}
    /\ UNCHANGED << maps, links, rb, handled, stop, runs >>

\* A call that changes nothing modelled, apart from failing.
Call(from, to, onfail, code) ==
    \/ /\ Goto(from, to, 1)
       /\ UNCHANGED << maps, links, rb, handled, stop, err, runs, failed >>
    \/ Fail(from, onfail, code)

\* The first three failures return at once; the others go through cleanup.
find_nf == Call("find_nf", "cgroup_id", "returned", 1)
get_nf_cgroup_id == Call("cgroup_id", "load", "returned", 1)
open_and_load == Call("load", "cgroup_map", "returned", 1)
PutCgroup == Call("cgroup_map", "nodes", "cleanup", -1)

\* Wrong variant: the last node is left out.
PopulateNodeShort ==
    \/ /\ Goto("nodes", IF idx + 1 < Len(sm_node_data) THEN "nodes" ELSE "edges",
               IF idx + 1 < Len(sm_node_data) THEN idx + 1 ELSE 1)
       /\ sm_nodes' = MapPut(sm_nodes, NodeKey(idx), NodeVal(idx))
       /\ UNCHANGED << sm_edges, links, rb, handled, stop, err, runs, failed >>
    \/ Fail("nodes", "cleanup", 1)

\* sm_map_populate(), one map update at a time.
PopulateNode ==
    \/ /\ Goto("nodes", IF idx < Len(sm_node_data) THEN "nodes" ELSE "edges",
               IF idx < Len(sm_node_data) THEN idx + 1 ELSE 1)
       /\ sm_nodes' = MapPut(sm_nodes, NodeKey(idx), NodeVal(idx))
       /\ UNCHANGED << sm_edges, links, rb, handled, stop, err, runs, failed >>
    \/ Fail("nodes", "cleanup", 1)

PopulateEdge ==
    \/ /\ Goto("edges", IF idx < Len(sm_edge_data) THEN "edges" ELSE "uprobes",
               IF idx < Len(sm_edge_data) THEN idx + 1 ELSE 1)
       /\ sm_edges' = MapPut(sm_edges, EdgeKey(idx), EdgeVal(idx))
       /\ UNCHANGED << sm_nodes, links, rb, handled, stop, err, runs, failed >>
    \/ Fail("edges", "cleanup", 1)

\* Wrong variant: a group that fails is passed over.
attach_programs_unchecked ==
    \/ /\ idx > UprobeCnt
       /\ Goto("uprobes", "tps", 1)
       /\ UNCHANGED << maps, links, rb, handled, stop, err, runs, failed >>
    \/ /\ idx <= UprobeCnt
       /\ Goto("uprobes", "uprobes", idx + 1)
       /\ uprobes' \in {uprobes, uprobes \cup {idx}}
       /\ UNCHANGED << maps, tps, rb, handled, stop, err, runs, failed >>

\* The groups are attached in turn up to the first failure: one long list.
attach_programs ==
    \/ /\ idx > UprobeCnt
       /\ Goto("uprobes", "tps", 1)
       /\ UNCHANGED << maps, links, rb, handled, stop, err, runs, failed >>
    \/ /\ idx <= UprobeCnt
       /\ Goto("uprobes", "uprobes", idx + 1)
       /\ uprobes' = uprobes \cup {idx}
       /\ UNCHANGED << maps, tps, rb, handled, stop, err, runs, failed >>
    \/ /\ idx <= UprobeCnt
       /\ Fail("uprobes", "cleanup", 1)

attach_tracepoints ==
    \/ /\ idx > TpCnt
       /\ Goto("tps", "ring", 1)
       /\ UNCHANGED << maps, links, rb, handled, stop, err, runs, failed >>
    \/ /\ idx <= TpCnt
       /\ Goto("tps", "tps", idx + 1)
       /\ tps' = tps \cup {idx}
       /\ UNCHANGED << maps, uprobes, rb, handled, stop, err, runs, failed >>
    \/ /\ idx <= TpCnt
       /\ Fail("tps", "cleanup", 1)

ring_buffer__new ==
    \/ /\ Goto("ring", "sigint", 1)
       /\ rb' = TRUE
       /\ UNCHANGED << maps, links, handled, stop, err, runs, failed >>
    \/ Fail("ring", "cleanup", 1)

signal(from, to, sig) ==
    /\ Goto(from, to, 1)
    /\ handled' = handled \cup {sig}
    /\ UNCHANGED << maps, links, rb, stop, err, runs, failed >>

\* Wrong variant: an interrupted poll leaves its error behind.
ring_buffer__poll_keeps_err(ret) ==
    /\ ~stop
    /\ \/ /\ ret >= 0 \/ ret = EINTR
          /\ Goto("poll", "poll", 1)
          /\ err' = ret
          /\ UNCHANGED << maps, links, rb, handled, stop, runs, failed >>
       \/ /\ ret < 0 /\ ret # EINTR
          /\ Fail("poll", "cleanup", ret)

\* One turn of the loop.  A poll that a signal interrupts is not an error.
ring_buffer__poll(ret) ==
    /\ ~stop
    /\ \/ /\ ret >= 0 \/ ret = EINTR
          /\ Goto("poll", "poll", 1)
          /\ err' = 0
          /\ UNCHANGED << maps, links, rb, handled, stop, runs, failed >>
       \/ /\ ret < 0 /\ ret # EINTR
          /\ Fail("poll", "cleanup", ret)

\* Wrong variant: only an error ends the loop.
LeaveLoopOnError ==
    /\ stop
    /\ err # 0
    /\ Goto("poll", "cleanup", 1)
    /\ UNCHANGED << maps, links, rb, handled, stop, err, runs, failed >>

LeaveLoop ==
    /\ stop
    /\ Goto("poll", "cleanup", 1)
    /\ UNCHANGED << maps, links, rb, handled, stop, err, runs, failed >>

\* The cleanup label: the consumer goes first, then every link that is set,
\* tracepoints before uprobes.
ring_buffer__free ==
    /\ Goto("cleanup", "detach_tps", 1)
    /\ rb' = FALSE
    /\ UNCHANGED << maps, links, handled, stop, err, runs, failed >>

detach_tracepoints ==
    /\ Goto("detach_tps", IF idx < TpCnt THEN "detach_tps" ELSE "detach_uprobes",
            IF idx < TpCnt THEN idx + 1 ELSE 1)
    /\ tps' = tps \ {idx}
    /\ UNCHANGED << maps, uprobes, rb, handled, stop, err, runs, failed >>

\* Wrong variant: the last target keeps its link.
detach_programs_short ==
    /\ Goto("detach_uprobes", IF idx + 1 < UprobeCnt THEN "detach_uprobes" ELSE "returned",
            IF idx + 1 < UprobeCnt THEN idx + 1 ELSE 1)
    /\ uprobes' = uprobes \ {idx}
    /\ UNCHANGED << maps, tps, rb, handled, stop, err, runs, failed >>

detach_programs ==
    /\ Goto("detach_uprobes", IF idx < UprobeCnt THEN "detach_uprobes" ELSE "returned",
            IF idx < UprobeCnt THEN idx + 1 ELSE 1)
    /\ uprobes' = uprobes \ {idx}
    /\ UNCHANGED << maps, tps, rb, handled, stop, err, runs, failed >>

main ==
    \/ find_nf
    \/ get_nf_cgroup_id
    \/ open_and_load
    \/ PutCgroup
    \/ PopulateNode
    \/ PopulateEdge
    \/ attach_programs
    \/ attach_tracepoints
    \/ ring_buffer__new
    \/ signal("sigint", "sigterm", "SIGINT")
    \/ signal("sigterm", "poll", "SIGTERM")
    \/ \E ret \in {0, EINTR, -1} : ring_buffer__poll(ret)
    \/ LeaveLoop
    \/ ring_buffer__free
    \/ detach_tracepoints
    \/ detach_programs

-----------------------------------------------------------------------------
(***************************************************************************)
(* The environment: signals, and the operator who starts a run.            *)
(***************************************************************************)
\* The kernel closes every descriptor of a process that dies.
Die ==
    /\ pc' = "killed"
    /\ idx' = 1
    /\ uprobes' = {}
    /\ tps' = {}
    /\ rb' = FALSE
    /\ UNCHANGED << maps, handled, stop, err, runs, failed >>

Signal(sig) ==
    /\ pc \notin Ended
    /\ \/ /\ sig \in handled        \* handle_signal()
          /\ stop' = TRUE
          /\ UNCHANGED << maps, pc, idx, links, rb, handled, err, runs, failed >>
       \/ /\ sig \notin handled     \* the default action
          /\ Die

Kill == pc \notin Ended /\ Die

Start ==
    /\ pc \in Ended
    /\ runs < MaxRuns
    /\ pc' = "find_nf"
    /\ idx' = 1
    /\ handled' = {}
    /\ stop' = FALSE
    /\ err' = 0
    /\ failed' = {}
    /\ runs' = runs + 1
    /\ UNCHANGED << maps, links, rb >>

Next ==
    \/ main
    \/ \E sig \in Signals : Signal(sig)
    \/ Kill
    \/ Start

Spec == Init /\ [][Next]_vars

\* main() is not suspended for ever, and no call it makes blocks for ever: the
\* poll times out after 100 ms.
FairSpec == Spec /\ WF_vars(main)

-----------------------------------------------------------------------------
(***************************************************************************)
(* Properties.                                                             *)
(***************************************************************************)
NodeKeys == { NodeKey(n) : n \in 1..Len(sm_node_data) }
EdgeKeys == { EdgeKey(n) : n \in 1..Len(sm_edge_data) }
MapsComplete == DOMAIN sm_nodes = NodeKeys /\ DOMAIN sm_edges = EdgeKeys

LoadPlaces == {"find_nf", "cgroup_id", "load", "cgroup_map", "nodes", "edges"}
AttachPlaces == {"uprobes", "tps", "ring", "sigint", "sigterm", "poll"}
CleanupPlaces == {"cleanup", "detach_tps", "detach_uprobes"}

\* The types of the loader's state.
TypeOK ==
    /\ DOMAIN sm_nodes \subseteq NodeKeys
    /\ DOMAIN sm_edges \subseteq EdgeKeys
    /\ pc \in LoadPlaces \cup AttachPlaces \cup CleanupPlaces \cup Ended
    /\ idx \in Nat \ {0}
    /\ uprobes \subseteq 1..UprobeCnt
    /\ tps \subseteq 1..TpCnt
    /\ rb \in BOOLEAN
    /\ handled \subseteq Signals
    /\ stop \in BOOLEAN
    /\ err \in Int
    /\ runs \in 0..MaxRuns
    /\ failed \subseteq LoadPlaces \cup AttachPlaces

\* The cleanup label: however far a run got before it failed or was stopped, it
\* returns with no probe attached and no consumer left.
NothingLeftAttached == pc \in Ended => uprobes = {} /\ tps = {} /\ ~rb

\* main(): events are only waited for with every probe attached and the whole
\* state machine in the pinned maps, whatever earlier runs left in them.
TracingIsComplete ==
    pc = "poll" => /\ uprobes = 1..UprobeCnt
                   /\ tps = 1..TpCnt
                   /\ rb
                   /\ MapsComplete

\* "return err": a run that ends by itself says success exactly when no call of
\* it failed, which takes a signal that asked it to stop.
ExitStatusTruthful ==
    pc = "returned" => /\ err = 0 <=> failed = {}
                       /\ err = 0 => stop

\* sm_map_populate() over the maps of an earlier run: it writes nothing but what
\* SmPublish lets a reader of the pinned maps see, in any state of any run.
Published == INSTANCE SmPublish WITH sm_nodes <- sm_nodes, sm_edges <- sm_edges
PublishedSpec == Published!Spec

\* handle_signal(): a signal taken while tracing ends the run, cleanup included,
\* unless the process is killed outright.
StopEnds == stop ~> (pc \in Ended)

-----------------------------------------------------------------------------
(***************************************************************************)
(* The inductive invariant behind the safety properties.                   *)
(***************************************************************************)
\* A map holds entries of its table only.
NodesFromTable ==
    /\ sm_nodes = [k \in DOMAIN sm_nodes |-> sm_nodes[k]]
    /\ \A i \in 1..Len(sm_node_data) :
         NodeKey(i) \in DOMAIN sm_nodes => sm_nodes[NodeKey(i)] = NodeVal(i)

EdgesFromTable ==
    /\ sm_edges = [k \in DOMAIN sm_edges |-> sm_edges[k]]
    /\ \A i \in 1..Len(sm_edge_data) :
         EdgeKey(i) \in DOMAIN sm_edges => sm_edges[EdgeKey(i)] = EdgeVal(i)

\* Inductive: the maps hold entries of the tables, and main() has written those
\* before the loop index.
MapInv ==
    /\ NodesFromTable
    /\ EdgesFromTable
    /\ pc = "nodes" => /\ idx <= Len(sm_node_data)
                       /\ \A j \in 1..(idx - 1) : NodeKey(j) \in DOMAIN sm_nodes
    /\ pc = "edges" => /\ idx <= Len(sm_edge_data)
                       /\ DOMAIN sm_nodes = NodeKeys
                       /\ \A j \in 1..(idx - 1) : EdgeKey(j) \in DOMAIN sm_edges
    /\ pc \in AttachPlaces => MapsComplete

\* Inductive: which links are set and whether there is a consumer, by place.
LinkInv ==
    /\ pc \in LoadPlaces \cup Ended => uprobes = {} /\ tps = {} /\ ~rb
    /\ pc = "uprobes" => /\ idx <= UprobeCnt + 1 /\ uprobes = 1..(idx - 1)
                         /\ tps = {} /\ ~rb
    /\ pc = "tps" => /\ uprobes = 1..UprobeCnt
                     /\ idx <= TpCnt + 1 /\ tps = 1..(idx - 1) /\ ~rb
    /\ pc \in {"ring", "sigint", "sigterm", "poll"} =>
         /\ uprobes = 1..UprobeCnt
         /\ tps = 1..TpCnt
         /\ rb <=> pc # "ring"
    /\ pc = "detach_tps" => ~rb /\ \A k \in tps : k >= idx
    /\ pc = "detach_uprobes" => ~rb /\ tps = {} /\ \A k \in uprobes : k >= idx

\* Inductive: the error code against what happened.
ErrInv ==
    /\ pc \in LoadPlaces \cup AttachPlaces => err = 0 /\ failed = {}
    /\ pc \in CleanupPlaces \cup {"returned"} =>
         /\ err = 0 <=> failed = {}
         /\ err = 0 => stop

=============================================================================
