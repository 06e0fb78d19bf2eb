--------------------------- MODULE AmfLoaderProofs ---------------------------
(***************************************************************************)
(* Proofs about AmfLoader, for any number of probes, tracepoints and runs. *)
(***************************************************************************)
EXTENDS AmfLoader, TLAPS

Places == LoadPlaces \cup AttachPlaces \cup CleanupPlaces \cup Ended

\* A step that writes no map: it starts the node loop at its first entry or
\* not at all, enters no edge loop, and attaches nothing it was not attaching.
LEMMA QuietMaps ==
    ASSUME MapInv, UNCHANGED maps,
           \/ UNCHANGED << pc, idx >>
           \/ /\ pc' = "nodes" => idx' = 1
              /\ pc' # "edges"
              /\ pc' \in AttachPlaces => pc \in AttachPlaces
    PROVE  MapInv'
<1>1. NodesFromTable' /\ EdgesFromTable'
  BY DEF MapInv, NodesFromTable, EdgesFromTable, maps
<1>2. pc' \in AttachPlaces => MapsComplete'
  BY DEF MapInv, MapsComplete, NodeKeys, EdgeKeys, maps
<1>3. CASE UNCHANGED << pc, idx >>
  BY <1>1, <1>2, <1>3 DEF MapInv, NodeKeys, maps
<1>4. CASE /\ pc' = "nodes" => idx' = 1
           /\ pc' # "edges"
  BY <1>1, <1>2, <1>4, TableAssumption DEF MapInv
<1>5. QED
  BY <1>3, <1>4

\* What the steps of main() that write no map do to the place and the index.
LEMMA QuietCalls ==
    ASSUME TypeOK, main, ~PopulateNode, ~PopulateEdge
    PROVE  /\ UNCHANGED maps
           /\ pc' = "nodes" => idx' = 1
           /\ pc' # "edges"
           /\ pc' \in AttachPlaces => pc \in AttachPlaces
<1> USE DEF Goto, Fail, AttachPlaces
<1>1. CASE find_nf \/ get_nf_cgroup_id \/ open_and_load \/ PutCgroup
  BY <1>1 DEF find_nf, get_nf_cgroup_id, open_and_load, PutCgroup, Call
<1>2. CASE attach_programs \/ attach_tracepoints
  BY <1>2 DEF attach_programs, attach_tracepoints
<1>3. CASE \/ ring_buffer__new
           \/ signal("sigint", "sigterm", "SIGINT")
           \/ signal("sigterm", "poll", "SIGTERM")
  BY <1>3 DEF ring_buffer__new, signal
<1>4. CASE LeaveLoop \/ \E ret \in {0, EINTR, -1} : ring_buffer__poll(ret)
  BY <1>4 DEF LeaveLoop, ring_buffer__poll
<1>5. CASE ring_buffer__free \/ detach_tracepoints \/ detach_programs
  BY <1>5 DEF ring_buffer__free, detach_tracepoints, detach_programs
<1>6. QED
  BY <1>1, <1>2, <1>3, <1>4, <1>5 DEF main

\* The steps of the environment: no map is written, no place is entered but the
\* ends and the start of a run.
LEMMA QuietEnvironment ==
    ASSUME \/ \E sig \in Signals : Signal(sig)
           \/ Kill
           \/ Start
    PROVE  /\ UNCHANGED maps
           /\ UNCHANGED << pc, idx >> \/ pc' \in {"killed", "find_nf"}
BY DEF Signal, Kill, Start, Die

-----------------------------------------------------------------------------
\* main() only goes to places there are.
LEMMA PlaceStep ==
    ASSUME pc \in Places, [Next]_vars
    PROVE  pc' \in Places
<1> USE DEF Places, LoadPlaces, AttachPlaces, CleanupPlaces, Ended, Goto, Fail
<1>1. CASE find_nf \/ get_nf_cgroup_id \/ open_and_load \/ PutCgroup
  BY <1>1 DEF find_nf, get_nf_cgroup_id, open_and_load, PutCgroup, Call
<1>2. CASE PopulateNode \/ PopulateEdge \/ attach_programs \/ attach_tracepoints
  BY <1>2 DEF PopulateNode, PopulateEdge, attach_programs, attach_tracepoints
<1>3. CASE \/ ring_buffer__new
           \/ signal("sigint", "sigterm", "SIGINT")
           \/ signal("sigterm", "poll", "SIGTERM")
  BY <1>3 DEF ring_buffer__new, signal
<1>4. CASE LeaveLoop \/ \E ret \in {0, EINTR, -1} : ring_buffer__poll(ret)
  BY <1>4 DEF LeaveLoop, ring_buffer__poll
<1>5. CASE ring_buffer__free \/ detach_tracepoints \/ detach_programs
  BY <1>5 DEF ring_buffer__free, detach_tracepoints, detach_programs
<1>6. CASE \/ \E sig \in Signals : Signal(sig)
           \/ Kill
           \/ Start
  BY <1>6 DEF Signal, Kill, Start, Die
<1>7. CASE UNCHANGED vars
  BY <1>7 DEF vars
<1>8. QED
  BY <1>1, <1>2, <1>3, <1>4, <1>5, <1>6, <1>7 DEF Next, main

\* A step that only moves on, fails, or takes no action keeps the types.
LEMMA MoveType ==
    ASSUME TypeOK, pc' \in Places, idx' = 1,
           UNCHANGED << maps, links, rb, handled, stop, err, runs, failed >>
    PROVE  TypeOK'
BY DEF TypeOK, Places, maps, links

LEMMA FailType ==
    ASSUME TypeOK, pc' \in Places,
           NEW from \in LoadPlaces \cup AttachPlaces, NEW to, NEW code \in Int,
           Fail(from, to, code)
    PROVE  TypeOK'
BY DEF TypeOK, Places, maps, links, Fail, Goto

LEMMA CallType ==
    ASSUME TypeOK, pc' \in Places,
           NEW from \in LoadPlaces \cup AttachPlaces, NEW to, NEW onfail, NEW code \in Int,
           Call(from, to, onfail, code)
    PROVE  TypeOK'
<1>1. CASE Fail(from, onfail, code)
  BY <1>1, FailType
<1>2. CASE /\ Goto(from, to, 1)
           /\ UNCHANGED << maps, links, rb, handled, stop, err, runs, failed >>
  BY <1>2, MoveType DEF Goto
<1>3. QED
  BY <1>1, <1>2 DEF Call

\* Every step keeps the types.  That the keys written are keys of the tables is
\* owed to the bounds of the loops, which MapInv has.
LEMMA TypeStep == TypeOK /\ MapInv /\ [Next]_vars => TypeOK'
<1> SUFFICES ASSUME TypeOK, MapInv, [Next]_vars PROVE TypeOK'
  OBVIOUS
<1>0. pc' \in Places
  BY PlaceStep DEF TypeOK, Places
<1>a. /\ LoadPlaces \subseteq LoadPlaces \cup AttachPlaces
      /\ {"find_nf", "cgroup_id", "load", "cgroup_map", "nodes", "edges"} \subseteq LoadPlaces
      /\ {"uprobes", "tps", "ring", "poll"} \subseteq LoadPlaces \cup AttachPlaces
  BY DEF LoadPlaces, AttachPlaces
<1>1. CASE find_nf \/ get_nf_cgroup_id \/ open_and_load \/ PutCgroup
  BY <1>0, <1>1, <1>a, CallType DEF find_nf, get_nf_cgroup_id, open_and_load, PutCgroup
<1>2. CASE PopulateNode
  <2>1. CASE Fail("nodes", "cleanup", 1)
    BY <1>0, <1>a, <2>1, FailType
  <2>2. CASE ~Fail("nodes", "cleanup", 1)
    <3>1. pc = "nodes" /\ idx' \in Nat \ {0}
      BY <1>2, <2>2 DEF PopulateNode, Goto, TypeOK
    <3>2. NodeKey(idx) \in NodeKeys
      BY <3>1, TableAssumption DEF MapInv, NodeKeys, TypeOK
    <3>3. /\ sm_nodes' = MapPut(sm_nodes, NodeKey(idx), NodeVal(idx))
          /\ UNCHANGED << sm_edges, links, rb, handled, stop, err, runs, failed >>
      BY <1>2, <2>2 DEF PopulateNode
    <3>4. DOMAIN sm_nodes' \subseteq NodeKeys
      BY <3>2, <3>3 DEF MapPut, TypeOK
    <3>5. QED
      BY <1>0, <3>1, <3>3, <3>4 DEF TypeOK, Places, links
  <2>3. QED
    BY <2>1, <2>2
<1>3. CASE PopulateEdge
  <2>1. CASE Fail("edges", "cleanup", 1)
    BY <1>0, <1>a, <2>1, FailType
  <2>2. CASE ~Fail("edges", "cleanup", 1)
    <3>1. pc = "edges" /\ idx' \in Nat \ {0}
      BY <1>3, <2>2 DEF PopulateEdge, Goto, TypeOK
    <3>2. EdgeKey(idx) \in EdgeKeys
      BY <3>1, TableAssumption DEF MapInv, EdgeKeys, TypeOK
    <3>3. /\ sm_edges' = MapPut(sm_edges, EdgeKey(idx), EdgeVal(idx))
          /\ UNCHANGED << sm_nodes, links, rb, handled, stop, err, runs, failed >>
      BY <1>3, <2>2 DEF PopulateEdge
    <3>4. DOMAIN sm_edges' \subseteq EdgeKeys
      BY <3>2, <3>3 DEF MapPut, TypeOK
    <3>5. QED
      BY <1>0, <3>1, <3>3, <3>4 DEF TypeOK, Places, links
  <2>3. QED
    BY <2>1, <2>2
<1>4. CASE attach_programs
  <2>1. CASE Fail("uprobes", "cleanup", 1)
    BY <1>0, <1>a, <2>1, FailType
  <2>2. CASE idx > UprobeCnt
    BY <1>0, <1>4, <2>2, MoveType, LoaderAssumption DEF attach_programs, Goto, TypeOK
  <2>3. CASE idx <= UprobeCnt /\ ~Fail("uprobes", "cleanup", 1)
    <3>1. /\ idx' = idx + 1
          /\ uprobes' = uprobes \cup {idx}
          /\ UNCHANGED << maps, tps, rb, handled, stop, err, runs, failed >>
      BY <1>4, <2>3, LoaderAssumption DEF attach_programs, Goto, TypeOK
    <3>2. QED
      BY <1>0, <2>3, <3>1, LoaderAssumption DEF TypeOK, Places, maps
  <2>4. QED
    BY <2>1, <2>2, <2>3, LoaderAssumption DEF TypeOK
<1>5. CASE attach_tracepoints
  <2>1. CASE Fail("tps", "cleanup", 1)
    BY <1>0, <1>a, <2>1, FailType
  <2>2. CASE idx > TpCnt
    BY <1>0, <1>5, <2>2, MoveType, LoaderAssumption DEF attach_tracepoints, Goto, TypeOK
  <2>3. CASE idx <= TpCnt /\ ~Fail("tps", "cleanup", 1)
    <3>1. /\ idx' = idx + 1
          /\ tps' = tps \cup {idx}
          /\ UNCHANGED << maps, uprobes, rb, handled, stop, err, runs, failed >>
      BY <1>5, <2>3, LoaderAssumption DEF attach_tracepoints, Goto, TypeOK
    <3>2. QED
      BY <1>0, <2>3, <3>1, LoaderAssumption DEF TypeOK, Places, maps
  <2>4. QED
    BY <2>1, <2>2, <2>3, LoaderAssumption DEF TypeOK
<1>6. CASE ring_buffer__new
  <2>1. CASE Fail("ring", "cleanup", 1)
    BY <1>0, <1>a, <2>1, FailType
  <2>2. CASE ~Fail("ring", "cleanup", 1)
    <3>1. /\ idx' = 1 /\ rb' \in BOOLEAN
          /\ UNCHANGED << maps, links, handled, stop, err, runs, failed >>
      BY <1>6, <2>2 DEF ring_buffer__new, Goto
    <3>2. QED
      BY <1>0, <3>1 DEF TypeOK, Places, maps, links
  <2>3. QED
    BY <2>1, <2>2
<1>7. ASSUME NEW from, NEW to, NEW sig \in Signals, signal(from, to, sig)
      PROVE  TypeOK'
  BY <1>0, <1>7 DEF signal, Goto, TypeOK, Places, maps, links
<1>8. ASSUME NEW ret \in {0, EINTR, -1}, ring_buffer__poll(ret)
      PROVE  TypeOK'
  <2>1. ret \in Int
    BY DEF EINTR
  <2>2. CASE Fail("poll", "cleanup", ret)
    BY <1>0, <1>a, <2>1, <2>2, FailType
  <2>3. CASE ~Fail("poll", "cleanup", ret)
    <3>1. /\ idx' = 1 /\ err' = 0
          /\ UNCHANGED << maps, links, rb, handled, stop, runs, failed >>
      BY <1>8, <2>3 DEF ring_buffer__poll, Goto
    <3>2. QED
      BY <1>0, <3>1 DEF TypeOK, Places, maps, links
  <2>4. QED
    BY <2>2, <2>3
<1>9. CASE LeaveLoop
  BY <1>0, <1>9, MoveType DEF LeaveLoop, Goto
<1>10. CASE ring_buffer__free
  <2>1. /\ idx' = 1 /\ rb' \in BOOLEAN
        /\ UNCHANGED << maps, links, handled, stop, err, runs, failed >>
    BY <1>10 DEF ring_buffer__free, Goto
  <2>2. QED
    BY <1>0, <2>1 DEF TypeOK, Places, maps, links
<1>11. CASE detach_tracepoints
  BY <1>0, <1>11 DEF detach_tracepoints, Goto, TypeOK, Places, maps, links
<1>12. CASE detach_programs
  BY <1>0, <1>12 DEF detach_programs, Goto, TypeOK, Places, maps, links
<1>13. CASE Die
  <2>1. /\ idx' = 1 /\ rb' \in BOOLEAN /\ uprobes' = {} /\ tps' = {}
        /\ UNCHANGED << maps, handled, stop, err, runs, failed >>
    BY <1>13 DEF Die
  <2>2. QED
    BY <1>0, <2>1 DEF TypeOK, Places, maps
<1>14. ASSUME NEW sig \in Signals, Signal(sig)
       PROVE  TypeOK'
  <2>1. CASE sig \in handled
    BY <1>0, <1>14, <2>1 DEF Signal, TypeOK, Places, maps, links
  <2>2. QED
    BY <1>13, <1>14, <2>1 DEF Signal
<1>15. CASE Start
  <2>1. /\ idx' = 1 /\ stop' \in BOOLEAN /\ handled' = {} /\ err' = 0
        /\ failed' = {} /\ runs < MaxRuns /\ runs' = runs + 1
        /\ UNCHANGED << maps, links, rb >>
    BY <1>15 DEF Start
  <2>2. QED
    BY <1>0, <2>1, LoaderAssumption DEF TypeOK, Places, maps, links
<1>16. CASE UNCHANGED vars
  BY <1>16 DEF vars, TypeOK, maps, links
<1>17. {"SIGINT", "SIGTERM"} \subseteq Signals
  BY DEF Signals
<1>18. QED
  BY <1>1, <1>2, <1>3, <1>4, <1>5, <1>6, <1>7, <1>8, <1>9, <1>10, <1>11,
     <1>12, <1>13, <1>14, <1>15, <1>16, <1>17 DEF Next, main, Kill

-----------------------------------------------------------------------------
\* Writing an entry of a table to its map: the map holds entries of the table,
\* the new one and all the old ones.
LEMMA PutNode ==
    ASSUME NodesFromTable, NEW n \in 1..Len(sm_node_data),
           sm_nodes' = MapPut(sm_nodes, NodeKey(n), NodeVal(n))
    PROVE  NodesFromTable' /\ DOMAIN sm_nodes' = DOMAIN sm_nodes \cup {NodeKey(n)}
<1>1. DOMAIN sm_nodes' = DOMAIN sm_nodes \cup {NodeKey(n)}
  BY DEF MapPut
<1>2. sm_nodes' = [k \in DOMAIN sm_nodes' |-> sm_nodes'[k]]
  BY DEF MapPut
<1>3. ASSUME NEW i \in 1..Len(sm_node_data), NodeKey(i) \in DOMAIN sm_nodes'
      PROVE  sm_nodes'[NodeKey(i)] = NodeVal(i)
  <2>1. CASE NodeKey(i) = NodeKey(n)
    <3>1. i = n
      BY <2>1, TableAssumption
    <3>2. QED
      BY <3>1 DEF MapPut
  <2>2. CASE NodeKey(i) # NodeKey(n)
    BY <1>3, <2>2 DEF MapPut, NodesFromTable
  <2>3. QED
    BY <2>1, <2>2
<1>4. QED
  BY <1>1, <1>2, <1>3 DEF NodesFromTable

LEMMA PutEdge ==
    ASSUME EdgesFromTable, NEW n \in 1..Len(sm_edge_data),
           sm_edges' = MapPut(sm_edges, EdgeKey(n), EdgeVal(n))
    PROVE  EdgesFromTable' /\ DOMAIN sm_edges' = DOMAIN sm_edges \cup {EdgeKey(n)}
<1>1. DOMAIN sm_edges' = DOMAIN sm_edges \cup {EdgeKey(n)}
  BY DEF MapPut
<1>2. sm_edges' = [k \in DOMAIN sm_edges' |-> sm_edges'[k]]
  BY DEF MapPut
<1>3. ASSUME NEW i \in 1..Len(sm_edge_data), EdgeKey(i) \in DOMAIN sm_edges'
      PROVE  sm_edges'[EdgeKey(i)] = EdgeVal(i)
  <2>1. CASE EdgeKey(i) = EdgeKey(n)
    <3>1. i = n
      BY <2>1, TableAssumption
    <3>2. QED
      BY <3>1 DEF MapPut
  <2>2. CASE EdgeKey(i) # EdgeKey(n)
    BY <1>3, <2>2 DEF MapPut, EdgesFromTable
  <2>3. QED
    BY <2>1, <2>2
<1>4. QED
  BY <1>1, <1>2, <1>3 DEF EdgesFromTable

\* A step of the node loop that does not fail.
NodeWritten ==
    /\ pc = "nodes"
    /\ pc' = IF idx < Len(sm_node_data) THEN "nodes" ELSE "edges"
    /\ idx' = IF idx < Len(sm_node_data) THEN idx + 1 ELSE 1
    /\ sm_nodes' = MapPut(sm_nodes, NodeKey(idx), NodeVal(idx))
    /\ UNCHANGED sm_edges

LEMMA NodeStep == TypeOK /\ MapInv /\ NodeWritten => MapInv'
<1> SUFFICES ASSUME TypeOK, MapInv, NodeWritten PROVE MapInv'
  OBVIOUS
<1>1. idx \in 1..Len(sm_node_data) /\ Len(sm_node_data) \in Nat
  BY TableAssumption DEF MapInv, NodeWritten, TypeOK
<1>2. NodesFromTable' /\ DOMAIN sm_nodes' = DOMAIN sm_nodes \cup {NodeKey(idx)}
  BY <1>1, PutNode DEF MapInv, NodeWritten
<1>3. EdgesFromTable'
  BY DEF MapInv, NodeWritten, EdgesFromTable
<1>4. \A j \in 1..idx : NodeKey(j) \in DOMAIN sm_nodes'
  BY <1>1, <1>2 DEF MapInv, NodeWritten
<1>5. CASE idx < Len(sm_node_data)
  BY <1>1, <1>2, <1>3, <1>4, <1>5 DEF MapInv, NodeWritten, AttachPlaces
<1>6. CASE idx = Len(sm_node_data)
  <2>1. pc' = "edges" /\ idx' = 1
    BY <1>6 DEF NodeWritten
  <2>2. DOMAIN sm_nodes' = NodeKeys
    BY <1>1, <1>2, <1>4, <1>6 DEF NodeKeys, TypeOK
  <2>3. QED
    BY <1>2, <1>3, <2>1, <2>2, TableAssumption DEF MapInv, AttachPlaces
<1>7. QED
  BY <1>1, <1>5, <1>6

\* A step of the edge loop that does not fail.
EdgeWritten ==
    /\ pc = "edges"
    /\ pc' = IF idx < Len(sm_edge_data) THEN "edges" ELSE "uprobes"
    /\ idx' = IF idx < Len(sm_edge_data) THEN idx + 1 ELSE 1
    /\ sm_edges' = MapPut(sm_edges, EdgeKey(idx), EdgeVal(idx))
    /\ UNCHANGED sm_nodes

LEMMA EdgeStep == TypeOK /\ MapInv /\ EdgeWritten => MapInv'
<1> SUFFICES ASSUME TypeOK, MapInv, EdgeWritten PROVE MapInv'
  OBVIOUS
<1>1. idx \in 1..Len(sm_edge_data) /\ Len(sm_edge_data) \in Nat
  BY TableAssumption DEF MapInv, EdgeWritten, TypeOK
<1>2. EdgesFromTable' /\ DOMAIN sm_edges' = DOMAIN sm_edges \cup {EdgeKey(idx)}
  BY <1>1, PutEdge DEF MapInv, EdgeWritten
<1>3. NodesFromTable' /\ DOMAIN sm_nodes' = NodeKeys
  BY DEF MapInv, EdgeWritten, NodesFromTable
<1>4. \A j \in 1..idx : EdgeKey(j) \in DOMAIN sm_edges'
  BY <1>1, <1>2 DEF MapInv, EdgeWritten
<1>5. CASE idx < Len(sm_edge_data)
  BY <1>1, <1>2, <1>3, <1>4, <1>5 DEF MapInv, EdgeWritten, AttachPlaces
<1>6. CASE idx = Len(sm_edge_data)
  <2>1. pc' = "uprobes"
    BY <1>6 DEF EdgeWritten
  <2>2. DOMAIN sm_edges' = EdgeKeys
    BY <1>1, <1>2, <1>4, <1>6 DEF EdgeKeys, TypeOK
  <2>3. QED
    BY <1>2, <1>3, <2>1, <2>2 DEF MapInv, MapsComplete
<1>7. QED
  BY <1>1, <1>5, <1>6

\* A step either writes an entry or leaves the maps alone.
LEMMA MapEffect ==
    ASSUME TypeOK, [Next]_vars
    PROVE  \/ NodeWritten
           \/ EdgeWritten
           \/ /\ UNCHANGED maps
              /\ \/ UNCHANGED << pc, idx >>
                 \/ /\ pc' = "nodes" => idx' = 1
                    /\ pc' # "edges"
                    /\ pc' \in AttachPlaces => pc \in AttachPlaces
<1>1. CASE PopulateNode
  BY <1>1 DEF PopulateNode, Fail, Goto, NodeWritten, AttachPlaces
<1>2. CASE PopulateEdge
  BY <1>2 DEF PopulateEdge, Fail, Goto, EdgeWritten, AttachPlaces
<1>3. CASE main /\ ~PopulateNode /\ ~PopulateEdge
  BY <1>3, QuietCalls
<1>4. CASE \/ \E sig \in Signals : Signal(sig)
           \/ Kill
           \/ Start
  BY <1>4, QuietEnvironment DEF AttachPlaces
<1>5. CASE UNCHANGED vars
  BY <1>5 DEF vars
<1>6. QED
  BY <1>1, <1>2, <1>3, <1>4, <1>5 DEF Next

LEMMA MapStep == TypeOK /\ MapInv /\ [Next]_vars => MapInv'
BY MapEffect, NodeStep, EdgeStep, QuietMaps

\* The types and the contents of the maps, in every state of every run.
THEOREM TypeCorrect == Spec => []TypeOK /\ []MapInv
<1>1. ASSUME Init PROVE TypeOK
  <2>1. DOMAIN sm_nodes = {} /\ DOMAIN sm_edges = {}
    BY <1>1 DEF Init
  <2>2. rb \in BOOLEAN /\ stop \in BOOLEAN
    BY <1>1 DEF Init
  <2>3. pc \in LoadPlaces \cup AttachPlaces \cup CleanupPlaces \cup Ended
    BY <1>1 DEF Init, Ended
  <2>4. /\ idx = 1 /\ uprobes = {} /\ tps = {} /\ handled = {} /\ err = 0
        /\ runs = 0 /\ failed = {}
    BY <1>1 DEF Init
  <2>5. QED
    BY <2>1, <2>2, <2>3, <2>4, LoaderAssumption DEF TypeOK
<1>2. ASSUME Init PROVE MapInv
  <2>1. DOMAIN sm_nodes = {} /\ DOMAIN sm_edges = {}
    BY <1>2 DEF Init
  <2>2. NodesFromTable /\ EdgesFromTable
    BY <1>2, <2>1 DEF Init, NodesFromTable, EdgesFromTable
  <2>3. pc = "killed"
    BY <1>2 DEF Init
  <2>4. QED
    BY <2>2, <2>3 DEF MapInv, AttachPlaces
<1>3. QED
  BY <1>1, <1>2, TypeStep, MapStep, PTL DEF Spec

-----------------------------------------------------------------------------
(***************************************************************************)
(* The loader implements SmPublish.                                        *)
(***************************************************************************)
\* SmPublish speaks of the same tables.
LEMMA SameTables ==
    /\ Len(Published!sm_node_data) = Len(sm_node_data)
    /\ Len(Published!sm_edge_data) = Len(sm_edge_data)
    /\ \A i : Published!NodeKey(i) = NodeKey(i) /\ Published!NodeVal(i) = NodeVal(i)
    /\ \A i : Published!EdgeKey(i) = EdgeKey(i) /\ Published!EdgeVal(i) = EdgeVal(i)
<1>1. Published!sm_node_data = sm_node_data
  BY DEF Published!sm_node_data, sm_node_data
<1>2. Published!sm_edge_data = sm_edge_data
  BY DEF Published!sm_edge_data, sm_edge_data
<1>3. \A s, n : Published!BoundedCopy(s, n) = BoundedCopy(s, n)
  BY DEF Published!BoundedCopy, BoundedCopy
<1>4. Published!SM_NAME_MAX = SM_NAME_MAX /\ Published!SM_LABEL_MAX = SM_LABEL_MAX
  BY DEF Published!SM_NAME_MAX, SM_NAME_MAX, Published!SM_LABEL_MAX, SM_LABEL_MAX
<1>5. QED
  BY <1>1, <1>2, <1>3, <1>4
  DEF Published!NodeKey, NodeKey, Published!NodeVal, NodeVal,
      Published!EdgeKey, EdgeKey, Published!EdgeVal, EdgeVal

\* A node the map already has is written over with what it has.
LEMMA NodeRefines ==
    ASSUME TypeOK, MapInv, NodeWritten
    PROVE  [Published!Next]_<< sm_nodes, sm_edges >>
<1>1. idx \in 1..Len(sm_node_data)
  BY TableAssumption DEF MapInv, NodeWritten, TypeOK
<1>2. CASE NodeKey(idx) \in DOMAIN sm_nodes
  <2>1. sm_nodes[NodeKey(idx)] = NodeVal(idx)
    BY <1>1, <1>2 DEF MapInv, NodesFromTable
  <2>2. sm_nodes' = sm_nodes
    BY <1>2, <2>1 DEF MapInv, NodesFromTable, NodeWritten, MapPut
  <2>3. QED
    BY <2>2 DEF NodeWritten
<1>3. CASE NodeKey(idx) \notin DOMAIN sm_nodes
  <2>1. Published!PublishNode(idx)
    BY <1>3, SameTables
    DEF Published!PublishNode, MapInv, NodeWritten, MapPut, Published!MapPut
  <2>2. QED
    BY <1>1, <2>1, SameTables DEF Published!Next
<1>4. QED
  BY <1>2, <1>3

LEMMA EdgeRefines ==
    ASSUME TypeOK, MapInv, EdgeWritten
    PROVE  [Published!Next]_<< sm_nodes, sm_edges >>
<1>1. idx \in 1..Len(sm_edge_data)
  BY TableAssumption DEF MapInv, EdgeWritten, TypeOK
<1>2. CASE EdgeKey(idx) \in DOMAIN sm_edges
  <2>1. sm_edges[EdgeKey(idx)] = EdgeVal(idx)
    BY <1>1, <1>2 DEF MapInv, EdgesFromTable
  <2>2. sm_edges' = sm_edges
    BY <1>2, <2>1 DEF MapInv, EdgesFromTable, EdgeWritten, MapPut
  <2>3. QED
    BY <2>2 DEF EdgeWritten
<1>3. CASE EdgeKey(idx) \notin DOMAIN sm_edges
  <2>1. Published!NodesPublished
    BY SameTables DEF Published!NodesPublished, MapInv, EdgeWritten, NodeKeys
  <2>2. Published!PublishEdge(idx)
    BY <1>3, <2>1, SameTables
    DEF Published!PublishEdge, MapInv, EdgeWritten, MapPut, Published!MapPut
  <2>3. QED
    BY <1>1, <2>2, SameTables DEF Published!Next
<1>4. QED
  BY <1>2, <1>3

\* Whatever fails, whenever a run is stopped or killed, and over whatever an
\* earlier run left, a reader of the pinned maps sees SmPublish.
THEOREM LoaderPublishes == Spec => PublishedSpec
<1>1. Init => Published!Init
  BY DEF Init, Published!Init
<1>2. TypeOK /\ MapInv /\ [Next]_vars => [Published!Next]_<< sm_nodes, sm_edges >>
  BY MapEffect, NodeRefines, EdgeRefines DEF maps
<1>3. QED
  BY <1>1, <1>2, TypeCorrect, PTL DEF Spec, PublishedSpec, Published!Spec

-----------------------------------------------------------------------------
(***************************************************************************)
(* What is attached, and the exit status.                                  *)
(***************************************************************************)
\* A call that fails before anything is attached returns, any other one goes to
\* the cleanup label.
LEMMA FailLinks ==
    ASSUME LinkInv, NEW from, NEW to, NEW code, Fail(from, to, code),
           \/ to = "cleanup"
           \/ to = "returned" /\ from \in LoadPlaces
    PROVE  LinkInv'
<1>1. /\ pc = from /\ pc' = to
      /\ UNCHANGED << uprobes, tps, rb >>
  BY DEF Fail, Goto, links
<1>2. CASE to = "cleanup"
  BY <1>1, <1>2 DEF LinkInv, LoadPlaces, Ended
<1>3. CASE to = "returned" /\ from \in LoadPlaces
  BY <1>1, <1>3 DEF LinkInv, LoadPlaces, Ended
<1>4. QED
  BY <1>2, <1>3

\* The steps of the load phase: nothing is attached yet.
LEMMA LoadLinks ==
    ASSUME LinkInv, pc \in LoadPlaces, UNCHANGED << uprobes, tps, rb >>,
           pc' \in LoadPlaces \/ (pc' = "uprobes" /\ idx' = 1)
    PROVE  LinkInv'
<1>1. uprobes' = {} /\ tps' = {} /\ ~rb'
  BY DEF LinkInv
<1>2. CASE pc' \in LoadPlaces
  BY <1>1, <1>2 DEF LinkInv, LoadPlaces, Ended
<1>3. CASE pc' = "uprobes" /\ idx' = 1
  <2>1. idx' <= UprobeCnt + 1 /\ uprobes' = 1..(idx' - 1)
    BY <1>1, <1>3, LoaderAssumption
  <2>2. QED
    BY <1>1, <1>3, <2>1 DEF LinkInv, LoadPlaces, Ended
<1>4. QED
  BY <1>2, <1>3

LEMMA LinkStep == TypeOK /\ LinkInv /\ [Next]_vars => LinkInv'
<1> SUFFICES ASSUME TypeOK, LinkInv, [Next]_vars PROVE LinkInv'
  OBVIOUS
<1>a. LoadPlaces = {"find_nf", "cgroup_id", "load", "cgroup_map", "nodes", "edges"}
  BY DEF LoadPlaces
<1>1. CASE find_nf \/ get_nf_cgroup_id \/ open_and_load \/ PutCgroup
  <2>1. ASSUME NEW from \in LoadPlaces, NEW to \in LoadPlaces,
               NEW onfail \in {"returned", "cleanup"}, NEW code,
               Call(from, to, onfail, code)
        PROVE  LinkInv'
    <3>1. CASE Fail(from, onfail, code)
      BY <3>1, FailLinks
    <3>2. CASE ~Fail(from, onfail, code)
      BY <2>1, <3>2, LoadLinks DEF Call, Goto, links
    <3>3. QED
      BY <3>1, <3>2
  <2>2. QED
    BY <1>1, <1>a, <2>1 DEF find_nf, get_nf_cgroup_id, open_and_load, PutCgroup
<1>2. CASE PopulateNode
  <2>1. CASE Fail("nodes", "cleanup", 1)
    BY <2>1, FailLinks
  <2>2. CASE ~Fail("nodes", "cleanup", 1)
    BY <1>2, <1>a, <2>2, LoadLinks DEF PopulateNode, Goto, links
  <2>3. QED
    BY <2>1, <2>2
<1>3. CASE PopulateEdge
  <2>1. CASE Fail("edges", "cleanup", 1)
    BY <2>1, FailLinks
  <2>2. CASE ~Fail("edges", "cleanup", 1)
    BY <1>3, <1>a, <2>2, LoadLinks DEF PopulateEdge, Goto, links
  <2>3. QED
    BY <2>1, <2>2
<1>4. CASE attach_programs
  <2>1. CASE Fail("uprobes", "cleanup", 1)
    BY <2>1, FailLinks
  <2>2. CASE idx > UprobeCnt /\ ~Fail("uprobes", "cleanup", 1)
    <3>1. /\ pc = "uprobes" /\ pc' = "tps" /\ idx' = 1
          /\ UNCHANGED << uprobes, tps, rb >>
      BY <1>4, <2>2, LoaderAssumption DEF attach_programs, Goto, links, TypeOK
    <3>2. idx = UprobeCnt + 1
      BY <2>2, <3>1, LoaderAssumption DEF LinkInv, TypeOK
    <3>3. uprobes' = 1..UprobeCnt /\ tps' = 1..(idx' - 1) /\ ~rb' /\ idx' <= TpCnt + 1
      BY <3>1, <3>2, LoaderAssumption DEF LinkInv
    <3>4. QED
      BY <3>1, <3>3 DEF LinkInv, LoadPlaces, Ended
  <2>3. CASE idx <= UprobeCnt /\ ~Fail("uprobes", "cleanup", 1)
    <3>1. /\ pc = "uprobes" /\ pc' = "uprobes" /\ idx' = idx + 1
          /\ uprobes' = uprobes \cup {idx}
          /\ UNCHANGED << tps, rb >>
      BY <1>4, <2>3, LoaderAssumption DEF attach_programs, Goto, TypeOK
    <3>2. uprobes' = 1..(idx' - 1) /\ idx' <= UprobeCnt + 1
      BY <2>3, <3>1, LoaderAssumption DEF LinkInv, TypeOK
    <3>3. tps' = {} /\ ~rb'
      BY <3>1 DEF LinkInv
    <3>4. QED
      BY <3>1, <3>2, <3>3 DEF LinkInv, LoadPlaces, Ended
  <2>4. QED
    BY <2>1, <2>2, <2>3, LoaderAssumption DEF TypeOK
<1>5. CASE attach_tracepoints
  <2>1. CASE Fail("tps", "cleanup", 1)
    BY <2>1, FailLinks
  <2>2. CASE idx > TpCnt /\ ~Fail("tps", "cleanup", 1)
    <3>1. /\ pc = "tps" /\ pc' = "ring" /\ idx' = 1
          /\ UNCHANGED << uprobes, tps, rb >>
      BY <1>5, <2>2, LoaderAssumption DEF attach_tracepoints, Goto, links, TypeOK
    <3>2. idx = TpCnt + 1
      BY <2>2, <3>1, LoaderAssumption DEF LinkInv, TypeOK
    <3>3. uprobes' = 1..UprobeCnt /\ tps' = 1..TpCnt /\ ~rb'
      BY <3>1, <3>2, LoaderAssumption DEF LinkInv
    <3>4. QED
      BY <3>1, <3>3 DEF LinkInv, LoadPlaces, Ended
  <2>3. CASE idx <= TpCnt /\ ~Fail("tps", "cleanup", 1)
    <3>1. /\ pc = "tps" /\ pc' = "tps" /\ idx' = idx + 1
          /\ tps' = tps \cup {idx}
          /\ UNCHANGED << uprobes, rb >>
      BY <1>5, <2>3, LoaderAssumption DEF attach_tracepoints, Goto, TypeOK
    <3>2. tps' = 1..(idx' - 1) /\ idx' <= TpCnt + 1
      BY <2>3, <3>1, LoaderAssumption DEF LinkInv, TypeOK
    <3>3. uprobes' = 1..UprobeCnt /\ ~rb'
      BY <3>1 DEF LinkInv
    <3>4. QED
      BY <3>1, <3>2, <3>3 DEF LinkInv, LoadPlaces, Ended
  <2>4. QED
    BY <2>1, <2>2, <2>3, LoaderAssumption DEF TypeOK
<1>6. CASE ring_buffer__new
  <2>1. CASE Fail("ring", "cleanup", 1)
    BY <2>1, FailLinks
  <2>2. CASE ~Fail("ring", "cleanup", 1)
    <3>1. pc = "ring" /\ pc' = "sigint" /\ rb' /\ UNCHANGED << uprobes, tps >>
      BY <1>6, <2>2 DEF ring_buffer__new, Goto, links
    <3>2. QED
      BY <3>1 DEF LinkInv, LoadPlaces, Ended
  <2>3. QED
    BY <2>1, <2>2
<1>b. ASSUME pc \in {"sigint", "sigterm", "poll"},
             pc' \in {"sigint", "sigterm", "poll", "cleanup"},
             UNCHANGED << uprobes, tps, rb >>
      PROVE  LinkInv'
  BY <1>b DEF LinkInv, LoadPlaces, Ended
<1>7. CASE signal("sigint", "sigterm", "SIGINT") \/ signal("sigterm", "poll", "SIGTERM")
  BY <1>7, <1>b DEF signal, Goto, links
<1>8. ASSUME NEW ret \in {0, EINTR, -1}, ring_buffer__poll(ret)
      PROVE  LinkInv'
  BY <1>8, <1>b DEF ring_buffer__poll, Fail, Goto, links
<1>9. CASE LeaveLoop
  BY <1>9, <1>b DEF LeaveLoop, Goto, links
<1>10. CASE ring_buffer__free
  <2>1. pc' = "detach_tps" /\ idx' = 1 /\ ~rb' /\ UNCHANGED tps
    BY <1>10 DEF ring_buffer__free, Goto, links
  <2>2. \A k \in tps' : k >= idx'
    BY <2>1, LoaderAssumption DEF TypeOK
  <2>3. QED
    BY <2>1, <2>2 DEF LinkInv, LoadPlaces, Ended
<1>11. CASE detach_tracepoints
  <2>1. /\ pc = "detach_tps" /\ tps' = tps \ {idx} /\ UNCHANGED << uprobes, rb >>
        /\ pc' = IF idx < TpCnt THEN "detach_tps" ELSE "detach_uprobes"
        /\ idx' = IF idx < TpCnt THEN idx + 1 ELSE 1
    BY <1>11 DEF detach_tracepoints, Goto
  <2>2. ~rb' /\ \A k \in tps' : k \in 1..TpCnt /\ k >= idx + 1
    BY <2>1, LoaderAssumption DEF LinkInv, TypeOK
  <2>3. CASE idx < TpCnt
    BY <2>1, <2>2, <2>3 DEF LinkInv, LoadPlaces, Ended
  <2>4. CASE ~(idx < TpCnt)
    <3>1. tps' = {}
      BY <2>2, <2>4, LoaderAssumption DEF TypeOK
    <3>2. \A k \in uprobes' : k >= idx'
      BY <2>1, <2>4, LoaderAssumption DEF TypeOK
    <3>3. QED
      BY <2>1, <2>2, <2>4, <3>1, <3>2 DEF LinkInv, LoadPlaces, Ended
  <2>5. QED
    BY <2>3, <2>4
<1>12. CASE detach_programs
  <2>1. /\ pc = "detach_uprobes" /\ uprobes' = uprobes \ {idx} /\ UNCHANGED << tps, rb >>
        /\ pc' = IF idx < UprobeCnt THEN "detach_uprobes" ELSE "returned"
        /\ idx' = IF idx < UprobeCnt THEN idx + 1 ELSE 1
    BY <1>12 DEF detach_programs, Goto
  <2>2. ~rb' /\ tps' = {} /\ \A k \in uprobes' : k \in 1..UprobeCnt /\ k >= idx + 1
    BY <2>1, LoaderAssumption DEF LinkInv, TypeOK
  <2>3. CASE idx < UprobeCnt
    BY <2>1, <2>2, <2>3 DEF LinkInv, LoadPlaces, Ended
  <2>4. CASE ~(idx < UprobeCnt)
    <3>1. uprobes' = {}
      BY <2>2, <2>4, LoaderAssumption DEF TypeOK
    <3>2. QED
      BY <2>1, <2>2, <2>4, <3>1 DEF LinkInv, LoadPlaces, Ended
  <2>5. QED
    BY <2>3, <2>4
<1>13. CASE Die
  BY <1>13 DEF Die, LinkInv, LoadPlaces, Ended
<1>14. ASSUME NEW sig \in Signals, Signal(sig)
       PROVE  LinkInv'
  <2>1. CASE sig \in handled
    BY <1>14, <2>1 DEF Signal, LinkInv, links
  <2>2. QED
    BY <1>13, <1>14, <2>1 DEF Signal
<1>15. CASE Start
  BY <1>15 DEF Start, LinkInv, LoadPlaces, Ended, links
<1>16. CASE UNCHANGED vars
  BY <1>16 DEF vars, LinkInv, links
<1>17. QED
  BY <1>1, <1>2, <1>3, <1>4, <1>5, <1>6, <1>7, <1>8, <1>9, <1>10, <1>11,
     <1>12, <1>13, <1>14, <1>15, <1>16 DEF Next, main, Kill

\* However far a run got, it ends with no probe attached and no consumer left.
THEOREM NothingIsLeft == Spec => []NothingLeftAttached
<1>1. Init => LinkInv
  BY DEF Init, LinkInv, LoadPlaces, Ended
<1>2. LinkInv => NothingLeftAttached
  BY DEF LinkInv, NothingLeftAttached
<1>3. QED
  BY <1>1, <1>2, LinkStep, TypeCorrect, PTL DEF Spec

\* Events are only waited for with every probe attached and both maps complete.
THEOREM TracingComplete == Spec => []TracingIsComplete
<1>1. Init => LinkInv
  BY DEF Init, LinkInv, LoadPlaces, Ended
<1>2. LinkInv /\ MapInv => TracingIsComplete
  BY DEF LinkInv, MapInv, AttachPlaces, TracingIsComplete
<1>3. QED
  BY <1>1, <1>2, LinkStep, TypeCorrect, PTL DEF Spec

\* A failure is in the error code, which the cleanup leaves alone.
LEMMA FailErr ==
    ASSUME NEW from, NEW to \in {"cleanup", "returned"}, NEW code \in Int,
           code # 0, Fail(from, to, code)
    PROVE  ErrInv'
<1>1. pc' = to /\ err' = code /\ failed' = {from}
  BY DEF Fail, Goto
<1>2. QED
  BY <1>1 DEF ErrInv, LoadPlaces, AttachPlaces, CleanupPlaces

\* As long as nothing fails, a run goes from place to place with no error.
LEMMA RunErr ==
    ASSUME ErrInv, pc \in LoadPlaces \cup AttachPlaces,
           pc' \in LoadPlaces \cup AttachPlaces, UNCHANGED << err, failed >>
    PROVE  ErrInv'
BY DEF ErrInv, LoadPlaces, AttachPlaces, CleanupPlaces

LEMMA CleanupErr ==
    ASSUME ErrInv, pc \in CleanupPlaces, pc' \in CleanupPlaces \cup {"returned"},
           UNCHANGED << err, failed, stop >>
    PROVE  ErrInv'
BY DEF ErrInv, LoadPlaces, AttachPlaces, CleanupPlaces

LEMMA ErrStep == ErrInv /\ [Next]_vars => ErrInv'
<1> SUFFICES ASSUME ErrInv, [Next]_vars PROVE ErrInv'
  OBVIOUS
<1>a. LoadPlaces \cup AttachPlaces =
        {"find_nf", "cgroup_id", "load", "cgroup_map", "nodes", "edges",
         "uprobes", "tps", "ring", "sigint", "sigterm", "poll"}
  BY DEF LoadPlaces, AttachPlaces
<1>1. CASE find_nf \/ get_nf_cgroup_id \/ open_and_load \/ PutCgroup
  <2>1. ASSUME NEW from \in LoadPlaces \cup AttachPlaces,
               NEW to \in LoadPlaces \cup AttachPlaces,
               NEW onfail \in {"returned", "cleanup"}, NEW code \in {1, -1},
               Call(from, to, onfail, code)
        PROVE  ErrInv'
    BY <2>1, FailErr, RunErr DEF Call, Goto
  <2>2. QED
    <3>1. CASE find_nf
      BY <1>a, <2>1, <3>1 DEF find_nf
    <3>2. CASE get_nf_cgroup_id
      BY <1>a, <2>1, <3>2 DEF get_nf_cgroup_id
    <3>3. CASE open_and_load
      BY <1>a, <2>1, <3>3 DEF open_and_load
    <3>4. CASE PutCgroup
      BY <1>a, <2>1, <3>4 DEF PutCgroup
    <3>5. QED
      BY <1>1, <3>1, <3>2, <3>3, <3>4
<1>2. CASE PopulateNode
  BY <1>2, <1>a, FailErr, RunErr DEF PopulateNode, Goto
<1>3. CASE PopulateEdge
  BY <1>3, <1>a, FailErr, RunErr DEF PopulateEdge, Goto
<1>4. CASE attach_programs
  BY <1>4, <1>a, FailErr, RunErr DEF attach_programs, Goto
<1>5. CASE attach_tracepoints
  BY <1>5, <1>a, FailErr, RunErr DEF attach_tracepoints, Goto
<1>6. CASE ring_buffer__new
  BY <1>6, <1>a, FailErr, RunErr DEF ring_buffer__new, Goto
<1>7. CASE signal("sigint", "sigterm", "SIGINT") \/ signal("sigterm", "poll", "SIGTERM")
  BY <1>7, <1>a, RunErr DEF signal, Goto
<1>8. ASSUME NEW ret \in {0, EINTR, -1}, ring_buffer__poll(ret)
      PROVE  ErrInv'
  <2>1. CASE ret < 0 /\ Fail("poll", "cleanup", ret)
    BY <2>1, FailErr DEF EINTR
  <2>2. CASE ~(ret < 0 /\ Fail("poll", "cleanup", ret))
    <3>1. pc = "poll" /\ pc' = "poll" /\ err' = 0 /\ UNCHANGED failed
      BY <1>8, <2>2 DEF ring_buffer__poll, Goto
    <3>2. QED
      BY <3>1, <1>a DEF ErrInv, CleanupPlaces
  <2>3. QED
    BY <2>1, <2>2
<1>9. CASE LeaveLoop
  <2>1. pc = "poll" /\ pc' = "cleanup" /\ stop' /\ UNCHANGED << err, failed >>
    BY <1>9 DEF LeaveLoop, Goto
  <2>2. QED
    BY <2>1, <1>a DEF ErrInv
<1>10. CASE ring_buffer__free \/ detach_tracepoints \/ detach_programs
  BY <1>10, CleanupErr
  DEF ring_buffer__free, detach_tracepoints, detach_programs, Goto, CleanupPlaces
<1>11. CASE Die
  BY <1>11 DEF Die, ErrInv, LoadPlaces, AttachPlaces, CleanupPlaces
<1>12. ASSUME NEW sig \in Signals, Signal(sig)
       PROVE  ErrInv'
  <2>1. CASE sig \in handled
    BY <1>12, <2>1 DEF Signal, ErrInv
  <2>2. QED
    BY <1>11, <1>12, <2>1 DEF Signal
<1>13. CASE Start
  BY <1>13 DEF Start, ErrInv, CleanupPlaces
<1>14. CASE UNCHANGED vars
  BY <1>14 DEF vars, ErrInv
<1>15. QED
  BY <1>1, <1>2, <1>3, <1>4, <1>5, <1>6, <1>7, <1>8, <1>9, <1>10, <1>11,
     <1>12, <1>13, <1>14 DEF Next, main, Kill

\* A run that ends by itself reports success exactly when nothing in it failed,
\* and then a signal had asked for the end.
THEOREM ExitStatus == Spec => []ExitStatusTruthful
<1>1. Init => ErrInv
  BY DEF Init, ErrInv, LoadPlaces, AttachPlaces, CleanupPlaces
<1>2. ErrInv => ExitStatusTruthful
  BY DEF ErrInv, ExitStatusTruthful
<1>3. QED
  BY <1>1, <1>2, ErrStep, PTL DEF Spec

=============================================================================
