------------------------------ MODULE SmPublish ------------------------------
(***************************************************************************)
(* What the pinned maps promise to the programs that only read them, the   *)
(* XDP program among them: whatever the loader goes through, the tables    *)
(* appear in their order, all nodes before the first edge, and an entry    *)
(* once visible neither changes nor goes away.                             *)
(***************************************************************************)
EXTENDS SmMap

VARIABLES sm_nodes, sm_edges

NodesPublished == { NodeKey(i) : i \in 1..Len(sm_node_data) } \subseteq DOMAIN sm_nodes

Init ==
    /\ sm_nodes = << >>
    /\ sm_edges = << >>

PublishNode(i) ==
    /\ NodeKey(i) \notin DOMAIN sm_nodes
    /\ \A j \in 1..(i - 1) : NodeKey(j) \in DOMAIN sm_nodes
    /\ sm_nodes' = MapPut(sm_nodes, NodeKey(i), NodeVal(i))
    /\ UNCHANGED sm_edges

PublishEdge(i) ==
    /\ NodesPublished
    /\ EdgeKey(i) \notin DOMAIN sm_edges
    /\ \A j \in 1..(i - 1) : EdgeKey(j) \in DOMAIN sm_edges
    /\ sm_edges' = MapPut(sm_edges, EdgeKey(i), EdgeVal(i))
    /\ UNCHANGED sm_nodes

Next ==
    \/ \E i \in 1..Len(sm_node_data) : PublishNode(i)
    \/ \E i \in 1..Len(sm_edge_data) : PublishEdge(i)

Spec == Init /\ [][Next]_<< sm_nodes, sm_edges >>

=============================================================================
