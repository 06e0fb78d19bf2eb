------------------------------- MODULE SmWalk -------------------------------
(***************************************************************************)
(* The state machine in use: a UE's state starts at the endpoint "UE/gNB", *)
(* a lookup that hits replaces it by the edge's destination, and one that  *)
(* misses flags the message and leaves it alone.  This is the walk of      *)
(* test/sm_use_case.c over the populated maps, and what amf_xdp.c does     *)
(* with the one label it knows; here every label of the table may be       *)
(* observed at any time.                                                   *)
(***************************************************************************)
EXTENDS SmMap

CONSTANT MaxFlagged     \* bound on the flagged messages

\* The maps after sm_map_populate().
AllNodes ==
    [k \in { NodeKey(n) : n \in 1..Len(sm_node_data) } |->
        NodeVal(CHOOSE n \in 1..Len(sm_node_data) : NodeKey(n) = k)]

AllEdges ==
    [k \in { EdgeKey(n) : n \in 1..Len(sm_edge_data) } |->
        EdgeVal(CHOOSE n \in 1..Len(sm_edge_data) : EdgeKey(n) = k)]

Labels == { sm_edge_data[n][3] : n \in 1..Len(sm_edge_data) }

VARIABLES
    current_state,
    flagged,            \* messages flagged
    visited             \* history: every state the UE has been in

vars == << current_state, flagged, visited >>

Init ==
    /\ current_state = "UE/gNB"
    /\ flagged = 0
    /\ visited = {"UE/gNB"}

demo_transition_lookup(from, label) == sm_transition_lookup(AllEdges, from, label)

\* Wrong variant: the label alone decides, from whatever state.
MatchLabelOnly(label) ==
    \E k \in DOMAIN AllEdges :
        /\ k[2] = sm_key_set_label(label)
        /\ current_state' = AllEdges[k]
        /\ visited' = visited \cup {AllEdges[k]}
        /\ UNCHANGED flagged

Match(label) ==
    LET to == demo_transition_lookup(current_state, label)
    IN  /\ to # NULL
        /\ current_state' = to
        /\ visited' = visited \cup {to}
        /\ UNCHANGED flagged

Miss(label) ==
    /\ demo_transition_lookup(current_state, label) = NULL
    /\ flagged < MaxFlagged
    /\ flagged' = flagged + 1
    /\ UNCHANGED << current_state, visited >>

Next == \E label \in Labels : Match(label) \/ Miss(label)

Spec == Init /\ [][Next]_vars

-----------------------------------------------------------------------------
(***************************************************************************)
(* The script of run_demo(): five messages of a registration that match,   *)
(* and one that is flagged.                                                *)
(***************************************************************************)
demo_steps == << "InitialUEMessage", "valid NAS", "context unavailable",
                 "identity available", "AUSF success", "Security Mode Complete" >>

run_demo[n \in 0..Len(demo_steps)] ==
    IF n = 0
      THEN "UE/gNB"
      ELSE LET to == demo_transition_lookup(run_demo[n - 1], demo_steps[n])
           IN  IF to # NULL THEN to ELSE run_demo[n - 1]

ASSUME DemoAssumption ==
    /\ \A n \in 1..5 : demo_transition_lookup(run_demo[n - 1], demo_steps[n]) # NULL
    /\ demo_transition_lookup(run_demo[5], demo_steps[6]) = NULL
    /\ run_demo[6] = "NAS_AUTHENTICATING"

-----------------------------------------------------------------------------
(***************************************************************************)
(* Properties.                                                             *)
(***************************************************************************)
FailureNodes == { k \in DOMAIN AllNodes : AllNodes[k] = "failure" }

\* Every state the lookups lead to is a node, so that the lookups that follow
\* can hit and the node's kind can be read (the end of run_demo()).
TypeOK ==
    /\ sm_node_lookup(AllNodes, current_state) # NULL
    /\ visited \subseteq DOMAIN AllNodes
    /\ flagged \in 0..MaxFlagged

\* Composite keys (from, label): whatever is sent, and however often, no UE gets
\* to a session before it went through security, registration at the UDM, its
\* subscription and its policy: every message that would skip one of them is
\* flagged.  (Nothing of the kind holds of the states before security or after
\* the session: "UE/gNB" is the start and also the peer of three exchanges,
\* whose answers match from the start.)
SessionNeedsRegistration ==
    "SM_CONTEXT_PENDING" \in visited =>
        {"NAS_SECURITY_PENDING", "UDM_REGISTERING", "SUBSCRIPTION_LOADING",
         "POLICY_ASSOCIATING", "UE_CONTEXT_READY"} \subseteq visited

\* The failure nodes: a UE that ends up registered has met no failure but the
\* rejection of a session, which retains its context.
RegisteredWithoutFailure ==
    "REGISTERED_CONNECTED" \in visited =>
        visited \cap FailureNodes \subseteq {"PDU_SESSION_REJECTED"}

=============================================================================
