-------------------------------- MODULE SmMap --------------------------------
(***************************************************************************)
(* The AMF registration state machine as the two BPF hash maps sm_nodes    *)
(* and sm_edges hold it: the tables that sm_map_populate() writes, the     *)
(* fixed-width keys both sides build, and the in-kernel lookups.           *)
(*                                                                         *)
(* A map is a function whose DOMAIN is the set of keys present in it.      *)
(***************************************************************************)
EXTENDS Naturals, Sequences

CONSTANT NULL           \* the NULL pointer a failed lookup returns

SM_NAME_MAX == 32
SM_LABEL_MAX == 48
SM_NODE_MAP_MAX_ENTRIES == 64
SM_EDGE_MAP_MAX_ENTRIES == 128

(***************************************************************************)
(* The tables, in the order they are written: <<name, kind>> per node,     *)
(* <<from, to, label>> per edge.                                           *)
(***************************************************************************)
sm_node_data == <<
    <<"REG_RECEIVED", "normal">>,
    <<"CONTEXT_LOOKUP", "normal">>,
    <<"IDENTITY_PENDING", "normal">>,
    <<"AUTH_VECTOR_PENDING", "normal">>,
    <<"NAS_AUTHENTICATING", "normal">>,
    <<"NAS_SECURITY_PENDING", "normal">>,
    <<"UDM_REGISTERING", "normal">>,
    <<"SUBSCRIPTION_LOADING", "normal">>,
    <<"POLICY_ASSOCIATING", "normal">>,
    <<"UE_CONTEXT_READY", "normal">>,
    <<"SM_CONTEXT_PENDING", "normal">>,
    <<"INITIAL_CONTEXT_SETUP", "normal">>,
    <<"REGISTERED_CONNECTED", "normal">>,
    <<"REG_REJECTED", "failure">>,
    <<"AUTH_FAILED", "failure">>,
    <<"REPLAY_SUSPECTED", "failure">>,
    <<"SECURITY_FAILED", "failure">>,
    <<"SECURITY_POLICY_VIOLATION", "failure">>,
    <<"NF_TIMEOUT", "failure">>,
    <<"SLICE_REJECTED", "failure">>,
    <<"PDU_SESSION_REJECTED", "failure">>,
    <<"CONTEXT_SETUP_FAILED", "failure">>,
    <<"CLEANUP_REQUIRED", "failure">>,
    <<"UE/gNB", "endpoint">>,
    <<"AMF", "endpoint">>,
    <<"AUSF", "endpoint">>,
    <<"UDM", "endpoint">>,
    <<"PCF", "endpoint">>,
    <<"SMF", "endpoint">> >>

sm_edge_data == <<
    <<"UE/gNB", "REG_RECEIVED", "InitialUEMessage">>,
    <<"REG_RECEIVED", "CONTEXT_LOOKUP", "valid NAS">>,
    <<"REG_RECEIVED", "REG_REJECTED", "invalid NAS">>,
    <<"CONTEXT_LOOKUP", "AMF", "Namf ContextTransfer">>,
    <<"AMF", "CONTEXT_LOOKUP", "response">>,
    <<"CONTEXT_LOOKUP", "IDENTITY_PENDING", "context unavailable">>,
    <<"IDENTITY_PENDING", "UE/gNB", "Request identity">>,
    <<"UE/gNB", "IDENTITY_PENDING", "Response identity">>,
    <<"IDENTITY_PENDING", "AUTH_VECTOR_PENDING", "identity available">>,
    <<"AUTH_VECTOR_PENDING", "AUSF", "Nausf Authentication">>,
    <<"AUSF", "AUTH_VECTOR_PENDING", "auth vector response">>,
    <<"AUTH_VECTOR_PENDING", "NAS_AUTHENTICATING", "AUSF success">>,
    <<"AUTH_VECTOR_PENDING", "AUTH_FAILED", "AUSF reject">>,
    <<"AUTH_VECTOR_PENDING", "NF_TIMEOUT", "timeout">>,
    <<"NAS_AUTHENTICATING", "UE/gNB", "NAS Authentication">>,
    <<"NAS_AUTHENTICATING", "NAS_SECURITY_PENDING", "RES* valid">>,
    <<"NAS_AUTHENTICATING", "AUTH_FAILED", "RES* invalid">>,
    <<"NAS_AUTHENTICATING", "REPLAY_SUSPECTED", "replay/abnormal retry">>,
    <<"NAS_SECURITY_PENDING", "UE/gNB", "Security Mode Command">>,
    <<"UE/gNB", "NAS_SECURITY_PENDING", "Security Mode Complete">>,
    <<"NAS_SECURITY_PENDING", "UDM_REGISTERING", "integrity success">>,
    <<"NAS_SECURITY_PENDING", "SECURITY_FAILED", "integrity fail">>,
    <<"NAS_SECURITY_PENDING", "SECURITY_POLICY_VIOLATION", "NULL/invalid algorithm">>,
    <<"UDM_REGISTERING", "UDM", "Nudm UECM Registration">>,
    <<"UDM", "UDM_REGISTERING", "registration response">>,
    <<"UDM_REGISTERING", "SUBSCRIPTION_LOADING", "success">>,
    <<"UDM_REGISTERING", "REG_REJECTED", "UDM reject">>,
    <<"UDM_REGISTERING", "NF_TIMEOUT", "timeout">>,
    <<"SUBSCRIPTION_LOADING", "UDM", "Nudm SDM Get">>,
    <<"UDM", "SUBSCRIPTION_LOADING", "subscription data">>,
    <<"SUBSCRIPTION_LOADING", "POLICY_ASSOCIATING", "valid subscription">>,
    <<"SUBSCRIPTION_LOADING", "SLICE_REJECTED", "invalid S-NSSAI">>,
    <<"POLICY_ASSOCIATING", "PCF", "Npcf AM Policy Create">>,
    <<"PCF", "POLICY_ASSOCIATING", "policy response">>,
    <<"POLICY_ASSOCIATING", "UE_CONTEXT_READY", "policy success">>,
    <<"POLICY_ASSOCIATING", "REG_REJECTED", "policy reject">>,
    <<"POLICY_ASSOCIATING", "NF_TIMEOUT", "timeout">>,
    <<"UE_CONTEXT_READY", "SM_CONTEXT_PENDING", "PDU session request">>,
    <<"SM_CONTEXT_PENDING", "SMF", "Nsmf Create/Update SM Context">>,
    <<"SMF", "SM_CONTEXT_PENDING", "SM context response">>,
    <<"SM_CONTEXT_PENDING", "INITIAL_CONTEXT_SETUP", "SMF success">>,
    <<"SM_CONTEXT_PENDING", "PDU_SESSION_REJECTED", "SMF reject">>,
    <<"SM_CONTEXT_PENDING", "SLICE_REJECTED", "slice validation failure">>,
    <<"INITIAL_CONTEXT_SETUP", "UE/gNB", "InitialContextSetupRequest">>,
    <<"UE/gNB", "INITIAL_CONTEXT_SETUP", "setup response">>,
    <<"INITIAL_CONTEXT_SETUP", "REGISTERED_CONNECTED", "setup success">>,
    <<"INITIAL_CONTEXT_SETUP", "CONTEXT_SETUP_FAILED", "setup failure">>,
    <<"AUTH_FAILED", "CLEANUP_REQUIRED", "release partial context">>,
    <<"SECURITY_FAILED", "CLEANUP_REQUIRED", "release partial context">>,
    <<"REG_REJECTED", "CLEANUP_REQUIRED", "cleanup">>,
    <<"PDU_SESSION_REJECTED", "UE_CONTEXT_READY", "retain UE context">>,
    <<"CONTEXT_SETUP_FAILED", "CLEANUP_REQUIRED", "release resources">> >>

(***************************************************************************)
(* Keys.  A string copied into a char[n] keeps its first n - 1 characters, *)
(* the rest of the field being zero: snprintf() in the loader and the      *)
(* bounded copy loops of sm_map.c.                                         *)
(***************************************************************************)
BoundedCopy(src, n) == IF Len(src) < n THEN src ELSE SubSeq(src, 1, n - 1)

sm_key_set_name(src) == BoundedCopy(src, SM_NAME_MAX)

sm_key_set_label(src) == BoundedCopy(src, SM_LABEL_MAX)

\* The key and the value sm_map_populate() builds for entry i of a table.
NodeKey(i) == BoundedCopy(sm_node_data[i][1], SM_NAME_MAX)

NodeVal(i) == sm_node_data[i][2]

EdgeKey(i) == << BoundedCopy(sm_edge_data[i][1], SM_NAME_MAX),
                 BoundedCopy(sm_edge_data[i][3], SM_LABEL_MAX) >>

\* Wrong variant: the destination is cut to a narrower field than node names.
EdgeValNarrow(i) == BoundedCopy(sm_edge_data[i][2], 20)

EdgeVal(i) == BoundedCopy(sm_edge_data[i][2], SM_NAME_MAX)

(***************************************************************************)
(* In-kernel lookups.                                                      *)
(***************************************************************************)
sm_node_lookup(nodes, name) ==
    LET key == sm_key_set_name(name)
    IN  IF key \in DOMAIN nodes THEN nodes[key] ELSE NULL

sm_transition_lookup(edges, from, label) ==
    LET key == << sm_key_set_name(from), sm_key_set_label(label) >>
    IN  IF key \in DOMAIN edges THEN edges[key] ELSE NULL

(***************************************************************************)
(* bpf_map__update_elem(map, key, val, BPF_ANY) on a hash map with room:   *)
(* the tables are smaller than the maps' max_entries, and LRU maps make    *)
(* room by eviction.                                                       *)
(***************************************************************************)
MapPut(map, key, val) ==
    [k \in DOMAIN map \cup {key} |-> IF k = key THEN val ELSE map[k]]

=============================================================================
