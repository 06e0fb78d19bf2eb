------------------------------ MODULE AmfXdpSmp ------------------------------
(***************************************************************************)
(* amf_xdp_enforce() on several CPUs at once.  The maps are shared, the    *)
(* helpers return pointers into them, and only bump_stat() is atomic, so   *)
(* the steps here are the single loads, stores and map calls of AmfXdp's   *)
(* one step.  Every packet is an InitialUEMessage: the others touch no     *)
(* shared state but the atomic pass counter.                               *)
(*                                                                         *)
(* Map elements are modelled as the kernel has them: preallocated, and     *)
(* free for reuse as soon as they leave the map, whoever still holds a     *)
(* pointer to them.  An update fills a free element and then links it.     *)
(*                                                                         *)
(* A name is 32 bytes, written and read piece by piece.  Two parts are     *)
(* enough to tear it: a name in memory is the name that each part is of,   *)
(* and one whose parts differ is the key of nothing.                       *)
(***************************************************************************)
EXTENDS SmMap, FiniteSets

CONSTANTS
    CPUs,
    Sources,
    UeElems,            \* the elements of ue_state_map
    RateElems,          \* the elements of amf_xdp_rate_map
    RATE_WINDOW_NS,
    RATE_MAX_PER_WIN,
    U64,                \* 2^64: the modulus of __u64 subtraction
    EdgesModelled,      \* bound: how much of sm_edge_data the loader writes
    MaxTime,            \* bound on the clock
    MaxRx,              \* bound on the packets handled
    MaxAged,            \* bound on LRU evictions
    MaxPopulates        \* bound on runs of sm_map_populate()

ASSUME SmpAssumption ==
    /\ RATE_WINDOW_NS \in Nat
    /\ RATE_MAX_PER_WIN \in Nat \ {0}
    /\ EdgesModelled \in 1..Len(sm_edge_data)
    /\ {MaxTime, MaxRx, MaxAged, MaxPopulates} \subseteq Nat
    /\ U64 \in Nat /\ MaxTime < U64
    /\ Cardinality(RateElems) > Cardinality(Sources)
    /\ IsFiniteSet(CPUs)
    /\ Cardinality(UeElems) >= Cardinality(Sources) + Cardinality(CPUs)
    /\ NULL \notin RateElems \cup UeElems \cup 0..EdgesModelled

\* Every edge taken on an InitialUEMessage leads to REG_RECEIVED.
ASSUME InitialUeAssumption ==
    /\ sm_key_set_label("InitialUEMessage") = "InitialUEMessage"
    /\ \A i \in 1..Len(sm_edge_data) :
         EdgeKey(i)[2] = "InitialUEMessage" => EdgeVal(i) = "REG_RECEIVED"

VARIABLES
    now,
    edge_elem,          \* sm_edges: entry of sm_edge_data -> its element, or NULL
    edge_to,            \* element -> the `to' name stored in it, by its parts
    spare,              \* the per-CPU element htab keeps for updates in place
    populate,           \* the loader: [run, next, new], new the element it is filling
    ue_elem,            \* ue_state_map: source -> its element, or NULL
    ue_state,           \* element -> the `state' name stored in it, by its parts
    rate_elem,          \* amf_xdp_rate_map: source -> its element, or NULL
    rate_entry,         \* element -> [window_start_ns, count]
    amf_xdp_stats,
    pc, loc,            \* per CPU: the next step, and the program's locals
    \* History.
    rx, aged,           \* packets received, evictions
    reused,             \* an element that had left the rate map is back in it
    overtaken,          \* per source, its state was copied from a refilled element
    arrived,            \* per source, the times InitialUEMessages were received
    drops               \* per source, those dropped

fsm_vars == << edge_elem, edge_to, spare, populate >>
ue_vars == << ue_elem, ue_state, overtaken >>
rate_vars == << rate_elem, rate_entry, reused >>
log_vars == << rx, aged, arrived, drops >>
vars == << now, fsm_vars, ue_vars, rate_vars, amf_xdp_stats, pc, loc, log_vars >>

Parts == {"head", "tail"}
Whole(name) == [p \in Parts |-> name]

Edges == 1..EdgesModelled
EdgeElems == 0..EdgesModelled       \* one per entry, and the spare
Stats == {"pass", "drop", "state_invalid"}
RateEntry(start, n) == [window_start_ns |-> start, count |-> n]

Idle == [src |-> NULL, t |-> 0, ue |-> NULL, name |-> Whole(NULL), edge |-> NULL,
         late |-> FALSE, new |-> NULL, e |-> NULL, n |-> 0]

Init ==
    /\ now = 0
    /\ edge_elem = [i \in Edges |-> NULL]
    /\ edge_to = [x \in EdgeElems |-> Whole(NULL)]
    /\ spare = 0
    /\ populate = [run |-> 0, next |-> 1, new |-> NULL]
    /\ ue_elem = [s \in Sources |-> NULL]
    /\ ue_state = [x \in UeElems |-> Whole(NULL)]
    /\ overtaken = [s \in Sources |-> FALSE]
    /\ rate_elem = [s \in Sources |-> NULL]
    /\ rate_entry = [x \in RateElems |-> RateEntry(0, 0)]
    /\ amf_xdp_stats = [i \in Stats |-> 0]
    /\ pc = [c \in CPUs |-> "idle"]
    /\ loc = [c \in CPUs |-> Idle]
    /\ rx = 0
    /\ aged = 0
    /\ reused = FALSE
    /\ arrived = [s \in Sources |-> << >>]
    /\ drops = [s \in Sources |-> 0]

-----------------------------------------------------------------------------
(***************************************************************************)
(* The XDP program, one step per shared-memory access.                     *)
(***************************************************************************)
Sub64(a, b) == IF a >= b THEN a - b ELSE (a - b) + U64

\* CPU c goes from step `from' to step `to'.
Goto(c, from, to) ==
    /\ pc[c] = from
    /\ pc' = [pc EXCEPT ![c] = to]

\* An InitialUEMessage of src is parsed and its time taken.
Receive(c, src) ==
    /\ rx < MaxRx
    /\ Goto(c, "idle", "ue_lookup")
    /\ rx' = rx + 1
    /\ arrived' = [arrived EXCEPT ![src] = Append(@, now)]
    /\ loc' = [loc EXCEPT ![c].src = src, ![c].t = now]
    /\ UNCHANGED << now, fsm_vars, ue_vars, rate_vars, amf_xdp_stats, aged, drops >>

\* ue_state_lookup(): a pointer to the source's element, or none.
UeLookup(c) ==
    LET ue == ue_elem[loc[c].src]
    IN  /\ Goto(c, "ue_lookup", IF ue = NULL THEN "edge_lookup" ELSE "from_head")
        /\ loc' = [loc EXCEPT ![c].ue = ue,
                               ![c].name = IF ue = NULL THEN Whole("UE/gNB") ELSE Whole(NULL)]
        /\ UNCHANGED << now, fsm_vars, ue_vars, rate_vars, amf_xdp_stats, log_vars >>

\* sm_key_set_name(key.from, ue->state) copies through the pointer.
FromHead(c) ==
    /\ Goto(c, "from_head", "from_tail")
    /\ loc' = [loc EXCEPT ![c].name["head"] = ue_state[loc[c].ue]["head"]]
    /\ UNCHANGED << now, fsm_vars, ue_vars, rate_vars, amf_xdp_stats, log_vars >>

FromTail(c) ==
    /\ Goto(c, "from_tail", "edge_lookup")
    /\ loc' = [loc EXCEPT ![c].name["tail"] = ue_state[loc[c].ue]["tail"], ![c].ue = NULL]
    /\ UNCHANGED << now, fsm_vars, ue_vars, rate_vars, amf_xdp_stats, log_vars >>

\* sm_transition_lookup() returns a pointer to the element, not its contents;
\* the name is then that of `struct ue_val val = {}'.
EdgeLookup(c) ==
    LET hits == { i \in Edges :
                    /\ edge_elem[i] # NULL
                    /\ loc[c].name = Whole(EdgeKey(i)[1])
                    /\ sm_key_set_label("InitialUEMessage") = EdgeKey(i)[2] }
    IN  /\ Goto(c, "edge_lookup", IF hits = {} THEN "flag" ELSE "to_head")
        /\ loc' = [loc EXCEPT ![c].name = Whole(NULL),
                               ![c].edge = IF hits = {} THEN NULL
                                           ELSE edge_elem[CHOOSE i \in hits : TRUE]]
        /\ UNCHANGED << now, fsm_vars, ue_vars, rate_vars, amf_xdp_stats, log_vars >>

\* ue_state_set(src_ip, edge->to, now): sm_key_set_name(val.state, edge->to) ...
ToHead(c) ==
    /\ Goto(c, "to_head", "to_tail")
    /\ loc' = [loc EXCEPT ![c].name["head"] = edge_to[loc[c].edge]["head"]]
    /\ UNCHANGED << now, fsm_vars, ue_vars, rate_vars, amf_xdp_stats, log_vars >>

ToTail(c) ==
    /\ Goto(c, "to_tail", "ue_fill")
    /\ loc' = [loc EXCEPT ![c].name["tail"] = edge_to[loc[c].edge]["tail"], ![c].edge = NULL]
    /\ UNCHANGED << now, fsm_vars, ue_vars, rate_vars, amf_xdp_stats, log_vars >>

\* ... and bpf_map_update_elem(&ue_state_map, ..., BPF_ANY): fills a free element,
Filling(x) == \E d \in CPUs : pc[d] = "ue_link" /\ loc[d].new = x

UeFill(c) ==
    \E x \in UeElems :
        /\ ~Filling(x) /\ \A s \in Sources : ue_elem[s] # x
        /\ Goto(c, "ue_fill", "ue_link")
        /\ ue_state' = [ue_state EXCEPT ![x]["head"] = loc[c].name["head"]]
        /\ loc' = [loc EXCEPT ![c].new = x]
        /\ UNCHANGED << now, fsm_vars, ue_elem, overtaken, rate_vars, amf_xdp_stats, log_vars >>

\* and puts it in the place of the source's old one.
UeLink(c) ==
    /\ Goto(c, "ue_link", "rate_lookup")
    /\ ue_state' = [ue_state EXCEPT ![loc[c].new]["tail"] = loc[c].name["tail"]]
    /\ ue_elem' = [ue_elem EXCEPT ![loc[c].src] = loc[c].new]
    /\ overtaken' = [overtaken EXCEPT ![loc[c].src] = loc[c].late]
    /\ loc' = [loc EXCEPT ![c].name = Whole(NULL), ![c].new = NULL, ![c].late = FALSE]
    /\ UNCHANGED << now, fsm_vars, rate_vars, amf_xdp_stats, log_vars >>

Flag(c) ==
    /\ Goto(c, "flag", "rate_lookup")
    /\ amf_xdp_stats' = [amf_xdp_stats EXCEPT !["state_invalid"] = @ + 1]
    /\ UNCHANGED << now, fsm_vars, ue_vars, rate_vars, loc, log_vars >>

RateLookup(c) ==
    LET e == rate_elem[loc[c].src]
    IN  /\ Goto(c, "rate_lookup", IF e = NULL THEN "rate_init" ELSE "window_check")
        /\ loc' = [loc EXCEPT ![c].e = e]
        /\ UNCHANGED << now, fsm_vars, ue_vars, rate_vars, amf_xdp_stats, log_vars >>

\* Wrong variant: the new entry is counted as if it had been found.
RateInitFallsThrough(c) ==
    \E e \in RateElems :
        /\ \A s \in Sources : rate_elem[s] # e
        /\ Goto(c, "rate_init", "window_check")
        /\ rate_elem' = [rate_elem EXCEPT ![loc[c].src] = e]
        /\ rate_entry' = [rate_entry EXCEPT ![e] = RateEntry(loc[c].t, 1)]
        /\ loc' = [loc EXCEPT ![c].e = e]
        /\ UNCHANGED << now, fsm_vars, ue_vars, reused, amf_xdp_stats, log_vars >>

\* bpf_map_update_elem(&amf_xdp_rate_map, ..., BPF_ANY): a free element gets the
\* entry and takes the place of the source's old one, if another CPU was first.
RateInit(c) ==
    \E e \in RateElems :
        /\ \A s \in Sources : rate_elem[s] # e
        /\ Goto(c, "rate_init", "pass")
        /\ rate_elem' = [rate_elem EXCEPT ![loc[c].src] = e]
        /\ rate_entry' = [rate_entry EXCEPT ![e] = RateEntry(loc[c].t, 1)]
        /\ reused' = (reused \/ rate_entry[e].count # 0)
        /\ UNCHANGED << now, fsm_vars, ue_vars, amf_xdp_stats, loc, log_vars >>

WindowCheck(c) ==
    LET start == rate_entry[loc[c].e].window_start_ns
    IN  /\ Goto(c, "window_check",
                IF Sub64(loc[c].t, start) > RATE_WINDOW_NS THEN "reset_start" ELSE "count_load")
        /\ UNCHANGED << now, fsm_vars, ue_vars, rate_vars, amf_xdp_stats, loc, log_vars >>

ResetStart(c) ==
    /\ Goto(c, "reset_start", "reset_count")
    /\ rate_entry' = [rate_entry EXCEPT ![loc[c].e].window_start_ns = loc[c].t]
    /\ UNCHANGED << now, fsm_vars, ue_vars, rate_elem, reused, amf_xdp_stats, loc, log_vars >>

ResetCount(c) ==
    /\ Goto(c, "reset_count", "pass")
    /\ rate_entry' = [rate_entry EXCEPT ![loc[c].e].count = 1]
    /\ UNCHANGED << now, fsm_vars, ue_vars, rate_elem, reused, amf_xdp_stats, loc, log_vars >>

\* e->count++ is a load, an add and a store.
CountLoad(c) ==
    /\ Goto(c, "count_load", "count_store")
    /\ loc' = [loc EXCEPT ![c].n = rate_entry[loc[c].e].count + 1]
    /\ UNCHANGED << now, fsm_vars, ue_vars, rate_vars, amf_xdp_stats, log_vars >>

CountStore(c) ==
    /\ Goto(c, "count_store", IF loc[c].n > RATE_MAX_PER_WIN THEN "drop" ELSE "pass")
    /\ rate_entry' = [rate_entry EXCEPT ![loc[c].e].count = loc[c].n]
    /\ UNCHANGED << now, fsm_vars, ue_vars, rate_elem, reused, amf_xdp_stats, loc, log_vars >>

\* The verdict, with its atomic bump_stat().
Pass(c) ==
    /\ Goto(c, "pass", "idle")
    /\ amf_xdp_stats' = [amf_xdp_stats EXCEPT !["pass"] = @ + 1]
    /\ loc' = [loc EXCEPT ![c] = Idle]
    /\ UNCHANGED << now, fsm_vars, ue_vars, rate_vars, rx, aged, arrived, drops >>

\* Wrong variant: two CPUs bump a counter they both read before.
DropLostUpdate(c) ==
    /\ Goto(c, "drop", "idle")
    /\ amf_xdp_stats' = [amf_xdp_stats EXCEPT !["drop"] =
                           IF \E d \in CPUs \ {c} : pc[d] = "drop" THEN @ ELSE @ + 1]
    /\ drops' = [drops EXCEPT ![loc[c].src] = @ + 1]
    /\ loc' = [loc EXCEPT ![c] = Idle]
    /\ UNCHANGED << now, fsm_vars, ue_vars, rate_vars, rx, aged, arrived >>

Drop(c) ==
    /\ Goto(c, "drop", "idle")
    /\ amf_xdp_stats' = [amf_xdp_stats EXCEPT !["drop"] = @ + 1]
    /\ drops' = [drops EXCEPT ![loc[c].src] = @ + 1]
    /\ loc' = [loc EXCEPT ![c] = Idle]
    /\ UNCHANGED << now, fsm_vars, ue_vars, rate_vars, rx, aged, arrived >>

Program(c) ==
    \/ \E src \in Sources : Receive(c, src)
    \/ UeLookup(c) \/ FromHead(c) \/ FromTail(c)
    \/ EdgeLookup(c) \/ ToHead(c) \/ ToTail(c) \/ UeFill(c) \/ UeLink(c)
    \/ Flag(c)
    \/ RateLookup(c)
    \/ RateInit(c)
    \/ WindowCheck(c)
    \/ ResetStart(c)
    \/ ResetCount(c)
    \/ CountLoad(c)
    \/ CountStore(c)
    \/ Pass(c)
    \/ Drop(c)

-----------------------------------------------------------------------------
(***************************************************************************)
(* The environment.                                                        *)
(***************************************************************************)
Tick ==
    /\ now < MaxTime
    /\ now' = now + 1
    /\ UNCHANGED << fsm_vars, ue_vars, rate_vars, amf_xdp_stats, pc, loc, log_vars >>

\* One bpf_map__update_elem() of sm_map_populate().  A key that is new gets an
\* element of its own; one that is there from an earlier run is rewritten in
\* the spare element, and its old element becomes the spare.
FreeElem == IF edge_elem[populate.next] = NULL THEN populate.next ELSE spare

\* The locals of the CPUs that are about to copy out of an element being refilled.
Overtake(x) ==
    [c \in CPUs |-> [loc[c] EXCEPT !.late = @ \/ (pc[c] \in {"to_head", "to_tail"} /\ loc[c].edge = x)]]

\* Wrong variant: the element is in the map before its value is written.
PopulateHeadEarly ==
    /\ populate.run < MaxPopulates /\ populate.new = NULL
    /\ populate' = [populate EXCEPT !.new = FreeElem]
    /\ edge_to' = [edge_to EXCEPT ![FreeElem]["head"] = EdgeVal(populate.next)]
    /\ edge_elem' = [edge_elem EXCEPT ![populate.next] = FreeElem]
    /\ loc' = Overtake(FreeElem)
    /\ UNCHANGED << now, spare, ue_vars, rate_vars, amf_xdp_stats, pc, log_vars >>

PopulateHead ==
    /\ populate.run < MaxPopulates /\ populate.new = NULL
    /\ populate' = [populate EXCEPT !.new = FreeElem]
    /\ edge_to' = [edge_to EXCEPT ![FreeElem]["head"] = EdgeVal(populate.next)]
    /\ loc' = Overtake(FreeElem)
    /\ UNCHANGED << now, edge_elem, spare, ue_vars, rate_vars, amf_xdp_stats, pc, log_vars >>

PopulateTail ==
    LET i == populate.next
    IN  /\ populate.new # NULL
        /\ edge_to' = [edge_to EXCEPT ![populate.new]["tail"] = EdgeVal(i)]
        /\ edge_elem' = [edge_elem EXCEPT ![i] = populate.new]
        /\ spare' = IF edge_elem[i] = NULL THEN spare ELSE edge_elem[i]
        /\ populate' = IF i < EdgesModelled
                         THEN [populate EXCEPT !.next = i + 1, !.new = NULL]
                         ELSE [run |-> populate.run + 1, next |-> 1, new |-> NULL]
        /\ UNCHANGED << now, ue_vars, rate_vars, amf_xdp_stats, pc, loc, log_vars >>

\* An LRU map evicts the entry of a source; its element becomes free.
Age(src) ==
    /\ aged < MaxAged /\ aged' = aged + 1
    /\ rate_elem[src] # NULL
    /\ rate_elem' = [rate_elem EXCEPT ![src] = NULL]
    /\ UNCHANGED << now, fsm_vars, ue_vars, rate_entry, reused, amf_xdp_stats, pc, loc, rx, arrived, drops >>

AgeUe(src) ==
    /\ aged < MaxAged /\ aged' = aged + 1
    /\ ue_elem[src] # NULL
    /\ ue_elem' = [ue_elem EXCEPT ![src] = NULL]
    /\ UNCHANGED << now, fsm_vars, ue_state, overtaken, rate_vars, amf_xdp_stats, pc, loc, rx, arrived, drops >>

Next ==
    \/ \E c \in CPUs : Program(c)
    \/ Tick
    \/ PopulateHead
    \/ PopulateTail
    \/ \E src \in Sources : Age(src)
    \/ \E src \in Sources : AgeUe(src)

Spec == Init /\ [][Next]_vars

-----------------------------------------------------------------------------
(***************************************************************************)
(* Properties.                                                             *)
(***************************************************************************)
InFlight == { c \in CPUs : pc[c] # "idle" }

\* The program's steps; at those in Holding a CPU has a pointer to a rate entry.
Holding == {"window_check", "reset_start", "reset_count", "count_load", "count_store"}
Steps == {"idle", "ue_lookup", "from_head", "from_tail", "edge_lookup", "to_head", "to_tail",
          "ue_fill", "ue_link", "flag", "rate_lookup", "rate_init", "pass", "drop"} \cup Holding

FsmStates == { EdgeVal(i) : i \in Edges }
Text == [Parts -> FsmStates \cup {"UE/gNB", NULL}]

Locals == [src : Sources \cup {NULL}, t : 0..MaxTime, ue : UeElems \cup {NULL}, name : Text,
           edge : EdgeElems \cup {NULL}, late : BOOLEAN, new : UeElems \cup {NULL},
           e : RateElems \cup {NULL}, n : Nat]

\* The shared maps and the locals of every CPU keep their types, and no step
\* follows a NULL pointer.
TypeOK ==
    /\ now \in 0..MaxTime
    /\ edge_elem \in [Edges -> EdgeElems \cup {NULL}]
    /\ edge_to \in [EdgeElems -> Text]
    /\ spare \in EdgeElems
    /\ populate \in [run : Nat, next : Edges, new : EdgeElems \cup {NULL}]
    /\ ue_elem \in [Sources -> UeElems \cup {NULL}]
    /\ ue_state \in [UeElems -> Text]
    /\ overtaken \in [Sources -> BOOLEAN]
    /\ rate_elem \in [Sources -> RateElems \cup {NULL}]
    /\ rate_entry \in [RateElems -> [window_start_ns : 0..MaxTime, count : Nat]]
    /\ amf_xdp_stats \in [Stats -> Nat]
    /\ pc \in [CPUs -> Steps]
    /\ loc \in [CPUs -> Locals]
    /\ rx \in Nat /\ aged \in Nat /\ reused \in BOOLEAN
    /\ arrived \in [Sources -> Seq(Nat)]
    /\ drops \in [Sources -> Nat]
    /\ \A c \in InFlight : loc[c].src \in Sources
    /\ \A c \in CPUs : pc[c] \in {"from_head", "from_tail"} => loc[c].ue # NULL
    /\ \A c \in CPUs : pc[c] \in {"to_head", "to_tail"} => loc[c].edge # NULL
    /\ \A c \in CPUs : pc[c] = "ue_link" => loc[c].new # NULL
    /\ \A c \in CPUs : pc[c] \in Holding => loc[c].e # NULL

\* bump_stat(): the counters lose no packet to a concurrent update.
EveryPacketCounted ==
    rx = amf_xdp_stats["pass"] + amf_xdp_stats["drop"] + Cardinality(InFlight)

\* ue_state_set(), called with a pointer into the map: whatever the CPUs and the
\* loader interleave to, a source is put in the state the table gives for its
\* message, even while a second run of the loader rewrites the map.  Only where
\* the loader refilled the element between the lookup and the end of the copy may
\* it be another state or pieces of two, and then still of states of the table.
UeStateFromTable ==
    \A s \in Sources : ue_elem[s] # NULL =>
        LET state == ue_state[ue_elem[s]]
        IN  /\ ~overtaken[s] => state = Whole("REG_RECEIVED")
            /\ \A p \in Parts : state[p] \in FsmStates

\* rate_limited(): the unlocked counter may lose messages, and never invents
\* any.  Until an element of the rate map is reused, no interleaving drops a
\* message of a source that has not sent more than RATE_MAX_PER_WIN in all.
QuietSourceNeverDropped ==
    \A s \in Sources :
        drops[s] > 0 /\ ~reused => Len(arrived[s]) > RATE_MAX_PER_WIN

\* rate_limited(): "Returns 1 if src_ip has exceeded the InitialUEMessage rate
\* limit": a message about to be dropped is one of more than RATE_MAX_PER_WIN
\* that its source sent within RATE_WINDOW_NS of it.
DropMeansExceeded ==
    \A c \in CPUs : pc[c] = "drop" =>
        LET a == arrived[loc[c].src]
        IN  Cardinality({ i \in 1..Len(a) : a[i] + RATE_WINDOW_NS >= loc[c].t })
              > RATE_MAX_PER_WIN

=============================================================================
