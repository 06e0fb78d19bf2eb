-------------------------------- MODULE AmfXdp --------------------------------
(***************************************************************************)
(* amf_xdp.c: packet enforcement at the AMF's N2 ingress, with every       *)
(* packet handled by one CPU, so that one run of amf_xdp_enforce() is one  *)
(* step.  AmfXdpSmp has the same program running on several CPUs at once.  *)
(*                                                                         *)
(* A packet is what the program's tests tell apart: how many of its five   *)
(* headers lie inside the frame, and the field each header is tested on.   *)
(***************************************************************************)
EXTENDS SmMap

CONSTANTS
    Sources,            \* source IPv4 addresses
    Packets,            \* the packets a source may send
    RATE_WINDOW_NS,
    RATE_MAX_PER_WIN,
    U64,                \* 2^64: the modulus of __u64 subtraction
    EdgesModelled,      \* bound: the loader publishes the first of sm_edge_data
    MaxTime,            \* bound on the clock
    MaxRx               \* bound on the packets handled

ASSUME NullAssumption == NULL \notin {"REG_RECEIVED", "InitialUEMessage"}

ASSUME RateAssumption ==
    /\ RATE_WINDOW_NS \in Nat
    /\ RATE_MAX_PER_WIN \in Nat \ {0}

ASSUME BoundsAssumption ==
    /\ EdgesModelled \in 0..Len(sm_edge_data)
    /\ MaxTime \in Nat
    /\ MaxRx \in Nat
    /\ U64 \in Nat
    /\ MaxTime < U64

\* What sm_edge_data says of the one label this program looks up: the only edge
\* that carries it goes from the default state to REG_RECEIVED, and none of the
\* three strings is cut short by the map's fixed-width fields.
ASSUME InitialUeAssumption ==
    /\ sm_key_set_name("UE/gNB") = "UE/gNB"
    /\ sm_key_set_name("REG_RECEIVED") = "REG_RECEIVED"
    /\ sm_key_set_label("InitialUEMessage") = "InitialUEMessage"
    /\ \A i \in 1..Len(sm_edge_data) :
         EdgeKey(i)[2] = "InitialUEMessage" =>
           EdgeKey(i)[1] = "UE/gNB" /\ EdgeVal(i) = "REG_RECEIVED"

HeaderCount == 5        \* Ethernet, IPv4, SCTP, DATA chunk, NGAP PDU

PacketType == [headers: 0..HeaderCount, h_proto: {"IP", "other"},
               protocol: {"SCTP", "other"}, type: {"DATA", "other"},
               ppid: {"NGAP", "other"}, procedure_code: Nat]

ASSUME PacketsAssumption == Packets \subseteq PacketType

VARIABLES
    now,                \* bpf_ktime_get_ns()
    sm_edges,           \* the pinned map, written by the loader
    amf_xdp_rate_map,   \* source -> [window_start_ns, count]
    ue_state_map,       \* source -> FSM node name
    amf_xdp_stats,      \* the three counters
    \* History: what the program has done, for the properties to speak of.
    rx,                 \* packets handled
    ignored,            \* packets returned before the procedure code was read
    passes,             \* per source, the times InitialUEMessages were passed
    drops,              \* per source, the InitialUEMessages dropped
    advances,           \* per source, the FSM transitions taken
    rate_aged,          \* sources whose rate entry the LRU map has evicted
    ue_aged             \* per source, evictions of its ue_state_map entry

hist == << rx, ignored, passes, drops, advances >>
vars == << now, sm_edges, amf_xdp_rate_map, ue_state_map, amf_xdp_stats,
           hist, rate_aged, ue_aged >>

STAT_PASS == "pass"
STAT_DROP == "drop"
STAT_STATE_INVALID == "state_invalid"
Stats == {STAT_PASS, STAT_DROP, STAT_STATE_INVALID}

Init ==
    /\ now = 0
    /\ sm_edges = << >>
    /\ amf_xdp_rate_map = << >>
    /\ ue_state_map = << >>
    /\ amf_xdp_stats = [i \in Stats |-> 0]
    /\ rx = 0
    /\ ignored = 0
    /\ passes = [s \in Sources |-> << >>]
    /\ drops = [s \in Sources |-> 0]
    /\ advances = [s \in Sources |-> 0]
    /\ rate_aged = {}
    /\ ue_aged = [s \in Sources |-> 0]

-----------------------------------------------------------------------------
(***************************************************************************)
(* The program's helpers.                                                  *)
(***************************************************************************)
bump_stat(stats, idx) == [stats EXCEPT ![idx] = @ + 1]

ue_state_lookup(ues, key) == IF key \in DOMAIN ues THEN ues[key] ELSE NULL

\* last_seen_ns is written and never read, so the value is the state alone.
ue_state_set(ues, key, state) == MapPut(ues, key, sm_key_set_name(state))

NGAP_PROC_INITIAL_UE_MESSAGE == 15

ngap_procedure_label(code) ==
    IF code = NGAP_PROC_INITIAL_UE_MESSAGE THEN "InitialUEMessage" ELSE NULL

\* a - b on __u64
Sub64(a, b) == IF a >= b THEN a - b ELSE (a - b) + U64

RateEntry(start, n) == [window_start_ns |-> start, count |-> n]

\* Wrong variants of RateUpdate: the reset forgets window_start_ns, the reset
\* forgets the count, or a new entry starts from zero.
RateUpdateStaleStart(rates, src, t) ==
    IF src \notin DOMAIN rates
      THEN RateEntry(t, 1)
      ELSE IF Sub64(t, rates[src].window_start_ns) > RATE_WINDOW_NS
             THEN RateEntry(rates[src].window_start_ns, 1)
             ELSE RateEntry(rates[src].window_start_ns, rates[src].count + 1)

RateUpdateStaleCount(rates, src, t) ==
    IF src \notin DOMAIN rates
      THEN RateEntry(t, 1)
      ELSE IF Sub64(t, rates[src].window_start_ns) > RATE_WINDOW_NS
             THEN RateEntry(t, rates[src].count + 1)
             ELSE RateEntry(rates[src].window_start_ns, rates[src].count + 1)

RateUpdateFromZero(rates, src, t) ==
    IF src \notin DOMAIN rates
      THEN RateEntry(t, 0)
      ELSE RateEntry(rates[src].window_start_ns, rates[src].count + 1)

\* The rate entry of src after rate_limited(src, t), and what it returns.
RateUpdate(rates, src, t) ==
    IF src \notin DOMAIN rates
      THEN RateEntry(t, 1)
      ELSE IF Sub64(t, rates[src].window_start_ns) > RATE_WINDOW_NS
             THEN RateEntry(t, 1)
             ELSE RateEntry(rates[src].window_start_ns, rates[src].count + 1)

\* Wrong variant: one message too many.
rate_limited_late(rates, src, t) ==
    RateUpdate(rates, src, t).count > RATE_MAX_PER_WIN + 1

rate_limited(rates, src, t) == RateUpdate(rates, src, t).count > RATE_MAX_PER_WIN

(***************************************************************************)
(* Every early return of amf_xdp_enforce() up to the procedure code: the   *)
(* frame must hold each header, and each header must announce the next.    *)
(***************************************************************************)
IsNgap(p) ==
    /\ p.headers = HeaderCount
    /\ p.h_proto = "IP"
    /\ p.protocol = "SCTP"
    /\ p.type = "DATA"
    /\ p.ppid = "NGAP"

-----------------------------------------------------------------------------
(***************************************************************************)
(* amf_xdp_enforce(), by the way it returns.                               *)
(***************************************************************************)
PassUnparsed(p) ==
    /\ ~IsNgap(p)
    /\ ignored' = ignored + 1
    /\ UNCHANGED << amf_xdp_stats, amf_xdp_rate_map, ue_state_map, passes,
                    drops, advances >>

PassUncategorized(p) ==
    /\ IsNgap(p)
    /\ ngap_procedure_label(p.procedure_code) = NULL
    /\ amf_xdp_stats' = bump_stat(amf_xdp_stats, STAT_PASS)
    /\ UNCHANGED << amf_xdp_rate_map, ue_state_map, ignored, passes, drops,
                    advances >>

\* Wrong variant: every source is taken for a new one.
FromDefaultState(src) == "UE/gNB"

\* Steps 3 and 4: follow the edge, or count a mismatch.  Flagged, not dropped.
FromState(src) ==
    LET ue == ue_state_lookup(ue_state_map, src)
    IN  IF ue # NULL THEN ue ELSE "UE/gNB"

FsmStep(src, edge) ==
    \/ /\ edge # NULL
       /\ ue_state_map' = ue_state_set(ue_state_map, src, edge)
       /\ advances' = [advances EXCEPT ![src] = @ + 1]
    \/ /\ edge = NULL
       /\ UNCHANGED << ue_state_map, advances >>

\* A label is only ever given to InitialUEMessage, so every packet that gets
\* here also meets the procedure-code test that guards the rate limiter.
Enforce(src, p) ==
    LET label   == ngap_procedure_label(p.procedure_code)
        edge    == sm_transition_lookup(sm_edges, FromState(src), label)
        flagged == IF edge = NULL THEN bump_stat(amf_xdp_stats, STAT_STATE_INVALID)
                                  ELSE amf_xdp_stats
    IN  /\ IsNgap(p)
        /\ label # NULL
        /\ FsmStep(src, edge)
        /\ amf_xdp_rate_map' = MapPut(amf_xdp_rate_map, src,
                                      RateUpdate(amf_xdp_rate_map, src, now))
        /\ \/ /\ rate_limited(amf_xdp_rate_map, src, now)
              /\ amf_xdp_stats' = bump_stat(flagged, STAT_DROP)
              /\ drops' = [drops EXCEPT ![src] = @ + 1]
              /\ UNCHANGED passes
           \/ /\ ~rate_limited(amf_xdp_rate_map, src, now)
              /\ amf_xdp_stats' = bump_stat(flagged, STAT_PASS)
              /\ passes' = [passes EXCEPT ![src] = Append(@, now)]
              /\ UNCHANGED drops
        /\ UNCHANGED ignored

amf_xdp_enforce(src, p) ==
    /\ rx < MaxRx
    /\ rx' = rx + 1
    /\ \/ PassUnparsed(p)
       \/ PassUncategorized(p)
       \/ Enforce(src, p)
    /\ UNCHANGED << now, sm_edges, rate_aged, ue_aged >>

-----------------------------------------------------------------------------
(***************************************************************************)
(* The environment: the monotonic clock, the loader that fills sm_edges in *)
(* table order while the program may already be attached, and LRU eviction *)
(* caused by sources outside the set.                                      *)
(***************************************************************************)
Tick ==
    /\ now < MaxTime
    /\ now' = now + 1
    /\ UNCHANGED << sm_edges, amf_xdp_rate_map, ue_state_map, amf_xdp_stats,
                    hist, rate_aged, ue_aged >>

PublishEdge(i) ==
    /\ EdgeKey(i) \notin DOMAIN sm_edges
    /\ \A j \in 1..(i - 1) : EdgeKey(j) \in DOMAIN sm_edges
    /\ sm_edges' = MapPut(sm_edges, EdgeKey(i), EdgeVal(i))
    /\ UNCHANGED << now, amf_xdp_rate_map, ue_state_map, amf_xdp_stats, hist,
                    rate_aged, ue_aged >>

AgeRateEntry(src) ==
    /\ src \in DOMAIN amf_xdp_rate_map
    /\ amf_xdp_rate_map' =
         [s \in DOMAIN amf_xdp_rate_map \ {src} |-> amf_xdp_rate_map[s]]
    /\ rate_aged' = rate_aged \cup {src}
    /\ UNCHANGED << now, sm_edges, ue_state_map, amf_xdp_stats, hist, ue_aged >>

AgeUeEntry(src) ==
    /\ src \in DOMAIN ue_state_map
    /\ ue_state_map' = [s \in DOMAIN ue_state_map \ {src} |-> ue_state_map[s]]
    /\ ue_aged' = [ue_aged EXCEPT ![src] = @ + 1]
    /\ UNCHANGED << now, sm_edges, amf_xdp_rate_map, amf_xdp_stats, hist,
                    rate_aged >>

Next ==
    \/ \E src \in Sources, p \in Packets : amf_xdp_enforce(src, p)
    \/ Tick
    \/ \E i \in 1..EdgesModelled : PublishEdge(i)
    \/ \E src \in Sources : AgeRateEntry(src)
    \/ \E src \in Sources : AgeUeEntry(src)

Spec == Init /\ [][Next]_vars

-----------------------------------------------------------------------------
(***************************************************************************)
(* Properties.                                                             *)
(***************************************************************************)
RateEntryType == [window_start_ns: 0..MaxTime, count: Nat \ {0}]

\* The types of the maps, the counters and the history.
TypeOK ==
    /\ now \in 0..MaxTime
    /\ DOMAIN amf_xdp_rate_map \subseteq Sources
    /\ \A s \in DOMAIN amf_xdp_rate_map : amf_xdp_rate_map[s] \in RateEntryType
    /\ DOMAIN ue_state_map \subseteq Sources
    /\ amf_xdp_stats \in [Stats -> Nat]
    /\ rx \in 0..MaxRx
    /\ ignored \in Nat
    /\ passes \in [Sources -> Seq(0..MaxTime)]
    /\ drops \in [Sources -> Nat]
    /\ advances \in [Sources -> Nat]
    /\ rate_aged \subseteq Sources
    /\ ue_aged \in [Sources -> Nat]

\* rate_limited(): while a source keeps its entry, at most RATE_MAX_PER_WIN of
\* its InitialUEMessages are passed since the entry's window_start_ns, however
\* many it sends: the message before the last RATE_MAX_PER_WIN ones passed is
\* older than the window.
WindowLimit ==
    \A s \in DOMAIN amf_xdp_rate_map \ rate_aged :
        LET n == Len(passes[s]) - RATE_MAX_PER_WIN
        IN  n > 0 => passes[s][n] < amf_xdp_rate_map[s].window_start_ns

\* No more than n messages of the pass log p within RATE_WINDOW_NS.
AtMostPerWindow(n, p) ==
    \A i \in 1..(Len(p) - n) : p[i + n] > p[i] + RATE_WINDOW_NS

\* The bound the limiter really gives on an arbitrary interval.  Windows start
\* afresh on the first message after RATE_WINDOW_NS, so an interval that long
\* can meet two of them, and then misses the message that opened the first: no
\* source that kept its entry has twice RATE_MAX_PER_WIN messages passed within
\* RATE_WINDOW_NS.
TwoWindowBound ==
    \A s \in Sources \ rate_aged :
        AtMostPerWindow(2 * RATE_MAX_PER_WIN - 1, passes[s])

\* rate_limited(): a message is dropped only when RATE_MAX_PER_WIN messages of
\* its source were let through during the last RATE_WINDOW_NS, whatever the LRU
\* map has evicted: a flooding source is throttled and never shut out.
DropJustified ==
    [][\A s \in Sources :
         drops'[s] # drops[s] =>
           LET n == Len(passes[s]) - RATE_MAX_PER_WIN + 1
           IN  n > 0 /\ passes[s][n] + RATE_WINDOW_NS >= now]_vars

\* Steps 3 and 4 against the table: no edge labelled InitialUEMessage leaves
\* any state but the default one, so a source takes one transition per life of
\* its ue_state_map entry, every further message of it being flagged, and the
\* entry says REG_RECEIVED throughout, however much of sm_edges the loader had
\* published when the message came.
OneAdvancePerEntry ==
    \A s \in Sources :
        /\ advances[s] = ue_aged[s] + (IF s \in DOMAIN ue_state_map THEN 1 ELSE 0)
        /\ s \in DOMAIN ue_state_map => ue_state_map[s] = "REG_RECEIVED"

\* bump_stat() calls: every packet whose procedure code was read is counted as
\* passed or as dropped, once.
EveryPacketCounted ==
    rx = ignored + amf_xdp_stats[STAT_PASS] + amf_xdp_stats[STAT_DROP]

-----------------------------------------------------------------------------
(***************************************************************************)
(* The inductive invariant behind the rate-limit properties, for one       *)
(* source: p is its pass log, e its rate entry.  The last Held(e) messages *)
(* passed are those of the current window, the first of them opened it,    *)
(* all others are older than it, and the last but RATE_MAX_PER_WIN of      *)
(* those, with all before it, are more than RATE_WINDOW_NS older.          *)
(***************************************************************************)
Held(e) == IF e.count <= RATE_MAX_PER_WIN THEN e.count ELSE RATE_MAX_PER_WIN

WindowHeld(p, e) ==
    /\ Held(e) <= Len(p)
    /\ \A i \in 1..Len(p) : i > Len(p) - Held(e) => p[i] >= e.window_start_ns

OlderThanWindow(p, e) ==
    \A i \in 1..Len(p) :
        /\ p[i] <= e.window_start_ns + RATE_WINDOW_NS
        /\ i <= Len(p) - Held(e) => p[i] < e.window_start_ns
        /\ i <= Len(p) - Held(e) + 1 => p[i] <= e.window_start_ns
        /\ i <= Len(p) - Held(e) - RATE_MAX_PER_WIN + 1 =>
             p[i] + RATE_WINDOW_NS < e.window_start_ns

\* Inductive: the pass log of every source agrees with its rate entry.
RateInv ==
    \A s \in Sources :
        /\ s \in DOMAIN amf_xdp_rate_map =>
             LET e == amf_xdp_rate_map[s]
             IN  /\ e.window_start_ns <= now
                 /\ WindowHeld(passes[s], e)
                 /\ s \notin rate_aged => OlderThanWindow(passes[s], e)
        /\ s \notin DOMAIN amf_xdp_rate_map /\ s \notin rate_aged =>
             passes[s] = << >>

\* Inductive: sm_edges holds entries of the table and nothing else.
EdgesFromTable ==
    \A k \in DOMAIN sm_edges :
        \E i \in 1..Len(sm_edge_data) : k = EdgeKey(i) /\ sm_edges[k] = EdgeVal(i)

=============================================================================
