---------------------------- MODULE AmfXdpProofs ----------------------------
(***************************************************************************)
(* Proofs about AmfXdp, for every set of sources and packets, every rate   *)
(* limit and window, and every bound.                                      *)
(***************************************************************************)
EXTENDS AmfXdp, TLAPS

\* rate_limited() writes a well-typed entry: a window that starts no later than
\* the packet's time, and a count of at least one.
LEMMA RateUpdateType ==
    ASSUME TypeOK, NEW src \in Sources
    PROVE  RateUpdate(amf_xdp_rate_map, src, now) \in RateEntryType
<1>1. CASE src \notin DOMAIN amf_xdp_rate_map
  BY <1>1 DEF TypeOK, RateUpdate, RateEntry, RateEntryType
<1>2. CASE src \in DOMAIN amf_xdp_rate_map
  <2>1. amf_xdp_rate_map[src] \in RateEntryType
    BY <1>2 DEF TypeOK
  <2>2. QED
    BY <1>2, <2>1 DEF TypeOK, RateUpdate, RateEntry, RateEntryType
<1>3. QED
  BY <1>1, <1>2

\* bump_stat() keeps the counters natural numbers.
LEMMA BumpType ==
    ASSUME NEW stats \in [Stats -> Nat], NEW idx \in Stats
    PROVE  bump_stat(stats, idx) \in [Stats -> Nat]
BY DEF bump_stat

\* The two verdicts of the rate limiter, stats being the counters after the
\* state-machine check.
Dropped(src, stats) ==
    /\ rate_limited(amf_xdp_rate_map, src, now)
    /\ amf_xdp_stats' = bump_stat(stats, STAT_DROP)
    /\ drops' = [drops EXCEPT ![src] = @ + 1]
    /\ UNCHANGED passes

Passed(src, stats) ==
    /\ ~rate_limited(amf_xdp_rate_map, src, now)
    /\ amf_xdp_stats' = bump_stat(stats, STAT_PASS)
    /\ passes' = [passes EXCEPT ![src] = Append(@, now)]
    /\ UNCHANGED drops

\* What a run of the XDP program on a categorized packet changes.
LEMMA EnforceEffect ==
    ASSUME NEW src, NEW p, Enforce(src, p)
    PROVE  /\ amf_xdp_rate_map' = MapPut(amf_xdp_rate_map, src,
                                         RateUpdate(amf_xdp_rate_map, src, now))
           /\ \E edge : FsmStep(src, edge)
           /\ \E stats \in {amf_xdp_stats, bump_stat(amf_xdp_stats, STAT_STATE_INVALID)} :
                Dropped(src, stats) \/ Passed(src, stats)
           /\ ignored' = ignored
<1> DEFINE edge    == sm_transition_lookup(sm_edges, FromState(src),
                                           ngap_procedure_label(p.procedure_code))
           flagged == IF edge = NULL THEN bump_stat(amf_xdp_stats, STAT_STATE_INVALID)
                                     ELSE amf_xdp_stats
<1>1. /\ FsmStep(src, edge)
      /\ amf_xdp_rate_map' = MapPut(amf_xdp_rate_map, src,
                                    RateUpdate(amf_xdp_rate_map, src, now))
      /\ Dropped(src, flagged) \/ Passed(src, flagged)
      /\ ignored' = ignored
  BY DEF Enforce, Dropped, Passed
<1>2. flagged \in {amf_xdp_stats, bump_stat(amf_xdp_stats, STAT_STATE_INVALID)}
  OBVIOUS
<1> HIDE DEF edge, flagged
<1>3. QED
  BY <1>1, <1>2

\* One run of the XDP program on a categorized packet keeps the types.
LEMMA EnforceType ==
    ASSUME TypeOK, NEW src \in Sources, NEW p \in Packets, Enforce(src, p),
           rx' \in 0..MaxRx,
           UNCHANGED << now, sm_edges, rate_aged, ue_aged >>
    PROVE  TypeOK'
<1>1. RateUpdate(amf_xdp_rate_map, src, now) \in RateEntryType
  BY RateUpdateType
<1>2. /\ DOMAIN amf_xdp_rate_map' \subseteq Sources
      /\ \A s \in DOMAIN amf_xdp_rate_map' : amf_xdp_rate_map'[s] \in RateEntryType
  <2>1. amf_xdp_rate_map' = MapPut(amf_xdp_rate_map, src,
                                   RateUpdate(amf_xdp_rate_map, src, now))
    BY EnforceEffect
  <2>2. QED
    BY <1>1, <2>1 DEF TypeOK, MapPut
<1>3. DOMAIN ue_state_map' \subseteq Sources /\ advances' \in [Sources -> Nat]
  <2>1. PICK edge : FsmStep(src, edge)
    BY EnforceEffect
  <2>2. QED
    BY <2>1 DEF FsmStep, TypeOK, ue_state_set, MapPut
<1>4. PICK stats \in {amf_xdp_stats, bump_stat(amf_xdp_stats, STAT_STATE_INVALID)} :
         Dropped(src, stats) \/ Passed(src, stats)
  BY EnforceEffect
<1>5. amf_xdp_stats' \in [Stats -> Nat]
  <2>1. STAT_PASS \in Stats /\ STAT_DROP \in Stats /\ STAT_STATE_INVALID \in Stats
    BY DEF Stats
  <2>2. amf_xdp_stats \in [Stats -> Nat]
    BY DEF TypeOK
  <2>3. bump_stat(amf_xdp_stats, STAT_STATE_INVALID) \in [Stats -> Nat]
    BY <2>1, <2>2, BumpType
  <2>4. stats \in [Stats -> Nat]
    BY <2>2, <2>3
  <2>5. QED
    BY <1>4, <2>1, <2>4, BumpType DEF Dropped, Passed
<1>6. passes' \in [Sources -> Seq(0..MaxTime)] /\ drops' \in [Sources -> Nat]
  <2>1. now \in 0..MaxTime /\ passes \in [Sources -> Seq(0..MaxTime)]
        /\ drops \in [Sources -> Nat]
    BY DEF TypeOK
  <2>2. Append(passes[src], now) \in Seq(0..MaxTime)
    BY <2>1
  <2>3. CASE Dropped(src, stats)
    BY <2>1, <2>3 DEF Dropped
  <2>4. CASE Passed(src, stats)
    BY <2>1, <2>2, <2>4 DEF Passed
  <2>5. QED
    BY <1>4, <2>3, <2>4
<1>7. ignored' = ignored
  BY EnforceEffect
<1>8. QED
  BY <1>2, <1>3, <1>5, <1>6, <1>7 DEF TypeOK

\* Every step of the program and of its environment keeps the types.
LEMMA TypeStep == TypeOK /\ [Next]_vars => TypeOK'
<1> SUFFICES ASSUME TypeOK, [Next]_vars PROVE TypeOK'
  OBVIOUS
<1>1. ASSUME NEW src \in Sources, NEW p \in Packets, amf_xdp_enforce(src, p)
      PROVE  TypeOK'
  <2>1. /\ rx' \in 0..MaxRx
        /\ UNCHANGED << now, sm_edges, rate_aged, ue_aged >>
    BY <1>1, BoundsAssumption DEF amf_xdp_enforce, TypeOK
  <2>2. CASE PassUnparsed(p)
    BY <2>1, <2>2 DEF PassUnparsed, TypeOK
  <2>3. CASE PassUncategorized(p)
    <3>1. amf_xdp_stats' \in [Stats -> Nat]
      BY <2>3, BumpType DEF PassUncategorized, TypeOK, Stats
    <3>2. QED
      BY <2>1, <2>3, <3>1 DEF PassUncategorized, TypeOK
  <2>4. CASE Enforce(src, p)
    BY <2>1, <2>4, EnforceType
  <2>5. QED
    BY <1>1, <2>2, <2>3, <2>4 DEF amf_xdp_enforce
<1>2. CASE Tick
  BY <1>2, BoundsAssumption DEF Tick, TypeOK, hist, RateEntryType
<1>3. ASSUME NEW i \in 1..EdgesModelled, PublishEdge(i)
      PROVE  TypeOK'
  BY <1>3 DEF PublishEdge, TypeOK, hist
<1>4. ASSUME NEW src \in Sources, AgeRateEntry(src)
      PROVE  TypeOK'
  BY <1>4 DEF AgeRateEntry, TypeOK, hist
<1>5. ASSUME NEW src \in Sources, AgeUeEntry(src)
      PROVE  TypeOK'
  BY <1>5 DEF AgeUeEntry, TypeOK, hist
<1>6. CASE UNCHANGED vars
  BY <1>6 DEF vars, hist, TypeOK
<1>7. QED
  BY <1>1, <1>2, <1>3, <1>4, <1>5, <1>6 DEF Next

\* The maps, the counters and the history of the XDP program keep their types.
THEOREM TypeCorrect == Spec => []TypeOK
<1>1. Init => TypeOK
  BY BoundsAssumption DEF Init, TypeOK, Stats
<1>2. QED
  BY <1>1, TypeStep, PTL DEF Spec

-----------------------------------------------------------------------------
(***************************************************************************)
(* The rate limiter.  The lemmas below are about one source: p is its pass *)
(* log, e its rate entry, t the time of the packet being judged.           *)
(***************************************************************************)
\* The element that Append adds and the ones it leaves in place.
LEMMA AppendFacts ==
    ASSUME NEW p \in Seq(Nat), NEW t \in Nat
    PROVE  /\ Append(p, t) \in Seq(Nat)
           /\ Len(Append(p, t)) = Len(p) + 1
           /\ Append(p, t)[Len(p) + 1] = t
           /\ \A i \in 1..Len(p) : Append(p, t)[i] = p[i] /\ p[i] \in Nat
           /\ Len(p) \in Nat
OBVIOUS

\* First message of a source: the log and the entry it creates agree.
LEMMA FirstWindow ==
    ASSUME NEW p \in Seq(Nat), NEW t \in Nat
    PROVE  /\ WindowHeld(Append(p, t), RateEntry(t, 1))
           /\ p = << >> => OlderThanWindow(Append(p, t), RateEntry(t, 1))
<1>1. Held(RateEntry(t, 1)) = 1 /\ RateEntry(t, 1).window_start_ns = t
  BY RateAssumption DEF Held, RateEntry
<1>2. WindowHeld(Append(p, t), RateEntry(t, 1))
  BY <1>1, AppendFacts DEF WindowHeld
<1>3. ASSUME p = << >>
      PROVE  OlderThanWindow(Append(p, t), RateEntry(t, 1))
  <2>1. Len(p) = 0
    BY <1>3
  <2>2. QED
    BY <1>1, <2>1, AppendFacts, RateAssumption DEF OlderThanWindow
<1>4. QED
  BY <1>2, <1>3

\* A message after the window has ended starts a new one.
LEMMA NextWindow ==
    ASSUME NEW p \in Seq(Nat), NEW t \in Nat, NEW e \in RateEntryType,
           Held(e) <= Len(p), OlderThanWindow(p, e),
           t > e.window_start_ns + RATE_WINDOW_NS
    PROVE  OlderThanWindow(Append(p, t), RateEntry(t, 1))
<1>1. Held(RateEntry(t, 1)) = 1 /\ RateEntry(t, 1).window_start_ns = t
  BY RateAssumption DEF Held, RateEntry
<1>2. Held(e) \in 1..RATE_MAX_PER_WIN /\ e.window_start_ns \in Nat
  BY RateAssumption DEF Held, RateEntryType
<1>3. /\ Len(Append(p, t)) = Len(p) + 1 /\ Len(p) \in Nat
      /\ Append(p, t)[Len(p) + 1] = t
      /\ \A i \in 1..Len(p) : Append(p, t)[i] = p[i] /\ p[i] \in Nat
  BY AppendFacts
<1> DEFINE q == Append(p, t)
<1> HIDE DEF q
<1>4. SUFFICES ASSUME NEW i \in 1..Len(q)
               PROVE  /\ q[i] <= t + RATE_WINDOW_NS
                      /\ i <= Len(q) - 1 => q[i] < t
                      /\ i <= Len(q) => q[i] <= t
                      /\ i <= Len(q) - RATE_MAX_PER_WIN =>
                           q[i] + RATE_WINDOW_NS < t
  BY <1>1, <1>3, RateAssumption DEF OlderThanWindow, q
<1>5. CASE i = Len(p) + 1
  BY <1>3, <1>5, RateAssumption DEF q
<1>6. CASE i \in 1..Len(p)
  <2>1. q[i] = p[i] /\ p[i] \in Nat /\ Len(q) = Len(p) + 1
    BY <1>3, <1>6 DEF q
  <2>2. p[i] <= e.window_start_ns + RATE_WINDOW_NS
    BY <1>6 DEF OlderThanWindow
  <2>3. i <= Len(p) - Held(e) + 1 => p[i] <= e.window_start_ns
    BY <1>6 DEF OlderThanWindow
  <2>4. i <= Len(p) + 1 - RATE_MAX_PER_WIN => i <= Len(p) - Held(e) + 1
    BY <1>2, <1>3, <1>6, RateAssumption
  <2>5. p[i] < t
    BY <1>2, <2>1, <2>2, RateAssumption
  <2>6. ASSUME i <= Len(p) + 1 - RATE_MAX_PER_WIN
        PROVE  p[i] + RATE_WINDOW_NS < t
    <3>1. p[i] <= e.window_start_ns
      BY <2>3, <2>4, <2>6
    <3>2. QED
      BY <1>2, <2>1, <3>1, RateAssumption
  <2>7. QED
    BY <1>2, <1>3, <2>1, <2>5, <2>6, RateAssumption
<1>7. QED
  BY <1>3, <1>5, <1>6 DEF q

\* A message admitted to the current window joins the ones it holds.
LEMMA SameWindow ==
    ASSUME NEW p \in Seq(Nat), NEW t \in Nat, NEW e \in RateEntryType,
           WindowHeld(p, e), e.count < RATE_MAX_PER_WIN,
           e.window_start_ns <= t, t <= e.window_start_ns + RATE_WINDOW_NS
    PROVE  /\ WindowHeld(Append(p, t), RateEntry(e.window_start_ns, e.count + 1))
           /\ OlderThanWindow(p, e) =>
                OlderThanWindow(Append(p, t), RateEntry(e.window_start_ns, e.count + 1))
<1> DEFINE f == RateEntry(e.window_start_ns, e.count + 1)
<1>1. /\ e.window_start_ns \in Nat
      /\ e.count \in Nat \ {0}
      /\ Held(e) = e.count
      /\ Held(f) = e.count + 1
      /\ f.window_start_ns = e.window_start_ns
  BY RateAssumption DEF Held, RateEntry, RateEntryType
<1> HIDE DEF f
<1>2. /\ Len(Append(p, t)) = Len(p) + 1 /\ Len(p) \in Nat
      /\ Append(p, t)[Len(p) + 1] = t
      /\ \A i \in 1..Len(p) : Append(p, t)[i] = p[i] /\ p[i] \in Nat
  BY AppendFacts
<1> DEFINE q == Append(p, t)
<1> HIDE DEF q
<1>3. WindowHeld(q, f)
  <2>1. Held(f) <= Len(q)
    BY <1>1, <1>2 DEF WindowHeld, q
  <2>2. ASSUME NEW i \in 1..Len(q), i > Len(q) - Held(f)
        PROVE  q[i] >= f.window_start_ns
    <3>1. CASE i = Len(p) + 1
      BY <1>1, <1>2, <3>1 DEF q
    <3>2. CASE i \in 1..Len(p)
      BY <1>1, <1>2, <2>2, <3>2 DEF q, WindowHeld
    <3>3. QED
      BY <1>2, <3>1, <3>2 DEF q
  <2>3. QED
    BY <2>1, <2>2 DEF WindowHeld
<1>4. ASSUME OlderThanWindow(p, e)
      PROVE  OlderThanWindow(q, f)
  <2>1. SUFFICES ASSUME NEW i \in 1..Len(q)
                 PROVE  /\ q[i] <= f.window_start_ns + RATE_WINDOW_NS
                        /\ i <= Len(q) - Held(f) => q[i] < f.window_start_ns
                        /\ i <= Len(q) - Held(f) + 1 => q[i] <= f.window_start_ns
                        /\ i <= Len(q) - Held(f) - RATE_MAX_PER_WIN + 1 =>
                             q[i] + RATE_WINDOW_NS < f.window_start_ns
    BY DEF OlderThanWindow
  <2>2. CASE i = Len(p) + 1
    BY <1>1, <1>2, <2>2, RateAssumption DEF q
  <2>3. CASE i \in 1..Len(p)
    <3>1. Len(q) - Held(f) = Len(p) - Held(e)
      BY <1>1, <1>2 DEF q
    <3>2. QED
      BY <1>1, <1>2, <1>4, <2>3, <3>1 DEF q, OlderThanWindow
  <2>4. QED
    BY <1>2, <2>2, <2>3 DEF q
<1>5. QED
  BY <1>3, <1>4 DEF f, q

\* A message refused by a full window changes only the entry's count.
LEMMA FullWindow ==
    ASSUME NEW p \in Seq(Nat), NEW e \in RateEntryType,
           e.count >= RATE_MAX_PER_WIN
    PROVE  LET f == RateEntry(e.window_start_ns, e.count + 1)
           IN  /\ WindowHeld(p, e) => WindowHeld(p, f)
               /\ OlderThanWindow(p, e) => OlderThanWindow(p, f)
<1> DEFINE f == RateEntry(e.window_start_ns, e.count + 1)
<1>1. Held(f) = Held(e) /\ f.window_start_ns = e.window_start_ns
  BY RateAssumption DEF Held, RateEntry, RateEntryType
<1> HIDE DEF f
<1>2. /\ WindowHeld(p, e) => WindowHeld(p, f)
      /\ OlderThanWindow(p, e) => OlderThanWindow(p, f)
  BY <1>1 DEF WindowHeld, OlderThanWindow
<1>3. QED
  BY <1>2 DEF f

\* A message that comes more than a window after the n-th last one leaves at
\* most n messages in any window.
LEMMA SpacedAppend ==
    ASSUME NEW p \in Seq(Nat), NEW t \in Nat, NEW n \in Nat \ {0},
           AtMostPerWindow(n, p),
           n <= Len(p) => p[Len(p) + 1 - n] + RATE_WINDOW_NS < t
    PROVE  AtMostPerWindow(n, Append(p, t))
<1>1. /\ Len(Append(p, t)) = Len(p) + 1 /\ Len(p) \in Nat
      /\ Append(p, t)[Len(p) + 1] = t
      /\ \A i \in 1..Len(p) : Append(p, t)[i] = p[i] /\ p[i] \in Nat
  BY AppendFacts
<1> DEFINE q == Append(p, t)
<1> HIDE DEF q
<1>2. SUFFICES ASSUME NEW i \in 1..(Len(p) + 1 - n)
               PROVE  q[i + n] > q[i] + RATE_WINDOW_NS
  BY <1>1 DEF AtMostPerWindow, q
<1>3. i \in 1..Len(p) /\ q[i] = p[i] /\ p[i] \in Nat
  BY <1>1 DEF q
<1>4. CASE i = Len(p) + 1 - n
  <2>1. i + n = Len(p) + 1 /\ n <= Len(p)
    BY <1>1, <1>4
  <2>2. q[i + n] = t
    BY <1>1, <2>1 DEF q
  <2>3. p[i] + RATE_WINDOW_NS < t
    BY <1>4, <2>1
  <2>4. QED
    BY <1>3, <2>2, <2>3, RateAssumption
<1>5. CASE i # Len(p) + 1 - n
  <2>1. i \in 1..(Len(p) - n) /\ i + n \in 1..Len(p)
    BY <1>1, <1>5
  <2>2. p[i + n] > p[i] + RATE_WINDOW_NS
    BY <2>1 DEF AtMostPerWindow
  <2>3. q[i + n] = p[i + n]
    BY <1>1, <2>1 DEF q
  <2>4. QED
    BY <1>3, <2>2, <2>3
<1>6. QED
  BY <1>4, <1>5

\* The four outcomes of rate_limited() for source src, in terms of its entry.
LEMMA RateCases ==
    ASSUME TypeOK, RateInv, NEW src \in Sources
    PROVE  LET e == amf_xdp_rate_map[src]
               u == RateUpdate(amf_xdp_rate_map, src, now)
               limited == rate_limited(amf_xdp_rate_map, src, now)
           IN  \/ src \notin DOMAIN amf_xdp_rate_map /\ u = RateEntry(now, 1) /\ ~limited
               \/ /\ src \in DOMAIN amf_xdp_rate_map
                  /\ now > e.window_start_ns + RATE_WINDOW_NS
                  /\ u = RateEntry(now, 1)
                  /\ ~limited
               \/ /\ src \in DOMAIN amf_xdp_rate_map
                  /\ now <= e.window_start_ns + RATE_WINDOW_NS
                  /\ e.count < RATE_MAX_PER_WIN
                  /\ u = RateEntry(e.window_start_ns, e.count + 1)
                  /\ ~limited
               \/ /\ src \in DOMAIN amf_xdp_rate_map
                  /\ now <= e.window_start_ns + RATE_WINDOW_NS
                  /\ e.count >= RATE_MAX_PER_WIN
                  /\ u = RateEntry(e.window_start_ns, e.count + 1)
                  /\ limited
<1> DEFINE e == amf_xdp_rate_map[src]
<1>1. CASE src \notin DOMAIN amf_xdp_rate_map
  BY <1>1, RateAssumption DEF RateUpdate, rate_limited, RateEntry
<1>2. CASE src \in DOMAIN amf_xdp_rate_map
  <2>1. /\ now \in Nat /\ e.window_start_ns \in Nat /\ e.count \in Nat
        /\ e.window_start_ns <= now
    BY <1>2, BoundsAssumption DEF TypeOK, RateEntryType, RateInv
  <2>2. Sub64(now, e.window_start_ns) = now - e.window_start_ns
    BY <2>1 DEF Sub64
  <2>3. CASE now > e.window_start_ns + RATE_WINDOW_NS
    <3>1. RateUpdate(amf_xdp_rate_map, src, now) = RateEntry(now, 1)
      BY <1>2, <2>1, <2>2, <2>3, RateAssumption DEF RateUpdate
    <3>2. QED
      BY <1>2, <2>3, <3>1, RateAssumption DEF rate_limited, RateEntry
  <2>4. CASE ~(now > e.window_start_ns + RATE_WINDOW_NS)
    <3>1. RateUpdate(amf_xdp_rate_map, src, now)
            = RateEntry(e.window_start_ns, e.count + 1)
      BY <1>2, <2>1, <2>2, <2>4, RateAssumption DEF RateUpdate
    <3>2. rate_limited(amf_xdp_rate_map, src, now)
            <=> e.count + 1 > RATE_MAX_PER_WIN
      BY <3>1 DEF rate_limited, RateEntry
    <3>3. QED
      BY <1>2, <2>1, <2>4, <3>1, <3>2, RateAssumption
  <2>5. QED
    BY <2>3, <2>4
<1>3. QED
  BY <1>1, <1>2

\* The message 2 m - 1 places before the next one of a log of length l.
LEMMA TwoWindowsBack ==
    ASSUME NEW l \in Nat, NEW m \in Nat \ {0}, NEW h \in 1..m, 2 * m - 1 <= l
    PROVE  /\ l + 1 - (2 * m - 1) \in 1..l
           /\ l + 1 - (2 * m - 1) <= l - h + 1
           /\ h < m => l + 1 - (2 * m - 1) <= l - h - m + 1
OBVIOUS

\* The judged source: whichever way rate_limited() goes, the log it leaves and
\* the entry it writes agree again.
LEMMA JudgedSource ==
    ASSUME TypeOK, RateInv, TwoWindowBound, NEW src \in Sources,
           NEW log,
           IF rate_limited(amf_xdp_rate_map, src, now)
             THEN log = passes[src]
             ELSE log = Append(passes[src], now)
    PROVE  LET u == RateUpdate(amf_xdp_rate_map, src, now)
           IN  /\ u.window_start_ns <= now
               /\ WindowHeld(log, u)
               /\ src \notin rate_aged =>
                    /\ OlderThanWindow(log, u)
                    /\ AtMostPerWindow(2 * RATE_MAX_PER_WIN - 1, log)
<1> DEFINE e == amf_xdp_rate_map[src]
           u == RateUpdate(amf_xdp_rate_map, src, now)
           p == passes[src]
           limited == rate_limited(amf_xdp_rate_map, src, now)
<1>1. now \in Nat /\ p \in Seq(Nat) /\ Len(p) \in Nat
  BY BoundsAssumption DEF TypeOK
<1>2. 2 * RATE_MAX_PER_WIN - 1 \in Nat \ {0} /\ RATE_MAX_PER_WIN \in Nat \ {0}
      /\ RATE_WINDOW_NS \in Nat
  BY RateAssumption
<1>3. src \notin rate_aged => AtMostPerWindow(2 * RATE_MAX_PER_WIN - 1, p)
  BY DEF TwoWindowBound
<1>4. limited => log = p
  OBVIOUS
<1>5. ~limited => log = Append(p, now)
  OBVIOUS
<1>6. ASSUME src \in DOMAIN amf_xdp_rate_map
      PROVE  /\ e \in RateEntryType /\ e.window_start_ns \in Nat /\ e.count \in Nat \ {0}
             /\ e.window_start_ns <= now
             /\ WindowHeld(p, e)
             /\ src \notin rate_aged => OlderThanWindow(p, e)
  BY <1>6 DEF TypeOK, RateInv, RateEntryType
<1> SUFFICES /\ u.window_start_ns <= now
             /\ WindowHeld(log, u)
             /\ src \notin rate_aged =>
                  /\ OlderThanWindow(log, u)
                  /\ AtMostPerWindow(2 * RATE_MAX_PER_WIN - 1, log)
  OBVIOUS
<1> HIDE DEF e, u, p, limited
<1>7. CASE src \notin DOMAIN amf_xdp_rate_map /\ u = RateEntry(now, 1) /\ ~limited
  <2>1. src \notin rate_aged => p = << >>
    BY <1>7 DEF RateInv, p
  <2>2. src \notin rate_aged => AtMostPerWindow(2 * RATE_MAX_PER_WIN - 1, Append(p, now))
    <3>1. SUFFICES ASSUME src \notin rate_aged
                   PROVE  AtMostPerWindow(2 * RATE_MAX_PER_WIN - 1, Append(p, now))
      OBVIOUS
    <3>2. Len(p) = 0
      BY <2>1, <3>1
    <3>3. ~(2 * RATE_MAX_PER_WIN - 1 <= Len(p))
      BY <1>2, <3>2
    <3>4. QED
      BY <1>1, <1>2, <1>3, <3>1, <3>3, SpacedAppend
  <2>3. u.window_start_ns <= now
    BY <1>1, <1>7 DEF RateEntry
  <2>4. QED
    BY <1>1, <1>5, <1>7, <2>1, <2>2, <2>3, FirstWindow
<1>8. CASE /\ src \in DOMAIN amf_xdp_rate_map
           /\ now > e.window_start_ns + RATE_WINDOW_NS
           /\ u = RateEntry(now, 1)
           /\ ~limited
  <2>1. u.window_start_ns <= now
    BY <1>1, <1>8 DEF RateEntry
  <2>2. WindowHeld(Append(p, now), RateEntry(now, 1))
    BY <1>1, FirstWindow
  <2>3. ASSUME src \notin rate_aged
        PROVE  /\ OlderThanWindow(Append(p, now), RateEntry(now, 1))
               /\ AtMostPerWindow(2 * RATE_MAX_PER_WIN - 1, Append(p, now))
    <3>1. OlderThanWindow(p, e) /\ Held(e) <= Len(p)
      BY <1>6, <1>8, <2>3 DEF WindowHeld
    <3>2. OlderThanWindow(Append(p, now), RateEntry(now, 1))
      BY <1>1, <1>6, <1>8, <3>1, NextWindow
    <3>3. ASSUME 2 * RATE_MAX_PER_WIN - 1 <= Len(p)
          PROVE  p[Len(p) + 1 - (2 * RATE_MAX_PER_WIN - 1)] + RATE_WINDOW_NS < now
      <4> DEFINE i == Len(p) + 1 - (2 * RATE_MAX_PER_WIN - 1)
      <4>1. Held(e) \in 1..RATE_MAX_PER_WIN
        BY <1>2, <1>6, <1>8 DEF Held
      <4>2. i \in 1..Len(p) /\ i <= Len(p) - Held(e) + 1
        BY <1>1, <1>2, <3>3, <4>1, TwoWindowsBack
      <4>3. p[i] \in Nat
        BY <1>1, <4>2
      <4>4. p[i] <= e.window_start_ns
        BY <3>1, <4>2 DEF OlderThanWindow
      <4>5. QED
        BY <1>1, <1>2, <1>6, <1>8, <4>3, <4>4
    <3>4. QED
      BY <1>1, <1>2, <1>3, <2>3, <3>2, <3>3, SpacedAppend
  <2>4. QED
    BY <1>5, <1>8, <2>1, <2>2, <2>3
<1>9. CASE /\ src \in DOMAIN amf_xdp_rate_map
           /\ now <= e.window_start_ns + RATE_WINDOW_NS
           /\ e.count < RATE_MAX_PER_WIN
           /\ u = RateEntry(e.window_start_ns, e.count + 1)
           /\ ~limited
  <2>1. u.window_start_ns <= now
    BY <1>6, <1>9 DEF RateEntry
  <2>2. /\ WindowHeld(Append(p, now), u)
        /\ OlderThanWindow(p, e) => OlderThanWindow(Append(p, now), u)
    BY <1>1, <1>6, <1>9, SameWindow
  <2>3. ASSUME src \notin rate_aged
        PROVE  AtMostPerWindow(2 * RATE_MAX_PER_WIN - 1, Append(p, now))
    <3>1. ASSUME 2 * RATE_MAX_PER_WIN - 1 <= Len(p)
          PROVE  p[Len(p) + 1 - (2 * RATE_MAX_PER_WIN - 1)] + RATE_WINDOW_NS < now
      <4> DEFINE i == Len(p) + 1 - (2 * RATE_MAX_PER_WIN - 1)
      <4>1. Held(e) \in 1..RATE_MAX_PER_WIN /\ Held(e) < RATE_MAX_PER_WIN
        BY <1>2, <1>6, <1>9 DEF Held
      <4>2. i \in 1..Len(p) /\ i <= Len(p) - Held(e) - RATE_MAX_PER_WIN + 1
        BY <1>1, <1>2, <3>1, <4>1, TwoWindowsBack
      <4>3. p[i] \in Nat
        BY <1>1, <4>2
      <4>4. p[i] + RATE_WINDOW_NS < e.window_start_ns
        BY <1>6, <1>9, <2>3, <4>2 DEF OlderThanWindow
      <4>5. QED
        BY <1>1, <1>2, <1>6, <1>9, <4>3, <4>4
    <3>2. QED
      BY <1>1, <1>2, <1>3, <2>3, <3>1, SpacedAppend
  <2>4. QED
    BY <1>5, <1>6, <1>9, <2>1, <2>2, <2>3
<1>10. CASE /\ src \in DOMAIN amf_xdp_rate_map
            /\ now <= e.window_start_ns + RATE_WINDOW_NS
            /\ e.count >= RATE_MAX_PER_WIN
            /\ u = RateEntry(e.window_start_ns, e.count + 1)
            /\ limited
  <2>1. u.window_start_ns <= now
    BY <1>6, <1>10 DEF RateEntry
  <2>2. /\ WindowHeld(p, e) => WindowHeld(p, u)
        /\ OlderThanWindow(p, e) => OlderThanWindow(p, u)
    BY <1>1, <1>6, <1>10, FullWindow
  <2>3. QED
    BY <1>3, <1>4, <1>6, <1>10, <2>1, <2>2
<1>11. QED
  BY <1>7, <1>8, <1>9, <1>10, RateCases DEF e, u, limited

\* A run of the XDP program on a categorized packet keeps the invariant: the
\* judged source by JudgedSource, the others because it leaves them alone.
LEMMA EnforceRate ==
    ASSUME TypeOK, RateInv, TwoWindowBound,
           NEW src \in Sources, NEW p \in Packets, Enforce(src, p),
           UNCHANGED << now, rate_aged >>
    PROVE  RateInv' /\ TwoWindowBound'
<1> DEFINE u == RateUpdate(amf_xdp_rate_map, src, now)
<1>1. amf_xdp_rate_map' = MapPut(amf_xdp_rate_map, src, u)
  BY EnforceEffect
<1>2. /\ src \in DOMAIN amf_xdp_rate_map' /\ amf_xdp_rate_map'[src] = u
      /\ \A s \in Sources \ {src} :
           /\ s \in DOMAIN amf_xdp_rate_map' <=> s \in DOMAIN amf_xdp_rate_map
           /\ s \in DOMAIN amf_xdp_rate_map =>
                amf_xdp_rate_map'[s] = amf_xdp_rate_map[s]
  BY <1>1 DEF MapPut
<1>3. PICK stats : Dropped(src, stats) \/ Passed(src, stats)
  BY EnforceEffect
<1>4. passes \in [Sources -> Seq(0..MaxTime)]
  BY DEF TypeOK
<1>5. \A s \in Sources \ {src} : passes'[s] = passes[s]
  BY <1>3, <1>4 DEF Dropped, Passed
<1>6. IF rate_limited(amf_xdp_rate_map, src, now)
        THEN passes'[src] = passes[src]
        ELSE passes'[src] = Append(passes[src], now)
  BY <1>3, <1>4 DEF Dropped, Passed
<1>7. /\ u.window_start_ns <= now
      /\ WindowHeld(passes'[src], u)
      /\ src \notin rate_aged =>
           /\ OlderThanWindow(passes'[src], u)
           /\ AtMostPerWindow(2 * RATE_MAX_PER_WIN - 1, passes'[src])
  BY <1>6, JudgedSource
<1> HIDE DEF u
<1>8. RateInv'
  <2>1. SUFFICES ASSUME NEW s \in Sources
                 PROVE  /\ s \in DOMAIN amf_xdp_rate_map' =>
                             /\ amf_xdp_rate_map'[s].window_start_ns <= now
                             /\ WindowHeld(passes'[s], amf_xdp_rate_map'[s])
                             /\ s \notin rate_aged =>
                                  OlderThanWindow(passes'[s], amf_xdp_rate_map'[s])
                        /\ s \notin DOMAIN amf_xdp_rate_map' /\ s \notin rate_aged =>
                             passes'[s] = << >>
    BY DEF RateInv
  <2>2. CASE s = src
    BY <1>2, <1>7, <2>2
  <2>3. CASE s # src
    BY <1>2, <1>5, <2>3 DEF RateInv
  <2>4. QED
    BY <2>2, <2>3
<1>9. TwoWindowBound'
  <2>1. SUFFICES ASSUME NEW s \in Sources, s \notin rate_aged
                 PROVE  AtMostPerWindow(2 * RATE_MAX_PER_WIN - 1, passes'[s])
    BY DEF TwoWindowBound
  <2>2. CASE s = src
    BY <1>7, <2>1, <2>2
  <2>3. CASE s # src
    BY <1>5, <2>1, <2>3 DEF TwoWindowBound
  <2>4. QED
    BY <2>2, <2>3
<1>10. QED
  BY <1>8, <1>9

\* Steps that leave the pass logs and the rate map alone keep the invariant.
LEMMA QuietStep ==
    ASSUME TypeOK, RateInv, TwoWindowBound,
           UNCHANGED << amf_xdp_rate_map, passes, rate_aged >>, now' >= now,
           now' \in Nat
    PROVE  RateInv' /\ TwoWindowBound'
<1>1. TwoWindowBound'
  BY DEF TwoWindowBound
<1>2. ASSUME NEW s \in DOMAIN amf_xdp_rate_map
      PROVE  amf_xdp_rate_map[s].window_start_ns <= now'
  BY <1>2, BoundsAssumption DEF RateInv, TypeOK, RateEntryType
<1>3. RateInv'
  BY <1>2 DEF RateInv
<1>4. QED
  BY <1>1, <1>3

\* Every step keeps the rate-limit invariant and the two-window bound.
LEMMA RateStep ==
    ASSUME TypeOK, RateInv, TwoWindowBound, [Next]_vars
    PROVE  RateInv' /\ TwoWindowBound'
<1>1. now \in Nat
  BY BoundsAssumption DEF TypeOK
<1>2. ASSUME NEW src \in Sources, NEW p \in Packets, amf_xdp_enforce(src, p)
      PROVE  RateInv' /\ TwoWindowBound'
  <2>1. CASE PassUnparsed(p) \/ PassUncategorized(p)
    BY <1>1, <1>2, <2>1, QuietStep
       DEF PassUnparsed, PassUncategorized, amf_xdp_enforce
  <2>2. CASE Enforce(src, p)
    BY <1>2, <2>2, EnforceRate DEF amf_xdp_enforce
  <2>3. QED
    BY <1>2, <2>1, <2>2 DEF amf_xdp_enforce
<1>3. CASE Tick
  BY <1>1, <1>3, QuietStep DEF Tick, hist
<1>4. ASSUME NEW i \in 1..EdgesModelled, PublishEdge(i)
      PROVE  RateInv' /\ TwoWindowBound'
  BY <1>1, <1>4, QuietStep DEF PublishEdge, hist
<1>5. ASSUME NEW src \in Sources, AgeRateEntry(src)
      PROVE  RateInv' /\ TwoWindowBound'
  <2>1. RateInv'
    BY <1>5 DEF AgeRateEntry, RateInv, hist
  <2>2. TwoWindowBound'
    BY <1>5 DEF AgeRateEntry, TwoWindowBound, hist
  <2>3. QED
    BY <2>1, <2>2
<1>6. ASSUME NEW src \in Sources, AgeUeEntry(src)
      PROVE  RateInv' /\ TwoWindowBound'
  BY <1>1, <1>6, QuietStep DEF AgeUeEntry, hist
<1>7. CASE UNCHANGED vars
  BY <1>1, <1>7, QuietStep DEF vars, hist
<1>8. QED
  BY <1>2, <1>3, <1>4, <1>5, <1>6, <1>7 DEF Next

\* The invariant that ties each source's pass log to its rate entry.
THEOREM RateInvariant == Spec => [](RateInv /\ TwoWindowBound)
<1>1. Init => RateInv /\ TwoWindowBound
  <2> SUFFICES ASSUME Init PROVE RateInv /\ TwoWindowBound
    OBVIOUS
  <2>1. RateInv
    BY DEF Init, RateInv
  <2>2. TwoWindowBound
    BY RateAssumption DEF Init, TwoWindowBound, AtMostPerWindow
  <2>3. QED
    BY <2>1, <2>2
<1>2. QED
  BY <1>1, TypeCorrect, RateStep, PTL DEF Spec

\* rate_limited(): a source that keeps its entry never has more than twice
\* RATE_MAX_PER_WIN InitialUEMessages passed within RATE_WINDOW_NS.
THEOREM TwoWindows == Spec => []TwoWindowBound
BY RateInvariant, PTL

\* rate_limited(): at most RATE_MAX_PER_WIN of a source's messages are passed
\* since the start of the window its entry records.
THEOREM WindowLimited == Spec => []WindowLimit
<1>1. TypeOK /\ RateInv => WindowLimit
  <2> SUFFICES ASSUME TypeOK, RateInv,
                      NEW s \in DOMAIN amf_xdp_rate_map \ rate_aged,
                      Len(passes[s]) - RATE_MAX_PER_WIN > 0
               PROVE  passes[s][Len(passes[s]) - RATE_MAX_PER_WIN]
                        < amf_xdp_rate_map[s].window_start_ns
    BY DEF WindowLimit
  <2>1. /\ s \in Sources /\ amf_xdp_rate_map[s] \in RateEntryType
        /\ passes[s] \in Seq(0..MaxTime) /\ Len(passes[s]) \in Nat
    BY DEF TypeOK
  <2>2. OlderThanWindow(passes[s], amf_xdp_rate_map[s])
    BY <2>1 DEF RateInv
  <2>3. Held(amf_xdp_rate_map[s]) \in 1..RATE_MAX_PER_WIN
    BY <2>1, RateAssumption DEF Held, RateEntryType
  <2>4. /\ Len(passes[s]) - RATE_MAX_PER_WIN \in 1..Len(passes[s])
        /\ Len(passes[s]) - RATE_MAX_PER_WIN <= Len(passes[s]) - Held(amf_xdp_rate_map[s])
    BY <2>1, <2>3, RateAssumption
  <2>5. QED
    BY <2>2, <2>4 DEF OlderThanWindow
<1>2. QED
  BY <1>1, TypeCorrect, RateInvariant, PTL

\* rate_limited(): a drop means that RATE_MAX_PER_WIN messages of the source
\* were passed during the last RATE_WINDOW_NS, evictions or not.
THEOREM DropsJustified == Spec => DropJustified
<1> DEFINE A == \A s \in Sources :
                  drops'[s] # drops[s] =>
                    LET n == Len(passes[s]) - RATE_MAX_PER_WIN + 1
                    IN  n > 0 /\ passes[s][n] + RATE_WINDOW_NS >= now
<1>1. ASSUME TypeOK, RateInv, Next
      PROVE  A
  <2>1. ASSUME NEW src \in Sources, NEW p \in Packets, amf_xdp_enforce(src, p)
        PROVE  A
    <3>1. CASE UNCHANGED drops
      BY <3>1
    <3>2. CASE Enforce(src, p)
      <4>1. PICK stats : Dropped(src, stats) \/ Passed(src, stats)
        BY <3>2, EnforceEffect
      <4>2. CASE Dropped(src, stats)
        <5> DEFINE e == amf_xdp_rate_map[src]
                   q == passes[src]
                   n == Len(q) - RATE_MAX_PER_WIN + 1
        <5>1. /\ src \in DOMAIN amf_xdp_rate_map
              /\ now <= e.window_start_ns + RATE_WINDOW_NS
              /\ e.count >= RATE_MAX_PER_WIN
          BY <1>1, <4>2, RateCases DEF Dropped
        <5>2. /\ e.window_start_ns \in Nat /\ e.count \in Nat /\ now \in Nat
              /\ q \in Seq(Nat) /\ Len(q) \in Nat
          BY <1>1, <5>1, BoundsAssumption DEF TypeOK, RateEntryType
        <5>3. Held(e) = RATE_MAX_PER_WIN
          BY <5>1, <5>2, RateAssumption DEF Held
        <5>4. WindowHeld(q, e)
          BY <1>1, <5>1 DEF RateInv
        <5> HIDE DEF e, q
        <5>5. n \in 1..Len(q) /\ n > Len(q) - Held(e)
          BY <5>2, <5>3, <5>4, RateAssumption DEF WindowHeld
        <5>6. q[n] >= e.window_start_ns
          BY <5>4, <5>5 DEF WindowHeld
        <5>7. q[n] \in Nat
          BY <5>2, <5>5
        <5>8. n > 0 /\ q[n] + RATE_WINDOW_NS >= now
          BY <5>1, <5>2, <5>5, <5>6, <5>7, RateAssumption
        <5>9. \A s \in Sources : drops'[s] # drops[s] => s = src
          BY <1>1, <4>2 DEF Dropped, TypeOK
        <5>10. QED
          BY <5>8, <5>9 DEF q
      <4>3. CASE Passed(src, stats)
        BY <4>3 DEF Passed
      <4>4. QED
        BY <4>1, <4>2, <4>3
    <3>3. QED
      BY <2>1, <3>1, <3>2 DEF amf_xdp_enforce, PassUnparsed, PassUncategorized
  <2>2. CASE \/ Tick
             \/ \E i \in 1..EdgesModelled : PublishEdge(i)
             \/ \E src \in Sources : AgeRateEntry(src) \/ AgeUeEntry(src)
    BY <2>2 DEF Tick, PublishEdge, AgeRateEntry, AgeUeEntry, hist
  <2>3. QED
    BY <1>1, <2>1, <2>2 DEF Next
<1>2. QED
  BY <1>1, TypeCorrect, RateInvariant, PTL DEF Spec, DropJustified

-----------------------------------------------------------------------------
(***************************************************************************)
(* The counters and the state-machine check.                               *)
(***************************************************************************)
\* bump_stat(): one counter goes up by one, the others stay.
LEMMA BumpFacts ==
    ASSUME NEW stats \in [Stats -> Nat], NEW idx \in Stats
    PROVE  /\ bump_stat(stats, idx)[idx] = stats[idx] + 1
           /\ \A i \in Stats \ {idx} : bump_stat(stats, idx)[i] = stats[i]
BY DEF bump_stat

\* A run on a categorized packet adds one to passed or dropped, not to both.
LEMMA EnforceCounted ==
    ASSUME TypeOK, NEW src \in Sources, NEW p \in Packets, Enforce(src, p)
    PROVE  amf_xdp_stats'[STAT_PASS] + amf_xdp_stats'[STAT_DROP]
             = amf_xdp_stats[STAT_PASS] + amf_xdp_stats[STAT_DROP] + 1
<1>1. STAT_PASS \in Stats \ {STAT_DROP, STAT_STATE_INVALID}
      /\ STAT_DROP \in Stats \ {STAT_PASS, STAT_STATE_INVALID}
      /\ STAT_STATE_INVALID \in Stats
  BY DEF Stats, STAT_PASS, STAT_DROP, STAT_STATE_INVALID
<1>2. amf_xdp_stats \in [Stats -> Nat]
  BY DEF TypeOK
<1>3. PICK stats \in {amf_xdp_stats, bump_stat(amf_xdp_stats, STAT_STATE_INVALID)} :
         Dropped(src, stats) \/ Passed(src, stats)
  BY EnforceEffect
<1>4. bump_stat(amf_xdp_stats, STAT_STATE_INVALID) \in [Stats -> Nat]
  BY <1>1, <1>2, BumpType
<1>5. /\ stats \in [Stats -> Nat]
      /\ stats[STAT_PASS] = amf_xdp_stats[STAT_PASS]
      /\ stats[STAT_DROP] = amf_xdp_stats[STAT_DROP]
  BY <1>1, <1>2, <1>4, BumpFacts
<1>6. CASE amf_xdp_stats' = bump_stat(stats, STAT_DROP)
  BY <1>1, <1>2, <1>5, <1>6, BumpFacts
<1>7. CASE amf_xdp_stats' = bump_stat(stats, STAT_PASS)
  BY <1>1, <1>2, <1>5, <1>7, BumpFacts
<1>8. QED
  BY <1>3, <1>6, <1>7 DEF Dropped, Passed

\* Every packet that reaches the procedure code is counted once.
THEOREM PacketsCounted == Spec => []EveryPacketCounted
<1>1. Init => EveryPacketCounted
  BY DEF Init, EveryPacketCounted, Stats, STAT_PASS, STAT_DROP
<1>2. ASSUME TypeOK, EveryPacketCounted, [Next]_vars
      PROVE  EveryPacketCounted'
  <2>1. STAT_PASS \in Stats /\ STAT_DROP \in Stats \ {STAT_PASS}
    BY DEF Stats, STAT_PASS, STAT_DROP
  <2>2. /\ amf_xdp_stats \in [Stats -> Nat]
        /\ amf_xdp_stats[STAT_PASS] \in Nat /\ amf_xdp_stats[STAT_DROP] \in Nat
        /\ rx \in Nat /\ ignored \in Nat
    BY <1>2, <2>1, BoundsAssumption DEF TypeOK
  <2>3. ASSUME NEW src \in Sources, NEW p \in Packets, amf_xdp_enforce(src, p)
        PROVE  EveryPacketCounted'
    <3>1. rx' = rx + 1
      BY <2>3 DEF amf_xdp_enforce
    <3>2. CASE PassUnparsed(p)
      BY <1>2, <2>2, <3>1, <3>2 DEF PassUnparsed, EveryPacketCounted
    <3>3. CASE PassUncategorized(p)
      <4>1. /\ amf_xdp_stats'[STAT_PASS] = amf_xdp_stats[STAT_PASS] + 1
            /\ amf_xdp_stats'[STAT_DROP] = amf_xdp_stats[STAT_DROP]
        BY <2>1, <2>2, <3>3, BumpFacts DEF PassUncategorized
      <4>2. QED
        BY <1>2, <2>2, <3>1, <3>3, <4>1 DEF PassUncategorized, EveryPacketCounted
    <3>4. CASE Enforce(src, p)
      <4>1. amf_xdp_stats' \in [Stats -> Nat] /\ ignored' = ignored
        BY <1>2, <3>4, TypeStep, EnforceEffect DEF TypeOK
      <4>2. amf_xdp_stats'[STAT_PASS] \in Nat /\ amf_xdp_stats'[STAT_DROP] \in Nat
        BY <2>1, <4>1
      <4>3. QED
        BY <1>2, <2>2, <3>1, <3>4, <4>1, <4>2, EnforceCounted DEF EveryPacketCounted
    <3>5. QED
      BY <2>3, <3>2, <3>3, <3>4 DEF amf_xdp_enforce
  <2>4. CASE \/ Tick
             \/ \E i \in 1..EdgesModelled : PublishEdge(i)
             \/ \E src \in Sources : AgeRateEntry(src) \/ AgeUeEntry(src)
             \/ UNCHANGED vars
    BY <1>2, <2>4 DEF Tick, PublishEdge, AgeRateEntry, AgeUeEntry, vars, hist,
                      EveryPacketCounted
  <2>5. QED
    BY <1>2, <2>3, <2>4 DEF Next
<1>3. QED
  BY <1>1, <1>2, TypeCorrect, PTL DEF Spec

\* Looking up InitialUEMessage: from REG_RECEIVED it always misses, from
\* anywhere else it misses or leads to REG_RECEIVED.
LEMMA InitialUeLookup ==
    ASSUME EdgesFromTable, NEW from
    PROVE  LET to == sm_transition_lookup(sm_edges, from, "InitialUEMessage")
           IN  /\ to # NULL => to = "REG_RECEIVED" /\ sm_key_set_name(from) = "UE/gNB"
               /\ from = "REG_RECEIVED" => to = NULL
<1> DEFINE key == << sm_key_set_name(from), "InitialUEMessage" >>
           to  == sm_transition_lookup(sm_edges, from, "InitialUEMessage")
<1>1. to = IF key \in DOMAIN sm_edges THEN sm_edges[key] ELSE NULL
  BY InitialUeAssumption DEF sm_transition_lookup
<1>2. ASSUME key \in DOMAIN sm_edges
      PROVE  sm_edges[key] = "REG_RECEIVED" /\ sm_key_set_name(from) = "UE/gNB"
  <2>1. PICK i \in 1..Len(sm_edge_data) : key = EdgeKey(i) /\ sm_edges[key] = EdgeVal(i)
    BY <1>2 DEF EdgesFromTable
  <2>2. EdgeKey(i)[2] = "InitialUEMessage" /\ EdgeKey(i)[1] = sm_key_set_name(from)
    BY <2>1
  <2>3. QED
    BY <2>1, <2>2, InitialUeAssumption
<1>3. "REG_RECEIVED" # "UE/gNB"
  OBVIOUS
<1>4. QED
  BY <1>1, <1>2, <1>3, InitialUeAssumption

\* The loader writes entries of the table, and nobody else writes sm_edges.
LEMMA EdgesStep ==
    ASSUME EdgesFromTable, [Next]_vars
    PROVE  EdgesFromTable'
<1>1. ASSUME NEW i \in 1..EdgesModelled, PublishEdge(i)
      PROVE  EdgesFromTable'
  <2>1. i \in 1..Len(sm_edge_data)
    BY BoundsAssumption
  <2>2. sm_edges' = MapPut(sm_edges, EdgeKey(i), EdgeVal(i))
    BY <1>1 DEF PublishEdge
  <2>3. QED
    BY <2>1, <2>2 DEF EdgesFromTable, MapPut
<1>2. CASE UNCHANGED sm_edges
  BY <1>2 DEF EdgesFromTable
<1>3. QED
  BY <1>1, <1>2 DEF Next, vars, hist, amf_xdp_enforce, Tick, AgeRateEntry, AgeUeEntry

\* A categorized packet moves the state machine of its source only when the
\* source has no ue_state_map entry, and then to REG_RECEIVED.
LEMMA EnforceAdvance ==
    ASSUME TypeOK, EdgesFromTable, OneAdvancePerEntry,
           NEW src \in Sources, NEW p \in Packets, Enforce(src, p),
           UNCHANGED ue_aged
    PROVE  OneAdvancePerEntry'
<1> DEFINE edge == sm_transition_lookup(sm_edges, FromState(src), "InitialUEMessage")
<1>1. ngap_procedure_label(p.procedure_code) = "InitialUEMessage"
  BY DEF Enforce, ngap_procedure_label
<1>2. FsmStep(src, edge)
  BY <1>1 DEF Enforce
<1>3. ASSUME src \in DOMAIN ue_state_map
      PROVE  edge = NULL
  <2>1. ue_state_map[src] = "REG_RECEIVED"
    BY <1>3 DEF OneAdvancePerEntry
  <2>2. "REG_RECEIVED" # NULL
    BY NullAssumption
  <2>3. ue_state_lookup(ue_state_map, src) = "REG_RECEIVED"
    BY <1>3, <2>1 DEF ue_state_lookup
  <2>4. FromState(src) = "REG_RECEIVED"
    BY <2>2, <2>3 DEF FromState
  <2>5. QED
    BY <2>4, InitialUeLookup
<1>4. edge # NULL => edge = "REG_RECEIVED"
  BY InitialUeLookup
<1> HIDE DEF edge
<1>5. advances \in [Sources -> Nat] /\ ue_aged \in [Sources -> Nat]
  BY DEF TypeOK
<1>6. CASE edge = NULL
  <2>1. UNCHANGED << ue_state_map, advances >>
    BY <1>2, <1>6 DEF FsmStep
  <2>2. QED
    BY <2>1 DEF OneAdvancePerEntry
<1>7. CASE edge # NULL
  <2>1. src \notin DOMAIN ue_state_map
    BY <1>3, <1>7
  <2>2. /\ ue_state_map' = MapPut(ue_state_map, src, "REG_RECEIVED")
        /\ advances' = [advances EXCEPT ![src] = @ + 1]
    BY <1>2, <1>4, <1>7, InitialUeAssumption DEF FsmStep, ue_state_set
  <2>3. QED
    BY <1>5, <2>1, <2>2 DEF OneAdvancePerEntry, MapPut
<1>8. QED
  BY <1>6, <1>7

\* Steps 3 and 4 of amf_xdp_enforce(): one transition per life of a source's
\* ue_state_map entry, which says REG_RECEIVED throughout.
THEOREM OneAdvance == Spec => []OneAdvancePerEntry
<1>1. Init => EdgesFromTable /\ OneAdvancePerEntry
  BY DEF Init, EdgesFromTable, OneAdvancePerEntry
<1>2. ASSUME TypeOK, EdgesFromTable, OneAdvancePerEntry, [Next]_vars
      PROVE  OneAdvancePerEntry'
  <2>1. ASSUME NEW src \in Sources, NEW p \in Packets, amf_xdp_enforce(src, p)
        PROVE  OneAdvancePerEntry'
    <3>1. CASE PassUnparsed(p) \/ PassUncategorized(p)
      BY <1>2, <2>1, <3>1
         DEF amf_xdp_enforce, PassUnparsed, PassUncategorized, OneAdvancePerEntry
    <3>2. CASE Enforce(src, p)
      BY <1>2, <2>1, <3>2, EnforceAdvance DEF amf_xdp_enforce
    <3>3. QED
      BY <2>1, <3>1, <3>2 DEF amf_xdp_enforce
  <2>2. CASE \/ Tick
             \/ \E i \in 1..EdgesModelled : PublishEdge(i)
             \/ \E src \in Sources : AgeRateEntry(src)
             \/ UNCHANGED vars
    BY <1>2, <2>2 DEF Tick, PublishEdge, AgeRateEntry, vars, hist, OneAdvancePerEntry
  <2>3. ASSUME NEW src \in Sources, AgeUeEntry(src)
        PROVE  OneAdvancePerEntry'
    BY <1>2, <2>3 DEF AgeUeEntry, OneAdvancePerEntry, TypeOK, hist
  <2>4. QED
    BY <1>2, <2>1, <2>2, <2>3 DEF Next
<1>3. QED
  BY <1>1, <1>2, EdgesStep, TypeCorrect, PTL DEF Spec

=============================================================================
