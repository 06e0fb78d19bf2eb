--------------------------- MODULE FuncLoadProofs ---------------------------
(***************************************************************************)
(* Proofs about the function-level probes.  The pair of probes on          *)
(* Header.Get, for any number of goroutines, threads and map entries; the  *)
(* search for IEs, for any bodies and sizes.                               *)
(***************************************************************************)
EXTENDS FuncLoad, SequenceTheorems, WellFoundedInduction, TLAPS

-----------------------------------------------------------------------------
(***************************************************************************)
(* The inductive invariant.                                                *)
(***************************************************************************)
AuthzEvent == [probe : {"AUTHZ"}, n : Nat, key : {"Authorization", "Host"}, armed : Nat]
OtherEvent ==
    {[probe |-> "NGAP"], [probe |-> "NAS"], [probe |-> "SBI"]}
      \cup {[probe |-> "BODY", body |-> body, ies |-> Parsed[body]] : body \in Bodies}

PairTypes ==
    /\ calls \in Nat
    /\ on \in [Threads -> Goroutines \cup {NULL}]
    /\ call \in [Goroutines -> HeaderGet \cup {NULL}]
    /\ inflight \in [Threads -> Nat \cup {NULL}]
    /\ events \in Seq(AuthzEvent \cup OtherEvent)
    /\ shown \subseteq AuthzEvent

\* A goroutine in a call is on at most one thread.
OnInv ==
    /\ \A t \in Threads : on[t] # NULL => call[on[t]] # NULL
    /\ \A t, u \in Threads : on[t] # NULL /\ on[t] = on[u] => t = u

\* A call arms one thread, and is used up by the report made of it.
Authz(k) == events[k].probe = "AUTHZ"
ArmedOnce ==
    /\ \A t \in Threads : inflight[t] # NULL => inflight[t] \in 1..calls
    /\ \A t, u \in Threads : inflight[t] # NULL /\ inflight[t] = inflight[u] => t = u
    /\ \A e \in shown : e.armed \in 1..calls
    /\ \A k \in 1..Len(events) : Authz(k) => events[k].armed \in 1..calls
    /\ \A e \in shown, t \in Threads : inflight[t] # e.armed
    /\ \A k \in 1..Len(events), t \in Threads : Authz(k) => inflight[t] # events[k].armed
    /\ \A e, f \in shown : e.armed = f.armed => e = f
    /\ \A j, k \in 1..Len(events) :
         Authz(j) /\ Authz(k) /\ events[j].armed = events[k].armed => j = k
    /\ \A k \in 1..Len(events), e \in shown : Authz(k) => events[k].armed # e.armed

\* Until the AMF exits, a thread is armed by the call that it runs, or by one that was
\* orphaned; a call for "Authorization" that is on no thread was orphaned.
Alive == amf \in {"absent", "running"}
ArmedInv ==
    /\ \A g \in Goroutines : call[g] # NULL /\ call[g].seen => call[g].key = "Authorization"
    /\ Alive =>
         /\ \A t \in Threads : inflight[t] # NULL /\ inflight[t] \notin orphans =>
              /\ on[t] # NULL /\ call[on[t]].n = inflight[t]
              /\ call[on[t]].seen /\ call[on[t]].watched
         /\ \A g \in Goroutines : call[g] # NULL /\ call[g].seen /\ call[g].n \notin orphans =>
              \E t \in Threads : on[t] = g /\ (inflight[t] = call[g].n \/ call[g].n \in lost)

\* A report is of the call that armed the thread, or that one was orphaned.
Matches(e) ==
    /\ e.armed # e.n => e.armed \in orphans
    /\ e.armed \notin orphans => e.key = "Authorization"
ReportsInv ==
    /\ \A k \in 1..Len(events) : Authz(k) => Matches(events[k])
    /\ \A e \in shown : Matches(e)
    /\ orphans = {} => due \subseteq sent \cup lost /\ sent \subseteq due

FuncLoadInv == PairTypes /\ OnInv /\ ArmedOnce /\ ArmedInv /\ ReportsInv

-----------------------------------------------------------------------------
(***************************************************************************)
(* The steps, by what they change.                                         *)
(***************************************************************************)
pair_vars == << calls, on, call, inflight, sent, lost, due, orphans >>

LEMMA NullFacts ==
    NULL \notin Goroutines /\ NULL \notin Threads /\ NULL \notin Nat /\ NULL \notin HeaderGet
BY FuncLoadAssumption, HeaderGetAssumption

LEMMA OtherProbe == \A e \in OtherEvent : e.probe # "AUTHZ"
BY DEF OtherEvent

LEMMA AuthzFields ==
    /\ \A e \in AuthzEvent : /\ e.probe = "AUTHZ" /\ e.n \in Nat /\ e.armed \in Nat
                             /\ e.key \in {"Authorization", "Host"}
    /\ \A n, m \in Nat, key \in {"Authorization", "Host"} :
         LET e == [probe |-> "AUTHZ", n |-> n, key |-> key, armed |-> m]
         IN  e \in AuthzEvent /\ e.probe = "AUTHZ" /\ e.n = n /\ e.key = key /\ e.armed = m
BY DEF AuthzEvent

\* Steps of the loader other than handle_event(), of the AMF's process before it has
\* started and after it has exited.
Silent == UNCHANGED << pair_vars, events, shown >> /\ (Alive' => Alive)

\* A probe other than the pair, with room in the ring.
Emitted ==
    /\ UNCHANGED << pair_vars, shown, amf >>
    /\ \E e \in OtherEvent : events' = Append(events, e)

LEMMA SilentSteps ==
    ASSUME \/ wait_for_amf_pid \/ LoadObject \/ attach_targets \/ AttachSummary \/ PollDone
           \/ detach_targets \/ handle_signal \/ AmfStart \/ PidReused \/ UNCHANGED vars
    PROVE  Silent
<1>1. CASE \/ wait_for_amf_pid \/ LoadObject \/ attach_targets \/ AttachSummary \/ PollDone
           \/ detach_targets \/ handle_signal
  <2>1. UNCHANGED << amf_vars, events >>
    BY <1>1 DEF wait_for_amf_pid, LoadObject, attach_targets, AttachSummary, PollDone,
                detach_targets, handle_signal
  <2>2. QED
    BY <2>1 DEF Silent, amf_vars, log_vars, pair_vars, Alive
<1>2. CASE AmfStart \/ PidReused
  BY <1>2 DEF AmfStart, PidReused, Silent, log_vars, pair_vars, Alive
<1>3. CASE UNCHANGED vars
  BY <1>3 DEF vars, Silent, log_vars, pair_vars, Alive
<1>4. QED
  BY <1>1, <1>2, <1>3

LEMMA EmitDoes ==
    ASSUME NEW prog, NEW e \in OtherEvent, Emit(prog, e)
    PROVE  Silent \/ Emitted
<1>1. UNCHANGED << pair_vars, shown, amf >>
  BY DEF Emit, pair_vars, log_vars
<1>2. events' = Append(events, e) \/ events' = events
  BY DEF Emit
<1>3. QED
  BY <1>1, <1>2 DEF Silent, Emitted, Alive

LEMMA FuncLoadSteps ==
    ASSUME [Next]_vars
    PROVE  \/ Silent \/ Emitted \/ handle_event \/ AmfExit
           \/ \E g \in Goroutines, t \in Threads :
                \/ \E key \in {"Authorization", "Host"}, fault \in BOOLEAN :
                     amf_http_hdr_get_entry(g, t, key, fault)
                \/ \E value \in BOOLEAN : amf_http_hdr_get_ret(g, t, value)
                \/ Resume(g, t) \/ Suspend(g, t)
<1>1. CASE main \/ handle_signal \/ UNCHANGED vars \/ AmfStart \/ PidReused
  BY <1>1, SilentSteps DEF main
<1>2. CASE amf_ngap_disp
  BY <1>2, EmitDoes DEF amf_ngap_disp, OtherEvent
<1>3. CASE amf_nas_disp \/ emit_sbi_event
  BY <1>3, EmitDoes DEF amf_nas_disp, emit_sbi_event, OtherEvent
<1>4. ASSUME NEW body \in Bodies, NEW err \in BOOLEAN, amf_sbi_body(body, err)
      PROVE  Silent \/ Emitted
  BY <1>4, EmitDoes DEF amf_sbi_body, OtherEvent
<1>5. QED
  BY <1>1, <1>2, <1>3, <1>4 DEF Next

\* The ring: what an append and a read do.
LEMMA AppendDoes ==
    ASSUME PairTypes, NEW e \in AuthzEvent \cup OtherEvent, events' = Append(events, e)
    PROVE  /\ events' \in Seq(AuthzEvent \cup OtherEvent)
           /\ Len(events) \in Nat /\ Len(events') = Len(events) + 1
           /\ events'[Len(events) + 1] = e
           /\ \A k \in 1..Len(events) : events'[k] = events[k]
           /\ \A k \in 1..Len(events') : k \in 1..Len(events) \/ k = Len(events) + 1
BY DEF PairTypes

LEMMA ReadDoes ==
    ASSUME PairTypes, handle_event
    PROVE  /\ UNCHANGED << pair_vars, amf >>
           /\ events' \in Seq(AuthzEvent \cup OtherEvent)
           /\ 1 \in 1..Len(events)
           /\ \A k \in 1..Len(events') : /\ events'[k] = events[k + 1] /\ k + 1 \in 1..Len(events)
                                         /\ k + 1 # 1
           /\ \/ shown' = shown
              \/ shown' = shown \cup {events[1]} /\ Authz(1) /\ events[1] \in AuthzEvent
<1>1. UNCHANGED << pair_vars, amf >> /\ events # << >> /\ events' = Tail(events)
      /\ shown' = IF Head(events).probe = "AUTHZ" THEN shown \cup {Head(events)} ELSE shown
  BY DEF handle_event, pair_vars
<1>2. /\ events' \in Seq(AuthzEvent \cup OtherEvent)
      /\ 1 \in 1..Len(events) /\ Head(events) = events[1] /\ Head(events) \in AuthzEvent \cup OtherEvent
      /\ Len(events') = Len(events) - 1 /\ Len(events) \in Nat
      /\ \A k \in 1..Len(events') : events'[k] = events[k + 1]
  BY <1>1 DEF PairTypes
<1>3. \A k \in 1..Len(events') : k + 1 \in 1..Len(events) /\ k + 1 # 1
  BY <1>2
<1>4. QED
  BY <1>1, <1>2, <1>3, OtherProbe DEF Authz

\* Steps that leave the pair of probes alone.
LEMMA RingSteps ==
    ASSUME PairTypes, ArmedOnce, ReportsInv, Emitted \/ handle_event
    PROVE  PairTypes' /\ ArmedOnce' /\ ReportsInv'
<1>1. UNCHANGED pair_vars
  BY ReadDoes DEF Emitted
<1>2. UNCHANGED << calls, on, call, inflight, sent, lost, due, orphans >>
  BY <1>1 DEF pair_vars
<1>3. CASE Emitted
  <2>1. PICK e \in OtherEvent : events' = Append(events, e)
    BY <1>3 DEF Emitted
  <2>2. shown' = shown
    BY <1>3 DEF Emitted
  <2>3. /\ events' \in Seq(AuthzEvent \cup OtherEvent)
        /\ \A k \in 1..Len(events') : \/ k \in 1..Len(events) /\ events'[k] = events[k]
                                      \/ events'[k].probe # "AUTHZ"
    BY <2>1, AppendDoes, OtherProbe
  <2>4. PairTypes'
    BY <1>2, <2>2, <2>3 DEF PairTypes
  <2>5. ArmedOnce'
    BY <1>2, <2>2, <2>3 DEF ArmedOnce, Authz
  <2>6. ReportsInv'
    BY <1>2, <2>2, <2>3 DEF ReportsInv, Matches, Authz
  <2>7. QED
    BY <2>4, <2>5, <2>6
<1>4. CASE handle_event
  <2>1. /\ events' \in Seq(AuthzEvent \cup OtherEvent)
        /\ 1 \in 1..Len(events)
        /\ \A k \in 1..Len(events') : /\ events'[k] = events[k + 1] /\ k + 1 \in 1..Len(events)
                                      /\ k + 1 # 1
        /\ \/ shown' = shown
           \/ shown' = shown \cup {events[1]} /\ Authz(1) /\ events[1] \in AuthzEvent
    BY <1>4, ReadDoes
  <2>2. PairTypes'
    BY <1>2, <2>1 DEF PairTypes
  <2>3. \A e \in shown' : e \in shown \/ (e = events[1] /\ Authz(1))
    BY <2>1
  <2>4. ArmedOnce'
    <3>1. /\ \A t \in Threads : inflight'[t] # NULL => inflight'[t] \in 1..calls'
          /\ \A t, u \in Threads : inflight'[t] # NULL /\ inflight'[t] = inflight'[u] => t = u
      BY <1>2 DEF ArmedOnce
    <3>2. /\ \A e \in shown' : e.armed \in 1..calls'
          /\ \A e \in shown', t \in Threads : inflight'[t] # e.armed
          /\ \A e, f \in shown' : e.armed = f.armed => e = f
      BY <1>2, <2>1, <2>3 DEF ArmedOnce
    <3>3. /\ \A k \in 1..Len(events') : events'[k].probe = "AUTHZ" => events'[k].armed \in 1..calls'
          /\ \A k \in 1..Len(events'), t \in Threads :
               events'[k].probe = "AUTHZ" => inflight'[t] # events'[k].armed
          /\ \A k \in 1..Len(events'), e \in shown' : events'[k].probe = "AUTHZ" => events'[k].armed # e.armed
      BY <1>2, <2>1, <2>3 DEF ArmedOnce, Authz
    <3>4. ASSUME NEW j \in 1..Len(events'), NEW k \in 1..Len(events'),
                 events'[j].probe = "AUTHZ", events'[k].probe = "AUTHZ",
                 events'[j].armed = events'[k].armed
          PROVE  j = k
      <4>1. j + 1 = k + 1
        BY <2>1, <3>4 DEF ArmedOnce, Authz
      <4>2. QED
        BY <4>1
    <3>5. QED
      BY <3>1, <3>2, <3>3, <3>4 DEF ArmedOnce, Authz
  <2>5. ReportsInv'
    BY <1>2, <2>1, <2>3 DEF ReportsInv, Matches, Authz
  <2>6. QED
    BY <2>2, <2>4, <2>5
<1>5. QED
  BY <1>3, <1>4

-----------------------------------------------------------------------------
(***************************************************************************)
(* Header.Get.                                                             *)
(***************************************************************************)
LEMMA NewHeaderGet ==
    ASSUME NEW n \in Nat, NEW key \in {"Authorization", "Host"}, NEW w \in BOOLEAN, NEW s \in BOOLEAN
    PROVE  LET c == [n |-> n, key |-> key, watched |-> w, seen |-> s]
           IN  c \in HeaderGet /\ c.n = n /\ c.key = key /\ c.watched = w /\ c.seen = s
BY DEF HeaderGet

\* The entry probe: the thread is armed if the key is "Authorization" and the map has room.
LEMMA EntryDoes ==
    ASSUME PairTypes, NEW g \in Goroutines, NEW t \in Threads, NEW key \in {"Authorization", "Host"},
           NEW fault \in BOOLEAN, amf_http_hdr_get_entry(g, t, key, fault)
    PROVE  /\ on[t] = NULL /\ call[g] = NULL /\ calls' = calls + 1
           /\ UNCHANGED << amf, events, shown, sent, due >>
           /\ on'[t] = g /\ \A u \in Threads : u # t => on'[u] = on[u]
           /\ \A h \in Goroutines : h # g => call'[h] = call[h]
           /\ call'[g] # NULL /\ call'[g].n = calls + 1
           /\ call'[g].seen => call'[g].key = "Authorization"
           /\ lost \subseteq lost' /\ orphans \subseteq orphans'
           /\ \/ /\ call'[g].seen /\ inflight'[t] = calls + 1
                 /\ \A u \in Threads : u # t => inflight'[u] = inflight[u]
                 /\ call'[g].watched \/ calls + 1 \in orphans'
              \/ inflight' = inflight /\ (call'[g].seen => calls + 1 \in lost')
           /\ PairTypes'
<1> DEFINE armed == {u \in Threads : inflight[u] # NULL}
           s == "amf_http_hdr_get_entry" \in attached /\ ~fault /\ Arms(key)
           full == inflight[t] = NULL /\ Cardinality(armed) >= InflightMax
           w == "amf_http_hdr_get_ret" \in attached
           c == [n |-> calls + 1, key |-> key, watched |-> w, seen |-> s]
<1>1. /\ on[t] = NULL /\ call[g] = NULL /\ calls' = calls + 1
      /\ UNCHANGED << amf, events, shown, sent, due >>
      /\ on' = [on EXCEPT ![t] = g]
  BY DEF amf_http_hdr_get_entry
<1>2. call' = [call EXCEPT ![g] = c]
  BY Zenon DEF amf_http_hdr_get_entry
<1>3. /\ inflight' = IF s /\ ~full THEN [inflight EXCEPT ![t] = calls + 1] ELSE inflight
      /\ lost' = IF s /\ full THEN lost \cup {calls + 1} ELSE lost
      /\ orphans' = IF s /\ ~w THEN orphans \cup {calls + 1} ELSE orphans
  BY Zenon DEF amf_http_hdr_get_entry
<1>4. s \in BOOLEAN /\ w \in BOOLEAN /\ (s => key = "Authorization")
  BY DEF Arms
<1>5. calls + 1 \in Nat
  BY DEF PairTypes
<1> HIDE DEF s, w, full
<1>6. c \in HeaderGet /\ c.n = calls + 1 /\ c.key = key /\ c.watched = w /\ c.seen = s
  BY <1>4, <1>5, NewHeaderGet
<1> HIDE DEF c
<1>7. (c.seen <=> s) /\ (c.watched <=> w)
  BY <1>6, Zenon
<1>8. /\ on'[t] = g /\ \A u \in Threads : u # t => on'[u] = on[u]
      /\ call'[g] = c /\ \A h \in Goroutines : h # g => call'[h] = call[h]
      /\ call'[g] # NULL
  BY <1>1, <1>2, <1>6, NullFacts DEF PairTypes
<1>9. PairTypes'
  BY <1>1, <1>2, <1>3, <1>5, <1>6 DEF PairTypes
<1>10. lost \subseteq lost' /\ orphans \subseteq orphans'
  BY <1>3
<1>11. \/ /\ c.seen /\ inflight'[t] = calls + 1
          /\ \A u \in Threads : u # t => inflight'[u] = inflight[u]
          /\ c.watched \/ calls + 1 \in orphans'
       \/ inflight' = inflight /\ (c.seen => calls + 1 \in lost')
  BY <1>3, <1>7 DEF PairTypes
<1>12. c.seen => c.key = "Authorization"
  BY <1>4, <1>6, <1>7
<1>13. QED
  BY <1>1, <1>6, <1>8, <1>9, <1>10, <1>11, <1>12

LEMMA EntryStep ==
    ASSUME FuncLoadInv, NEW g \in Goroutines, NEW t \in Threads, NEW key \in {"Authorization", "Host"},
           NEW fault \in BOOLEAN, amf_http_hdr_get_entry(g, t, key, fault)
    PROVE  FuncLoadInv'
<1> USE DEF FuncLoadInv
<1>1. /\ on[t] = NULL /\ call[g] = NULL /\ calls' = calls + 1
      /\ UNCHANGED << amf, events, shown, sent, due >>
      /\ on'[t] = g /\ \A u \in Threads : u # t => on'[u] = on[u]
      /\ \A h \in Goroutines : h # g => call'[h] = call[h]
      /\ call'[g] # NULL /\ call'[g].n = calls + 1
      /\ call'[g].seen => call'[g].key = "Authorization"
      /\ lost \subseteq lost' /\ orphans \subseteq orphans'
      /\ PairTypes'
  BY EntryDoes
<1>2. \/ /\ call'[g].seen /\ inflight'[t] = calls + 1
         /\ \A u \in Threads : u # t => inflight'[u] = inflight[u]
         /\ call'[g].watched \/ calls + 1 \in orphans'
      \/ inflight' = inflight /\ (call'[g].seen => calls + 1 \in lost')
  BY EntryDoes
<1>3. calls \in Nat /\ 1..calls \subseteq 1..calls' /\ calls + 1 \in 1..calls' /\ calls + 1 \notin 1..calls
  BY <1>1 DEF PairTypes
<1>4. \A u \in Threads : on[u] # g
  BY <1>1, NullFacts DEF OnInv
<1>5. OnInv'
  <2>1. \A u \in Threads : on'[u] # NULL =>
          \/ u = t /\ on'[u] = g
          \/ on'[u] = on[u] /\ on[u] # g /\ on[u] \in Goroutines /\ call'[on[u]] = call[on[u]]
    BY <1>1, <1>4 DEF PairTypes
  <2>2. QED
    BY <1>1, <2>1 DEF OnInv
<1>6. \A u \in Threads : \/ inflight'[u] = inflight[u]
                         \/ u = t /\ inflight'[u] = calls + 1
  BY <1>2
<1>7. ArmedOnce'
  BY <1>1, <1>3, <1>6 DEF ArmedOnce, Authz
<1>8. ASSUME Alive, NEW u \in Threads, inflight'[u] # NULL, inflight'[u] \notin orphans'
      PROVE  /\ on'[u] # NULL /\ call'[on'[u]].n = inflight'[u]
             /\ call'[on'[u]].seen /\ call'[on'[u]].watched
  <2>1. CASE u # t
    <3>1. inflight'[u] = inflight[u] /\ on'[u] = on[u]
      BY <1>1, <1>6, <2>1
    <3>2. /\ on[u] # NULL /\ call[on[u]].n = inflight[u] /\ call[on[u]].seen /\ call[on[u]].watched
      BY <1>1, <1>8, <3>1 DEF ArmedInv
    <3>3. on[u] \in Goroutines /\ on[u] # g
      BY <1>4, <3>2 DEF PairTypes
    <3>4. QED
      BY <1>1, <3>1, <3>2, <3>3
  <2>2. CASE u = t
    <3>1. inflight[t] # NULL => inflight[t] \in orphans
      BY <1>1, <1>8 DEF ArmedInv
    <3>2. inflight' # inflight
      BY <1>1, <1>8, <2>2, <3>1
    <3>3. QED
      BY <1>1, <1>2, <1>8, <2>2, <3>2, NullFacts
  <2>3. QED
    BY <2>1, <2>2
<1>9. ASSUME Alive, NEW h \in Goroutines, call'[h] # NULL, call'[h].seen, call'[h].n \notin orphans'
      PROVE  \E u \in Threads : on'[u] = h /\ (inflight'[u] = call'[h].n \/ call'[h].n \in lost')
  <2>1. CASE h = g
    BY <1>1, <1>2, <1>9, <2>1
  <2>2. CASE h # g
    <3>1. call'[h] = call[h]
      BY <1>1, <2>2
    <3>2. PICK u \in Threads : on[u] = h /\ (inflight[u] = call[h].n \/ call[h].n \in lost)
      BY <1>1, <1>9, <3>1 DEF ArmedInv
    <3>3. u # t
      BY <1>1, <3>2, NullFacts
    <3>4. QED
      BY <1>1, <1>6, <3>1, <3>2, <3>3
  <2>3. QED
    BY <2>1, <2>2
<1>10. \A h \in Goroutines : call'[h] # NULL /\ call'[h].seen => call'[h].key = "Authorization"
  BY <1>1 DEF ArmedInv
<1>11. ArmedInv'
  BY <1>1, <1>8, <1>9, <1>10 DEF ArmedInv, Alive
<1>12. ReportsInv'
  BY <1>1 DEF ReportsInv, Matches, Authz
<1>13. QED
  BY <1>1, <1>5, <1>7, <1>11, <1>12

\* The return probe, attached when the call began and still, on an armed thread disarms
\* it and reports the value.
LEMMA ReturnDoes ==
    ASSUME PairTypes, OnInv, NEW g \in Goroutines, NEW t \in Threads, NEW value \in BOOLEAN,
           amf_http_hdr_get_ret(g, t, value)
    PROVE  LET c == call[g]
               e == [probe |-> "AUTHZ", n |-> c.n, key |-> c.key, armed |-> inflight[t]]
           IN  /\ amf = "running" /\ on[t] = g /\ c # NULL /\ c \in HeaderGet
               /\ UNCHANGED << amf, calls, shown >>
               /\ call'[g] = NULL /\ \A h \in Goroutines : h # g => call'[h] = call[h]
               /\ on'[t] = NULL /\ \A u \in Threads : u # t => on'[u] = on[u]
               /\ orphans \subseteq orphans'
               /\ \/ /\ inflight' = inflight /\ UNCHANGED << events, sent, lost >>
                     /\ c.seen /\ c.n \notin orphans' => inflight[t] = NULL
                     /\ due' \subseteq due \cup {c.n} /\ due \subseteq due'
                     /\ due' # due => c.seen
                  \/ /\ inflight[t] # NULL /\ inflight'[t] = NULL
                     /\ \A u \in Threads : u # t => inflight'[u] = inflight[u]
                     /\ due' = IF c.seen /\ value THEN due \cup {c.n} ELSE due
                     /\ \/ /\ value /\ events' = Append(events, e) /\ sent' = sent \cup {c.n}
                           /\ lost' = lost
                        \/ /\ value /\ events' = events /\ sent' = sent /\ lost' = lost \cup {c.n}
                        \/ ~value /\ UNCHANGED << events, sent, lost >>
               /\ e \in AuthzEvent \/ inflight[t] = NULL
               /\ PairTypes'
<1> DEFINE c == call[g]
           watched == c.watched /\ "amf_http_hdr_get_ret" \in attached
           pending == watched /\ inflight[t] # NULL
           e == [probe |-> "AUTHZ", n |-> c.n, key |-> c.key, armed |-> inflight[t]]
<1>1. /\ amf = "running" /\ on[t] = g /\ UNCHANGED << amf, calls, shown >>
      /\ call' = [call EXCEPT ![g] = NULL] /\ on' = [on EXCEPT ![t] = NULL]
  BY DEF amf_http_hdr_get_ret, Runs
<1>2. /\ inflight' = IF pending THEN [inflight EXCEPT ![t] = NULL] ELSE inflight
      /\ events' = IF pending /\ value /\ HasRoom THEN Append(events, e) ELSE events
      /\ sent' = IF pending /\ value /\ HasRoom THEN sent \cup {c.n} ELSE sent
      /\ lost' = IF pending /\ value /\ ~HasRoom THEN lost \cup {c.n} ELSE lost
      /\ due' = IF watched /\ c.seen /\ value THEN due \cup {c.n} ELSE due
      /\ orphans' = IF c.seen /\ ~watched THEN orphans \cup {c.n} ELSE orphans
  <2>1. inflight' = IF pending THEN Disarmed(t, value) ELSE inflight
    BY DEF amf_http_hdr_get_ret
  <2>2. events' = IF pending /\ value /\ HasRoom THEN Append(events, e) ELSE events
    BY DEF amf_http_hdr_get_ret
  <2>3. sent' = IF pending /\ value /\ HasRoom THEN sent \cup {c.n} ELSE sent
    BY DEF amf_http_hdr_get_ret
  <2>4. lost' = IF pending /\ value /\ ~HasRoom THEN lost \cup {c.n} ELSE lost
    BY DEF amf_http_hdr_get_ret
  <2>5. /\ due' = IF watched /\ c.seen /\ value THEN due \cup {c.n} ELSE due
        /\ orphans' = IF c.seen /\ ~watched THEN orphans \cup {c.n} ELSE orphans
    BY DEF amf_http_hdr_get_ret
  <2>6. QED
    BY <2>1, <2>2, <2>3, <2>4, <2>5, Zenon DEF Disarmed
<1>3. c # NULL /\ c \in HeaderGet
  BY <1>1, NullFacts DEF OnInv, PairTypes
<1>4. c.n \in Nat /\ c.key \in {"Authorization", "Host"}
  BY <1>3 DEF HeaderGet
<1>5. inflight[t] # NULL => e \in AuthzEvent
  <2>1. inflight[t] # NULL => inflight[t] \in Nat
    BY DEF PairTypes
  <2>2. QED
    BY <1>4, <2>1 DEF AuthzEvent
<1> HIDE DEF watched, e
<1>6. /\ call'[g] = NULL /\ \A h \in Goroutines : h # g => call'[h] = call[h]
      /\ on'[t] = NULL /\ \A u \in Threads : u # t => on'[u] = on[u]
      /\ on' \in [Threads -> Goroutines \cup {NULL}] /\ call' \in [Goroutines -> HeaderGet \cup {NULL}]
  BY <1>1 DEF PairTypes
<1>7. inflight' \in [Threads -> Nat \cup {NULL}]
  BY <1>2 DEF PairTypes
<1>8. events' \in Seq(AuthzEvent \cup OtherEvent)
  <2>1. CASE pending /\ value /\ HasRoom
    <3>1. events' = Append(events, e) /\ e \in AuthzEvent \cup OtherEvent
      BY <1>2, <1>5, <2>1
    <3>2. QED
      BY <3>1, AppendDoes
  <2>2. CASE ~(pending /\ value /\ HasRoom)
    BY <1>2, <2>2 DEF PairTypes
  <2>3. QED
    BY <2>1, <2>2
<1>9. PairTypes'
  BY <1>1, <1>6, <1>7, <1>8 DEF PairTypes
<1>10. orphans \subseteq orphans'
  BY <1>2
<1>11. CASE pending
  <2>1. /\ inflight[t] # NULL /\ inflight'[t] = NULL
        /\ \A u \in Threads : u # t => inflight'[u] = inflight[u]
    BY <1>2, <1>11 DEF PairTypes
  <2>2. due' = IF c.seen /\ value THEN due \cup {c.n} ELSE due
    BY <1>2, <1>11
  <2>3. \/ /\ value /\ events' = Append(events, e) /\ sent' = sent \cup {c.n}
           /\ lost' = lost
        \/ /\ value /\ events' = events /\ sent' = sent /\ lost' = lost \cup {c.n}
        \/ ~value /\ UNCHANGED << events, sent, lost >>
    BY <1>2, <1>11
  <2>4. QED
    BY <1>1, <1>3, <1>5, <1>6, <1>9, <1>10, <2>1, <2>2, <2>3 DEF e
<1>12. CASE ~pending
  <2>1. inflight' = inflight /\ UNCHANGED << events, sent, lost >>
    BY <1>2, <1>12
  <2>2. c.seen /\ c.n \notin orphans' => watched
    BY <1>2
  <2>3. c.seen /\ c.n \notin orphans' => inflight[t] = NULL
    BY <1>12, <2>2
  <2>4. due' \subseteq due \cup {c.n} /\ due \subseteq due' /\ (due' # due => c.seen)
    BY <1>2
  <2>5. QED
    BY <1>1, <1>3, <1>5, <1>6, <1>9, <1>10, <2>1, <2>3, <2>4 DEF e
<1>13. QED
  BY <1>11, <1>12

\* The numbers in reports are no NULL.
LEMMA AuthzNumbers ==
    ASSUME ArmedOnce
    PROVE  /\ \A f \in shown : f.armed # NULL
           /\ \A k \in 1..Len(events) : Authz(k) => events[k].armed # NULL
<1>1. \A n \in 1..calls : n # NULL
  BY NullFacts
<1>2. QED
  BY <1>1 DEF ArmedOnce

LEMMA ReturnStep ==
    ASSUME FuncLoadInv, NEW g \in Goroutines, NEW t \in Threads, NEW value \in BOOLEAN,
           amf_http_hdr_get_ret(g, t, value)
    PROVE  FuncLoadInv'
<1> USE DEF FuncLoadInv
<1> DEFINE c == call[g]
           e == [probe |-> "AUTHZ", n |-> c.n, key |-> c.key, armed |-> inflight[t]]
           Skipped ==
             /\ inflight' = inflight /\ UNCHANGED << events, sent, lost >>
             /\ c.seen /\ c.n \notin orphans' => inflight[t] = NULL
             /\ due' \subseteq due \cup {c.n} /\ due \subseteq due'
             /\ due' # due => c.seen
           Taken ==
             /\ inflight[t] # NULL /\ inflight'[t] = NULL
             /\ \A u \in Threads : u # t => inflight'[u] = inflight[u]
             /\ due' = IF c.seen /\ value THEN due \cup {c.n} ELSE due
             /\ \/ value /\ events' = Append(events, e) /\ sent' = sent \cup {c.n} /\ lost' = lost
                \/ value /\ events' = events /\ sent' = sent /\ lost' = lost \cup {c.n}
                \/ ~value /\ UNCHANGED << events, sent, lost >>
<1>1. /\ amf = "running" /\ on[t] = g /\ c # NULL /\ c \in HeaderGet
      /\ UNCHANGED << amf, calls, shown >>
      /\ call'[g] = NULL /\ \A h \in Goroutines : h # g => call'[h] = call[h]
      /\ on'[t] = NULL /\ \A u \in Threads : u # t => on'[u] = on[u]
      /\ orphans \subseteq orphans'
      /\ e \in AuthzEvent \/ inflight[t] = NULL
      /\ PairTypes'
  BY ReturnDoes
<1>2. Skipped \/ Taken
  BY ReturnDoes
<1>3. e.n = c.n /\ e.key = c.key /\ e.armed = inflight[t] /\ e.probe = "AUTHZ"
  OBVIOUS
<1> HIDE DEF e
<1>4. \A u \in Threads : u # t /\ on[u] # NULL => on[u] # g /\ on[u] \in Goroutines
                                                 /\ call'[on[u]] = call[on[u]]
  <2>1. ASSUME NEW u \in Threads, u # t, on[u] # NULL
        PROVE  on[u] # g /\ on[u] \in Goroutines
    BY <1>1, <2>1 DEF OnInv, PairTypes
  <2>2. QED
    BY <1>1, <2>1
<1>5. OnInv'
  BY <1>1, <1>4 DEF OnInv
<1>6. \A u \in Threads : inflight'[u] = inflight[u] \/ (u = t /\ inflight'[u] = NULL)
  <2>1. CASE Skipped
    <3>1. inflight' = inflight
      BY <2>1, Zenon
    <3>2. QED
      BY <3>1
  <2>2. CASE Taken
    <3>1. inflight'[t] = NULL /\ \A u \in Threads : u # t => inflight'[u] = inflight[u]
      BY <2>2, Zenon
    <3>2. QED
      BY <3>1
  <2>3. QED
    BY <1>2, <2>1, <2>2
<1>7. ASSUME Alive, inflight[t] # NULL, inflight[t] \notin orphans
      PROVE  c.n = inflight[t] /\ c.seen /\ c.watched
  BY <1>1, <1>7 DEF ArmedInv
<1>8. ASSUME c.seen, c.n \notin orphans
      PROVE  inflight[t] = c.n \/ c.n \in lost
  <2>1. PICK u \in Threads : on[u] = g /\ (inflight[u] = c.n \/ c.n \in lost)
    BY <1>1, <1>8 DEF ArmedInv, Alive
  <2>2. u = t
    BY <1>1, <2>1, NullFacts DEF OnInv
  <2>3. QED
    BY <2>1, <2>2
<1>9. ArmedInv'
  <2>1. ASSUME NEW u \in Threads, inflight'[u] # NULL, inflight'[u] \notin orphans'
        PROVE  /\ on'[u] # NULL /\ call'[on'[u]].n = inflight'[u]
               /\ call'[on'[u]].seen /\ call'[on'[u]].watched
    <3>1. inflight'[u] = inflight[u] /\ inflight[u] \notin orphans
      BY <1>1, <1>6, <2>1
    <3>2. on[u] # NULL /\ call[on[u]].n = inflight[u] /\ call[on[u]].seen /\ call[on[u]].watched
      BY <1>1, <2>1, <3>1 DEF ArmedInv, Alive
    <3>3. u # t
      <4>1. SUFFICES ASSUME u = t PROVE FALSE
        OBVIOUS
      <4>2. Skipped
        BY <1>2, <2>1, <4>1
      <4>3. c.seen /\ c.n = inflight[t]
        BY <1>1, <3>2, <4>1
      <4>4. QED
        BY <2>1, <3>1, <4>1, <4>2, <4>3
    <3>4. QED
      BY <1>1, <1>4, <3>1, <3>2, <3>3
  <2>2. ASSUME NEW h \in Goroutines, call'[h] # NULL, call'[h].seen, call'[h].n \notin orphans'
        PROVE  \E u \in Threads : on'[u] = h /\ (inflight'[u] = call'[h].n \/ call'[h].n \in lost')
    <3>1. h # g /\ call'[h] = call[h]
      BY <1>1, <2>2
    <3>2. PICK u \in Threads : on[u] = h /\ (inflight[u] = call[h].n \/ call[h].n \in lost)
      BY <1>1, <2>2, <3>1 DEF ArmedInv, Alive
    <3>3. u # t /\ on'[u] = h /\ inflight'[u] = inflight[u] /\ lost \subseteq lost'
      BY <1>1, <1>2, <3>1, <3>2
    <3>4. QED
      BY <3>1, <3>2, <3>3
  <2>3. \A h \in Goroutines : call'[h] # NULL /\ call'[h].seen => call'[h].key = "Authorization"
    BY <1>1 DEF ArmedInv
  <2>4. QED
    BY <2>1, <2>2, <2>3 DEF ArmedInv
<1>10. orphans' = {} => due' \subseteq sent' \cup lost' /\ sent' \subseteq due'
  <2>1. SUFFICES ASSUME orphans' = {} PROVE due' \subseteq sent' \cup lost' /\ sent' \subseteq due'
    OBVIOUS
  <2>2. orphans = {} /\ due \subseteq sent \cup lost /\ sent \subseteq due
    BY <1>1, <2>1 DEF ReportsInv
  <2>3. CASE Skipped
    <3>1. due' # due => c.n \in lost
      BY <1>1, <1>8, <2>1, <2>2, <2>3, NullFacts DEF HeaderGet
    <3>2. QED
      BY <2>2, <2>3, <3>1
  <2>4. CASE Taken
    <3>1. c.seen
      BY <1>1, <1>7, <2>2, <2>4 DEF Alive
    <3>2. QED
      BY <2>2, <2>4, <3>1
  <2>5. QED
    BY <1>2, <2>3, <2>4
<1>11. ASSUME events' = events
       PROVE  ArmedOnce' /\ ReportsInv'
  <2>1. ArmedOnce'
    BY <1>1, <1>6, <1>11, AuthzNumbers DEF ArmedOnce, Authz
  <2>2. ReportsInv'
    BY <1>1, <1>10, <1>11 DEF ReportsInv, Matches, Authz
  <2>3. QED
    BY <2>1, <2>2
<1>12. ASSUME Taken, events' = Append(events, e)
       PROVE  ArmedOnce' /\ ReportsInv'
  <2>1. /\ Len(events) \in Nat /\ Len(events') = Len(events) + 1
        /\ events'[Len(events) + 1] = e
        /\ \A k \in 1..Len(events) : events'[k] = events[k]
        /\ \A k \in 1..Len(events') : k \in 1..Len(events) \/ k = Len(events) + 1
    BY <1>1, <1>12, AppendDoes
  <2>2. \A k \in 1..Len(events') : \/ k \in 1..Len(events) /\ events'[k] = events[k]
                                   \/ k = Len(events) + 1 /\ events'[k] = e
    BY <2>1
  <2>3. /\ e.armed = inflight[t] /\ inflight[t] # NULL /\ inflight[t] \in 1..calls
        /\ \A u \in Threads : inflight'[u] # inflight[t]
        /\ \A f \in shown : f.armed # e.armed
        /\ \A k \in 1..Len(events) : Authz(k) => events[k].armed # e.armed
    BY <1>3, <1>6, <1>12 DEF ArmedOnce
  <2>4. /\ \A u \in Threads : inflight'[u] # NULL => inflight'[u] \in 1..calls'
        /\ \A u, w \in Threads : inflight'[u] # NULL /\ inflight'[u] = inflight'[w] => u = w
        /\ \A f \in shown' : f.armed \in 1..calls'
        /\ \A f \in shown', u \in Threads : inflight'[u] # f.armed
        /\ \A d, f \in shown' : d.armed = f.armed => d = f
    BY <1>1, <1>6, AuthzNumbers DEF ArmedOnce
  <2>5. /\ \A k \in 1..Len(events') : events'[k].probe = "AUTHZ" => events'[k].armed \in 1..calls'
        /\ \A k \in 1..Len(events'), u \in Threads :
             events'[k].probe = "AUTHZ" => inflight'[u] # events'[k].armed
    BY <1>1, <1>6, <2>2, <2>3, AuthzNumbers DEF ArmedOnce, Authz
  <2>6. /\ \A j, k \in 1..Len(events') :
             events'[j].probe = "AUTHZ" /\ events'[k].probe = "AUTHZ"
               /\ events'[j].armed = events'[k].armed => j = k
        /\ \A k \in 1..Len(events'), f \in shown' : events'[k].probe = "AUTHZ" => events'[k].armed # f.armed
    BY <1>1, <2>2, <2>3 DEF ArmedOnce, Authz
  <2>7. ArmedOnce'
    BY <2>4, <2>5, <2>6 DEF ArmedOnce, Authz
  <2>8. /\ e.armed # e.n => e.armed \in orphans'
        /\ e.armed \notin orphans' => e.key = "Authorization"
    BY <1>1, <1>3, <1>7, <2>3 DEF Alive, ArmedInv
  <2>9. ReportsInv'
    BY <1>1, <1>10, <2>2, <2>8 DEF ReportsInv, Matches, Authz
  <2>10. QED
    BY <2>7, <2>9
<1>13. ArmedOnce' /\ ReportsInv'
  BY <1>2, <1>11, <1>12
<1>14. QED
  BY <1>1, <1>5, <1>9, <1>13

-----------------------------------------------------------------------------
(***************************************************************************)
(* The scheduler and the AMF.                                              *)
(***************************************************************************)
LEMMA ResumeStep ==
    ASSUME FuncLoadInv, NEW g \in Goroutines, NEW t \in Threads, Resume(g, t)
    PROVE  FuncLoadInv'
<1> USE DEF FuncLoadInv
<1>1. /\ call[g] # NULL /\ on[t] = NULL /\ \A u \in Threads : on[u] # g
      /\ on' = [on EXCEPT ![t] = g]
      /\ UNCHANGED << amf, call, inflight, events, calls, shown, sent, lost, due, orphans >>
  BY DEF Resume, log_vars
<1>2. on' \in [Threads -> Goroutines \cup {NULL}] /\ on'[t] = g /\ \A u \in Threads : u # t => on'[u] = on[u]
  BY <1>1 DEF PairTypes
<1>3. PairTypes' /\ ArmedOnce' /\ ReportsInv'
  BY <1>1, <1>2 DEF PairTypes, ArmedOnce, ReportsInv, Matches, Authz
<1>4. OnInv'
  BY <1>1, <1>2 DEF OnInv
<1>5. ArmedInv'
  <2>1. ASSUME Alive, NEW u \in Threads, inflight[u] # NULL, inflight[u] \notin orphans
        PROVE  u # t
    BY <1>1, <2>1 DEF ArmedInv
  <2>2. ASSUME Alive, NEW h \in Goroutines, call[h] # NULL, call[h].seen, call[h].n \notin orphans
        PROVE  \E u \in Threads : on'[u] = h /\ (inflight[u] = call[h].n \/ call[h].n \in lost)
    <3>1. PICK u \in Threads : on[u] = h /\ (inflight[u] = call[h].n \/ call[h].n \in lost)
      BY <2>2 DEF ArmedInv
    <3>2. u # t
      BY <1>1, <3>1, NullFacts
    <3>3. QED
      BY <1>2, <3>1, <3>2
  <2>3. QED
    BY <1>1, <1>2, <2>1, <2>2 DEF ArmedInv, Alive
<1>6. QED
  BY <1>3, <1>4, <1>5

LEMMA SuspendStep ==
    ASSUME FuncLoadInv, NEW g \in Goroutines, NEW t \in Threads, Suspend(g, t)
    PROVE  FuncLoadInv'
<1> USE DEF FuncLoadInv
<1>1. /\ amf = "running" /\ on[t] = g /\ on' = [on EXCEPT ![t] = NULL]
      /\ UNCHANGED << amf, call, inflight, events, calls, shown, sent, lost, due >>
      /\ orphans' = IF call[g].seen THEN orphans \cup {call[g].n} ELSE orphans
  BY DEF Suspend, Runs
<1>2. on' \in [Threads -> Goroutines \cup {NULL}] /\ on'[t] = NULL /\ \A u \in Threads : u # t => on'[u] = on[u]
  BY <1>1 DEF PairTypes
<1>3. orphans \subseteq orphans' /\ (call[g].seen => call[g].n \in orphans')
  BY <1>1
<1>4. PairTypes' /\ ArmedOnce'
  BY <1>1, <1>2 DEF PairTypes, ArmedOnce, Authz
<1>5. ReportsInv'
  BY <1>1, <1>3 DEF ReportsInv, Matches, Authz
<1>6. OnInv'
  BY <1>1, <1>2 DEF OnInv
<1>7. ArmedInv'
  <2>1. ASSUME Alive, NEW u \in Threads, inflight[u] # NULL, inflight[u] \notin orphans'
        PROVE  /\ on'[u] # NULL /\ call[on'[u]].n = inflight[u]
               /\ call[on'[u]].seen /\ call[on'[u]].watched
    <3>1. /\ on[u] # NULL /\ call[on[u]].n = inflight[u]
          /\ call[on[u]].seen /\ call[on[u]].watched
      BY <1>3, <2>1 DEF ArmedInv
    <3>2. u # t
      BY <1>1, <1>3, <2>1, <3>1
    <3>3. QED
      BY <1>2, <3>1, <3>2
  <2>2. ASSUME Alive, NEW h \in Goroutines, call[h] # NULL, call[h].seen, call[h].n \notin orphans'
        PROVE  \E u \in Threads : on'[u] = h /\ (inflight[u] = call[h].n \/ call[h].n \in lost)
    <3>1. PICK u \in Threads : on[u] = h /\ (inflight[u] = call[h].n \/ call[h].n \in lost)
      BY <1>3, <2>2 DEF ArmedInv
    <3>2. u # t
      BY <1>1, <1>3, <2>2, <3>1
    <3>3. QED
      BY <1>2, <3>1, <3>2
  <2>3. QED
    BY <1>1, <2>1, <2>2 DEF ArmedInv, Alive
<1>8. QED
  BY <1>4, <1>5, <1>6, <1>7

\* The AMF's exit ends every call and leaves the map as it is.
LEMMA ExitStep ==
    ASSUME FuncLoadInv, AmfExit
    PROVE  FuncLoadInv'
<1> USE DEF FuncLoadInv
<1>1. /\ amf' = "gone" /\ on' = [t \in Threads |-> NULL] /\ call' = [g \in Goroutines |-> NULL]
      /\ UNCHANGED << inflight, events, calls, shown, sent, lost, due, orphans >>
  BY DEF AmfExit, log_vars
<1>2. \A t \in Threads : on'[t] = NULL
  BY <1>1
<1>3. \A g \in Goroutines : call'[g] = NULL
  BY <1>1
<1>4. PairTypes' /\ ArmedOnce' /\ ReportsInv'
  BY <1>1 DEF PairTypes, ArmedOnce, ReportsInv, Matches, Authz
<1>5. OnInv' /\ ArmedInv'
  BY <1>1, <1>2, <1>3 DEF OnInv, ArmedInv, Alive
<1>6. QED
  BY <1>4, <1>5

-----------------------------------------------------------------------------
(***************************************************************************)
(* The theorems.                                                           *)
(***************************************************************************)
LEMMA FuncLoadInit == Init => FuncLoadInv
<1> SUFFICES ASSUME Init PROVE FuncLoadInv
  OBVIOUS
<1>1. /\ on = [t \in Threads |-> NULL] /\ call = [g \in Goroutines |-> NULL]
      /\ inflight = [t \in Threads |-> NULL] /\ events = << >> /\ calls = 0
      /\ shown = {} /\ sent = {} /\ lost = {} /\ due = {} /\ orphans = {}
  BY DEF Init
<1>2. /\ \A t \in Threads : on[t] = NULL /\ inflight[t] = NULL
      /\ \A g \in Goroutines : call[g] = NULL
      /\ \A k \in 1..Len(events) : FALSE
  BY <1>1
<1>3. PairTypes
  BY <1>1 DEF PairTypes
<1>4. OnInv /\ ArmedOnce /\ ArmedInv /\ ReportsInv
  BY <1>1, <1>2 DEF OnInv, ArmedOnce, ArmedInv, ReportsInv
<1>5. QED
  BY <1>3, <1>4 DEF FuncLoadInv

\* The invariant above, whatever the scheduler does with the goroutines while the
\* loader attaches, polls and detaches.
THEOREM FuncLoadInvariant == Spec => []FuncLoadInv
<1>1. FuncLoadInv /\ [Next]_vars => FuncLoadInv'
  <2> SUFFICES ASSUME FuncLoadInv, [Next]_vars PROVE FuncLoadInv'
    OBVIOUS
  <2>1. ASSUME UNCHANGED pair_vars, Alive' => Alive
        PROVE  OnInv' /\ ArmedInv'
    BY <2>1 DEF pair_vars, FuncLoadInv, OnInv, ArmedInv
  <2>2. CASE Silent
    <3>1. UNCHANGED << pair_vars, events, shown >>
      BY <2>2 DEF Silent
    <3>2. PairTypes' /\ ArmedOnce' /\ ReportsInv'
      BY <3>1 DEF pair_vars, FuncLoadInv, PairTypes, ArmedOnce, ReportsInv, Matches, Authz
    <3>3. QED
      BY <2>1, <2>2, <3>2 DEF Silent, FuncLoadInv
  <2>3. CASE Emitted \/ handle_event
    <3>1. UNCHANGED pair_vars /\ (Alive' => Alive)
      BY <2>3, ReadDoes DEF Emitted, Alive, FuncLoadInv
    <3>2. QED
      BY <2>1, <2>3, <3>1, RingSteps DEF FuncLoadInv
  <2>4. QED
    BY <2>2, <2>3, FuncLoadSteps, EntryStep, ReturnStep, ResumeStep, SuspendStep, ExitStep
<1>2. QED
  BY <1>1, FuncLoadInit, PTL DEF Spec

\* amf_http_hdr_get_ret() reports a call at most once per call that armed a thread, and
\* the value of another call only for one that was orphaned.
THEOREM ReportsHaveRequests == Spec => []EachReportHasItsRequest
<1>1. FuncLoadInv => EachReportHasItsRequest
  BY DEF FuncLoadInv, ArmedOnce, ReportsInv, Matches, EachReportHasItsRequest
<1>2. QED
  BY <1>1, FuncLoadInvariant, PTL

\* Without orphans the pair of probes prints Authorization headers only, and misses none
\* except for want of room.
THEOREM AuthzExact == Spec => []AuthzExactUnlessOrphaned
<1>1. FuncLoadInv => AuthzExactUnlessOrphaned
  BY DEF FuncLoadInv, ReportsInv, Matches, AuthzExactUnlessOrphaned, AuthzIsAuthorization
<1>2. QED
  BY <1>1, FuncLoadInvariant, PTL

-----------------------------------------------------------------------------
(***************************************************************************)
(* Induction, from the least counterexample, and the functions that are    *)
(* defined by it.                                                          *)
(***************************************************************************)
LEMMA LeastNat ==
    ASSUME NEW T, T \subseteq Nat, T # {}
    PROVE  \E n \in T : \A m \in T : n <= m
<1> DEFINE R == OpToRel(<, Nat)
<1>1. \A m, n \in Nat : m < n => <<m, n>> \in R
  BY DEF OpToRel
<1>2. \E n \in T : \A m \in T : ~(<<m, n>> \in R)
  BY NatLessThanWellFounded, WFMin, Zenon
<1>3. \E n \in T : \A m \in T : ~(m < n)
  <2> HIDE DEF R
  <2>1. QED
    BY <1>1, <1>2, Zenon
<1>4. QED
  BY <1>3

LEMMA Induct ==
    ASSUME NEW T, 0 \in T, \A n \in Nat : n \in T => n + 1 \in T
    PROVE  Nat \subseteq T
<1> DEFINE B == Nat \ T
<1> SUFFICES ASSUME B # {} PROVE FALSE
  OBVIOUS
<1>1. PICK n \in B : \A m \in B : n <= m
  BY LeastNat
<1>2. n # 0 /\ n - 1 \in Nat /\ n - 1 \in T
  BY <1>1
<1>3. QED
  BY <1>1, <1>2

\* g applies F[1], F[2], ... one after the other to x0.
Iterates(g, X, x0, F, n) ==
    g \in [0..n -> X] /\ g[0] = x0 /\ \A k \in 1..n : g[k] = F[k][g[k - 1]]

LEMMA Iterated ==
    ASSUME NEW X, NEW x0 \in X, NEW F \in [Nat -> [X -> X]], NEW n \in Nat
    PROVE  \E g : Iterates(g, X, x0, F, n)
<1> DEFINE Rec(m, g) == g[0] = x0 /\ \A k \in 1..m : g[k] = F[k][g[k - 1]]
           T == {m \in Nat : \E g \in [0..m -> X] : Rec(m, g)}
<1>1. 0 \in T
  <2>1. [k \in 0..0 |-> x0] \in [0..0 -> X] /\ Rec(0, [k \in 0..0 |-> x0])
    OBVIOUS
  <2>2. QED
    BY <2>1
<1>2. ASSUME NEW m \in Nat, m \in T
      PROVE  m + 1 \in T
  <2>1. PICK g \in [0..m -> X] : Rec(m, g)
    BY <1>2
  <2> DEFINE h == [k \in 0..(m + 1) |-> IF k = m + 1 THEN F[m + 1][g[m]] ELSE g[k]]
  <2>2. F[m + 1][g[m]] \in X
    BY <2>1
  <2>3. h \in [0..(m + 1) -> X]
    BY <2>2
  <2>4. Rec(m + 1, h)
    BY <2>1
  <2> HIDE DEF Rec, h
  <2>5. QED
    BY <2>3, <2>4
<1> HIDE DEF T
<1>3. Nat \subseteq T
  BY <1>1, <1>2, Induct
<1>4. \E g \in [0..n -> X] : Rec(n, g)
  BY <1>3 DEF T
<1>5. QED
  BY <1>4 DEF Iterates

-----------------------------------------------------------------------------
(***************************************************************************)
(* The text of a body, field by field.                                     *)
(***************************************************************************)
\* FlattenSeq(fs) is the last of the sequences g.
Grows(g, X, fs) ==
    /\ g \in [0..Len(fs) -> Seq(X)] /\ g[0] = << >>
    /\ \A k \in 1..Len(fs) : g[k] = g[k - 1] \o fs[k]

LEMMA Flattens ==
    ASSUME NEW X, NEW fs \in Seq(Seq(X))
    PROVE  \E g : Grows(g, X, fs) /\ FlattenSeq(fs) = g[Len(fs)]
<1> DEFINE N == Len(fs)
<1>1. N \in Nat /\ \A n \in 1..N : fs[n] \in Seq(X)
  OBVIOUS
<1> DEFINE F == [k \in Nat |-> [x \in Seq(X) |-> IF k \in 1..N THEN x \o fs[k] ELSE x]]
<1>2. F \in [Nat -> [Seq(X) -> Seq(X)]]
  BY <1>1
<1>3. PICK g : Iterates(g, Seq(X), << >>, F, N)
  <2> HIDE DEF F
  <2>1. << >> \in Seq(X)
    OBVIOUS
  <2>2. QED
    BY <1>1, <1>2, <2>1, Iterated
<1>4. /\ g \in [0..N -> Seq(X)] /\ g[0] = << >>
      /\ \A k \in 1..N : g[k] = F[k][g[k - 1]]
  <2> HIDE DEF F
  <2>1. QED
    BY <1>3 DEF Iterates
<1>5. ASSUME NEW k \in 1..N
      PROVE  g[k] = g[k - 1] \o fs[k]
  <2>1. k \in Nat /\ k - 1 \in 0..N
    BY <1>1
  <2>2. g[k - 1] \in Seq(X)
    <3> HIDE DEF F
    <3>1. QED
      BY <1>4, <2>1
  <2>3. g[k] = F[k][g[k - 1]]
    BY <1>4
  <2>4. QED
    BY <2>1, <2>2, <2>3
<1>6. Grows(g, X, fs)
  BY <1>4, <1>5 DEF Grows
<1>7. CASE N = 0
  <2>1. fs = << >> /\ FlattenSeq(fs) = fs
    BY <1>7 DEF FlattenSeq
  <2>2. QED
    BY <1>4, <1>6, <1>7, <2>1
<1>8. CASE N > 0
  <2> DEFINE D(f) == f = [u \in 1..N |-> IF u = 1 THEN fs[u] ELSE f[u - 1] \o fs[u]]
             fl == CHOOSE f : D(f)
             h == [u \in 1..N |-> g[u]]
  <2>1. ASSUME NEW u \in 1..N
        PROVE  h[u] = IF u = 1 THEN fs[u] ELSE h[u - 1] \o fs[u]
    <3>1. h[u] = g[u - 1] \o fs[u]
      BY <1>5
    <3>2. CASE u = 1
      <4>1. g[u - 1] = << >> /\ fs[u] \in Seq(X)
        BY <1>1, <1>4, <3>2
      <4>2. QED
        BY <3>1, <3>2, <4>1, ConcatEmptySeq
    <3>3. CASE u # 1
      <4>1. u - 1 \in 1..N
        BY <1>1, <3>3
      <4>2. QED
        BY <3>1, <3>3, <4>1
    <3>4. QED
      BY <3>2, <3>3
  <2>2. D(h)
    BY <2>1, Zenon
  <2>3. D(fl)
    <3> HIDE DEF D, h
    <3>1. QED
      BY <2>2, Zenon
  <2>4. FlattenSeq(fs) = fl[N]
    BY <1>8 DEF FlattenSeq
  <2> HIDE DEF fl
  <2>5. \A u \in 1..N : fl[u] = IF u = 1 THEN fs[u] ELSE fl[u - 1] \o fs[u]
    <3>1. fl = [u \in 1..N |-> IF u = 1 THEN fs[u] ELSE fl[u - 1] \o fs[u]]
      BY <2>3
    <3>2. QED
      BY <3>1, Zenon
  <2> DEFINE P(k) == k + 1 <= N => fl[k + 1] = g[k + 1]
             T == {k \in Nat : P(k)}
  <2>6. P(0)
    <3>1. 1 \in 1..N /\ fl[1] = fs[1] /\ h[1] = fs[1] /\ h[1] = g[1]
      BY <1>1, <1>8, <2>1, <2>5
    <3>2. QED
      BY <3>1
  <2>7. ASSUME NEW k \in Nat, P(k)
        PROVE  P(k + 1)
    <3> SUFFICES ASSUME (k + 1) + 1 <= N PROVE fl[(k + 1) + 1] = g[(k + 1) + 1]
      OBVIOUS
    <3> DEFINE m == (k + 1) + 1
    <3>1. m \in 1..N /\ m # 1 /\ m - 1 = k + 1 /\ k + 1 <= N
      BY <1>1
    <3> HIDE DEF m
    <3>2. fl[m] = fl[m - 1] \o fs[m] /\ g[m] = g[m - 1] \o fs[m]
      BY <1>5, <2>5, <3>1
    <3>3. fl[m - 1] = g[m - 1]
      BY <2>7, <3>1
    <3>4. QED
      BY <3>2, <3>3 DEF m
  <2>8. \A k \in Nat : P(k)
    <3> HIDE DEF P
    <3>1. 0 \in T /\ \A k \in Nat : k \in T => k + 1 \in T
      BY <2>6, <2>7
    <3>2. Nat \subseteq T
      <4> HIDE DEF T
      <4>1. QED
        BY <3>1, Induct
    <3>3. QED
      BY <3>2
  <2>9. fl[N] = g[N]
    <3>1. N - 1 \in Nat /\ (N - 1) + 1 = N /\ N <= N
      BY <1>1, <1>8
    <3>2. P(N - 1)
      <4> HIDE DEF P
      <4>1. QED
        BY <2>8, <3>1
    <3>3. QED
      BY <3>1, <3>2
  <2>10. QED
    BY <1>6, <2>4, <2>9
<1>9. QED
  BY <1>1, <1>7, <1>8

LEMMA FlattenAppend ==
    ASSUME NEW X, NEW fs \in Seq(Seq(X)), NEW x \in Seq(X)
    PROVE  /\ FlattenSeq(fs) \in Seq(X)
           /\ FlattenSeq(Append(fs, x)) = FlattenSeq(fs) \o x
<1> DEFINE N == Len(fs)
           fx == Append(fs, x)
<1>1. /\ N \in Nat /\ fx \in Seq(Seq(X)) /\ Len(fx) = N + 1 /\ fx[N + 1] = x
      /\ \A k \in 1..N : fx[k] = fs[k]
  OBVIOUS
<1>2. PICK g : Grows(g, X, fs) /\ FlattenSeq(fs) = g[N]
  BY Flattens
<1>3. PICK h : Grows(h, X, fx) /\ FlattenSeq(fx) = h[N + 1]
  BY <1>1, Flattens
<1> HIDE DEF fx
<1> DEFINE P(k) == k <= N => g[k] = h[k]
           T == {k \in Nat : P(k)}
<1>4. P(0)
  BY <1>2, <1>3 DEF Grows
<1>5. ASSUME NEW k \in Nat, P(k)
      PROVE  P(k + 1)
  <2> SUFFICES ASSUME k + 1 <= N PROVE g[k + 1] = h[k + 1]
    OBVIOUS
  <2>1. k + 1 \in 1..N /\ k + 1 \in 1..(N + 1) /\ (k + 1) - 1 = k /\ k <= N
    BY <1>1
  <2>2. g[k + 1] = g[k] \o fs[k + 1]
    BY <1>2, <2>1 DEF Grows
  <2>3. h[k + 1] = h[k] \o fx[k + 1]
    BY <1>1, <1>3, <2>1 DEF Grows
  <2>4. QED
    BY <1>1, <1>5, <2>1, <2>2, <2>3
<1>6. \A k \in Nat : P(k)
  <2> HIDE DEF P
  <2>1. 0 \in T /\ \A k \in Nat : k \in T => k + 1 \in T
    BY <1>4, <1>5
  <2>2. Nat \subseteq T
    <3> HIDE DEF T
    <3>1. QED
      BY <2>1, Induct
  <2>3. QED
    BY <2>2
<1>7. g[N] = h[N]
  BY <1>1, <1>6
<1>8. h[N + 1] = h[N] \o x
  <2>1. N + 1 \in 1..(N + 1) /\ (N + 1) - 1 = N
    BY <1>1
  <2>2. QED
    BY <1>1, <1>3, <2>1 DEF Grows
<1>9. g[N] \in Seq(X)
  <2>1. N \in 0..N
    BY <1>1
  <2>2. QED
    BY <1>2, <2>1 DEF Grows
<1>10. QED
  BY <1>2, <1>3, <1>7, <1>8, <1>9 DEF fx

\* The symbols of a text.
Symbols == STRING \cup {" ", "quote", ","}

LEMMA SymbolsAre ==
    /\ " " \in Symbols /\ "quote" \in Symbols /\ "," \in Symbols
    /\ STRING \subseteq Symbols
<1>1. " " \in {" ", "quote", ","} /\ "quote" \in {" ", "quote", ","}
      /\ "," \in {" ", "quote", ","}
  OBVIOUS
<1>2. QED
  BY <1>1, Zenon DEF Symbols

LEMMA Widened ==
    ASSUME NEW A, NEW X, A \subseteq X, NEW s \in Seq(A)
    PROVE  s \in Seq(X) /\ Len(s) \in Nat /\ \A k \in 1..Len(s) : s[k] \in A
OBVIOUS

LEMMA Single ==
    ASSUME NEW X, NEW x \in X
    PROVE  << x >> \in Seq(X) /\ Len(<< x >>) = 1 /\ << x >>[1] = x
OBVIOUS

LEMMA Repeated ==
    ASSUME NEW X, NEW x \in X, NEW n \in Nat
    PROVE  /\ [k \in 1..n |-> x] \in Seq(X) /\ Len([k \in 1..n |-> x]) = n
           /\ \A k \in 1..n : [j \in 1..n |-> x][k] = x
OBVIOUS

LEMMA FieldIs ==
    ASSUME NEW f \in Field
    PROVE  /\ f.key \in Symbols /\ f.blanks \in Nat /\ f.quoted \in BOOLEAN
           /\ f.key \notin {" ", "quote", ","}
           /\ f.val \in Seq(Symbols) /\ Len(f.val) \in Nat
           /\ \A k \in 1..Len(f.val) : f.val[k] # "quote" /\ f.val[k] \notin sbi_ie_keys
<1> DEFINE A == STRING \ ({"quote"} \cup sbi_ie_keys)
<1>1. /\ f.key \in STRING \ {" ", "quote", ","} /\ f.blanks \in Nat /\ f.quoted \in BOOLEAN
      /\ f.val \in Seq(A)
  BY DEF Field
<1>2. A \subseteq Symbols
  BY SymbolsAre, Zenon
<1>3. f.key \in Symbols /\ f.key \notin {" ", "quote", ","}
  BY <1>1, SymbolsAre, Zenon
<1>4. \A x \in A : x # "quote" /\ x \notin sbi_ie_keys
  BY Zenon
<1> HIDE DEF A
<1>5. f.val \in Seq(Symbols) /\ Len(f.val) \in Nat
      /\ \A k \in 1..Len(f.val) : f.val[k] \in A
  BY <1>1, <1>2, Widened, Zenon
<1>6. QED
  BY <1>1, <1>3, <1>4, <1>5, Zenon

\* A quoted value.
LEMMA QuotedIs ==
    ASSUME NEW X, NEW q \in X, NEW val \in Seq(X)
    PROVE  LET text == << q >> \o val \o << q >>
           IN  /\ text \in Seq(X) /\ Len(text) = Len(val) + 2
               /\ text[1] = q /\ text[Len(val) + 2] = q
               /\ \A k \in 1..Len(val) : text[1 + k] = val[k]
<1> DEFINE t == << q >>
           s == t \o val
<1>1. Len(val) \in Nat /\ t \in Seq(X) /\ Len(t) = 1 /\ t[1] = q
  OBVIOUS
<1> HIDE DEF t
<1>2. /\ s \in Seq(X) /\ Len(s) = Len(t) + Len(val)
      /\ \A k \in 1..Len(t) : s[k] = t[k]
      /\ \A k \in 1..Len(val) : s[Len(t) + k] = val[k]
  <2>1. t \in Seq(X)
    BY <1>1
  <2>2. QED
    BY <2>1
<1> HIDE DEF s
<1>3. /\ s \o t \in Seq(X) /\ Len(s \o t) = Len(s) + Len(t)
      /\ \A k \in 1..Len(s) : (s \o t)[k] = s[k]
      /\ \A k \in 1..Len(t) : (s \o t)[Len(s) + k] = t[k]
  <2>1. s \in Seq(X) /\ t \in Seq(X)
    BY <1>1, <1>2
  <2>2. QED
    BY <2>1
<1>4. Len(s) + 1 = Len(val) + 2 /\ 1 \in 1..1 /\ 1 \in 1..Len(s)
      /\ \A k \in 1..Len(val) : 1 + k \in 1..Len(s)
  BY <1>1, <1>2
<1>5. (s \o t)[1] = q /\ (s \o t)[Len(val) + 2] = q
      /\ \A k \in 1..Len(val) : (s \o t)[1 + k] = val[k]
  BY <1>1, <1>2, <1>3, <1>4
<1>6. QED
  BY <1>2, <1>3, <1>4, <1>5 DEF s, t

\* Four pieces: a key, its blanks, the value, the comma.
LEMMA PiecesAre ==
    ASSUME NEW X, NEW key \in X, NEW comma \in X, NEW blanks \in Seq(X), NEW value \in Seq(X)
    PROVE  LET text == << key >> \o blanks \o value \o << comma >>
               b == Len(blanks)
               d == Len(value)
           IN  /\ text \in Seq(X) /\ Len(text) = b + d + 2
               /\ text[1] = key
               /\ \A k \in 1..b : text[k + 1] = blanks[k]
               /\ \A k \in 1..d : text[b + 1 + k] = value[k]
               /\ text[b + d + 2] = comma
<1> DEFINE b == Len(blanks)
           d == Len(value)
           t0 == << key >>
           t4 == << comma >>
           s1 == t0 \o blanks
           s2 == s1 \o value
           s3 == s2 \o t4
<1>1. /\ b \in Nat /\ d \in Nat
      /\ t0 \in Seq(X) /\ Len(t0) = 1 /\ t0[1] = key
      /\ t4 \in Seq(X) /\ Len(t4) = 1 /\ t4[1] = comma
  OBVIOUS
<1> HIDE DEF t0, t4
<1>2. /\ s1 \in Seq(X) /\ Len(s1) = Len(t0) + b
      /\ \A k \in 1..Len(t0) : s1[k] = t0[k]
      /\ \A k \in 1..b : s1[Len(t0) + k] = blanks[k]
  <2>1. t0 \in Seq(X)
    BY <1>1
  <2>2. QED
    BY <2>1
<1> HIDE DEF s1, b
<1>3. /\ s2 \in Seq(X) /\ Len(s2) = Len(s1) + d
      /\ \A k \in 1..Len(s1) : s2[k] = s1[k]
      /\ \A k \in 1..d : s2[Len(s1) + k] = value[k]
  <2>1. s1 \in Seq(X)
    BY <1>2
  <2>2. QED
    BY <2>1
<1> HIDE DEF s2, d
<1>4. /\ s3 \in Seq(X) /\ Len(s3) = Len(s2) + Len(t4)
      /\ \A k \in 1..Len(s2) : s3[k] = s2[k]
      /\ \A k \in 1..Len(t4) : s3[Len(s2) + k] = t4[k]
  <2>1. s2 \in Seq(X) /\ t4 \in Seq(X)
    BY <1>1, <1>3
  <2>2. QED
    BY <2>1
<1> HIDE DEF s3
<1>5. /\ Len(s1) = b + 1 /\ Len(s2) = b + 1 + d /\ Len(s3) = b + d + 2 /\ 1 \in 1..1
      /\ b + 1 + d + 1 = b + d + 2
      /\ 1 \in 1..(b + 1) /\ 1 \in 1..(b + 1 + d)
  BY <1>1, <1>2, <1>3, <1>4
<1>6. s3[1] = key /\ s3[b + d + 2] = comma
  BY <1>1, <1>2, <1>3, <1>4, <1>5
<1>7. ASSUME NEW k \in 1..b
      PROVE  s3[k + 1] = blanks[k]
  <2>1. k + 1 = Len(t0) + k /\ k + 1 \in 1..(b + 1) /\ k + 1 \in 1..(b + 1 + d)
    BY <1>1
  <2>2. s3[k + 1] = s2[k + 1] /\ s2[k + 1] = s1[k + 1]
    BY <1>3, <1>4, <1>5, <2>1
  <2>3. QED
    BY <1>2, <2>1, <2>2
<1>8. ASSUME NEW k \in 1..d
      PROVE  s3[b + 1 + k] = value[k]
  <2>1. b + 1 + k \in 1..(b + 1 + d)
    BY <1>1
  <2>2. QED
    BY <1>3, <1>4, <1>5, <2>1
<1>9. QED
  BY <1>4, <1>5, <1>6, <1>7, <1>8 DEF s3, s2, s1, t0, t4, b, d

\* How far behind the blanks the value begins.
Opens(f) == IF f.quoted THEN 2 ELSE 1

LEMMA FieldTextIs ==
    ASSUME NEW f \in Field
    PROVE  LET text == FieldText(f)
               b == f.blanks
               v == Len(f.val)
           IN  /\ text \in Seq(Symbols)
               /\ Len(text) = b + v + 2 * Opens(f)
               /\ text[1] = f.key
               /\ \A k \in 1..b : text[k + 1] = " "
               /\ f.quoted => text[b + 2] = "quote" /\ text[b + v + 3] = "quote"
               /\ \A k \in 1..v : text[b + Opens(f) + k] = f.val[k]
               /\ text[b + v + 2 * Opens(f)] = ","
<1> DEFINE b == f.blanks
           val == f.val
           v == Len(val)
           blanks == [k \in 1..b |-> " "]
           quoted == << "quote" >> \o val \o << "quote" >>
           value == IF f.quoted THEN quoted ELSE val
           c == Opens(f)
           d == Len(value)
           text == << f.key >> \o blanks \o value \o << "," >>
<1>1. FieldText(f) = text
  BY DEF FieldText
<1>2. f.key \in Symbols /\ b \in Nat /\ f.quoted \in BOOLEAN
      /\ val \in Seq(Symbols) /\ v \in Nat
  BY FieldIs
<1>3. blanks \in Seq(Symbols) /\ Len(blanks) = b /\ \A k \in 1..b : blanks[k] = " "
  BY <1>2, SymbolsAre, Repeated
<1>4. /\ quoted \in Seq(Symbols) /\ Len(quoted) = v + 2
      /\ quoted[1] = "quote" /\ quoted[v + 2] = "quote"
      /\ \A k \in 1..v : quoted[1 + k] = val[k]
  <2> DEFINE q == "quote"
  <2>1. q \in Symbols
    BY SymbolsAre
  <2> SUFFICES /\ << q >> \o val \o << q >> \in Seq(Symbols)
               /\ Len(<< q >> \o val \o << q >>) = v + 2
               /\ (<< q >> \o val \o << q >>)[1] = q
               /\ (<< q >> \o val \o << q >>)[v + 2] = q
               /\ \A k \in 1..v : (<< q >> \o val \o << q >>)[1 + k] = val[k]
    OBVIOUS
  <2> HIDE DEF q, val
  <2>2. QED
    BY <1>2, <2>1, QuotedIs
<1> HIDE DEF blanks, quoted, v, b, val
<1>5. /\ value \in Seq(Symbols) /\ d = v + 2 * (c - 1)
      /\ \A k \in 1..v : value[c - 1 + k] = val[k]
      /\ f.quoted => value[1] = "quote" /\ value[v + 2] = "quote"
  <2>1. CASE f.quoted
    <3>1. value = quoted /\ c = 2
      BY <2>1 DEF Opens
    <3> HIDE DEF value, c
    <3>2. QED
      BY <1>2, <1>4, <2>1, <3>1
  <2>2. CASE ~f.quoted
    <3>1. value = val /\ c = 1
      BY <2>2 DEF Opens
    <3> HIDE DEF value, c
    <3>2. QED
      BY <1>2, <2>2, <3>1 DEF v
  <2>3. QED
    BY <2>1, <2>2
<1>6. c \in {1, 2} /\ (f.quoted => c = 2)
  BY DEF Opens
<1> HIDE DEF value, c
<1>7. /\ text \in Seq(Symbols) /\ Len(text) = b + d + 2
      /\ text[1] = f.key
      /\ \A k \in 1..b : text[k + 1] = blanks[k]
      /\ \A k \in 1..d : text[b + 1 + k] = value[k]
      /\ text[b + d + 2] = ","
  <2>1. /\ text \in Seq(Symbols) /\ Len(text) = Len(blanks) + d + 2
        /\ text[1] = f.key
        /\ \A k \in 1..Len(blanks) : text[k + 1] = blanks[k]
        /\ \A k \in 1..d : text[Len(blanks) + 1 + k] = value[k]
        /\ text[Len(blanks) + d + 2] = ","
    <3> DEFINE key == f.key
               comma == ","
    <3>1. key \in Symbols /\ comma \in Symbols
      BY <1>2, SymbolsAre
    <3> HIDE DEF key, comma
    <3>2. LET s == << key >> \o blanks \o value \o << comma >>
          IN  /\ s \in Seq(Symbols) /\ Len(s) = Len(blanks) + d + 2
              /\ s[1] = key
              /\ \A k \in 1..Len(blanks) : s[k + 1] = blanks[k]
              /\ \A k \in 1..d : s[Len(blanks) + 1 + k] = value[k]
              /\ s[Len(blanks) + d + 2] = comma
      <4>1. blanks \in Seq(Symbols) /\ value \in Seq(Symbols)
        BY <1>3, <1>5
      <4>2. QED
        BY <3>1, <4>1, PiecesAre
    <3>3. QED
      BY <3>2 DEF key, comma
  <2>2. QED
    BY <1>3, <2>1
<1> HIDE DEF text, d
<1>8. ASSUME NEW k \in 1..v
      PROVE  text[b + c + k] = val[k]
  <2>1. c - 1 + k \in 1..d /\ b + 1 + (c - 1 + k) = b + c + k
    BY <1>2, <1>5, <1>6
  <2>2. text[b + 1 + (c - 1 + k)] = value[c - 1 + k]
    BY <1>7, <2>1
  <2>3. QED
    BY <1>5, <2>1, <2>2
<1>9. f.quoted => text[b + 2] = "quote" /\ text[b + v + 3] = "quote"
  <2> SUFFICES ASSUME f.quoted PROVE text[b + 2] = "quote" /\ text[b + v + 3] = "quote"
    OBVIOUS
  <2>1. 1 \in 1..d /\ v + 2 \in 1..d /\ b + 1 + 1 = b + 2 /\ b + 1 + (v + 2) = b + v + 3
    BY <1>2, <1>5, <1>6
  <2>2. text[b + 1 + 1] = value[1] /\ text[b + 1 + (v + 2)] = value[v + 2]
    BY <1>7, <2>1
  <2>3. QED
    BY <1>5, <2>1, <2>2
<1>10. b + d + 2 = b + v + 2 * c
  BY <1>2, <1>5, <1>6
<1>11. QED
  BY <1>1, <1>3, <1>7, <1>8, <1>9, <1>10 DEF b, v, val, c

\* A text begins a field with its key; nothing else in the field is a key that is searched,
\* and a field without quotes has none.
LEMMA FieldSymbols ==
    ASSUME NEW f \in Field, NEW k \in Nat, 1 <= k, k <= Len(FieldText(f))
    PROVE  /\ k # 1 => FieldText(f)[k] \notin sbi_ie_keys
           /\ ~f.quoted => FieldText(f)[k] # "quote"
<1> DEFINE text == FieldText(f)
           b == f.blanks
           v == Len(f.val)
           c == Opens(f)
<1>1. /\ text[1] = f.key
      /\ \A j \in 1..b : text[j + 1] = " "
      /\ f.quoted => text[b + 2] = "quote" /\ text[b + v + 3] = "quote"
      /\ \A j \in 1..v : text[b + c + j] = f.val[j]
      /\ text[b + v + 2 * c] = ","
      /\ Len(text) = b + v + 2 * c
  BY FieldTextIs
<1>2. /\ b \in Nat /\ v \in Nat /\ f.quoted \in BOOLEAN /\ f.key # "quote"
      /\ \A j \in 1..v : f.val[j] # "quote" /\ f.val[j] \notin sbi_ie_keys
  BY FieldIs
<1>3. (f.quoted => c = 2) /\ (~f.quoted => c = 1)
  BY DEF Opens
<1> HIDE DEF text, b, v, c
<1>4. " " \notin sbi_ie_keys /\ "quote" \notin sbi_ie_keys /\ "," \notin sbi_ie_keys
      /\ " " # "quote" /\ "," # "quote"
  BY DEF sbi_ie_keys
<1>5. k <= b + v + 2 * c
  BY <1>1 DEF text
<1> SUFFICES /\ k # 1 => text[k] \notin sbi_ie_keys
             /\ ~f.quoted => text[k] # "quote"
  BY DEF text
<1>6. CASE k = 1
  BY <1>1, <1>2, <1>6
<1>7. CASE k # 1 /\ k <= b + 1
  <2>1. k - 1 \in 1..b /\ (k - 1) + 1 = k
    BY <1>2, <1>7
  <2>2. text[k] = " "
    BY <1>1, <2>1
  <2>3. QED
    BY <1>4, <2>2
<1>8. CASE k > b + c /\ k <= b + c + v
  <2>1. k - (b + c) \in 1..v /\ b + c + (k - (b + c)) = k
    BY <1>2, <1>3, <1>8
  <2>2. text[k] # "quote" /\ text[k] \notin sbi_ie_keys
    BY <1>1, <1>2, <2>1
  <2>3. QED
    BY <2>2
<1>9. CASE k = b + v + 2 * c
  BY <1>1, <1>4, <1>9
<1>10. CASE f.quoted /\ (k = b + 2 \/ k = b + v + 3)
  BY <1>1, <1>4, <1>10
<1>11. \/ k = 1
       \/ k # 1 /\ k <= b + 1
       \/ k > b + c /\ k <= b + c + v
       \/ k = b + v + 2 * c
       \/ f.quoted /\ (k = b + 2 \/ k = b + v + 3)
  <2>1. CASE f.quoted
    BY <1>2, <1>3, <1>5, <2>1
  <2>2. CASE ~f.quoted
    BY <1>2, <1>3, <1>5, <2>2
  <2>3. QED
    BY <2>1, <2>2
<1>12. QED
  BY <1>6, <1>7, <1>8, <1>9, <1>10, <1>11

\* The text of the first k fields.
Before(body, k) == Text(SubSeq(body, 1, k))

LEMMA TextGrows ==
    ASSUME NEW body \in Seq(Field)
    PROVE  /\ Before(body, 0) = << >>
           /\ Before(body, Len(body)) = Text(body)
           /\ \A k \in Nat : k < Len(body) =>
                /\ Before(body, k) \in Seq(Symbols)
                /\ Before(body, k + 1) = Before(body, k) \o FieldText(body[k + 1])
<1>1. Len(body) \in Nat /\ SubSeq(body, 1, Len(body)) = body /\ SubSeq(body, 1, 0) = << >>
  OBVIOUS
<1>2. Text(<< >>) = << >>
  <2>1. [k \in DOMAIN << >> |-> FieldText(<< >>[k])] = << >>
    OBVIOUS
  <2>2. QED
    BY <2>1 DEF Text, FlattenSeq
<1>3. ASSUME NEW k \in Nat, k < Len(body)
      PROVE  /\ Before(body, k) \in Seq(Symbols)
             /\ Before(body, k + 1) = Before(body, k) \o FieldText(body[k + 1])
  <2> DEFINE p == SubSeq(body, 1, k)
             q == SubSeq(body, 1, k + 1)
             ps == [j \in DOMAIN p |-> FieldText(p[j])]
             qs == [j \in DOMAIN q |-> FieldText(q[j])]
             x == FieldText(body[k + 1])
  <2>1. /\ p \in Seq(Field) /\ Len(p) = k /\ DOMAIN p = 1..k /\ \A j \in 1..k : p[j] = body[j]
        /\ q \in Seq(Field) /\ Len(q) = k + 1 /\ DOMAIN q = 1..(k + 1)
        /\ \A j \in 1..(k + 1) : q[j] = body[j]
        /\ body[k + 1] \in Field
    BY <1>1, <1>3
  <2> HIDE DEF p, q
  <2>2. x \in Seq(Symbols) /\ \A j \in 1..k : FieldText(p[j]) \in Seq(Symbols)
    <3>1. \A f \in Field : FieldText(f) \in Seq(Symbols)
      BY FieldTextIs
    <3>2. body[k + 1] \in Field /\ \A j \in 1..k : p[j] \in Field
      BY <2>1
    <3>3. QED
      BY <3>1, <3>2
  <2>3. ps \in Seq(Seq(Symbols)) /\ Len(ps) = k
    <3>1. ps = [j \in 1..k |-> FieldText(p[j])]
      BY <2>1
    <3>2. QED
      BY <1>3, <2>2, <3>1
  <2>4. qs = Append(ps, x)
    <3>1. qs = [j \in 1..(k + 1) |-> FieldText(body[j])]
      BY <2>1
    <3>2. ps = [j \in 1..k |-> FieldText(body[j])]
      BY <2>1
    <3> HIDE DEF qs, ps, x
    <3>3. /\ Append(ps, x) \in Seq(Seq(Symbols)) /\ Len(Append(ps, x)) = k + 1
          /\ Append(ps, x)[k + 1] = x
          /\ \A j \in 1..k : Append(ps, x)[j] = ps[j]
      BY <1>3, <2>2, <2>3
    <3>4. Append(ps, x) = [j \in 1..(k + 1) |-> Append(ps, x)[j]]
      <4> DEFINE a == Append(ps, x)
      <4>1. a \in Seq(Seq(Symbols)) /\ Len(a) = k + 1
        BY <3>3
      <4> HIDE DEF a
      <4>2. a = [j \in 1..(k + 1) |-> a[j]]
        BY <4>1
      <4>3. QED
        BY <4>2 DEF a
    <3>5. \A j \in 1..(k + 1) : Append(ps, x)[j] = FieldText(body[j])
      <4> SUFFICES ASSUME NEW j \in 1..(k + 1) PROVE Append(ps, x)[j] = FieldText(body[j])
        OBVIOUS
      <4>1. CASE j = k + 1
        BY <3>3, <4>1 DEF x
      <4>2. CASE j # k + 1
        <5>1. j \in 1..k
          BY <1>3, <4>2
        <5>2. QED
          BY <3>2, <3>3, <5>1
      <4>3. QED
        BY <4>1, <4>2
    <3>6. QED
      BY <3>1, <3>4, <3>5, Zenon
  <2>5. Text(p) = FlattenSeq(ps) /\ Text(q) = FlattenSeq(qs)
    BY DEF Text
  <2> HIDE DEF ps, qs, x
  <2>6. FlattenSeq(ps) \in Seq(Symbols) /\ FlattenSeq(Append(ps, x)) = FlattenSeq(ps) \o x
    BY <2>2, <2>3, FlattenAppend, Zenon
  <2>7. QED
    BY <2>4, <2>5, <2>6 DEF Before, p, q, x
<1>4. QED
  BY <1>1, <1>2, <1>3 DEF Before

\* Positions in a row of pieces of lengths l, of which E are the ends.
LEMMA Pieces ==
    ASSUME NEW N \in Nat, NEW E \in [0..N -> Nat], NEW l \in [1..N -> Nat \ {0}],
           E[0] = 0, \A k \in 1..N : E[k] = E[k - 1] + l[k]
    PROVE  /\ \A j, k \in 0..N : j < k => E[j] < E[k]
           /\ \A p \in Nat : 1 <= p /\ p <= E[N] =>
                \E k \in 1..N : E[k - 1] < p /\ p <= E[k]
<1> DEFINE P(m) == m <= N =>
                     /\ \A j \in 0..m : j < m => E[j] < E[m]
                     /\ \A p \in Nat : 1 <= p /\ p <= E[m] =>
                          \E k \in 1..m : E[k - 1] < p /\ p <= E[k]
           T == {m \in Nat : P(m)}
<1>1. P(0)
  OBVIOUS
<1>2. ASSUME NEW m \in Nat, P(m)
      PROVE  P(m + 1)
  <2> SUFFICES ASSUME m + 1 <= N
               PROVE  /\ \A j \in 0..(m + 1) : j < m + 1 => E[j] < E[m + 1]
                      /\ \A p \in Nat : 1 <= p /\ p <= E[m + 1] =>
                           \E k \in 1..(m + 1) : E[k - 1] < p /\ p <= E[k]
    OBVIOUS
  <2>1. m \in 0..N /\ m + 1 \in 1..N /\ m + 1 \in 0..N /\ (m + 1) - 1 = m /\ m <= N
    OBVIOUS
  <2>2. /\ E[m] \in Nat /\ E[m + 1] \in Nat /\ l[m + 1] \in Nat \ {0}
        /\ E[m + 1] = E[m] + l[m + 1]
    BY <2>1
  <2>3. E[m] < E[m + 1]
    BY <2>2
  <2>4. ASSUME NEW j \in 0..(m + 1), j < m + 1
        PROVE  E[j] < E[m + 1]
    <3>1. j \in 0..m /\ (j = m \/ j < m)
      BY <2>4
    <3>2. j \in 0..N
      BY <2>1, <2>4
    <3>3. E[j] \in Nat
      BY <3>2
    <3>4. j < m => E[j] < E[m]
      BY <1>2, <2>1, <3>1
    <3>5. QED
      BY <2>2, <2>3, <3>1, <3>3, <3>4
  <2>5. ASSUME NEW p \in Nat, 1 <= p, p <= E[m + 1]
        PROVE  \E k \in 1..(m + 1) : E[k - 1] < p /\ p <= E[k]
    <3>1. CASE p <= E[m]
      <4>1. PICK k \in 1..m : E[k - 1] < p /\ p <= E[k]
        BY <1>2, <2>1, <2>5, <3>1
      <4>2. k \in 1..(m + 1)
        OBVIOUS
      <4>3. QED
        BY <4>1, <4>2
    <3>2. CASE ~(p <= E[m])
      <4>1. m + 1 \in 1..(m + 1) /\ E[(m + 1) - 1] < p
        BY <2>1, <2>2, <3>2
      <4>2. QED
        BY <2>5, <4>1
    <3>3. QED
      BY <3>1, <3>2
  <2>6. QED
    BY <2>4, <2>5
<1>3. \A m \in Nat : P(m)
  <2> HIDE DEF P
  <2>1. 0 \in T /\ \A k \in Nat : k \in T => k + 1 \in T
    BY <1>1, <1>2
  <2>2. Nat \subseteq T
    <3> HIDE DEF T
    <3>1. QED
      BY <2>1, Induct
  <2>3. QED
    BY <2>2
<1>4. ASSUME NEW j \in 0..N, NEW k \in 0..N, j < k
      PROVE  E[j] < E[k]
  <2>1. k \in Nat /\ k <= N /\ j \in 0..k
    BY <1>4
  <2>2. P(k)
    <3> HIDE DEF P
    <3>1. QED
      BY <1>3, <2>1
  <2>3. QED
    BY <1>4, <2>1, <2>2
<1>5. P(N)
  <2> HIDE DEF P
  <2>1. QED
    BY <1>3
<1>6. QED
  BY <1>4, <1>5

\* Where the fields of a body end in its text.
Stops(body) == [k \in 0..Len(body) |-> Len(Before(body, k))]

LEMMA StopsAre ==
    ASSUME NEW body \in Seq(Field)
    PROVE  LET N == Len(body)
               E == Stops(body)
               l(k) == Len(FieldText(body[k]))
           IN  /\ N \in Nat /\ E \in [0..N -> Nat] /\ E[0] = 0
               /\ \A k \in 1..N : /\ body[k] \in Field /\ l(k) \in Nat \ {0}
                                  /\ FieldText(body[k]) \in Seq(Symbols)
                                  /\ E[k] = E[k - 1] + l(k)
               /\ \A k \in 0..N : E[k] = Len(Before(body, k)) /\ Before(body, k) \in Seq(Symbols)
<1> DEFINE N == Len(body)
           E == Stops(body)
<1>1. N \in Nat /\ \A k \in 1..N : body[k] \in Field
  OBVIOUS
<1>2. \A f \in Field : FieldText(f) \in Seq(Symbols) /\ Len(FieldText(f)) \in Nat \ {0}
  <2> SUFFICES ASSUME NEW f \in Field
               PROVE  FieldText(f) \in Seq(Symbols) /\ Len(FieldText(f)) \in Nat \ {0}
    OBVIOUS
  <2> DEFINE b == f.blanks
             v == Len(f.val)
             c == Opens(f)
  <2>1. Len(FieldText(f)) = b + v + 2 * c /\ FieldText(f) \in Seq(Symbols)
    BY FieldTextIs
  <2>2. b \in Nat /\ v \in Nat
    BY FieldIs
  <2>3. c \in {1, 2}
    BY DEF Opens
  <2> HIDE DEF b, v, c
  <2>4. b + v + 2 * c \in Nat \ {0}
    BY <2>2, <2>3
  <2>5. QED
    BY <2>1, <2>4
<1>3. \A k \in 1..N : FieldText(body[k]) \in Seq(Symbols) /\ Len(FieldText(body[k])) \in Nat \ {0}
  BY <1>1, <1>2
<1>4. /\ Before(body, 0) = << >>
      /\ \A k \in Nat : k < N =>
           /\ Before(body, k) \in Seq(Symbols)
           /\ Before(body, k + 1) = Before(body, k) \o FieldText(body[k + 1])
  BY TextGrows
<1>5. ASSUME NEW k \in 1..N
      PROVE  /\ Before(body, k) \in Seq(Symbols)
             /\ Len(Before(body, k)) = Len(Before(body, k - 1)) + Len(FieldText(body[k]))
  <2> DEFINE s == Before(body, k - 1)
             t == FieldText(body[k])
  <2>1. k - 1 \in Nat /\ k - 1 < N /\ (k - 1) + 1 = k
    BY <1>1
  <2>2. s \in Seq(Symbols) /\ Before(body, k) = s \o t
    BY <1>4, <2>1
  <2>3. s \in Seq(Symbols) /\ t \in Seq(Symbols)
    BY <1>3, <2>2
  <2> HIDE DEF s, t
  <2>4. s \o t \in Seq(Symbols) /\ Len(s \o t) = Len(s) + Len(t)
    BY <2>3
  <2>5. QED
    BY <2>2, <2>4 DEF s, t
<1>6. \A k \in 0..N : Before(body, k) \in Seq(Symbols) /\ Len(Before(body, k)) \in Nat
  <2>1. \A k \in 0..N : k = 0 \/ k \in 1..N
    BY <1>1
  <2>2. << >> \in Seq(Symbols)
    OBVIOUS
  <2>3. \A k \in 0..N : Before(body, k) \in Seq(Symbols)
    BY <1>4, <1>5, <2>1, <2>2
  <2>4. \A s \in Seq(Symbols) : Len(s) \in Nat
    OBVIOUS
  <2>5. QED
    BY <2>3, <2>4
<1>7. E = [k \in 0..N |-> Len(Before(body, k))]
  BY DEF Stops
<1>8. E \in [0..N -> Nat] /\ \A k \in 0..N : E[k] = Len(Before(body, k))
  BY <1>6, <1>7
<1>9. E[0] = 0
  <2>1. 0 \in 0..N /\ Len(<< >>) = 0
    BY <1>1
  <2>2. QED
    BY <1>4, <1>8, <2>1
<1>10. \A k \in 1..N : E[k] = E[k - 1] + Len(FieldText(body[k]))
  <2>1. \A k \in 1..N : k \in 0..N /\ k - 1 \in 0..N
    BY <1>1
  <2>2. QED
    BY <1>5, <1>8, <2>1
<1>11. QED
  BY <1>1, <1>3, <1>6, <1>8, <1>9, <1>10

LEMMA StopsGrow ==
    ASSUME NEW body \in Seq(Field)
    PROVE  LET N == Len(body)
               E == Stops(body)
           IN  /\ \A j, k \in 0..N : j < k => E[j] < E[k]
               /\ \A p \in Nat : 1 <= p /\ p <= E[N] =>
                    \E k \in 1..N : E[k - 1] < p /\ p <= E[k]
<1> DEFINE N == Len(body)
           E == Stops(body)
           l == [k \in 1..N |-> Len(FieldText(body[k]))]
<1>1. /\ N \in Nat /\ E \in [0..N -> Nat] /\ E[0] = 0
      /\ \A k \in 1..N : Len(FieldText(body[k])) \in Nat \ {0}
      /\ \A k \in 1..N : E[k] = E[k - 1] + Len(FieldText(body[k]))
  BY StopsAre
<1>2. l \in [1..N -> Nat \ {0}] /\ \A k \in 1..N : E[k] = E[k - 1] + l[k]
  BY <1>1
<1> HIDE DEF N, E, l
<1>3. QED
  BY <1>1, <1>2, Pieces DEF N, E

\* The text of a body holds the texts of its fields, in order.
LEMMA TextIs ==
    ASSUME NEW body \in Seq(Field)
    PROVE  LET N == Len(body)
               E == Stops(body)
               text == Text(body)
           IN  /\ text \in Seq(Symbols) /\ Len(text) = E[N]
               /\ \A k \in 1..N : \A u \in 1..Len(FieldText(body[k])) :
                    text[E[k - 1] + u] = FieldText(body[k])[u]
<1> DEFINE N == Len(body)
           E == Stops(body)
           x == [k \in 1..N |-> FieldText(body[k])]
           y == [k \in 0..N |-> Before(body, k)]
           P(m) == m <= N => \A k \in 1..m : \A u \in 1..Len(x[k]) : y[m][E[k - 1] + u] = x[k][u]
           T == {m \in Nat : P(m)}
<1>1. /\ N \in Nat /\ E \in [0..N -> Nat] /\ E[0] = 0
      /\ \A k \in 1..N : x[k] \in Seq(Symbols) /\ Len(x[k]) \in Nat \ {0}
      /\ \A k \in 1..N : E[k] = E[k - 1] + Len(x[k])
      /\ \A k \in 0..N : E[k] = Len(y[k]) /\ y[k] \in Seq(Symbols)
  BY StopsAre
<1>2. \A k \in 1..N : y[k] = y[k - 1] \o x[k]
  <2> SUFFICES ASSUME NEW k \in 1..N PROVE y[k] = y[k - 1] \o x[k]
    OBVIOUS
  <2>1. k - 1 \in Nat /\ k - 1 < N /\ (k - 1) + 1 = k /\ k - 1 \in 0..N /\ k \in 0..N
    BY <1>1
  <2>2. Before(body, k) = Before(body, k - 1) \o FieldText(body[k])
    BY <2>1, TextGrows
  <2>3. QED
    BY <2>1, <2>2
<1>3. y[N] = Text(body)
  <2>1. N \in 0..N
    BY <1>1
  <2>2. QED
    BY <2>1, TextGrows
<1>4. \A j, k \in 0..N : j < k => E[j] < E[k]
  BY StopsGrow
<1> HIDE DEF E, x, y
<1>5. P(0)
  OBVIOUS
<1>6. ASSUME NEW m \in Nat, P(m)
      PROVE  P(m + 1)
  <2> SUFFICES ASSUME m + 1 <= N, NEW k \in 1..(m + 1), NEW u \in 1..Len(x[k])
               PROVE  y[m + 1][E[k - 1] + u] = x[k][u]
    OBVIOUS
  <2>1. /\ m \in 0..N /\ m + 1 \in 1..N /\ (m + 1) - 1 = m /\ m <= N
        /\ k \in 1..N /\ k - 1 \in 0..N /\ k \in 0..N
    BY <1>1
  <2> DEFINE s == y[m]
             t == x[m + 1]
  <2>2. s \in Seq(Symbols) /\ t \in Seq(Symbols)
    BY <1>1, <2>1
  <2>3. y[m + 1] = s \o t /\ Len(s) = E[m]
    BY <1>1, <1>2, <2>1
  <2> HIDE DEF s, t
  <2>4. /\ Len(s) \in Nat /\ Len(t) \in Nat
        /\ \A j \in 1..Len(s) : (s \o t)[j] = s[j]
        /\ \A j \in 1..Len(t) : (s \o t)[Len(s) + j] = t[j]
    BY <2>2
  <2>5. CASE k = m + 1
    <3>1. u \in 1..Len(t) /\ k - 1 = m
      BY <2>1, <2>5 DEF t
    <3>2. (s \o t)[Len(s) + u] = t[u]
      BY <2>4, <3>1
    <3>3. QED
      BY <2>3, <2>5, <3>1, <3>2 DEF t
  <2>6. CASE k # m + 1
    <3>1. k \in 1..m /\ (k = m \/ k < m)
      BY <2>6
    <3>2. y[m][E[k - 1] + u] = x[k][u]
      BY <1>6, <2>1, <3>1
    <3>3. E[k] \in Nat /\ E[m] \in Nat /\ E[k - 1] \in Nat /\ Len(x[k]) \in Nat
      BY <1>1, <2>1
    <3>4. E[k] = E[k - 1] + Len(x[k])
      BY <1>1, <2>1
    <3>5. E[k] <= E[m]
      <4>1. k < m => E[k] < E[m]
        BY <1>4, <2>1
      <4>2. QED
        BY <3>1, <3>3, <4>1
    <3>6. E[k - 1] + u \in 1..E[m]
      <4>1. u \in Nat /\ 1 <= u /\ u <= Len(x[k])
        BY <3>3
      <4> HIDE DEF E
      <4>2. QED
        BY <3>3, <3>4, <3>5, <4>1
    <3>7. (s \o t)[E[k - 1] + u] = s[E[k - 1] + u]
      BY <2>3, <2>4, <3>6
    <3>8. QED
      BY <2>3, <3>2, <3>7 DEF s
  <2>7. QED
    BY <2>5, <2>6
<1>7. \A m \in Nat : P(m)
  <2> HIDE DEF P
  <2>1. 0 \in T /\ \A k \in Nat : k \in T => k + 1 \in T
    BY <1>5, <1>6
  <2>2. Nat \subseteq T
    <3> HIDE DEF T
    <3>1. QED
      BY <2>1, Induct
  <2>3. QED
    BY <2>2
<1>8. P(N)
  <2> HIDE DEF P
  <2>1. QED
    BY <1>1, <1>7
<1>9. N \in 0..N /\ N <= N
  BY <1>1
<1>10. QED
  BY <1>1, <1>3, <1>8, <1>9 DEF E, x

-----------------------------------------------------------------------------
(***************************************************************************)
(* The search.                                                             *)
(***************************************************************************)
LEMMA LeastIs ==
    ASSUME NEW S, S \subseteq Nat, NEW m \in S, \A y \in S : m <= y
    PROVE  Least(S) = m
<1> DEFINE Q(x) == x \in S /\ \A y \in S : x <= y
<1>1. Q(m)
  OBVIOUS
<1>2. Least(S) = CHOOSE x : Q(x)
  BY DEF Least
<1>3. Q(CHOOSE x : Q(x))
  BY <1>1
<1>4. Q(Least(S))
  BY <1>2, <1>3
<1>5. Least(S) \in Nat /\ m \in Nat /\ Least(S) <= m /\ m <= Least(S)
  BY <1>4
<1>6. QED
  BY <1>5

LEMMA LeastIn ==
    ASSUME NEW S, S \subseteq Nat, S # {}
    PROVE  Least(S) \in S /\ \A y \in S : Least(S) <= y
<1>1. PICK m \in S : \A y \in S : m <= y
  BY LeastNat
<1>2. Least(S) = m
  BY <1>1, LeastIs
<1>3. QED
  BY <1>1, <1>2

LEMMA LeastOfTwo ==
    ASSUME NEW a \in Nat, NEW b \in Nat
    PROVE  Least({a, b}) = IF a <= b THEN a ELSE b
<1> DEFINE m == IF a <= b THEN a ELSE b
<1>1. {a, b} \subseteq Nat /\ m \in {a, b} /\ \A y \in {a, b} : m <= y
  OBVIOUS
<1> HIDE DEF m
<1>2. Least({a, b}) = m
  BY <1>1, LeastIs
<1>3. QED
  BY <1>2 DEF m

LEMMA GreatestIs ==
    ASSUME NEW S, S \subseteq Nat, NEW m \in S, \A y \in S : y <= m
    PROVE  Greatest(S) = m
<1> DEFINE Q(x) == x \in S /\ \A y \in S : y <= x
<1>1. Q(m)
  OBVIOUS
<1>2. Greatest(S) = CHOOSE x : Q(x)
  BY DEF Greatest
<1>3. Q(CHOOSE x : Q(x))
  BY <1>1
<1>4. Q(Greatest(S))
  BY <1>2, <1>3
<1>5. Greatest(S) \in Nat /\ m \in Nat /\ m <= Greatest(S) /\ Greatest(S) <= m
  BY <1>4
<1>6. QED
  BY <1>5

LEMMA GreatestIn ==
    ASSUME NEW n \in Nat, NEW S, S \subseteq 0..n, S # {}
    PROVE  Greatest(S) \in S /\ \A y \in S : y <= Greatest(S)
<1> DEFINE D == {n - y : y \in S}
<1>1. D \subseteq Nat /\ D # {}
  <2>1. \A y \in S : n - y \in Nat
    OBVIOUS
  <2>2. PICK y \in S : TRUE
    OBVIOUS
  <2>3. n - y \in D
    OBVIOUS
  <2>4. QED
    BY <2>1, <2>3
<1>2. PICK d \in D : \A e \in D : d <= e
  BY <1>1, LeastNat
<1>3. PICK m \in S : d = n - m
  BY <1>2
<1>4. \A y \in S : y <= m
  <2> SUFFICES ASSUME NEW y \in S PROVE y <= m
    OBVIOUS
  <2>1. n - y \in D
    OBVIOUS
  <2>2. n - m <= n - y
    BY <1>2, <1>3, <2>1
  <2>3. m \in Nat /\ y \in Nat
    OBVIOUS
  <2>4. QED
    BY <2>2, <2>3
<1>5. Greatest(S) = m
  <2>1. S \subseteq Nat
    OBVIOUS
  <2>2. QED
    BY <1>4, <2>1, GreatestIs
<1>6. QED
  BY <1>4, <1>5

LEMMA Sizes ==
    /\ IE_SCAN_MAX \in Nat \ {0} /\ IE_STR_MAX \in Nat \ {0} /\ SBI_BODY_MAX \in Nat \ {0}
    /\ IE_SCAN_MAX + IE_STR_MAX + 10 < SBI_BODY_MAX
<1>1. IE_SCAN_MAX \in Nat \ {0} /\ IE_STR_MAX \in Nat \ {0} /\ SBI_BODY_MAX \in Nat \ {0}
      /\ IE_SCAN_MAX + 2 < SBI_BODY_MAX - IE_STR_MAX - 8
  BY FuncLoadAssumption
<1>2. QED
  BY <1>1

\* A text that has, from pos on, the text of a field, as far as it goes.
Holds(text, pos, f) ==
    /\ text \in Seq(Symbols) /\ pos \in Nat /\ 1 <= pos /\ pos <= IE_SCAN_MAX
    /\ \A j \in Nat : j < Len(FieldText(f)) =>
         /\ pos + j <= Len(text) => text[pos + j] = FieldText(f)[j + 1]
         /\ j <= IE_STR_MAX + 6 => pos + j <= Len(text)

LEMMA ExtractIs ==
    ASSUME NEW f \in Field, NEW text, NEW pos, Holds(text, pos, f)
    PROVE  json_extract_str(text, pos) =
             IF f.quoted /\ f.blanks <= 4
               THEN SubSeq(f.val, 1, Least({IE_STR_MAX - 1, Len(f.val)}))
             ELSE << >>
<1> DEFINE x == FieldText(f)
           len == Len(x)
           last == Len(text)
           b == f.blanks
           val == f.val
           v == Len(val)
           c == Opens(f)
           G == {n \in 0..4 : pos + n <= Len(text) /\ \A k \in 1..n : text[pos + k] = " "}
           g == Greatest(G)
           q == pos + g + 1
           W == {m \in 0..IE_STR_MAX : q + m <= Len(text)
                                       /\ \A k \in 1..m : text[q + k] # "quote"}
           n == Greatest(W)
           cnt == Least({n, IE_STR_MAX - 1})
<1>1. /\ \A k \in 1..b : x[k + 1] = " "
      /\ f.quoted => x[b + 2] = "quote" /\ x[b + v + 3] = "quote"
      /\ \A k \in 1..v : x[b + c + k] = val[k]
      /\ x[b + v + 2 * c] = ","
  BY FieldTextIs
<1>2. len = b + v + 2 * c
  BY FieldTextIs
<1>3. b \in Nat /\ v \in Nat /\ f.quoted \in BOOLEAN
  BY FieldIs
<1>4. val \in Seq(Symbols) /\ \A k \in 1..v : val[k] # "quote"
  BY FieldIs
<1>5. (f.quoted => c = 2) /\ (~f.quoted => c = 1)
  BY DEF Opens
<1>6. ~f.quoted => \A k \in Nat : 1 <= k /\ k <= len => x[k] # "quote"
  BY FieldSymbols
<1>7. /\ \A j \in Nat : j < len /\ pos + j <= last => text[pos + j] = x[j + 1]
      /\ \A j \in Nat : j < len /\ j <= IE_STR_MAX + 6 => pos + j <= last
  BY DEF Holds
<1>8. text \in Seq(Symbols) /\ last \in Nat
  BY DEF Holds
<1>9. /\ pos \in Nat /\ 1 <= pos
      /\ IE_STR_MAX \in Nat /\ 1 <= IE_STR_MAX /\ SBI_BODY_MAX \in Nat
      /\ pos + IE_STR_MAX + 10 < SBI_BODY_MAX
  BY Sizes DEF Holds
<1>10. json_extract_str(text, pos) =
         IF pos >= SBI_BODY_MAX - IE_STR_MAX - 8 \/ q > last \/ text[q] # "quote"
           THEN << >> ELSE SubSeq(text, q + 1, q + cnt)
  BY DEF json_extract_str
<1>11. ~(pos >= SBI_BODY_MAX - IE_STR_MAX - 8)
  BY <1>9
<1> HIDE DEF x, len, b, v, c, val
<1>12. G \subseteq 0..4 /\ 0 \in G
  <2>1. 0 < len /\ 0 <= IE_STR_MAX + 6 /\ pos + 0 = pos
    BY <1>2, <1>3, <1>5, <1>9
  <2>2. pos <= Len(text)
    BY <1>7, <2>1
  <2>3. \A k \in 1..0 : FALSE
    OBVIOUS
  <2>4. 0 \in 0..4 /\ pos + 0 <= Len(text) /\ \A k \in 1..0 : text[pos + k] = " "
    BY <2>1, <2>2, <2>3
  <2>5. 0 \in G
    BY <2>4, Zenon
  <2>6. \A m \in G : m \in 0..4
    BY Zenon
  <2> HIDE DEF G
  <2>7. QED
    BY <2>5, <2>6
<1>13. g \in G /\ \A y \in G : y <= g
  <2> HIDE DEF G
  <2>1. G \subseteq 0..4 /\ G # {}
    BY <1>12
  <2>2. QED
    BY <2>1, GreatestIn
<1> HIDE DEF g
<1>14. \A k \in 1..g : text[pos + k] = " "
  BY <1>13
<1>15. g \in 0..4 /\ pos + g <= last
  BY <1>13
<1>16. g \in Nat /\ g <= 4 /\ pos + g <= last
  <2> HIDE DEF last
  <2>1. QED
    BY <1>15
<1>17. ASSUME g + 1 \in 0..4, pos + (g + 1) <= last, text[pos + (g + 1)] = " "
       PROVE  FALSE
  <2>1. g \in Nat /\ \A k \in 1..(g + 1) : k \in 1..g \/ k = g + 1
    BY <1>16
  <2>2. \A k \in 1..(g + 1) : text[pos + k] = " "
    BY <1>14, <1>17, <2>1, Zenon
  <2>3. g + 1 \in G
    BY <1>17, <2>2
  <2> HIDE DEF G
  <2>4. QED
    BY <1>13, <2>1, <2>3
<1> HIDE DEF G, last
<1>18. CASE ~f.quoted
  <2>1. ASSUME b + v + 1 <= g
        PROVE  FALSE
    <3> DEFINE j == b + v + 1
    <3>1. j \in Nat /\ j < len /\ j \in 1..g /\ pos + j <= last /\ j + 1 = b + v + 2 * c
      BY <1>2, <1>3, <1>5, <1>8, <1>9, <1>16, <1>18, <2>1
    <3> HIDE DEF j
    <3>2. text[pos + j] = " " /\ text[pos + j] = x[j + 1]
      BY <1>7, <1>14, <3>1
    <3>3. QED
      BY <1>1, <3>1, <3>2
  <2>2. g <= b + v
    BY <1>3, <1>16, <2>1
  <2>3. CASE q > last
    <3>1. json_extract_str(text, pos) = << >>
      BY <1>10, <2>3
    <3>2. QED
      BY <1>18, <3>1
  <2>4. CASE ~(q > last)
    <3> DEFINE j == g + 1
    <3>1. /\ j \in Nat /\ j < len /\ pos + j = q /\ pos + j <= last
          /\ j + 1 \in Nat /\ 1 <= j + 1 /\ j + 1 <= len
      BY <1>2, <1>3, <1>5, <1>8, <1>9, <1>16, <1>18, <2>2, <2>4
    <3> HIDE DEF j, q
    <3>2. text[q] = x[j + 1]
      BY <1>7, <3>1
    <3>3. x[j + 1] # "quote"
      BY <1>6, <1>18, <3>1
    <3>4. json_extract_str(text, pos) = << >>
      BY <1>10, <3>2, <3>3
    <3>5. QED
      BY <1>18, <3>4
  <2>5. QED
    BY <2>3, <2>4
<1>19. ASSUME f.quoted, NEW j \in Nat, j <= b + v + 3, pos + j <= last
       PROVE  text[pos + j] = x[j + 1]
  <2>1. j < len
    BY <1>2, <1>3, <1>5, <1>19
  <2>2. QED
    BY <1>7, <1>19, <2>1
<1>20. ASSUME f.quoted, NEW j \in Nat, j <= b + v + 3, j <= IE_STR_MAX + 6
       PROVE  pos + j <= last
  <2>1. j < len
    BY <1>2, <1>3, <1>5, <1>20
  <2>2. QED
    BY <1>7, <1>20, <2>1
<1>21. ASSUME f.quoted
       PROVE  g = b \/ (g = 4 /\ 4 < b)
  <2>1. ASSUME b + 1 <= g
        PROVE  FALSE
    <3> DEFINE j == b + 1
    <3>1. j \in Nat /\ j <= b + v + 3 /\ j \in 1..g /\ pos + j <= last /\ j + 1 = b + 2
      BY <1>3, <1>8, <1>9, <1>16, <2>1
    <3> HIDE DEF j
    <3>2. text[pos + j] = " " /\ text[pos + j] = x[j + 1]
      BY <1>14, <1>19, <1>21, <3>1
    <3>3. QED
      BY <1>1, <1>21, <3>1, <3>2
  <2>2. ASSUME g < 4, g < b
        PROVE  FALSE
    <3> DEFINE j == g + 1
    <3>1. /\ j \in 0..4 /\ j \in Nat /\ j <= b + v + 3 /\ j <= IE_STR_MAX + 6 /\ j \in 1..b
      BY <1>3, <1>9, <1>16, <2>2
    <3>2. pos + j <= last
      <4> HIDE DEF j
      <4>1. QED
        BY <1>20, <1>21, <3>1
    <3>3. text[pos + j] = x[j + 1] /\ x[j + 1] = " "
      <4> HIDE DEF j
      <4>1. QED
        BY <1>1, <1>19, <1>21, <3>1, <3>2
    <3>4. QED
      BY <1>17, <3>1, <3>2, <3>3
  <2>3. QED
    BY <1>3, <1>16, <2>1, <2>2
<1>22. CASE f.quoted /\ 4 < b
  <2>1. g = 4 /\ q = pos + 5
    BY <1>3, <1>9, <1>16, <1>21, <1>22
  <2>2. 5 \in Nat /\ 5 <= b + v + 3 /\ 5 <= IE_STR_MAX + 6 /\ 5 \in 1..b /\ 5 + 1 = 6
    BY <1>3, <1>9, <1>22
  <2>3. pos + 5 <= last
    BY <1>20, <1>22, <2>2
  <2>4. text[pos + 5] = x[5 + 1] /\ x[5 + 1] = " "
    BY <1>1, <1>19, <1>22, <2>2, <2>3
  <2> HIDE DEF q
  <2>5. json_extract_str(text, pos) = << >>
    <3>1. text[q] # "quote"
      BY <2>1, <2>4
    <3>2. QED
      BY <1>10, <3>1
  <2>6. ~(f.blanks <= 4)
    BY <1>3, <1>22 DEF b
  <2>7. QED
    BY <2>5, <2>6
<1>23. CASE f.quoted /\ b <= 4
  <2>1. g = b /\ q = pos + (b + 1) /\ q \in Nat
    BY <1>3, <1>9, <1>21, <1>23
  <2>2. /\ b + 1 \in Nat /\ b + 1 <= b + v + 3 /\ b + 1 <= IE_STR_MAX + 6 /\ (b + 1) + 1 = b + 2
    BY <1>3, <1>9, <1>23
  <2>3. q <= last
    BY <1>20, <1>23, <2>1, <2>2
  <2>4. text[q] = "quote"
    <3>1. text[pos + (b + 1)] = x[(b + 1) + 1]
      BY <1>19, <1>23, <2>1, <2>2, <2>3
    <3>2. QED
      BY <1>1, <1>23, <2>1, <2>2, <3>1
  <2> DEFINE top == IF v <= IE_STR_MAX THEN v ELSE IE_STR_MAX
  <2>5. top \in Nat /\ top <= v /\ top <= IE_STR_MAX /\ (top = v \/ top = IE_STR_MAX)
    BY <1>3, <1>9
  <2> HIDE DEF q, top
  <2>6. q + top <= last
    <3> DEFINE j == b + 1 + top
    <3>1. j \in Nat /\ j <= b + v + 3 /\ j <= IE_STR_MAX + 6 /\ pos + j = q + top
      BY <1>3, <1>9, <1>23, <2>1, <2>5
    <3> HIDE DEF j
    <3>2. QED
      BY <1>20, <1>23, <3>1
  <2>7. ASSUME NEW k \in 1..top
        PROVE  text[q + k] = val[k] /\ k \in 1..v
    <3> DEFINE j == b + 1 + k
    <3>1. j \in Nat /\ j <= b + v + 3 /\ pos + j = q + k /\ pos + j <= last
          /\ j + 1 = b + c + k /\ k \in 1..v
      BY <1>3, <1>5, <1>8, <1>9, <1>23, <2>1, <2>5, <2>6
    <3> HIDE DEF j
    <3>2. text[pos + j] = x[j + 1]
      BY <1>19, <1>23, <3>1
    <3>3. QED
      BY <1>1, <3>1, <3>2
  <2>8. top \in W
    <3>1. \A k \in 1..top : text[q + k] # "quote"
      BY <1>4, <2>7
    <3>2. top \in 0..IE_STR_MAX
      BY <1>9, <2>5
    <3>3. QED
      BY <2>6, <3>1, <3>2 DEF last
  <2>9. W \subseteq Nat /\ \A m \in W : m \in 0..IE_STR_MAX /\ q + m <= last
                                    /\ \A k \in 1..m : text[q + k] # "quote"
    BY <1>9 DEF last
  <2> HIDE DEF W
  <2>10. ASSUME NEW m \in W, m > top
         PROVE  FALSE
    <3> DEFINE j == b + v + 2
    <3>1. m \in 0..IE_STR_MAX /\ q + m <= last
      BY <2>9
    <3>2. top = v /\ v + 1 \in 1..m
      BY <1>3, <1>9, <2>5, <2>10, <3>1
    <3>3. j \in Nat /\ j <= b + v + 3 /\ pos + j = q + (v + 1) /\ pos + j <= last
          /\ j + 1 = b + v + 3
      BY <1>3, <1>8, <1>9, <2>1, <3>1, <3>2
    <3> HIDE DEF j
    <3>4. text[pos + j] = x[j + 1]
      BY <1>19, <1>23, <3>3
    <3>5. text[q + (v + 1)] # "quote"
      BY <2>9, <3>2
    <3>6. QED
      BY <1>1, <1>23, <3>3, <3>4, <3>5
  <2>11. n = top
    <3>1. \A m \in W : m <= top
      BY <2>5, <2>9, <2>10
    <3>2. QED
      BY <2>8, <2>9, <3>1, GreatestIs
  <2> HIDE DEF n
  <2> DEFINE w == Least({IE_STR_MAX - 1, v})
  <2>12. cnt = w /\ cnt \in Nat /\ cnt <= top
    <3>1. IE_STR_MAX - 1 \in Nat /\ n \in Nat
      BY <1>9, <2>5, <2>11
    <3>2. /\ cnt = IF n <= IE_STR_MAX - 1 THEN n ELSE IE_STR_MAX - 1
          /\ w = IF IE_STR_MAX - 1 <= v THEN IE_STR_MAX - 1 ELSE v
      BY <1>3, <3>1, LeastOfTwo
    <3> HIDE DEF cnt, w
    <3>3. CASE v <= IE_STR_MAX
      <4>1. top = v
        BY <3>3 DEF top
      <4>2. QED
        BY <1>3, <1>9, <2>11, <3>2, <3>3, <4>1
    <3>4. CASE ~(v <= IE_STR_MAX)
      <4>1. top = IE_STR_MAX
        BY <3>4 DEF top
      <4>2. QED
        BY <1>3, <1>9, <2>11, <3>2, <3>4, <4>1
    <3>5. QED
      BY <3>3, <3>4
  <2> HIDE DEF cnt, w
  <2>13. SubSeq(text, q + 1, q + cnt) = SubSeq(val, 1, cnt)
    <3>1. SubSeq(text, q + 1, q + cnt) = [u \in 1..cnt |-> text[q + u]]
      <4> DEFINE lo == q + 1
                 hi == q + cnt
      <4>1. SubSeq(text, lo, hi) = [u \in 1..(hi - lo + 1) |-> text[u + lo - 1]]
        <5>1. lo \in Int /\ hi \in Int
          BY <2>1, <2>12
        <5>2. text \in Seq(Symbols)
          BY <1>8
        <5> HIDE DEF lo, hi
        <5>3. QED
          BY <5>1, <5>2
      <4>2. (q + cnt) - (q + 1) + 1 = cnt /\ \A u \in 1..cnt : u + (q + 1) - 1 = q + u
        BY <2>1, <2>12
      <4>3. QED
        BY <4>1, <4>2
    <3>2. SubSeq(val, 1, cnt) = [u \in 1..cnt |-> val[u]]
      <4>1. SubSeq(val, 1, cnt) = [u \in 1..(cnt - 1 + 1) |-> val[u + 1 - 1]]
        BY <1>4, <2>12
      <4>2. cnt - 1 + 1 = cnt /\ \A u \in 1..cnt : u + 1 - 1 = u
        BY <2>12
      <4>3. QED
        BY <4>1, <4>2
    <3>3. \A u \in 1..cnt : text[q + u] = val[u]
      <4>1. \A u \in 1..cnt : u \in 1..top
        BY <2>5, <2>12
      <4>2. QED
        BY <2>7, <4>1
    <3>4. QED
      BY <3>1, <3>2, <3>3
  <2>14. json_extract_str(text, pos) = SubSeq(text, q + 1, q + cnt)
    <3>1. ~(q > last)
      BY <1>8, <2>1, <2>3
    <3>2. QED
      BY <1>10, <1>11, <2>4, <3>1 DEF q, cnt, n, W, last
  <2>15. f.quoted /\ f.blanks <= 4
    BY <1>23 DEF b
  <2>16. QED
    BY <2>12, <2>13, <2>14, <2>15 DEF w, v, val
<1>24. b <= 4 \/ 4 < b
  BY <1>3
<1>25. QED
  BY <1>3, <1>18, <1>22, <1>23, <1>24

\* What is copied of a text.
Copied(body) == SubSeq(Text(body), 1, Least({Len(Text(body)), SBI_BODY_MAX}))

LEMMA CopiedIs ==
    ASSUME NEW body \in Seq(Field)
    PROVE  LET whole == Text(body)
               text == Copied(body)
           IN  /\ text \in Seq(Symbols) /\ Len(text) <= Len(whole)
               /\ \A p \in Nat : p <= Len(whole) /\ p <= SBI_BODY_MAX => p <= Len(text)
               /\ \A p \in Nat : 1 <= p /\ p <= Len(text) => text[p] = whole[p]
<1> DEFINE whole == Text(body)
           m == Least({Len(whole), SBI_BODY_MAX})
           text == SubSeq(whole, 1, m)
<1>1. whole \in Seq(Symbols)
  BY TextIs
<1>2. Len(whole) \in Nat /\ SBI_BODY_MAX \in Nat
  BY <1>1, Sizes
<1>3. Copied(body) = text
  BY DEF Copied
<1>4. m = IF Len(whole) <= SBI_BODY_MAX THEN Len(whole) ELSE SBI_BODY_MAX
  BY <1>2, LeastOfTwo
<1> HIDE DEF m, whole
<1>5. /\ m \in Nat /\ m <= Len(whole)
      /\ \A p \in Nat : p <= Len(whole) /\ p <= SBI_BODY_MAX => p <= m
  BY <1>2, <1>4
<1>6. text \in Seq(Symbols) /\ Len(text) = m /\ \A p \in 1..m : text[p] = whole[p]
  BY <1>1, <1>5
<1> HIDE DEF text
<1>7. \A p \in Nat : 1 <= p /\ p <= m => text[p] = whole[p]
  BY <1>5, <1>6
<1>8. QED
  BY <1>3, <1>5, <1>6, <1>7 DEF whole

\* A key that is searched begins a field, wherever it stands.
LEMMA KeysBegin ==
    ASSUME NEW body \in Seq(Field)
    PROVE  LET N == Len(body)
               E == Stops(body)
               whole == Text(body)
           IN  /\ \A k \in 1..N : whole[E[k - 1] + 1] = body[k].key
               /\ \A p \in Nat : 1 <= p /\ p <= E[N] /\ whole[p] \in sbi_ie_keys =>
                    \E k \in 1..N : p = E[k - 1] + 1
<1> DEFINE N == Len(body)
           E == Stops(body)
           whole == Text(body)
           x == [k \in 1..N |-> FieldText(body[k])]
<1>1. \A k \in 1..N : \A u \in 1..Len(x[k]) : whole[E[k - 1] + u] = x[k][u]
  BY TextIs
<1>2. /\ N \in Nat /\ E \in [0..N -> Nat]
      /\ \A k \in 1..N : E[k] = E[k - 1] + Len(x[k]) /\ Len(x[k]) \in Nat \ {0}
  BY StopsAre
<1>3. \A k \in 1..N : body[k] \in Field
  BY StopsAre
<1>4. \A p \in Nat : 1 <= p /\ p <= E[N] => \E k \in 1..N : E[k - 1] < p /\ p <= E[k]
  BY StopsGrow
<1>5. ASSUME NEW k \in 1..N
      PROVE  /\ x[k][1] = body[k].key
             /\ \A u \in Nat : 1 <= u /\ u <= Len(x[k]) /\ u # 1 => x[k][u] \notin sbi_ie_keys
  <2> DEFINE f == body[k]
  <2>1. f \in Field /\ x[k] = FieldText(f)
    BY <1>3
  <2> HIDE DEF f, x
  <2>2. FieldText(f)[1] = f.key
    BY <2>1, FieldTextIs
  <2>3. \A u \in Nat : 1 <= u /\ u <= Len(FieldText(f)) /\ u # 1 =>
          FieldText(f)[u] \notin sbi_ie_keys
    BY <2>1, FieldSymbols
  <2>4. QED
    BY <2>1, <2>2, <2>3 DEF f
<1> HIDE DEF x, E, whole, N
<1>6. ASSUME NEW k \in 1..N
      PROVE  whole[E[k - 1] + 1] = body[k].key
  <2>1. 1 \in 1..Len(x[k])
    BY <1>2
  <2>2. whole[E[k - 1] + 1] = x[k][1]
    BY <1>1, <2>1
  <2>3. QED
    BY <1>5, <2>2
<1>7. ASSUME NEW p \in Nat, 1 <= p, p <= E[N], whole[p] \in sbi_ie_keys
      PROVE  \E k \in 1..N : p = E[k - 1] + 1
  <2>1. PICK k \in 1..N : E[k - 1] < p /\ p <= E[k]
    BY <1>4, <1>7
  <2> DEFINE u == p - E[k - 1]
  <2>2. E[k - 1] \in Nat /\ E[k] = E[k - 1] + Len(x[k]) /\ Len(x[k]) \in Nat
    <3>1. k - 1 \in 0..N
      BY <1>2
    <3>2. QED
      BY <1>2, <3>1
  <2>3. /\ u \in Nat /\ 1 <= u /\ u <= Len(x[k]) /\ E[k - 1] + u = p
        /\ u \in 1..Len(x[k])
    BY <2>1, <2>2
  <2> HIDE DEF u
  <2>4. whole[p] = x[k][u]
    BY <1>1, <2>3
  <2>5. u = 1
    BY <1>5, <1>7, <2>3, <2>4
  <2>6. QED
    BY <2>3, <2>5
<1>8. QED
  BY <1>6, <1>7 DEF N, E, whole

Hits(body, key) == {k \in DOMAIN body : body[k].key = key}

\* json_find_key() finds the first field of that name, if it begins in time.
LEMMA FindIs ==
    ASSUME NEW body \in Seq(Field), NEW key \in sbi_ie_keys
    PROVE  LET hits == Hits(body, key)
               start == Stops(body)[Least(hits) - 1]
               found == json_find_key(Copied(body), key)
           IN  IF hits # {} /\ start < IE_SCAN_MAX THEN found = start + 1 ELSE found = 0
<1> DEFINE N == Len(body)
           E == Stops(body)
           whole == Text(body)
           text == Copied(body)
           hits == Hits(body, key)
           H == {p \in 1..Len(text) : p <= IE_SCAN_MAX /\ text[p] = key}
<1>1. json_find_key(text, key) = IF H = {} THEN 0 ELSE Least(H)
  BY DEF json_find_key
<1>2. /\ N \in Nat /\ E \in [0..N -> Nat] /\ \A k \in 1..N : Len(FieldText(body[k])) \in Nat \ {0}
      /\ \A k \in 1..N : E[k] = E[k - 1] + Len(FieldText(body[k]))
  BY StopsAre
<1>3. \A j, k \in 0..N : j < k => E[j] < E[k]
  BY StopsGrow
<1>4. /\ \A k \in 1..N : whole[E[k - 1] + 1] = body[k].key
      /\ \A p \in Nat : 1 <= p /\ p <= E[N] /\ whole[p] \in sbi_ie_keys =>
           \E k \in 1..N : p = E[k - 1] + 1
  BY KeysBegin
<1>5. Len(whole) = E[N]
  BY TextIs
<1>6. /\ Len(text) <= Len(whole)
      /\ \A p \in Nat : p <= Len(whole) /\ p <= SBI_BODY_MAX => p <= Len(text)
      /\ \A p \in Nat : 1 <= p /\ p <= Len(text) => text[p] = whole[p]
  BY CopiedIs
<1>7. Len(text) \in Nat
  <2>1. text \in Seq(Symbols)
    BY CopiedIs
  <2>2. QED
    BY <2>1
<1>8. IE_SCAN_MAX \in Nat /\ SBI_BODY_MAX \in Nat /\ IE_SCAN_MAX <= SBI_BODY_MAX
  BY Sizes
<1>9. hits \subseteq 1..N /\ \A k \in 1..N : k \in hits <=> body[k].key = key
  BY DEF Hits
<1> HIDE DEF E, whole, text, hits, N
<1>10. \A k \in 1..N : E[k - 1] \in Nat
  <2>1. \A k \in 1..N : k - 1 \in 0..N
    BY <1>2
  <2>2. QED
    BY <1>2, <2>1
<1>11. ASSUME NEW p \in H
       PROVE  \E k \in hits : p = E[k - 1] + 1 /\ p <= IE_SCAN_MAX
  <2>1. p \in Nat /\ 1 <= p /\ p <= Len(text) /\ p <= IE_SCAN_MAX /\ text[p] = key
    BY <1>7
  <2>2. whole[p] = key /\ p <= E[N]
    <3>1. E[N] \in Nat
      BY <1>2
    <3>2. QED
      BY <1>5, <1>6, <1>7, <2>1, <3>1
  <2>3. PICK k \in 1..N : p = E[k - 1] + 1
    BY <1>4, <2>1, <2>2
  <2>4. body[k].key = key
    BY <1>4, <2>2, <2>3
  <2>5. k \in hits
    BY <1>9, <2>4
  <2>6. QED
    BY <2>1, <2>3, <2>5
<1>12. CASE hits = {}
  <2>1. H = {}
    <3> HIDE DEF H
    <3>1. QED
      BY <1>11, <1>12
  <2>2. QED
    BY <1>1, <1>12, <2>1 DEF hits, text, E
<1>13. CASE hits # {}
  <2> DEFINE k0 == Least(hits)
             start == E[k0 - 1]
  <2>1. k0 \in hits /\ \A k \in hits : k0 <= k
    <3>1. hits \subseteq Nat
      BY <1>2, <1>9
    <3>2. QED
      BY <1>13, <3>1, LeastIn
  <2> HIDE DEF k0
  <2>2. k0 \in 1..N /\ k0 \in Nat /\ k0 - 1 \in 0..N
    BY <1>2, <1>9, <2>1
  <2>3. start \in Nat
    BY <1>10, <2>2
  <2>4. ASSUME NEW k \in hits
        PROVE  start <= E[k - 1]
    <3>1. k \in 1..N /\ k \in Nat /\ k - 1 \in 0..N /\ (k0 - 1 = k - 1 \/ k0 - 1 < k - 1)
      BY <1>2, <1>9, <2>1, <2>2
    <3>2. k0 - 1 < k - 1 => start < E[k - 1]
      BY <1>3, <2>2, <3>1
    <3>3. E[k - 1] \in Nat
      BY <1>10, <3>1
    <3> HIDE DEF start
    <3>4. CASE k0 - 1 = k - 1
      BY <2>3, <3>4 DEF start
    <3>5. QED
      BY <2>3, <3>1, <3>2, <3>3, <3>4
  <2>5. ASSUME NEW p \in H
        PROVE  start + 1 <= p /\ p <= IE_SCAN_MAX /\ p \in Nat
    <3>1. PICK k \in hits : p = E[k - 1] + 1 /\ p <= IE_SCAN_MAX
      BY <1>11
    <3>2. E[k - 1] \in Nat /\ start <= E[k - 1]
      BY <1>9, <1>10, <2>4
    <3> HIDE DEF start, H
    <3>3. QED
      BY <2>3, <3>1, <3>2
  <2>6. CASE start < IE_SCAN_MAX
    <3> DEFINE p0 == start + 1
    <3>1. p0 \in Nat /\ 1 <= p0 /\ p0 <= IE_SCAN_MAX /\ p0 <= SBI_BODY_MAX
      BY <1>8, <2>3, <2>6
    <3>2. p0 <= Len(whole)
      <4>1. /\ E[k0] = start + Len(FieldText(body[k0])) /\ Len(FieldText(body[k0])) \in Nat \ {0}
            /\ E[k0] \in Nat
        BY <1>2, <2>2
      <4>2. E[k0] <= E[N] /\ E[N] \in Nat
        <5>1. k0 \in 0..N /\ N \in 0..N /\ (k0 = N \/ k0 < N)
          BY <1>2, <2>2
        <5>2. k0 < N => E[k0] < E[N]
          BY <1>3, <5>1
        <5>3. E[N] \in Nat
          BY <1>2, <5>1
        <5>4. QED
          BY <4>1, <5>1, <5>2, <5>3
      <4> HIDE DEF start
      <4>3. QED
        BY <1>5, <2>3, <4>1, <4>2
    <3>3. p0 <= Len(text)
      <4> HIDE DEF p0
      <4>1. QED
        BY <1>6, <3>1, <3>2
    <3>4. text[p0] = key
      <4>1. whole[p0] = key
        BY <1>4, <1>9, <2>1, <2>2
      <4> HIDE DEF p0
      <4>2. QED
        BY <1>6, <3>1, <3>3, <4>1
    <3>5. p0 \in H
      <4> HIDE DEF p0
      <4>1. p0 \in 1..Len(text)
        BY <1>7, <3>1, <3>3
      <4>2. QED
        BY <3>1, <3>4, <4>1
    <3>6. H \subseteq Nat /\ \A p \in H : p0 <= p
      <4> HIDE DEF H
      <4>1. QED
        BY <2>5
    <3> HIDE DEF H, p0
    <3>7. Least(H) = p0
      BY <3>5, <3>6, LeastIs
    <3>8. json_find_key(text, key) = p0
      BY <1>1, <3>5, <3>7
    <3>9. QED
      BY <1>13, <2>6, <3>8 DEF p0, start, k0, E, hits, text
  <2>7. CASE ~(start < IE_SCAN_MAX)
    <3>1. H = {}
      <4> HIDE DEF H, start
      <4>1. \A p \in H : FALSE
        BY <1>8, <2>3, <2>5, <2>7
      <4>2. QED
        BY <4>1
    <3>2. json_find_key(text, key) = 0
      BY <1>1, <3>1
    <3>3. QED
      BY <2>7, <3>2 DEF start, k0, E, hits, text
  <2>8. QED
    BY <2>6, <2>7
<1>14. QED
  BY <1>12, <1>13

\* From the key it finds on, the copied text has the field, as far as it is searched.
LEMMA FieldHolds ==
    ASSUME NEW body \in Seq(Field), NEW k \in 1..Len(body), Stops(body)[k - 1] < IE_SCAN_MAX
    PROVE  Holds(Copied(body), Stops(body)[k - 1] + 1, body[k])
<1> DEFINE N == Len(body)
           E == Stops(body)
           whole == Text(body)
           text == Copied(body)
           x == FieldText(body[k])
           start == E[k - 1]
           pos == start + 1
<1>1. N \in Nat /\ E \in [0..N -> Nat]
  BY StopsAre
<1>2. E[k] = E[k - 1] + Len(x) /\ Len(x) \in Nat
  BY StopsAre
<1>3. \A u \in 1..Len(x) : whole[start + u] = x[u]
  BY TextIs
<1>4. Len(whole) = E[N]
  BY TextIs
<1>5. \A j, m \in 0..N : j < m => E[j] < E[m]
  BY StopsGrow
<1>6. /\ text \in Seq(Symbols)
      /\ \A p \in Nat : p <= Len(whole) /\ p <= SBI_BODY_MAX => p <= Len(text)
      /\ \A p \in Nat : 1 <= p /\ p <= Len(text) => text[p] = whole[p]
  BY CopiedIs
<1>7. /\ IE_SCAN_MAX \in Nat /\ IE_STR_MAX \in Nat /\ SBI_BODY_MAX \in Nat
      /\ IE_SCAN_MAX + IE_STR_MAX + 10 < SBI_BODY_MAX
  BY Sizes
<1>8. start \in Nat /\ start < IE_SCAN_MAX /\ E[k] \in Nat /\ E[k] <= E[N] /\ E[N] \in Nat
  <2>1. k \in 0..N /\ k - 1 \in 0..N /\ N \in 0..N /\ (k = N \/ k < N)
    BY <1>1
  <2> HIDE DEF E, N
  <2>2. E[k] \in Nat /\ E[k - 1] \in Nat /\ E[N] \in Nat /\ (k < N => E[k] < E[N])
    BY <1>1, <1>5, <2>1
  <2>3. E[k - 1] < IE_SCAN_MAX
    BY DEF E
  <2>4. QED
    BY <2>1, <2>2, <2>3
<1> HIDE DEF start, whole, text, x, E, N
<1>9. pos \in Nat /\ 1 <= pos /\ pos <= IE_SCAN_MAX
  BY <1>7, <1>8
<1>10. ASSUME NEW j \in Nat, j < Len(x)
       PROVE  /\ pos + j <= Len(text) => text[pos + j] = x[j + 1]
              /\ j <= IE_STR_MAX + 6 => pos + j <= Len(text)
  <2> DEFINE p == pos + j
             u == j + 1
  <2>1. p \in Nat /\ 1 <= p /\ u \in 1..Len(x) /\ start + u = p
    BY <1>2, <1>8, <1>10
  <2>2. E[k] = start + Len(x)
    BY <1>2 DEF start
  <2>3. p <= Len(whole)
    BY <1>2, <1>4, <1>8, <1>10, <2>2
  <2>4. j <= IE_STR_MAX + 6 => p <= SBI_BODY_MAX
    BY <1>7, <1>8
  <2> HIDE DEF p, u
  <2>5. p <= Len(text) => text[p] = x[u]
    BY <1>3, <1>6, <2>1
  <2>6. j <= IE_STR_MAX + 6 => p <= Len(text)
    BY <1>6, <2>1, <2>3, <2>4
  <2>7. QED
    BY <2>5, <2>6 DEF p, u
<1>11. QED
  BY <1>6, <1>9, <1>10 DEF Holds, pos, start, text, x, E

\* sbi_parse_ies() does what the reference definition says.
LEMMA ParsedIs ==
    ASSUME NEW body \in Bodies, NEW key \in sbi_ie_keys
    PROVE  Parsed[body][key] = Expected(body, key)
<1> DEFINE text == Copied(body)
           hits == Hits(body, key)
           k == Least(hits)
           f == body[k]
           start == Stops(body)[k - 1]
           pos == json_find_key(text, key)
           shown_ie == IF pos = 0 THEN << >> ELSE json_extract_str(text, pos)
<1>1. body \in Seq(Field)
  BY BodiesAssumption
<1>2. Parsed[body][key] = shown_ie
  BY DEF Parsed, Copied, sbi_parse_ies
<1>3. IF hits # {} /\ start < IE_SCAN_MAX THEN pos = start + 1 ELSE pos = 0
  BY <1>1, FindIs
<1>4. CASE hits = {}
  BY <1>2, <1>3, <1>4 DEF Expected, Hits
<1>5. CASE hits # {}
  <2>1. k \in 1..Len(body) /\ Len(body) \in Nat
    <3>1. hits \subseteq 1..Len(body) /\ hits \subseteq Nat /\ Len(body) \in Nat
      BY <1>1 DEF Hits
    <3> HIDE DEF hits
    <3>2. QED
      BY <1>5, <3>1, LeastIn
  <2>2. start = Len(Text(SubSeq(body, 1, k - 1))) /\ start \in Nat
    <3> HIDE DEF k
    <3>1. k - 1 \in 0..Len(body)
      BY <2>1
    <3>2. QED
      BY <1>1, <3>1, StopsAre DEF Before
  <2>3. Expected(body, key) =
          IF start < IE_SCAN_MAX /\ f.quoted /\ f.blanks <= 4
            THEN SubSeq(f.val, 1, Least({IE_STR_MAX - 1, Len(f.val)}))
          ELSE << >>
    BY <1>5, <2>2 DEF Expected, Hits
  <2>4. f \in Field
    BY <1>1, <2>1
  <2> HIDE DEF k, hits, text, start, f, pos
  <2>5. CASE start < IE_SCAN_MAX
    <3>1. pos = start + 1 /\ pos # 0
      BY <1>3, <1>5, <2>2, <2>5
    <3>2. Holds(text, pos, f)
      BY <1>1, <2>1, <2>5, <3>1, FieldHolds DEF text, start, f
    <3>3. json_extract_str(text, pos) =
            IF f.quoted /\ f.blanks <= 4
              THEN SubSeq(f.val, 1, Least({IE_STR_MAX - 1, Len(f.val)}))
            ELSE << >>
      BY <2>4, <3>2, ExtractIs
    <3>4. QED
      BY <1>2, <2>3, <2>5, <3>1, <3>3
  <2>6. CASE ~(start < IE_SCAN_MAX)
    BY <1>2, <1>3, <2>3, <2>6
  <2>7. QED
    BY <2>5, <2>6
<1>6. QED
  BY <1>4, <1>5

-----------------------------------------------------------------------------
(***************************************************************************)
(* What is printed of a body is what was parsed of it: a body on its way   *)
(* is in OtherEvent, so PairTypes has it.                                  *)
(***************************************************************************)
IesInv == ies # NULL => \E body \in Bodies : ies = [body |-> body, ies |-> Parsed[body]]

LEMMA IesStep ==
    ASSUME PairTypes, IesInv, [Next]_vars
    PROVE  IesInv'
<1>1. CASE handle_event
  <2> DEFINE e == Head(events)
  <2>1. /\ events # << >>
        /\ ies' = IF e.probe = "BODY" THEN [body |-> e.body, ies |-> e.ies] ELSE ies
    BY <1>1 DEF handle_event
  <2>2. e \in AuthzEvent \cup OtherEvent
    BY <2>1 DEF PairTypes
  <2> HIDE DEF e
  <2>3. CASE e.probe = "BODY"
    <3>1. e \notin AuthzEvent
      BY <2>3 DEF AuthzEvent
    <3>2. PICK body \in Bodies : e = [probe |-> "BODY", body |-> body, ies |-> Parsed[body]]
      BY <2>2, <2>3, <3>1 DEF OtherEvent
    <3>3. e.body = body /\ e.ies = Parsed[body]
      BY <3>2
    <3>4. QED
      BY <2>1, <2>3, <3>3 DEF IesInv
  <2>4. CASE e.probe # "BODY"
    BY <2>1, <2>4 DEF IesInv
  <2>5. QED
    BY <2>3, <2>4
<1>2. CASE wait_for_amf_pid \/ LoadObject \/ attach_targets \/ AttachSummary \/ PollDone
             \/ detach_targets \/ handle_signal
  BY <1>2 DEF IesInv, wait_for_amf_pid, LoadObject, attach_targets, AttachSummary, PollDone,
              detach_targets, handle_signal
<1>3. ASSUME NEW prog, NEW e, Emit(prog, e)
      PROVE  IesInv'
  BY <1>3 DEF IesInv, Emit
<1>4. CASE amf_nas_disp \/ emit_sbi_event \/ amf_ngap_disp
             \/ (\E body \in Bodies, err \in BOOLEAN : amf_sbi_body(body, err))
  BY <1>3, <1>4 DEF amf_nas_disp, emit_sbi_event, amf_ngap_disp, amf_sbi_body
<1>5. ASSUME NEW g \in Goroutines, NEW t \in Threads,
             \/ \E key \in {"Authorization", "Host"}, fault \in BOOLEAN :
                  amf_http_hdr_get_entry(g, t, key, fault)
             \/ \E value \in BOOLEAN : amf_http_hdr_get_ret(g, t, value)
             \/ Resume(g, t) \/ Suspend(g, t)
      PROVE  IesInv'
  BY <1>5 DEF IesInv, amf_http_hdr_get_entry, amf_http_hdr_get_ret, Resume, Suspend
<1>6. CASE AmfStart \/ AmfExit \/ PidReused
  BY <1>6 DEF IesInv, AmfStart, AmfExit, PidReused
<1>7. CASE UNCHANGED vars
  BY <1>7 DEF IesInv, vars
<1>8. QED
  BY <1>1, <1>2, <1>4, <1>5, <1>6, <1>7 DEF Next, main

\* sbi_parse_ies(): whatever the body, the IEs printed of it are those of the reference
\* definition.
THEOREM BodiesParsed == Spec => []IesExact
<1>1. Init => IesInv
  BY DEF Init, IesInv
<1>2. FuncLoadInv /\ IesInv /\ [Next]_vars => IesInv'
  BY IesStep DEF FuncLoadInv
<1>3. IesInv => IesExact
  <2> SUFFICES ASSUME IesInv, ies # NULL, NEW key \in sbi_ie_keys
               PROVE  ies.ies[key] = Expected(ies.body, key)
    BY DEF IesExact
  <2>1. PICK body \in Bodies : ies = [body |-> body, ies |-> Parsed[body]]
    BY DEF IesInv
  <2>2. ies.body = body /\ ies.ies = Parsed[body]
    BY <2>1
  <2>3. QED
    BY <2>2, ParsedIs
<1>4. QED
  BY <1>1, <1>2, <1>3, FuncLoadInvariant, PTL DEF Spec

=============================================================================
