------------------------------ MODULE FuncLoad ------------------------------
(***************************************************************************)
(* amf_func_load.bpf.c and its loader test/test_func_load.c: uprobes on the*)
(* entry points of the AMF, among them a pair on net/http.Header.Get whose *)
(* halves meet in a map keyed by the thread, and a search of JSON bodies   *)
(* for five keys.                                                          *)
(*                                                                         *)
(* A JSON text is a sequence of symbols; a key with its quotes and colon is*)
(* one symbol, so sizes count symbols, not bytes.  A Header.Get call is a  *)
(* number.                                                                 *)
(*                                                                         *)
(* External: the Go scheduler, which runs a goroutine on any idle thread,   *)
(* may take it off its thread inside a call and resume it on another one   *)
(* (between calls a goroutine needs no thread here); the kernel, which runs a return *)
(* probe only for calls that entered while it was attached.                *)
(***************************************************************************)
EXTENDS Integers, Sequences, FiniteSets, SequencesExt

CONSTANTS
    NULL,
    Goroutines,
    Threads,
    Targets,                \* the attach list, in order: a sequence of programs
    Bodies,                 \* request bodies: sequences of fields
    IE_SCAN_MAX, IE_STR_MAX, SBI_BODY_MAX,
    InflightMax,            \* entries of authz_probe_inflight
    RingSize,
    Preemptive,             \* whether the scheduler interrupts Header.Get
    MaxCalls,               \* bound on probed calls
    MaxOther,               \* bound on those other than Header.Get
    MaxFailures             \* bound on failing calls of the loader

\* Constants of the code, of any size.
ASSUME FuncLoadAssumption ==
    /\ NULL \notin Goroutines \cup Threads \cup Nat
    /\ {IE_SCAN_MAX, IE_STR_MAX, SBI_BODY_MAX} \subseteq Nat \ {0}
    /\ IE_SCAN_MAX + 2 < SBI_BODY_MAX - IE_STR_MAX - 8
    /\ {InflightMax, RingSize, MaxCalls, MaxOther, MaxFailures} \subseteq Nat
    /\ Preemptive \in BOOLEAN

VARIABLES
    pc, i,                  \* the loader's next step, index of its attach loops
    attached,               \* programs with a link
    status,                 \* what main() returned, or NULL
    stop,
    failures,
    amf,                    \* "absent", "running", "gone", or its pid "reused"
    on,                     \* thread -> the goroutine it runs a call of, or NULL
    call,                   \* goroutine -> the Header.Get it is in, or NULL
    inflight,               \* thread -> the call that armed it, or NULL
    events,                 \* the ring buffer
    calls, others,
    \* History.
    shown,                  \* Authorization events printed
    sent, lost,             \* calls reported, calls given up for want of room
    due,                    \* Header.Get("Authorization") calls that returned a
                            \* value, seen by both probes
    orphans,                \* calls the entry probe reacted to that were interrupted,
                            \* or that the return probe was not attached for
    ies                     \* the last request body printed, and its IEs

loader_vars == << pc, i, attached, status, stop, failures >>
log_vars == << shown, sent, lost, due, orphans >>
vars == << loader_vars, amf, on, call, inflight, events, calls, others, log_vars, ies >>

\* A call of Header.Get, whether the return probe was attached when it began, and
\* whether the entry probe reacted to it.
HeaderGet == [n : Nat, key : {"Authorization", "Host"}, watched : BOOLEAN, seen : BOOLEAN]

ASSUME HeaderGetAssumption == NULL \notin HeaderGet

Init ==
    /\ pc = "wait_for_amf_pid" /\ i = 1
    /\ attached = {}
    /\ status = NULL
    /\ stop = FALSE
    /\ failures = 0
    /\ amf \in {"absent", "running"}
    /\ on = [t \in Threads |-> NULL]
    /\ call = [g \in Goroutines |-> NULL]
    /\ inflight = [t \in Threads |-> NULL]
    /\ events = << >>
    /\ calls = 0 /\ others = 0
    /\ shown = {} /\ sent = {} /\ lost = {} /\ due = {} /\ orphans = {}
    /\ ies = NULL

-----------------------------------------------------------------------------
(***************************************************************************)
(* The search for IEs in a body, text being what was copied of it.         *)
(***************************************************************************)
sbi_ie_keys == {"reason", "accessType", "cause", "deregReason", "nfId"}

Least(S) == CHOOSE x \in S : \A y \in S : x <= y
Greatest(S) == CHOOSE x \in S : \A y \in S : y <= x

\* json_find_key() with find_key_cb(): the position behind the first match, 0 if
\* there is none in the first IE_SCAN_MAX positions.
json_find_key(text, key) ==
    LET hits == {n \in 1..Len(text) : n <= IE_SCAN_MAX /\ text[n] = key}
    IN  IF hits = {} THEN 0 ELSE Least(hits)

\* json_extract_str(): what follows pos, up to four blanks and a quote skipped.
\* Wrong variant: the copy does not stop at the closing quote.
json_extract_str_unquoted(text, pos) ==
    LET blanks == Greatest({n \in 0..4 : /\ pos + n <= Len(text)
                                         /\ \A k \in 1..n : text[pos + k] = " "})
        q == pos + blanks + 1
    IN  IF q > Len(text) \/ text[q] # "quote" THEN << >>
        ELSE SubSeq(text, q + 1, Least({q + IE_STR_MAX - 1, Len(text)}))

json_extract_str(text, pos) ==
    LET blanks == Greatest({n \in 0..4 : /\ pos + n <= Len(text)
                                         /\ \A k \in 1..n : text[pos + k] = " "})
        q == pos + blanks + 1
        n == Greatest({m \in 0..IE_STR_MAX : /\ q + m <= Len(text)
                                             /\ \A k \in 1..m : text[q + k] # "quote"})
    IN  IF \/ pos >= SBI_BODY_MAX - IE_STR_MAX - 8
           \/ q > Len(text) \/ text[q] # "quote" THEN << >>
        ELSE SubSeq(text, q + 1, q + Least({n, IE_STR_MAX - 1}))

sbi_parse_ies(text) ==
    [key \in sbi_ie_keys |->
        LET pos == json_find_key(text, key)
        IN  IF pos = 0 THEN << >> ELSE json_extract_str(text, pos)]

\* A body is a sequence of fields.  Values are those the search is written for, which
\* has "no nesting/escaping awareness": no value holds a quote, or a key that is
\* searched for.
Field == [key : STRING \ {" ", "quote", ","}, blanks : Nat, quoted : BOOLEAN,
          val : Seq(STRING \ ({"quote"} \cup sbi_ie_keys))]

ASSUME BodiesAssumption == Bodies \subseteq Seq(Field)

FieldText(f) ==
    << f.key >> \o [k \in 1..f.blanks |-> " "]
      \o (IF f.quoted THEN << "quote" >> \o f.val \o << "quote" >> ELSE f.val) \o << "," >>

Text(body) == FlattenSeq([k \in DOMAIN body |-> FieldText(body[k])])

\* What amf_sbi_body sends of each body.
Parsed == [body \in Bodies |->
             sbi_parse_ies(SubSeq(Text(body), 1, Least({Len(Text(body)), SBI_BODY_MAX})))]

-----------------------------------------------------------------------------
(***************************************************************************)
(* The probes.                                                             *)
(***************************************************************************)
HasRoom == Len(events) < RingSize

\* Goroutine g is in a call, on thread t.
Runs(g, t) == amf = "running" /\ on[t] = g

\* A probe other than the pair on Header.Get: an event, if there is room.
Emit(prog, e) ==
    /\ amf = "running"
    /\ others < MaxOther
    /\ calls + others < MaxCalls
    /\ others' = others + 1
    /\ events' = IF prog \in attached /\ HasRoom THEN Append(events, e) ELSE events
    /\ UNCHANGED << loader_vars, amf, on, call, inflight, calls, log_vars, ies >>

\* What it copies of the message and of the NAS-PDU in it is left out.
amf_ngap_disp == Emit("amf_ngap_disp", [probe |-> "NGAP"])

amf_nas_disp == Emit("amf_nas_disp", [probe |-> "NAS"])

\* The seven SBI probes, which differ in their probe_id.
emit_sbi_event == Emit("amf_sbi", [probe |-> "SBI"])

\* A GetRawData that returned an error or nothing is skipped.
amf_sbi_body(body, err) ==
    /\ body # << >> /\ ~err
    /\ Emit("amf_sbi_body", [probe |-> "BODY", body |-> body, ies |-> Parsed[body]])

\* Header.Get is called: the entry probe arms the thread, if it can read the key and
\* the map has room.
\* Wrong variant: any key arms it.
ArmsAny(key) == TRUE

Arms(key) == key = "Authorization"

amf_http_hdr_get_entry(g, t, key, fault) ==
    LET armed == {u \in Threads : inflight[u] # NULL}
        seen == "amf_http_hdr_get_entry" \in attached /\ ~fault /\ Arms(key)
        full == inflight[t] = NULL /\ Cardinality(armed) >= InflightMax
        watched == "amf_http_hdr_get_ret" \in attached
    IN  /\ amf = "running"
        /\ on[t] = NULL
        /\ call[g] = NULL
        /\ on' = [on EXCEPT ![t] = g]
        /\ calls + others < MaxCalls
        /\ calls' = calls + 1
        /\ call' = [call EXCEPT ![g] = [n |-> calls + 1, key |-> key, watched |-> watched,
                                        seen |-> seen]]
        /\ inflight' = IF seen /\ ~full THEN [inflight EXCEPT ![t] = calls + 1] ELSE inflight
        /\ lost' = IF seen /\ full THEN lost \cup {calls + 1} ELSE lost
        /\ orphans' = IF seen /\ ~watched THEN orphans \cup {calls + 1} ELSE orphans
        /\ UNCHANGED << loader_vars, amf, events, others, shown, sent, due, ies >>

\* It returns a value, or none: the return probe disarms the thread and reports
\* the value.  Wrong variant: a call with no value leaves the thread armed.
DisarmedLate(t, value) ==
    IF value THEN [inflight EXCEPT ![t] = NULL] ELSE inflight

Disarmed(t, value) == [inflight EXCEPT ![t] = NULL]

amf_http_hdr_get_ret(g, t, value) ==
    LET c == call[g]
        watched == c.watched /\ "amf_http_hdr_get_ret" \in attached
        pending == watched /\ inflight[t] # NULL
        e == [probe |-> "AUTHZ", n |-> c.n, key |-> c.key, armed |-> inflight[t]]
    IN  /\ Runs(g, t)
        /\ call' = [call EXCEPT ![g] = NULL]
        /\ on' = [on EXCEPT ![t] = NULL]
        /\ inflight' = IF pending THEN Disarmed(t, value) ELSE inflight
        /\ events' = IF pending /\ value /\ HasRoom THEN Append(events, e) ELSE events
        /\ sent' = IF pending /\ value /\ HasRoom THEN sent \cup {c.n} ELSE sent
        /\ lost' = IF pending /\ value /\ ~HasRoom THEN lost \cup {c.n} ELSE lost
        /\ due' = IF watched /\ c.seen /\ value THEN due \cup {c.n} ELSE due
        /\ orphans' = IF c.seen /\ ~watched THEN orphans \cup {c.n} ELSE orphans
        /\ UNCHANGED << loader_vars, amf, calls, others, shown, ies >>

\* The Go scheduler.
Resume(g, t) ==
    /\ call[g] # NULL
    /\ on[t] = NULL
    /\ \A u \in Threads : on[u] # g
    /\ on' = [on EXCEPT ![t] = g]
    /\ UNCHANGED << loader_vars, amf, call, inflight, events, calls, others, log_vars, ies >>

Suspend(g, t) ==
    /\ Runs(g, t)
    /\ Preemptive
    /\ on' = [on EXCEPT ![t] = NULL]
    /\ orphans' = IF call[g].seen THEN orphans \cup {call[g].n} ELSE orphans
    /\ UNCHANGED << loader_vars, amf, call, inflight, events, calls, others, shown, sent,
                    lost, due, ies >>

\* The AMF starts, exits; another process gets its pid.
AmfStart == amf = "absent" /\ amf' = "running"
            /\ UNCHANGED << loader_vars, on, call, inflight, events, calls, others, log_vars,
                            ies >>
AmfExit == amf = "running" /\ amf' = "gone"
           /\ on' = [t \in Threads |-> NULL]
           /\ call' = [g \in Goroutines |-> NULL]
           /\ UNCHANGED << loader_vars, inflight, events, calls, others, log_vars, ies >>
PidReused == amf = "gone" /\ amf' = "reused"
             /\ UNCHANGED << loader_vars, on, call, inflight, events, calls, others, log_vars,
                             ies >>

-----------------------------------------------------------------------------
(***************************************************************************)
(* main() of test_func_load.c.                                             *)
(***************************************************************************)
Steps(from, to) == pc = from /\ pc' = to

amf_vars == << amf, on, call, inflight, calls, others, log_vars >>

wait_for_amf_pid ==
    /\ \/ /\ ~stop /\ amf = "running"
          /\ Steps("wait_for_amf_pid", "load")
          /\ UNCHANGED status
       \/ /\ stop
          /\ Steps("wait_for_amf_pid", "done")
          /\ status' = 0
    /\ UNCHANGED << i, attached, stop, failures, amf_vars, events, ies >>

\* open_file, load, find_map_by_name, ring_buffer__new: one outcome.
LoadObject ==
    /\ \/ /\ Steps("load", "attach")
          /\ UNCHANGED << status, failures >>
       \/ /\ Steps("load", "done") /\ failures < MaxFailures
          /\ failures' = failures + 1
          /\ status' = 1
    /\ UNCHANGED << i, attached, stop, amf_vars, events, ies >>

\* attach_targets(): a failure is logged and the next target tried.
attach_targets ==
    /\ pc = "attach"
    /\ i <= Len(Targets)
    /\ \/ /\ amf = "running"
          /\ attached' = attached \cup {Targets[i]}
          /\ UNCHANGED failures
       \/ /\ failures < MaxFailures \/ amf # "running"
          /\ failures' = IF amf = "running" THEN failures + 1 ELSE failures
          /\ UNCHANGED attached
    /\ i' = i + 1
    /\ UNCHANGED << pc, status, stop, amf_vars, events, ies >>

AttachSummary ==
    /\ i > Len(Targets)
    /\ \/ /\ attached = {}
          /\ Steps("attach", "done")
          /\ status' = 1
       \/ /\ attached # {}
          /\ Steps("attach", "poll")
          /\ UNCHANGED status
    /\ UNCHANGED << i, attached, stop, failures, amf_vars, events, ies >>

\* ring_buffer__poll() prints an event.
handle_event ==
    /\ pc = "poll"
    /\ events # << >>
    /\ events' = Tail(events)
    /\ LET e == Head(events)
       IN  /\ shown' = IF e.probe = "AUTHZ" THEN shown \cup {e} ELSE shown
           /\ ies' = IF e.probe = "BODY" THEN [body |-> e.body, ies |-> e.ies] ELSE ies
    /\ UNCHANGED << loader_vars, amf, on, call, inflight, calls, others, sent, lost, due,
                    orphans >>

\* The poll is over: leave on a signal or when kill(pid, 0) finds no process; a
\* failing poll only raises an alert.  Wrong variants: the process is not looked
\* for; the signal is not.
LeavesOnSignal == stop

LeavesOnExit == amf = "gone"

Leaves == stop \/ amf = "gone"

PollDone ==
    /\ Leaves
    /\ Steps("poll", "detach")
    /\ i' = 1
    /\ UNCHANGED << attached, status, stop, failures, amf_vars, events, ies >>

detach_targets ==
    /\ pc = "detach"
    /\ IF i <= Len(Targets)
         THEN /\ attached' = attached \ {Targets[i]}
              /\ i' = i + 1
              /\ UNCHANGED << pc, status >>
         ELSE /\ pc' = "done"
              /\ status' = 0
              /\ UNCHANGED << i, attached >>
    /\ UNCHANGED << stop, failures, amf_vars, events, ies >>

handle_signal ==
    /\ ~stop /\ pc # "done"
    /\ stop' = TRUE
    /\ UNCHANGED << pc, i, attached, status, failures, amf_vars, events, ies >>

main ==
    \/ wait_for_amf_pid \/ LoadObject \/ attach_targets \/ AttachSummary
    \/ handle_event \/ PollDone \/ detach_targets

Next ==
    \/ main
    \/ handle_signal
    \/ amf_ngap_disp
    \/ amf_nas_disp
    \/ emit_sbi_event
    \/ \E body \in Bodies, err \in BOOLEAN : amf_sbi_body(body, err)
    \/ \E g \in Goroutines, t \in Threads :
         \/ \E key \in {"Authorization", "Host"}, fault \in BOOLEAN :
              amf_http_hdr_get_entry(g, t, key, fault)
         \/ \E value \in BOOLEAN : amf_http_hdr_get_ret(g, t, value)
         \/ Resume(g, t)
         \/ Suspend(g, t)
    \/ AmfStart \/ AmfExit \/ PidReused

Spec == Init /\ [][Next]_vars

\* The loader is not suspended for ever, and no call of it blocks: the poll has
\* a timeout, after which the loop is entered again.
FairSpec == Spec /\ WF_vars(main) /\ WF_vars(PollDone)

-----------------------------------------------------------------------------
(***************************************************************************)
(* Properties.                                                             *)
(***************************************************************************)
\* The types; a return frees the thread it happened on.
TypeOK ==
    /\ attached \subseteq Range(Targets)
    /\ status \in {NULL, 0, 1}
    /\ on \in [Threads -> Goroutines \cup {NULL}]
    /\ inflight \in [Threads -> (1..MaxCalls) \cup {NULL}]
    /\ Cardinality({t \in Threads : inflight[t] # NULL}) <= InflightMax
    /\ Len(events) <= RingSize
    /\ pc = "done" => status # NULL /\ attached = {}

\* "this pair of probes only cares about calls where the key argument is
\* literally "Authorization"": what is printed as an Authorization header is one.
AuthzIsAuthorization == \A e \in shown : e.key = "Authorization"

\* The pair of probes on Header.Get: as long as no call for "Authorization" is
\* interrupted, and none is under way while one probe is attached and the other
\* is not, what is printed is an Authorization header, and every one that
\* both probes saw is sent, or given up because the map or the ring was full.
AuthzExactUnlessOrphaned ==
    orphans = {} => /\ AuthzIsAuthorization
                    /\ due \subseteq sent \cup lost
                    /\ sent \subseteq due

\* authz_probe_inflight: whatever the scheduler does, every report goes back to
\* a Header.Get("Authorization") call of its own, and a report of another
\* call's value takes an orphaned one: an orphan does its damage only once.
EachReportHasItsRequest ==
    /\ \A e \in shown : e.armed # e.n => e.armed \in orphans
    /\ \A e, f \in shown : e.armed = f.armed => e = f

\* sbi_parse_ies(): the IE printed for a key is the string value of the first
\* field of that name, cut to its array, if the field begins within IE_SCAN_MAX
\* and at most four blanks come before the value; else it is empty, and never
\* taken from another field.
Expected(body, key) ==
    LET hits == {k \in DOMAIN body : body[k].key = key}
        f == body[Least(hits)]
        start == Len(Text(SubSeq(body, 1, Least(hits) - 1)))
    IN  IF hits = {} THEN << >>
        ELSE IF start < IE_SCAN_MAX /\ f.quoted /\ f.blanks <= 4
          THEN SubSeq(f.val, 1, Least({IE_STR_MAX - 1, Len(f.val)}))
        ELSE << >>

IesExact == ies # NULL => \A key \in sbi_ie_keys : ies.ies[key] = Expected(ies.body, key)

\* kill(pid, 0): "Surface that explicitly instead of quietly going idle forever":
\* the AMF's exit ends the run, unless another process gets the pid first.
DeadAmfNoticed == (pc = "poll" /\ amf = "gone") ~> (pc = "done" \/ amf = "reused")

\* handle_signal(): a signal at any point ends the run, with everything detached.
StopEnds == stop ~> (pc = "done" /\ attached = {})

=============================================================================
