------------------------------ MODULE AmfTracer ------------------------------
(***************************************************************************)
(* amf_tracer.bpf.c: the probes of the AMF tracer, from the two halves of  *)
(* a connect() or accept4() paired through a scratch map to the ring       *)
(* buffer and handle_event() of the loader, while the loader attaches and  *)
(* detaches the two tracepoints under running threads.                     *)
(*                                                                         *)
(* The threads are those of the AMF container: is_amf_cgroup() makes every *)
(* handler return at once for all others.  A call's number stands for its  *)
(* sockaddr pointer.  A handler runs to its end on its CPU, but not at one *)
(* moment: the exit handlers delete the scratch entry and afterwards read  *)
(* it through the pointer they looked up before.                           *)
(*                                                                         *)
(* External: the kernel's preallocated hash map, whose elements sit on     *)
(* per-CPU free lists, a CPU with an empty list taking from the others,    *)
(* plus one element per CPU for replacing the value of a key.              *)
(***************************************************************************)
EXTENDS Integers, Sequences, FiniteSets

CONSTANTS
    NULL,
    Threads,
    CPUs,
    Elems,              \* elements of the scratch map on free lists
    RingSize,           \* events the ring buffer holds
    Kinds,              \* the traced calls: subset of {"connect", "accept4"}
    MaxCalls,           \* bound on the calls made
    MaxOther            \* bound on events of other probes

ASSUME TracerAssumption ==
    /\ Kinds \subseteq {"connect", "accept4"}
    /\ RingSize \in Nat \ {0}
    /\ MaxCalls \in Nat
    /\ MaxOther \in Nat
    /\ NULL \notin Threads \cup CPUs \cup Elems
    /\ Elems \cap CPUs = {}
    /\ IsFiniteSet(CPUs)

VARIABLES
    kind,               \* which of the two calls this behaviour follows
    loader,             \* the loader's next step
    linked,             \* tracepoints attached: subset of {"enter", "exit"}
    scratch,            \* tid -> element, or NULL
    args,               \* element -> the call saved in it
    free,               \* CPU -> the elements of its free list
    extra,              \* CPU -> its element for replacing values
    thr,                \* tid -> [pc, call, cpu, a], and whether enter was seen
    events,             \* the ring buffer
    calls, others,      \* calls made, events of other probes
    \* History.
    shown,              \* events handle_event() printed
    stolen,             \* a CPU took an element off another CPU's list
    unseen,             \* calls that returned with no exit tracepoint attached
    due,                \* successful calls with both tracepoints attached in time
    sent, lost          \* calls reported, calls given up for want of room

map_vars == << scratch, args, free, extra, stolen >>
loader_vars == << loader, linked >>
log_vars == << shown, unseen, due, sent, lost >>
vars == << kind, loader_vars, map_vars, thr, events, calls, others, log_vars >>

\* An extra element is named after its CPU, which no other element is.
AllElems == Elems \cup CPUs

User == [pc |-> "user", call |-> NULL, cpu |-> NULL, a |-> NULL, seen |-> FALSE]
InKernel(n, s) == [pc |-> "kernel", call |-> n, cpu |-> NULL, a |-> NULL, seen |-> s]

Init ==
    /\ kind \in Kinds
    /\ loader = "attach_enter"
    /\ linked = {}
    /\ scratch = [t \in Threads |-> NULL]
    /\ args = [x \in AllElems |-> NULL]
    /\ free \in [CPUs -> SUBSET Elems]
    /\ \A x \in Elems : Cardinality({c \in CPUs : x \in free[c]}) = 1
    /\ \A c, d \in CPUs : Cardinality(free[c]) <= Cardinality(free[d]) + 1
    /\ extra = [c \in CPUs |-> c]
    /\ thr = [t \in Threads |-> User]
    /\ events = << >>
    /\ calls = 0
    /\ others = 0
    /\ shown = {}
    /\ stolen = FALSE
    /\ unseen = {}
    /\ due = {}
    /\ sent = {}
    /\ lost = {}

-----------------------------------------------------------------------------
(***************************************************************************)
(* bpf_map_update_elem(&scratch, &tid, &call, BPF_ANY) on CPU c.           *)
(***************************************************************************)
\* Wrong variant: BPF_NOEXIST, which leaves an old entry in place.
ReplaceRefused(c, t, call) ==
    /\ scratch[t] # NULL
    /\ UNCHANGED << map_vars, lost >>

Replace(c, t, call) ==
    /\ scratch[t] # NULL
    /\ args' = [args EXCEPT ![extra[c]] = call]
    /\ scratch' = [scratch EXCEPT ![t] = extra[c]]
    /\ extra' = [extra EXCEPT ![c] = scratch[t]]
    /\ UNCHANGED << free, stolen, lost >>

Insert(c, t, call) ==
    \E d \in CPUs, x \in AllElems :
        /\ scratch[t] = NULL
        /\ x \in free[d]
        /\ d = c \/ free[c] = {}
        /\ args' = [args EXCEPT ![x] = call]
        /\ scratch' = [scratch EXCEPT ![t] = x]
        /\ free' = [free EXCEPT ![d] = @ \ {x}]
        /\ stolen' = (stolen \/ d # c)
        /\ UNCHANGED << extra, lost >>

MapFull(t, call) ==
    /\ scratch[t] = NULL
    /\ \A d \in CPUs : free[d] = {}
    /\ lost' = lost \cup {call}
    /\ UNCHANGED map_vars

\* new_event() reserves a slot, or returns NULL when the ring is full.
HasRoom == Len(events) < RingSize

\* No handler is running on CPU c.
Available(c) == \A t \in Threads : thr[t].cpu # c

-----------------------------------------------------------------------------
(***************************************************************************)
(* The handlers.                                                           *)
(***************************************************************************)
\* A thread makes the call: trace_connect_enter() / trace_accept_enter().
EnterCall(t, c) ==
    /\ thr[t].pc = "user"
    /\ calls < MaxCalls
    /\ Available(c)
    /\ calls' = calls + 1
    /\ thr' = [thr EXCEPT ![t] = InKernel(calls + 1, "enter" \in linked)]
    /\ \/ /\ "enter" \in linked
          /\ Replace(c, t, calls + 1) \/ Insert(c, t, calls + 1) \/ MapFull(t, calls + 1)
       \/ /\ "enter" \notin linked
          /\ UNCHANGED << map_vars, lost >>
    /\ UNCHANGED << kind, loader_vars, events, others, shown, unseen, due, sent >>

EINPROGRESS == -115

\* What the traced call may return: an error, or success.
Returns == IF kind = "connect" THEN {-111, EINPROGRESS, 0} ELSE {-11, 7}

\* The returns that are reported: of a connect(), success or EINPROGRESS, of an
\* accept4(), the new descriptor.
Reported(ret) ==
    \/ kind = "connect" /\ (ret = 0 \/ ret = EINPROGRESS)
    \/ kind = "accept4" /\ ret >= 0

\* Wrong variant of Pair: a failed call returns before its entry is deleted.
PairLeaky(t, c, ret) ==
    LET a == scratch[t]
    IN  /\ a # NULL
        /\ IF Reported(ret)
             THEN /\ thr' = [thr EXCEPT ![t].pc = "exit", ![t].cpu = c, ![t].a = a]
                  /\ scratch' = [scratch EXCEPT ![t] = NULL]
                  /\ free' = [free EXCEPT ![c] = @ \cup {a}]
             ELSE /\ thr' = [thr EXCEPT ![t] = User]
                  /\ UNCHANGED << scratch, free >>
        /\ UNCHANGED << args, extra, stolen, unseen >>

\* An exit handler that finds an entry, up to the new_event(): the entry is
\* deleted whatever the call returned.
Pair(t, c, ret) ==
    LET a == scratch[t]
    IN  /\ a # NULL
        /\ scratch' = [scratch EXCEPT ![t] = NULL]
        /\ free' = [free EXCEPT ![c] = @ \cup {a}]
        /\ thr' = IF Reported(ret)
                    THEN [thr EXCEPT ![t].pc = "exit", ![t].cpu = c, ![t].a = a]
                    ELSE [thr EXCEPT ![t] = User]
        /\ UNCHANGED << args, extra, stolen, unseen >>

\* The call returns: trace_connect_exit() / trace_accept_exit().
ExitCall(t, c, ret) ==
    /\ thr[t].pc = "kernel"
    /\ Available(c)
    /\ \/ /\ "exit" \notin linked
          /\ thr' = [thr EXCEPT ![t] = User]
          /\ unseen' = unseen \cup {thr[t].call}
          /\ UNCHANGED map_vars
       \/ /\ "exit" \in linked /\ scratch[t] = NULL
          /\ thr' = [thr EXCEPT ![t] = User]
          /\ UNCHANGED << map_vars, unseen >>
       \/ "exit" \in linked /\ Pair(t, c, ret)
    /\ due' = IF "exit" \in linked /\ thr[t].seen /\ Reported(ret)
                THEN due \cup {thr[t].call} ELSE due
    /\ UNCHANGED << kind, loader_vars, events, calls, others, shown, sent, lost >>

\* The rest of the exit handler: new_event(), read_sockaddr_in() through the
\* pointer a, submit.
ExitReport(t) ==
    /\ thr[t].pc = "exit"
    /\ \/ /\ HasRoom
          /\ events' = Append(events, [call |-> thr[t].call, addr |-> args[thr[t].a]])
          /\ sent' = sent \cup {thr[t].call}
          /\ UNCHANGED lost
       \/ /\ ~HasRoom
          /\ lost' = lost \cup {thr[t].call}
          /\ UNCHANGED << events, sent >>
    /\ thr' = [thr EXCEPT ![t] = User]
    /\ UNCHANGED << kind, loader_vars, map_vars, calls, others, shown, unseen, due >>

\* The other probes send an event with no address, if there is room for it.
OtherEvent ==
    /\ others < MaxOther
    /\ others' = others + 1
    /\ events' = IF HasRoom THEN Append(events, [call |-> NULL, addr |-> NULL])
                            ELSE events
    /\ UNCHANGED << kind, loader_vars, map_vars, thr, calls, log_vars >>

\* A probed function of the AMF is called: one handler per function, all alike.
Uprobe == OtherEvent

trace_write_enter(count) == count # 0 /\ OtherEvent

trace_read_exit(ret) == ret > 0 /\ OtherEvent

-----------------------------------------------------------------------------
(***************************************************************************)
(* The loader: the two tracepoints are attached in the order of            *)
(* syscall_tps, then the consumer is made; cleanup frees the consumer and  *)
(* then detaches in the same order.                                        *)
(***************************************************************************)
Step(from, to) ==
    /\ loader = from
    /\ loader' = to
    /\ UNCHANGED << kind, map_vars, thr, events, calls, others, log_vars >>

attach_tracepoints ==
    \/ Step("attach_enter", "attach_exit") /\ linked' = {"enter"}
    \/ Step("attach_exit", "new_ring") /\ linked' = {"enter", "exit"}

ring_buffer__new == Step("new_ring", "poll") /\ UNCHANGED linked

\* Wrong variants: events are still read while the tracepoints are detached; an
\* event is only read once another one follows it.
handle_event_late ==
    /\ loader \in {"poll", "detach_enter", "detach_exit"}
    /\ events # << >>
    /\ shown' = IF Head(events).call = NULL THEN shown ELSE shown \cup {Head(events)}
    /\ events' = Tail(events)
    /\ UNCHANGED << kind, loader_vars, map_vars, thr, calls, others, unseen, due, sent,
                    lost >>

handle_event_batched ==
    /\ loader = "poll"
    /\ Len(events) > 1
    /\ shown' = IF Head(events).call = NULL THEN shown ELSE shown \cup {Head(events)}
    /\ events' = Tail(events)
    /\ UNCHANGED << kind, loader_vars, map_vars, thr, calls, others, unseen, due, sent,
                    lost >>

handle_event ==
    /\ loader = "poll"
    /\ events # << >>
    /\ shown' = IF Head(events).call = NULL THEN shown ELSE shown \cup {Head(events)}
    /\ events' = Tail(events)
    /\ UNCHANGED << kind, loader_vars, map_vars, thr, calls, others, unseen, due, sent,
                    lost >>

ring_buffer__free == Step("poll", "detach_enter") /\ UNCHANGED linked

detach_tracepoints ==
    \/ Step("detach_enter", "detach_exit") /\ linked' = {"exit"}
    \/ Step("detach_exit", "done") /\ linked' = {}

Next ==
    \/ \E t \in Threads, c \in CPUs : EnterCall(t, c)
    \/ \E t \in Threads, c \in CPUs, ret \in Returns : ExitCall(t, c, ret)
    \/ \E t \in Threads : ExitReport(t)
    \/ Uprobe
    \/ \E count \in {0, 1} : trace_write_enter(count)
    \/ \E ret \in {-1, 0, 1} : trace_read_exit(ret)
    \/ attach_tracepoints
    \/ ring_buffer__new
    \/ handle_event
    \/ ring_buffer__free
    \/ detach_tracepoints

Spec == Init /\ [][Next]_vars

\* A started handler runs to its end, a poll returns while there are events.
FairSpec ==
    /\ Spec
    /\ \A t \in Threads : WF_vars(ExitReport(t))
    /\ WF_vars(handle_event)

-----------------------------------------------------------------------------
(***************************************************************************)
(* Properties.                                                             *)
(***************************************************************************)
ThreadStates == [pc : {"user", "kernel", "exit"}, call : Nat \cup {NULL}, cpu : CPUs \cup {NULL},
                 a : AllElems \cup {NULL}, seen : BOOLEAN]
Events == [call : Nat \cup {NULL}, addr : Nat \cup {NULL}]

\* The types; the tracepoints attached are those the loader's step implies.
TypeOK ==
    /\ kind \in Kinds
    /\ \/ loader \in {"attach_enter", "done"} /\ linked = {}
       \/ loader = "attach_exit" /\ linked = {"enter"}
       \/ loader \in {"new_ring", "poll", "detach_enter"} /\ linked = {"enter", "exit"}
       \/ loader = "detach_exit" /\ linked = {"exit"}
    /\ scratch \in [Threads -> AllElems \cup {NULL}]
    /\ args \in [AllElems -> Nat \cup {NULL}]
    /\ free \in [CPUs -> SUBSET AllElems]
    /\ extra \in [CPUs -> AllElems]
    /\ thr \in [Threads -> ThreadStates]
    /\ events \in Seq(Events) /\ Len(events) <= RingSize
    /\ shown \subseteq Events
    /\ calls \in 0..MaxCalls /\ others \in 0..MaxOther
    /\ stolen \in BOOLEAN
    /\ unseen \cup due \cup sent \cup lost \subseteq 1..calls

\* connect_scratch: "save connect() entry args across the syscall boundary".
\* What is printed of a call is the address of that call, not of another one.
ShownIsOwn == \A e \in shown : e.addr = e.call

\* The same as long as no CPU runs out of free elements: neither what a thread
\* left behind before the exit tracepoint was attached, nor calls in progress
\* when the tracepoints are detached, nor a replaced entry ever shows up as the
\* address of another call.
ShownIsOwnUnlessStolen == ~stolen => ShownIsOwn

\* Both handlers: a successful call that both tracepoints were attached for is
\* sent, or given up because the scratch map or the ring was full, and what is
\* printed is such a call, once.  In particular no call that began before the
\* enter tracepoint was attached, or after it was detached, is ever printed.
ReportsExact ==
    /\ \A n \in due : n \in sent \cup lost \/ \E t \in Threads : thr[t].call = n
    /\ \A e \in shown : e.call \in due
    /\ \A e, f \in shown : e.call = f.call => e = f
    /\ \A e \in shown, k \in 1..Len(events) : events[k].call # e.call

\* The scratch map: an entry outlives its call only if the call returned with
\* no exit tracepoint attached, and then only until the thread's next call: the
\* map does not fill up with the entries of failed calls.
NoDeadEntries ==
    \A t \in Threads :
        scratch[t] # NULL /\ thr[t].pc # "kernel" => args[scratch[t]] \in unseen

\* The poll loop: an event sent while the loader polls is printed, or the loader
\* has stopped polling first.
SentIsShown ==
    \A n \in 1..MaxCalls :
        (n \in sent) ~> (loader # "poll" \/ \E e \in shown : e.call = n)

=============================================================================
