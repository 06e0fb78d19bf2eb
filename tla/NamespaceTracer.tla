--------------------------- MODULE NamespaceTracer ---------------------------
(***************************************************************************)
(* namespace_tracer.c and namespace_tracer.bpf.c: the scan of /proc that   *)
(* decides which cgroups are traced, and the socket tracepoints that report*)
(* the calls made in them.                                                 *)
(*                                                                         *)
(* Processes start, exec and exit while /proc is read, file by file; a pid *)
(* is reused.  A process has one thread.  A call's number stands for its   *)
(* address and for its port.  What the kernel has just read or written for *)
(* a call is still there for the handler; a pointer of another process     *)
(* leads anywhere, or nowhere.  A ring buffer record is not cleared: a     *)
(* field the handler does not set is zero until the ring has wrapped,      *)
(* afterwards any bytes of earlier records.                                *)
(***************************************************************************)
EXTENDS Integers, Sequences, FiniteSets, FiniteSetsExt, TLC

CONSTANTS
    NULL,
    Pids,                   \* 1..n; /proc lists them in this order
    Callers,                \* the pids whose socket calls are followed
    Cgroups,
    Resolvable,             \* cgroups with a "0::/" path below /sys/fs/cgroup
    SeenMax,                \* 256
    MapMax,                 \* entries of container_cgroups
    RingSize, RingWrap,     \* records the ring holds, records until it wraps
    IovMax,                 \* iovecs looked at
    Iovs,                   \* message layouts: sequences of lengths
    ScratchMax,             \* entries of a scratch map
    MaxChanges,             \* bound on process starts, execs and exits
    MaxCalls                \* bound on socket calls

ASSUME NsAssumption ==
    /\ Resolvable \subseteq Cgroups
    /\ {SeenMax, MapMax, RingSize, RingWrap, IovMax, ScratchMax, MaxChanges, MaxCalls} \subseteq Nat
    /\ NULL \notin Cgroups
    /\ Iovs \subseteq Seq(Nat)
    /\ Callers \subseteq Pids
    /\ Pids = 1..Cardinality(Pids) /\ IsFiniteSet(Pids) /\ Pids # {}

VARIABLES
    group,                  \* the calls this behaviour follows: a key of Programs
    pc,                     \* the loader's next step
    cursor, cg_id,          \* the entry of /proc looked at, the cgroup read for it
    seen, inserted,
    container_cgroups,
    linked,                 \* how many of Programs are attached
    stop, status,
    proc,                   \* pid -> [nf, cg], or NULL
    call,                   \* pid -> the call it is in, or NULL
    scratch,                \* kind -> pid -> the call saved, or NULL
    ring, produced,         \* records not read yet, records ever written
    calls, changes,
    \* History.
    stable,                 \* NF processes since before the scan
    nfCgroups,              \* cgroups an NF process has been in
    takers,                 \* cgroups of processes that took a pid between its two reads
    refused,                \* opendir() or an insert failed
    due, sent, lost, shown  \* as in AmfTracer

scan_vars == << cursor, cg_id, seen, inserted, container_cgroups, refused >>
loader_vars == << pc, linked, stop, status >>
proc_vars == << proc, stable, nfCgroups, changes, takers >>
report_vars == << ring, produced, sent, lost >>
vars == << group, loader_vars, scan_vars, proc_vars, call, scratch, report_vars, calls, due, shown >>

\* The calls reported on their return with what was saved on their entry.
Kinds == {"connect", "accept4"}

\* The programs, in the order they are attached.  Those of different groups share
\* only the ring buffer.
Programs == [connect |-> << <<"connect", "enter">>, <<"connect", "exit">> >>,
             accept4 |-> << <<"accept4", "enter">>, <<"accept4", "exit">> >>,
             data    |-> << <<"sendmsg", "enter">>, <<"recvmsg", "exit">> >>]

Processes == [nf : BOOLEAN, cg : Cgroups]

Families == {2, 1}

\* A call as it is saved, and as it goes on: args is the entry its exit handler reads.
SavedCall == [n : Nat, kind : Kinds, own : Families \cup {NULL}, args : {NULL}, seen : BOOLEAN]
CallInProgress == [n : Nat, kind : Kinds, own : Families \cup {NULL},
                   args : SavedCall \cup {NULL}, seen : BOOLEAN]

ASSUME NullAssumption == NULL \notin SavedCall \cup CallInProgress \cup Nat

Init ==
    /\ group \in DOMAIN Programs
    /\ pc = "load"
    /\ cursor = 1 /\ cg_id = NULL /\ seen = << >> /\ inserted = 0
    /\ container_cgroups = {}
    /\ linked = 0 /\ stop = FALSE /\ status = NULL
    /\ proc \in [Pids -> Processes \cup {NULL}]
    /\ stable = {p \in Pids : proc[p] # NULL /\ proc[p].nf}
    /\ nfCgroups = {proc[p].cg : p \in stable}
    /\ takers = {} /\ refused = FALSE
    /\ call = [p \in Pids |-> NULL] /\ scratch = [k \in Kinds |-> call]
    /\ ring = << >> /\ produced = 0
    /\ calls = 0 /\ changes = 0
    /\ due = {} /\ sent = {} /\ lost = {} /\ shown = {}

-----------------------------------------------------------------------------
(***************************************************************************)
(* The loader.                                                             *)
(***************************************************************************)
Goto(to) == pc' = to /\ UNCHANGED << linked, stop, status >>

Return(ret) == pc' = "done" /\ linked' = 0 /\ status' = ret /\ UNCHANGED stop

kernel_vars == << group, proc_vars, call, scratch, report_vars, calls, due, shown >>

\* setrlimit(), open and load of the skeleton.
LoadSkeleton ==
    /\ pc = "load"
    /\ Goto("opendir") \/ Return(1)
    /\ UNCHANGED << scan_vars, kernel_vars >>

\* opendir(): if it fails nothing is scanned, and the run goes on.
seed_container_cgroups ==
    /\ pc = "opendir"
    /\ \/ Goto("comm") /\ UNCHANGED refused
       \/ Goto("attach") /\ refused' = TRUE
    /\ UNCHANGED << cursor, cg_id, seen, inserted, container_cgroups, kernel_vars >>

NextEntry ==
    /\ cursor' = cursor + 1
    /\ cg_id' = NULL
    /\ Goto(IF cursor = Cardinality(Pids) THEN "attach" ELSE "comm")

\* Wrong variant: every process with a comm file counts as a network function.
AnyComm(p) == proc[p] # NULL

is_nf_comm(p) == proc[p] # NULL /\ proc[p].nf

\* readdir() and the comm file.
ReadComm ==
    /\ pc = "comm"
    /\ IF is_nf_comm(cursor)
         THEN Goto("cgroup") /\ UNCHANGED << cursor, cg_id >>
         ELSE NextEntry
    /\ UNCHANGED << seen, inserted, container_cgroups, refused, kernel_vars >>

\* The cgroup file, opened under the same pid.
parse_cgroupv2_path ==
    /\ pc = "cgroup"
    /\ IF proc[cursor] # NULL /\ proc[cursor].cg \in Resolvable
         THEN /\ cg_id' = proc[cursor].cg
              /\ Goto("stat") /\ UNCHANGED cursor
         ELSE NextEntry
    /\ UNCHANGED << seen, inserted, container_cgroups, refused, kernel_vars >>

SeenHasRoom == Len(seen) < SeenMax

\* Wrong variants: a cgroup is only looked up while it can still be remembered;
\* it is counted before it is known to be new.
RememberOrSkip(cg) ==
    IF \/ \E k \in DOMAIN seen : seen[k] = cg
       \/ ~SeenHasRoom
      THEN UNCHANGED << seen, inserted, container_cgroups, refused >>
      ELSE /\ seen' = Append(seen, cg)
           /\ IF cg \in container_cgroups \/ Cardinality(container_cgroups) < MapMax
                THEN /\ container_cgroups' = container_cgroups \cup {cg}
                     /\ inserted' = inserted + 1
                     /\ UNCHANGED refused
                ELSE refused' = TRUE /\ UNCHANGED << container_cgroups, inserted >>

RememberTwice(cg) ==
    /\ seen' = IF SeenHasRoom THEN Append(seen, cg) ELSE seen
    /\ IF cg \in container_cgroups \/ Cardinality(container_cgroups) < MapMax
         THEN /\ container_cgroups' = container_cgroups \cup {cg}
              /\ inserted' = inserted + 1
              /\ UNCHANGED refused
         ELSE refused' = TRUE /\ UNCHANGED << container_cgroups, inserted >>

\* seen[] and the map: a cgroup counts as seen whether or not its insert succeeds.
Remember(cg) ==
    IF \E k \in DOMAIN seen : seen[k] = cg
      THEN UNCHANGED << seen, inserted, container_cgroups, refused >>
      ELSE /\ seen' = IF SeenHasRoom THEN Append(seen, cg) ELSE seen
           /\ IF cg \in container_cgroups \/ Cardinality(container_cgroups) < MapMax
                THEN /\ container_cgroups' = container_cgroups \cup {cg}
                     /\ inserted' = inserted + 1
                     /\ UNCHANGED refused
                ELSE refused' = TRUE /\ UNCHANGED << container_cgroups, inserted >>

\* stat() fails once the cgroup is gone with its last process.
cgroup_id_from_path ==
    /\ pc = "stat"
    /\ \/ Remember(cg_id)
       \/ /\ \A p \in Pids : proc[p] # NULL => proc[p].cg # cg_id
          /\ UNCHANGED << seen, inserted, container_cgroups, refused >>
    /\ NextEntry
    /\ UNCHANGED kernel_vars

\* namespace_tracer_bpf__attach(): a failure ends the run.
Attach ==
    /\ pc = "attach"
    /\ \/ /\ linked < Len(Programs[group])
          /\ linked' = linked + 1 /\ UNCHANGED << pc, stop, status >>
       \/ linked < Len(Programs[group]) /\ Return(1)
       \/ linked = Len(Programs[group]) /\ Goto("ring")
    /\ UNCHANGED << scan_vars, kernel_vars >>

ring_buffer__new ==
    /\ pc = "ring"
    /\ Goto("poll") \/ Return(1)
    /\ UNCHANGED << scan_vars, kernel_vars >>

\* SIGINT or SIGTERM: until the handler is installed it kills the process.
sig_handler ==
    /\ pc # "done" /\ ~stop
    /\ IF pc = "poll" THEN stop' = TRUE /\ UNCHANGED << pc, linked, status >>
                      ELSE Return(128)
    /\ UNCHANGED << scan_vars, kernel_vars >>

\* The loop is left, all is detached, the ring freed.
PollDone ==
    /\ pc = "poll" /\ stop
    /\ Return(0)
    /\ UNCHANGED << scan_vars, kernel_vars >>

\* The poll fails, or is interrupted by a signal without a handler of its own.
PollError ==
    /\ pc = "poll"
    /\ Return(0)
    /\ UNCHANGED << scan_vars, kernel_vars >>

\* fmt_addr(): what is printed of an address.  A port is printed whatever the
\* family, unless it is 0.
Printed(e) ==
    [n |-> e.n, type |-> e.type, own |-> e.own, by |-> e.by, old |-> e.old, bytes |-> e.bytes,
     ip |-> IF e.addr.af \in {2, 10} THEN e.addr.ip ELSE NULL, port |-> e.addr.port]

handle_event ==
    /\ pc = "poll"
    /\ ring # << >>
    /\ shown' = shown \cup {Printed(Head(ring))}
    /\ ring' = Tail(ring)
    /\ UNCHANGED << group, loader_vars, scan_vars, proc_vars, call, scratch, produced, sent, lost,
                    calls, due >>

-----------------------------------------------------------------------------
(***************************************************************************)
(* The tracepoints.                                                        *)
(***************************************************************************)
Attached(prog) == \E k \in 1..linked : Programs[group][k] = prog

is_tracked_cgroup(p) == proc[p].cg \in container_cgroups

\* The address in a record, as daddr and dport; zero stands for 0.
Addresses == [af : Families \cup {0}, ip : 0..MaxCalls, port : 0..MaxCalls]

NoAddress == [af |-> 0, ip |-> 0, port |-> 0]

\* new_event(): what the record may be before the handler sets its fields.  own is
\* what the call is about: the family of its address, NULL for none, or the bytes moved;
\* by is the call whose entry the handler read; old says that the ring has wrapped.  Of
\* a data record no address is printed, of another no byte count.
new_event(n, type, own) ==
    {[n |-> n, type |-> type, own |-> own, by |-> n, old |-> produced = RingWrap,
      addr |-> a, bytes |-> 0] :
       a \in IF produced = RingWrap /\ type \in Kinds THEN Addresses ELSE {NoAddress}}

\* What a's pointer leads to in the address space of call n.
UserMemory(n, a) == IF a.n = n THEN {[af |-> a.own, ip |-> n, port |-> n]} ELSE Addresses

\* A family other than IPv4 and IPv6 leaves ip and port as they are.
read_addr(e, a) ==
    {[e EXCEPT !.by = a.n,
               !.addr = IF m.af \in {2, 10} THEN m ELSE [e.addr EXCEPT !.af = m.af]] :
       m \in UserMemory(e.n, a)}

\* One of the events is reserved and submitted, unless the ring is full.
Submit(n, events) ==
    \/ /\ Len(ring) < RingSize
       /\ \E e \in events : ring' = Append(ring, e)
       /\ produced' = Min({produced + 1, RingWrap})
       /\ sent' = sent \cup {n}
       /\ UNCHANGED lost
    \/ /\ Len(ring) = RingSize
       /\ lost' = lost \cup {n}
       /\ UNCHANGED << ring, produced, sent >>

Call(p) ==
    /\ pc \in {"attach", "ring", "poll"}
    /\ p \in Callers
    /\ proc[p] # NULL /\ call[p] = NULL
    /\ calls < MaxCalls
    /\ calls' = calls + 1

\* With BPF_ANY.  A new element may be one that was just deleted, whose exit handler
\* still reads it.
bpf_map_update_elem(k, p, c) ==
    \/ /\ \/ scratch[k][p] # NULL
          \/ Cardinality({q \in Pids : scratch[k][q] # NULL}) < ScratchMax
       /\ scratch' = [scratch EXCEPT ![k][p] = c]
       /\ \E q \in {r \in Pids : call[r] # NULL /\ call[r].args # NULL /\ call[r].kind = k}
                     \cup {p} :
            call' = [r \in Pids |-> IF r = p THEN c
                                    ELSE IF r = q THEN [call[r] EXCEPT !.args = c]
                                    ELSE call[r]]
       /\ UNCHANGED lost
    \/ /\ scratch[k][p] = NULL
       /\ Cardinality({q \in Pids : scratch[k][q] # NULL}) = ScratchMax
       /\ call' = [call EXCEPT ![p] = c]
       /\ lost' = lost \cup {c.n}
       /\ UNCHANGED scratch

\* Wrong variant: an entry that is there already is kept.
trace_enter_noexist(k, p, c) ==
    IF c.seen /\ is_tracked_cgroup(p) /\ scratch[k][p] = NULL
      THEN bpf_map_update_elem(k, p, c)
      ELSE call' = [call EXCEPT ![p] = c] /\ UNCHANGED << scratch, lost >>

\* trace_connect_enter(), trace_accept_enter().
trace_enter(k, p, c) ==
    IF c.seen /\ is_tracked_cgroup(p)
      THEN bpf_map_update_elem(k, p, c)
      ELSE call' = [call EXCEPT ![p] = c] /\ UNCHANGED << scratch, lost >>

\* A process enters connect() or accept4().
EnterCall(p, k, own) ==
    /\ Call(p) /\ k = group
    /\ trace_enter(k, p, [n |-> calls + 1, kind |-> k, own |-> own, args |-> NULL,
                          seen |-> Attached(<<k, "enter">>)])
    /\ UNCHANGED << group, loader_vars, scan_vars, proc_vars, ring, produced, sent, due, shown >>

\* 0, EINPROGRESS and an error of connect(), a descriptor and an error of accept4().
Returns(k) == IF k = "connect" THEN {0, -115, -111} ELSE {7, -11}

Reported(k, ret) == IF k = "connect" THEN ret = 0 \/ ret = -115 ELSE ret >= 0

\* It returns: trace_connect_exit(), trace_accept_exit() up to the new event.
\* The entry is deleted, whatever the call returned, and read afterwards.
ExitCall(p, ret) ==
    /\ call[p] # NULL /\ call[p].args = NULL
    /\ LET c == call[p]
           traced == Attached(<<c.kind, "exit">>) /\ is_tracked_cgroup(p)
           found == scratch[c.kind][p]
       IN  /\ scratch' = IF traced THEN [scratch EXCEPT ![c.kind][p] = NULL] ELSE scratch
           /\ call' = [call EXCEPT ![p] = IF traced /\ found # NULL /\ Reported(c.kind, ret)
                                            THEN [c EXCEPT !.args = found] ELSE NULL]
           /\ due' = IF c.seen /\ p \in stable /\ proc[p].cg \in Resolvable
                        /\ Attached(<<c.kind, "exit">>) /\ Reported(c.kind, ret)
                       THEN due \cup {c.n} ELSE due
    /\ UNCHANGED << group, loader_vars, scan_vars, proc_vars, report_vars, calls, shown >>

\* The rest: of an accept4() without an address nothing is read.
ExitReport(p) ==
    /\ call[p] # NULL /\ call[p].args # NULL
    /\ LET a == call[p].args
           fresh == new_event(call[p].n, call[p].kind, call[p].own)
       IN  Submit(call[p].n, IF call[p].kind = "accept4" /\ a.own = NULL
                               THEN {[e EXCEPT !.by = a.n] : e \in fresh}
                               ELSE UNION {read_addr(e, a) : e \in fresh})
    /\ call' = [call EXCEPT ![p] = NULL]
    /\ UNCHANGED << group, loader_vars, scan_vars, proc_vars, scratch, calls, due, shown >>

\* sendmsg() and recvmsg(): one handler each, that sets the byte count; worth says
\* whether the handler reports such a call.
DataCall(p, prog, worth, own, bytes) ==
    /\ Call(p) /\ group = "data"
    /\ IF Attached(prog) /\ is_tracked_cgroup(p) /\ worth
         THEN Submit(calls + 1, {[e EXCEPT !.bytes = bytes] :
                                   e \in new_event(calls + 1, prog[1], own)})
         ELSE UNCHANGED report_vars
    /\ due' = IF Attached(prog) /\ p \in stable /\ proc[p].cg \in Resolvable /\ worth
                THEN due \cup {calls + 1} ELSE due
    /\ UNCHANGED << group, loader_vars, scan_vars, proc_vars, call, scratch, shown >>

\* The sums of the first lengths, as the loop adds them up.
Sums(lens) ==
    LET S[k \in 0..Len(lens)] == IF k = 0 THEN 0 ELSE S[k - 1] + lens[k]
    IN  S

Sum(lens) == Sums(lens)[Len(lens)]

\* Wrong variant: the count is that of the last iovec.
iov_bytes_last(lens) == lens[Min({Len(lens), IovMax})]

\* At most IovMax lengths are added.
iov_bytes(lens) == Sums(lens)[Min({Len(lens), IovMax})]

\* Every sendmsg() is reported, an empty or a failing one too; a recvmsg() only if
\* it received something.
trace_sendmsg(p, lens) ==
    DataCall(p, <<"sendmsg", "enter">>, TRUE, Sum(lens), iov_bytes(lens))

trace_recvmsg_exit(p, ret) == DataCall(p, <<"recvmsg", "exit">>, ret > 0, ret, ret)

-----------------------------------------------------------------------------
(***************************************************************************)
(* The processes of the host.                                              *)
(***************************************************************************)
\* p exits, is started or execs.
ProcChange(p, q) ==
    /\ changes < MaxChanges
    /\ pc # "done" /\ call[p] = NULL
    /\ changes' = changes + 1
    /\ q # proc[p]
    /\ proc[p] # NULL /\ q # NULL => q.cg = proc[p].cg
    /\ proc' = [proc EXCEPT ![p] = q]
    /\ stable' = stable \ {p}
    /\ takers' = IF pc = "cgroup" /\ p = cursor /\ proc[p] = NULL THEN takers \cup {q.cg}
                                                                ELSE takers
    /\ nfCgroups' = IF q # NULL /\ q.nf THEN nfCgroups \cup {q.cg} ELSE nfCgroups
    /\ UNCHANGED << group, loader_vars, scan_vars, call, scratch, report_vars, calls, due, shown >>

main ==
    \/ LoadSkeleton \/ seed_container_cgroups \/ ReadComm \/ parse_cgroupv2_path \/ cgroup_id_from_path
    \/ Attach \/ ring_buffer__new \/ handle_event \/ PollDone \/ PollError

Next ==
    \/ main
    \/ sig_handler
    \/ \E p \in Pids :
         \/ \E af \in Families : EnterCall(p, "connect", af)
         \/ \E af \in Families \cup {NULL} : EnterCall(p, "accept4", af)
         \/ call[p] # NULL /\ \E ret \in Returns(call[p].kind) : ExitCall(p, ret)
         \/ ExitReport(p)
         \/ \E lens \in Iovs : trace_sendmsg(p, lens)
         \/ \E ret \in {-11, 0, 1} : trace_recvmsg_exit(p, ret)
         \/ \E q \in Processes \cup {NULL} : ProcChange(p, q)

Spec == Init /\ [][Next]_vars

-----------------------------------------------------------------------------
(***************************************************************************)
(* Properties.                                                             *)
(***************************************************************************)
\* The types and the capacities.
TypeOK ==
    /\ pc \in {"load", "opendir", "comm", "cgroup", "stat", "attach", "ring", "poll", "done"}
    /\ cursor \in 1..(Cardinality(Pids) + 1)
    /\ Len(seen) <= SeenMax /\ Cardinality(container_cgroups) <= MapMax
    /\ container_cgroups \subseteq Resolvable
    /\ linked \in 0..Len(Programs[group])
    /\ Len(ring) <= RingSize
    /\ \A k \in Kinds : Cardinality({p \in Pids : scratch[k][p] # NULL}) <= ScratchMax

\* "Seeded %d NF cgroup(s)": the count is the number of cgroups in the map as
\* long as seen[] has room for all of them, and never less than that.
SeedCountExact ==
    /\ inserted >= Cardinality(container_cgroups)
    /\ inserted > Cardinality(container_cgroups) => Cardinality(container_cgroups) > SeenMax

\* The comm and the cgroup of a pid are read one after the other, and processes
\* come and go: a cgroup in the map has held a network function, or it is that of a
\* process started under a pid just then looked at, after the network function whose
\* comm was read and before the cgroup was; no other process gets in.
TrackedIsNf == container_cgroups \subseteq nfCgroups \cup takers

\* The scan together with the tracepoints: the successful calls of a process
\* that was a network function before the scan and still is are all sent, or
\* given up because a map or the ring was full, whatever starts and exits
\* meanwhile, in whatever order the cgroups are met and however many there are, as long
\* as /proc could be opened and every insert succeeded.
StableIsTraced ==
    refused \/ \A n \in due : n \in sent \cup lost \/ \E p \in Pids : call[p] # NULL /\ call[p].n = n

\* What is shown of a call whose handler read the call's own entry: an IPv4 address and
\* its port; else neither, or what an earlier record left: the port for another family,
\* the address too for an accept4() without one.
ShowsOwnAddress(e) ==
    \/ e.own = 2 /\ e.ip = e.n /\ e.port = e.n
    \/ e.own = 1 /\ e.ip = NULL /\ (e.port = 0 \/ e.old)
    \/ e.own = NULL /\ ((e.ip = NULL /\ e.port = 0) \/ e.old)

IsOwn(e) ==
    \/ e.type \in Kinds /\ (e.by > e.n \/ (e.by = e.n /\ ShowsOwnAddress(e)))
    \/ e.type = "recvmsg" /\ e.bytes = e.own
    \/ e.type = "sendmsg" /\ \/ e.bytes = e.own
                             \/ /\ e.bytes < e.own
                                /\ \E lens \in Iovs : Sum(lens) = e.own /\ Len(lens) > IovMax

\* The two halves of a call, and records that are not cleared: the address printed is
\* read through the call's own entry, or through that of a call which began later,
\* while the exit handler was running, and never through an earlier one's, though an
\* entry outlives its call while only one of the two handlers is attached; an own IPv4
\* address is printed exactly, and bytes of earlier records only where there is none and
\* the ring has wrapped.  A byte count is that of the call, or too small for a sendmsg()
\* of more than IovMax pieces.
ShownIsOwn == \A e \in shown : IsOwn(e)

=============================================================================
