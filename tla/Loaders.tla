------------------------------- MODULE Loaders -------------------------------
(***************************************************************************)
(* The loaders of the network functions other than the AMF: nrf_loader.c,  *)
(* which checks every result, and the loaders of smf, pcf, udm and ausf,   *)
(* which share one main() that ignores those of attach_programs(); the     *)
(* loaders of nef, nssf, udr and the template are that main() with nothing *)
(* to attach.  A target is a pair: its group and its index there.          *)
(*                                                                         *)
(* The network function is found once, by its pid; it may exit, a new      *)
(* instance of it start in the same container or in another, and the pid   *)
(* pass to that instance or to any other process, at any moment.  Cgroup 1 *)
(* is that of no container.                                                *)
(***************************************************************************)
EXTENDS Integers, Sequences, FiniteSets

CONSTANTS
    NFs,                    \* the loaders to look at: a subset of DOMAIN Groups
    RingSize,
    MaxInstances,           \* bound on instances of the network function
    MaxReuses,              \* bound on how often the pid found passes to another process
    MaxFailures             \* bound on calls that fail for want of resources

ASSUME LoadersAssumption ==
    /\ {RingSize, MaxInstances, MaxReuses, MaxFailures} \subseteq Nat
    /\ MaxInstances # 0     \* Init may have one running

VARIABLES
    nf,                     \* which loader this is
    pc, g, i,               \* its next step, the target or group it is at
    links,                  \* targets with a link
    handled, stop, err,
    status,                 \* what it returned, -2 before
    inst, last,             \* the instance running, instances so far
    holder,                 \* the process that has the pid found
    bound,                  \* target and instance of each uprobe
    cgroup_id,
    filter,                 \* nrf_cgroup_map[0], 0 before it is set
    ring, shown,            \* events: the process each is from, and whose probe it is
    failures, reuses,
    \* History.
    found,                  \* the process that had the pid when it was looked up
    takers,                 \* processes that took it since, and main()'s step then
    failed                  \* targets that could not be attached

nf_vars == << inst, last, holder, takers, reuses >>
event_vars == << ring, shown >>
vars == << nf, pc, g, i, links, handled, stop, err, status, nf_vars, found, filter,
           cgroup_id, bound, event_vars, failures, failed >>

\* A process: the number of the instance, -1 for any other program, and its cgroup.
Cgroups == 1..(MaxInstances + 1)

Processes == [who : 1..MaxInstances \cup {-1}, cg : Cgroups]

NoProcess == [who |-> 0, cg |-> 0]

\* The targets of each group, in the order the groups are attached.
smf_funcs == << 2, 4, 5, 2, 3, 5 >>
pcf_funcs == << 4, 3, 1, 6, 4 >>
udm_funcs == << 3, 2, 1, 15, 8 >>
ausf_funcs == << 3 >>
\* nf_mngmt_funcs, auth_funcs, nf_disc_funcs.
nrf_funcs == << 8, 1, 1 >>
syscall_tps == 6

Groups == [smf |-> smf_funcs, pcf |-> pcf_funcs, udm |-> udm_funcs, ausf |-> ausf_funcs,
           nef |-> << >>, nrf |-> Append(nrf_funcs, syscall_tps)]

ASSUME NFsAssumption == NFs \subseteq DOMAIN Groups

Targets == UNION {{a} \X (1..Groups[nf][a]) : a \in DOMAIN Groups[nf]}

Checked == nf = "nrf"

\* The last group of the NRF holds the system call tracepoints, which are not
\* bound to a process.
IsTracepoint(t) == Checked /\ t[1] = Len(Groups[nf])

\* smf_release_all_upf: the symbol's name is written twice in a row.
NoSymbol == IF nf = "smf" THEN {<<1, 2>>} ELSE {}

\* The order in which cleanup visits the groups.
CleanupOrder ==
    LET n == Len(Groups[nf])
    IN  CASE nf = "pcf" -> [k \in 1..n |-> n + 1 - k]
          [] nf = "nrf" -> << n >> \o [k \in 1..(n - 1) |-> k]
          [] OTHER      -> [k \in 1..n |-> k]

Init ==
    /\ nf \in NFs
    /\ pc = "find" /\ g = 1 /\ i = 1
    /\ links = {}
    /\ handled = FALSE /\ stop = FALSE /\ err = 0 /\ status = -2
    /\ inst \in {NoProcess, [who |-> 1, cg |-> 2]} /\ last = inst.who
    /\ found = NoProcess /\ holder = NoProcess /\ takers = {} /\ reuses = 0
    /\ cgroup_id = 0 /\ filter = 0 /\ bound = {}
    /\ ring = << >> /\ shown = {}
    /\ failures = 0 /\ failed = {}

-----------------------------------------------------------------------------
(***************************************************************************)
(* The steps of main().                                                    *)
(***************************************************************************)
Goto(to) == pc' = to /\ g' = 1 /\ i' = 1 /\ UNCHANGED status

Return(ret) == pc' = "done" /\ status' = ret /\ UNCHANGED << g, i >>

\* A call fails for want of memory, descriptors or privileges.
Fails == failures < MaxFailures /\ failures' = failures + 1

\* A call fails for certain, or for that reason.
FailsIf(cond) ==
    \/ cond /\ UNCHANGED failures
    \/ Fails

kernel_vars == << nf, nf_vars, event_vars >>

find_nf ==
    /\ pc = "find"
    /\ \/ /\ inst # NoProcess
          /\ found' = inst /\ holder' = inst
          /\ Goto(IF Checked THEN "cgroup" ELSE "load") /\ UNCHANGED failures
       \/ FailsIf(inst = NoProcess) /\ Return(1) /\ UNCHANGED << found, holder >>
    /\ UNCHANGED << nf, inst, last, takers, reuses, event_vars, links, handled, stop, err,
                    cgroup_id, filter, bound, failed >>

\* The cgroup of whoever has the pid by now.
get_nf_cgroup_id ==
    /\ pc = "cgroup"
    /\ \/ holder # NoProcess /\ cgroup_id' = holder.cg /\ Goto("load") /\ UNCHANGED failures
       \/ FailsIf(holder = NoProcess) /\ Return(1) /\ UNCHANGED cgroup_id
    /\ UNCHANGED << kernel_vars, links, handled, stop, err, found, filter, bound, failed >>

open_and_load ==
    /\ pc = "load"
    /\ \/ Goto(IF Checked THEN "filter" ELSE "attach") /\ UNCHANGED failures
       \/ Fails /\ Return(1)
    /\ UNCHANGED << kernel_vars, links, handled, stop, err, found, cgroup_id, filter, bound, failed >>

nrf_cgroup_map_update ==
    /\ pc = "filter"
    /\ \/ Goto("attach") /\ filter' = cgroup_id /\ UNCHANGED << failures, err >>
       \/ Fails /\ Goto("free") /\ err' = -1 /\ UNCHANGED filter
    /\ UNCHANGED << kernel_vars, links, handled, stop, found, cgroup_id, bound, failed >>

\* A uprobe is for the process that has the pid now, and its program has to have the
\* symbol.
Attachable(t) == IsTracepoint(t) \/ (holder.who > 0 /\ t \notin NoSymbol)

\* attach_programs() returns -1: Checked, main() goes to cleanup; else the next
\* group is attached.
\* Wrong variants: the NRF's loader goes on as well; no further group is attached.
GroupFailedIgnored == pc' = pc /\ g' = g + 1 /\ i' = 1 /\ UNCHANGED << err, status >>

GroupFailedFinal ==
    IF Checked THEN Goto("free") /\ err' = 1
               ELSE Goto("signal") /\ UNCHANGED err

GroupFailed ==
    IF Checked THEN Goto("free") /\ err' = 1
               ELSE pc' = pc /\ g' = g + 1 /\ i' = 1 /\ UNCHANGED << err, status >>

\* attach_programs() and attach_tracepoints(), a target at a time.
attach_programs ==
    /\ pc = "attach"
    /\ \/ /\ g > Len(Groups[nf])
          /\ Goto(IF Checked THEN "ring" ELSE "signal")
          /\ UNCHANGED << links, bound, err, failures, failed >>
       \/ /\ g <= Len(Groups[nf])
          /\ Attachable(<<g, i>>)
          /\ links' = links \cup {<<g, i>>}
          /\ bound' = IF IsTracepoint(<<g, i>>) THEN bound ELSE bound \cup {<<<<g, i>>, holder.who>>}
          /\ IF i < Groups[nf][g] THEN i' = i + 1 /\ UNCHANGED g
                                  ELSE g' = g + 1 /\ i' = 1
          /\ UNCHANGED << pc, status, err, failures, failed >>
       \/ /\ g <= Len(Groups[nf])
          /\ FailsIf(~Attachable(<<g, i>>))
          /\ failed' = failed \cup {<<g, i>>}
          /\ GroupFailed
          /\ UNCHANGED << links, bound >>
    /\ UNCHANGED << kernel_vars, handled, stop, found, cgroup_id, filter >>

\* signal(): before the ring buffer is made, after it in nrf_loader.c.
InstallHandlers ==
    /\ pc = "signal"
    /\ handled' = TRUE
    /\ Goto(IF Checked THEN "poll" ELSE "ring")
    /\ UNCHANGED << kernel_vars, links, stop, err, found, cgroup_id, filter, bound, failures, failed >>

\* Where it fails the loaders other than the NRF's detach nothing.
ring_buffer__new ==
    /\ pc = "ring"
    /\ \/ Goto(IF Checked THEN "signal" ELSE "poll") /\ UNCHANGED << err, failures >>
       \/ Fails /\ Checked /\ Goto("free") /\ err' = 1
       \/ Fails /\ ~Checked /\ Return(1) /\ UNCHANGED err
    /\ UNCHANGED << kernel_vars, links, handled, stop, found, cgroup_id, filter, bound, failed >>

handle_event ==
    /\ pc = "poll" /\ ring # << >>
    /\ shown' = shown \cup {Head(ring)}
    /\ ring' = Tail(ring)
    /\ UNCHANGED << nf, pc, g, i, links, handled, stop, err, status, nf_vars, found, cgroup_id,
                    filter, bound, failures, failed >>

\* Wrong variant: stop is only looked at after an event.
PollStopLate ==
    /\ pc = "poll" /\ stop /\ ring # << >>
    /\ Goto("free")
    /\ UNCHANGED << kernel_vars, links, handled, stop, err, found, cgroup_id, filter, bound, failures, failed >>

PollStop ==
    /\ pc = "poll" /\ stop
    /\ Goto("free")
    /\ UNCHANGED << kernel_vars, links, handled, stop, err, found, cgroup_id, filter, bound, failures, failed >>

\* ring_buffer__poll() returns an error: EINTR is ignored by nrf_loader.c, and
\* like any other one for the others, which return 0 all the same.
PollError(code) ==
    /\ pc = "poll"
    /\ \/ code # "EINTR" /\ Fails
       \/ code = "EINTR" /\ ~Checked /\ UNCHANGED failures
    /\ Goto("free")
    /\ err' = IF Checked THEN -1 ELSE 0
    /\ UNCHANGED << kernel_vars, links, handled, stop, found, cgroup_id, filter, bound, failed >>

ring_buffer__free ==
    /\ pc = "free"
    /\ Goto("detach")
    /\ UNCHANGED << kernel_vars, links, handled, stop, err, found, cgroup_id, filter, bound, failures, failed >>

\* Wrong variant: cleanup leaves out its last group.
detach_programs_short ==
    /\ pc = "detach"
    /\ \/ /\ g < Len(Groups[nf])
          /\ links' = {t \in links : t[1] # CleanupOrder[g]}
          /\ g' = g + 1 /\ UNCHANGED << pc, i, status >>
       \/ g >= Len(Groups[nf]) /\ Return(err) /\ UNCHANGED links
    /\ UNCHANGED << kernel_vars, handled, stop, err, found, cgroup_id, filter, bound, failures, failed >>

\* detach_programs(), detach_tracepoints(), destroy, return.
detach_programs ==
    /\ pc = "detach"
    /\ \/ /\ g <= Len(Groups[nf])
          /\ links' = {t \in links : t[1] # CleanupOrder[g]}
          /\ g' = g + 1 /\ UNCHANGED << pc, i, status >>
       \/ g > Len(Groups[nf]) /\ Return(err) /\ UNCHANGED links
    /\ UNCHANGED << kernel_vars, handled, stop, err, found, cgroup_id, filter, bound, failures, failed >>

\* SIGINT or SIGTERM; without a handler it kills the loader.
handle_signal ==
    /\ pc # "done" /\ ~stop
    /\ IF handled THEN stop' = TRUE /\ UNCHANGED << pc, g, i, status >>
                  ELSE Return(128) /\ UNCHANGED stop
    /\ UNCHANGED << kernel_vars, links, handled, err, found, cgroup_id, filter, bound, failures, failed >>

-----------------------------------------------------------------------------
(***************************************************************************)
(* The probes, and the network function.                                   *)
(***************************************************************************)
HasRoom == Len(ring) < RingSize

\* Reserve, fill, submit; nothing when the ring is full.
NewEvent(via, p) ==
    /\ ring' = IF HasRoom THEN Append(ring, [via |-> via, who |-> p.who, cg |-> p.cg]) ELSE ring
    /\ UNCHANGED << nf, pc, g, i, links, handled, stop, err, status, nf_vars, found, cgroup_id,
                    filter, bound, shown, failures, failed >>

\* A probed function is called: one handler each, all alike.  The link is bound
\* to the process it was made for.
Uprobe(t) ==
    /\ pc # "done" /\ t \in links /\ <<t, inst.who>> \in bound
    /\ NewEvent("uprobe", inst)

\* Wrong variant: a missing comparison.
is_nrf_cgroup_any(p) == filter # 0

\* The caller's cgroup is compared, not the caller.
is_nrf_cgroup(p) == filter # 0 /\ p.cg = filter

Others == [who : {-1}, cg : Cgroups]

\* A system call anywhere on the host.
SyscallEvent(t, p) ==
    /\ pc # "done" /\ t \in links /\ IsTracepoint(t)
    /\ is_nrf_cgroup(p)
    /\ NewEvent("tracepoint", p)

main_vars == << nf, pc, g, i, links, handled, stop, err, status, found, cgroup_id, filter, bound,
                failures, failed >>

\* The pid found is free, and p gets it.
TakePid(p) ==
    /\ found # NoProcess /\ holder = NoProcess /\ reuses < MaxReuses
    /\ holder' = p /\ reuses' = reuses + 1
    /\ takers' = takers \cup {[at |-> pc, who |-> p.who, cg |-> p.cg]}

NfExit ==
    /\ inst # NoProcess /\ inst' = NoProcess
    /\ holder' = IF holder = inst THEN NoProcess ELSE holder
    /\ UNCHANGED << main_vars, last, takers, reuses, event_vars >>

\* In the container of an earlier instance, or in a new one.
NfStart(cg) ==
    /\ inst = NoProcess /\ last < MaxInstances
    /\ last' = last + 1 /\ inst' = [who |-> last + 1, cg |-> cg]
    /\ TakePid(inst') \/ UNCHANGED << holder, takers, reuses >>
    /\ UNCHANGED << main_vars, event_vars >>

\* Another program is started under the pid, or such a one exits.
OtherStart(p) == TakePid(p) /\ UNCHANGED << main_vars, inst, last, event_vars >>

OtherExit ==
    /\ holder \in Others /\ holder' = NoProcess
    /\ UNCHANGED << main_vars, inst, last, takers, reuses, event_vars >>

main ==
    \/ find_nf \/ get_nf_cgroup_id \/ open_and_load \/ nrf_cgroup_map_update
    \/ attach_programs \/ InstallHandlers \/ ring_buffer__new \/ handle_event \/ PollStop
    \/ ring_buffer__free \/ detach_programs

Next ==
    \/ main
    \/ \E code \in {"EINTR", "other"} : PollError(code)
    \/ handle_signal
    \/ \E t \in links : Uprobe(t) \/ \E p \in {inst} \cup Others : SyscallEvent(t, p)
    \/ NfExit \/ OtherExit
    \/ \E cg \in 2..(last + 2) : NfStart(cg)
    \/ \E p \in Others : OtherStart(p)

Spec == Init /\ [][Next]_vars

\* The loader is not suspended for ever; a poll ends after 100 ms, events or not.
FairSpec == Spec /\ WF_vars(main) /\ WF_vars(PollStop)

-----------------------------------------------------------------------------
(***************************************************************************)
(* Properties.                                                             *)
(***************************************************************************)
\* The types; a link is that of a target.
TypeOK ==
    /\ links \subseteq Targets
    /\ g \in 1..(Len(Groups[nf]) + 1) /\ i \in 1..15
    /\ status \in {-2, -1, 0, 1, 128} /\ err \in {-1, 0, 1}
    /\ Len(ring) <= RingSize
    /\ {inst, holder, found} \subseteq Processes \cup {NoProcess} /\ last \in 0..MaxInstances

\* The steps of main() before the pid is no longer used.
Setup == {"cgroup", "load", "filter", "attach"}

Events == shown \cup {ring[k] : k \in DOMAIN ring}

\* find_nf(), the pid given to the uprobes and the cgroup filter: whatever starts and
\* exits, in whatever container, an event of a uprobe is of the instance found, and one
\* of a tracepoint is of a process in its container.  The exception is a pid that passed
\* to another process before main() was done with it: a uprobe may be that process's if
\* it took the pid before the last uprobe was made, and the container traced its, if it
\* took it before the cgroup was read, and at no later step.
EventsOfTheFound ==
    \A e \in Events :
      /\ e.via = "uprobe" =>
           e.who = found.who \/ \E x \in takers : x.at \in Setup /\ x.who = e.who
      /\ e.via = "tracepoint" =>
           e.cg = found.cg \/ \E x \in takers : x.at = "cgroup" /\ x.cg = e.cg

\* attach_programs() in a loader that ignores its result: while it polls, a target
\* is without a link only if it, or one before it in its own group, failed; a
\* group that fails costs no other group its probes.
FailureStaysInItsGroup ==
    pc = "poll" => \A t \in Targets \ links : \E k \in 1..t[2] : <<t[1], k>> \in failed

\* The exit status: 0 of nrf_loader.c means that every target was attached and
\* that it traced until a signal came.  The other loaders return 0 for less.
ZeroMeansTraced == Checked /\ status = 0 => failed = {} /\ stop

\* cleanup: a loader that has polled returns with no link left, in whatever order
\* it visits its groups and whichever of them were attached; only where the ring
\* buffer cannot be made, or a signal kills it, does the kernel clean up.
CleanupComplete == pc = "done" /\ status # 128 /\ links # {} => ~Checked /\ status = 1

\* handle_signal(): from the moment it is installed a signal ends the loader.
StopEnds == stop ~> pc = "done"

=============================================================================
