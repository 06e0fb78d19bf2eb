---------------------------- MODULE LoadersProofs ----------------------------
(***************************************************************************)
(* Proofs about Loaders, for every loader and any number of failures,      *)
(* restarts of the network function, and events.                           *)
(***************************************************************************)
EXTENDS Loaders, TLAPS

\* main() before it attaches, while it does or after, and during cleanup.
Before == {"find", "cgroup", "load", "filter"}
Running == {"attach", "signal", "ring", "poll"}
Cleanup == {"free", "detach"}

NGroups == Len(Groups[nf])

Event == [via : {"uprobe", "tracepoint"}, who : Int, cg : Int]

\* The types, with what TypeOK leaves out.
Typed ==
    /\ TypeOK
    /\ nf \in NFs
    /\ pc \in Before \cup Running \cup Cleanup \cup {"done"}
    /\ pc = "attach" /\ g <= NGroups => i <= Groups[nf][g]
    /\ ring \in Seq(Event)
    /\ failures \in Nat
    /\ status = -2 <=> pc # "done"

\* The process that had the pid when it was looked up, or took it while main() used
\* the pid; the same of the container, while the cgroup was not read.
Bindable(who) == who = found.who \/ \E x \in takers : x.at \in Setup /\ x.who = who
Readable(cg) == cg = found.cg \/ \E x \in takers : x.at = "cgroup" /\ x.cg = cg

\* The pid is looked up once, before anything can happen in its name; whoever has it
\* while main() uses it is bindable, and so is all that main() has made of it.
FoundInv ==
    /\ pc = "find" => /\ found = NoProcess /\ takers = {}
                      /\ cgroup_id = 0 /\ bound = {}
                      /\ ring = << >> /\ shown = {}
    /\ pc \in Setup /\ holder # NoProcess => Bindable(holder.who)
    /\ pc = "cgroup" /\ holder # NoProcess => Readable(holder.cg)
    /\ cgroup_id # 0 => Readable(cgroup_id)
    /\ pc \in {"find", "cgroup"} => filter = 0
    /\ filter \in {0, cgroup_id}
    /\ \A x \in bound : Bindable(x[2])

\* The attach loops: a target already visited has its link, or one of its group
\* has failed no later than its turn.
Visited(t) == t \in links \/ \E k \in 1..t[2] : <<t[1], k>> \in failed

AttachInv ==
    /\ pc \in Before => links = {} /\ failed = {}
    /\ pc = "attach" => \A t \in Targets :
         /\ t[1] < g => Visited(t)
         /\ t[1] = g /\ t[2] < i => t \in links
    /\ pc \in {"signal", "ring", "poll"} => \A t \in Targets : Visited(t)

\* The NRF's loader attaches on only while nothing has failed, and remembers in
\* err why it goes to cleanup.
ErrInv ==
    Checked =>
        /\ pc \in Before \cup Running => failed = {} /\ err = 0
        /\ pc \in Cleanup /\ err = 0 => failed = {} /\ stop
        /\ status = 0 => failed = {} /\ stop

\* Cleanup: the groups visited so far have no link.
CleanupInv ==
    /\ pc = "detach" => \A t \in links : \A k \in 1..(g - 1) : t[1] # CleanupOrder[k]
    /\ CleanupComplete

LoadersInv ==
    Typed /\ FoundInv /\ EventsOfTheFound /\ AttachInv /\ ErrInv /\ CleanupInv

-----------------------------------------------------------------------------
\* The attach lists.
LEMMA BoundsNat == RingSize \in Nat /\ MaxInstances \in Nat /\ MaxFailures \in Nat
BY LoadersAssumption

LEMMA GroupsFacts ==
    ASSUME NEW n \in NFs
    PROVE  Groups[n] \in Seq(1..15)
<1>1. n \in {"smf", "pcf", "udm", "ausf", "nef", "nrf"}
  BY NFsAssumption DEF Groups
<1>2. CASE n = "smf"
  BY <1>2 DEF Groups, smf_funcs
<1>3. CASE n = "pcf"
  BY <1>3 DEF Groups, pcf_funcs
<1>4. CASE n = "udm"
  BY <1>4 DEF Groups, udm_funcs
<1>5. CASE n = "ausf"
  BY <1>5 DEF Groups, ausf_funcs
<1>6. CASE n = "nef"
  BY <1>6 DEF Groups
<1>7. CASE n = "nrf"
  <2>1. nrf_funcs \in Seq(1..15) /\ syscall_tps \in 1..15
    BY DEF nrf_funcs, syscall_tps
  <2>2. Groups["nrf"] = Append(nrf_funcs, syscall_tps)
    BY DEF Groups
  <2>3. QED
    BY <1>7, <2>1, <2>2
<1>8. QED
  BY <1>1, <1>2, <1>3, <1>4, <1>5, <1>6, <1>7

LEMMA NGroupsFacts ==
    ASSUME nf \in NFs
    PROVE  /\ NGroups \in Nat
           /\ \A a \in 1..NGroups : Groups[nf][a] \in 1..15
BY GroupsFacts DEF NGroups

\* A target is a pair of a group and an index in it.
LEMMA TargetsFacts ==
    ASSUME nf \in NFs, NEW t
    PROVE  t \in Targets <=>
             \E a \in 1..NGroups : \E b \in 1..Groups[nf][a] : t = <<a, b>>
<1>1. DOMAIN Groups[nf] = 1..NGroups
  BY GroupsFacts DEF NGroups
<1>2. QED
  BY <1>1 DEF Targets

\* Every group has its turn in cleanup.
LEMMA CleanupVisitsAll ==
    ASSUME nf \in NFs, NEW a \in 1..NGroups
    PROVE  \E k \in 1..NGroups : CleanupOrder[k] = a
<1>1. NGroups \in Nat
  BY NGroupsFacts
<1>2. CASE nf = "pcf"
  <2>1. CleanupOrder = [k \in 1..NGroups |-> NGroups + 1 - k]
    BY <1>2 DEF CleanupOrder, NGroups
  <2>2. NGroups + 1 - a \in 1..NGroups
    BY <1>1
  <2>3. CleanupOrder[NGroups + 1 - a] = a
    BY <1>1, <2>1, <2>2
  <2>4. QED
    BY <2>2, <2>3
<1>3. CASE nf = "nrf"
  <2> DEFINE rest == [k \in 1..(NGroups - 1) |-> k]
  <2>1. CleanupOrder = << NGroups >> \o rest
    BY <1>3 DEF CleanupOrder, NGroups
  <2>2. rest \in Seq(Nat) /\ Len(rest) = NGroups - 1
    BY <1>1
  <2>3. CleanupOrder[1] = NGroups
    BY <1>1, <2>1, <2>2
  <2>4. ASSUME a # NGroups
        PROVE  CleanupOrder[a + 1] = a
    BY <1>1, <2>1, <2>2, <2>4
  <2>5. QED
    BY <1>1, <2>3, <2>4
<1>4. CASE nf \notin {"pcf", "nrf"}
  <2>1. CleanupOrder = [k \in 1..NGroups |-> k]
    BY <1>4 DEF CleanupOrder, NGroups
  <2>2. QED
    BY <2>1
<1>5. QED
  BY <1>2, <1>3, <1>4

-----------------------------------------------------------------------------
\* No step changes which loader it is.
LEMMA NfFixed ==
    ASSUME [Next]_vars
    PROVE  nf' = nf
BY DEF Next, vars, main, find_nf, get_nf_cgroup_id, open_and_load, nrf_cgroup_map_update,
       attach_programs, InstallHandlers, ring_buffer__new, handle_event, PollStop, PollError,
       ring_buffer__free, detach_programs, handle_signal, Uprobe, SyscallEvent, NewEvent,
       NfExit, NfStart, OtherStart, OtherExit, kernel_vars, main_vars

LEMMA SameLists ==
    ASSUME nf' = nf
    PROVE  /\ Checked' = Checked /\ NGroups' = NGroups /\ Targets' = Targets
           /\ CleanupOrder' = CleanupOrder
BY DEF Checked, NGroups, Targets, CleanupOrder

\* The processes and the probes, which leave main() alone.
Process ==
    \/ NfExit \/ OtherExit
    \/ \E cg \in 2..(last + 2) : NfStart(cg)
    \/ \E p \in Others : OtherStart(p)

Probe == \E t \in links : Uprobe(t) \/ \E p \in {inst} \cup Others : SyscallEvent(t, p)

Outside == Process \/ Probe

LEMMA OutsideQuiet ==
    ASSUME Outside \/ handle_event
    PROVE  UNCHANGED main_vars
BY DEF Outside, Process, Probe, handle_event, Uprobe, SyscallEvent, NewEvent, NfExit, NfStart,
       OtherStart, OtherExit, main_vars

\* A process that comes or goes leaves the events alone, and who takes the pid is
\* remembered.
LEMMA ProcessQuiet ==
    ASSUME Process
    PROVE  /\ UNCHANGED << main_vars, event_vars >>
           /\ takers \subseteq takers'
           /\ \/ holder' \in {holder, NoProcess}
              \/ \E x \in takers' : /\ x.at = pc /\ x.who = holder'.who /\ x.cg = holder'.cg
                                    /\ found # NoProcess
<1>1. CASE NfExit \/ OtherExit
  BY <1>1 DEF NfExit, OtherExit
<1>2. ASSUME NEW p, TakePid(p)
      PROVE  /\ takers \subseteq takers'
             /\ \E x \in takers' : /\ x.at = pc /\ x.who = holder'.who /\ x.cg = holder'.cg
                                   /\ found # NoProcess
  <2> DEFINE x == [at |-> pc, who |-> p.who, cg |-> p.cg]
  <2>1. x \in takers' /\ x.at = pc /\ x.who = holder'.who /\ x.cg = holder'.cg
    BY <1>2 DEF TakePid
  <2>2. QED
    BY <1>2, <2>1 DEF TakePid
<1>3. CASE \E cg \in 2..(last + 2) : NfStart(cg)
  <2>1. PICK p : TakePid(p) \/ UNCHANGED << holder, takers >>
    BY <1>3 DEF NfStart
  <2>2. UNCHANGED << main_vars, event_vars >>
    BY <1>3 DEF NfStart
  <2>3. QED
    BY <1>2, <2>1, <2>2
<1>4. CASE \E p \in Others : OtherStart(p)
  BY <1>2, <1>4 DEF OtherStart
<1>5. QED
  BY <1>1, <1>3, <1>4 DEF Process

\* The steps of main() and the handler leave the events and the instances alone.
LEMMA MainQuiet ==
    ASSUME \/ main /\ ~handle_event
           \/ \E code \in {"EINTR", "other"} : PollError(code)
           \/ handle_signal
    PROVE  /\ UNCHANGED << inst, last, takers, ring, shown >>
           /\ ~find_nf => UNCHANGED << found, holder >>
BY DEF main, find_nf, get_nf_cgroup_id, open_and_load, nrf_cgroup_map_update,
       attach_programs, InstallHandlers, ring_buffer__new, PollStop, PollError,
       ring_buffer__free, detach_programs, handle_signal, kernel_vars, nf_vars, event_vars

-----------------------------------------------------------------------------
(***************************************************************************)
(* The types.                                                              *)
(***************************************************************************)
\* The ring holds events, no more than it has room for.
LEMMA RingStep ==
    ASSUME Typed, [Next]_vars
    PROVE  /\ ring' \in Seq(Event) /\ Len(ring') <= RingSize
           /\ {inst', holder', found'} \subseteq Processes \cup {NoProcess}
           /\ last' \in 0..MaxInstances
<1> DEFINE Known == Processes \cup {NoProcess}
<1>1. /\ ring \in Seq(Event) /\ Len(ring) <= RingSize
      /\ inst \in Known /\ holder \in Known /\ found \in Known /\ last \in 0..MaxInstances
  BY DEF Typed, TypeOK
<1>2. Others \subseteq Known /\ NoProcess \in Known
  BY DEF Others, Processes
<1>3. \A p \in Known : p.who \in Int /\ p.cg \in Int
  BY BoundsNat DEF Processes, NoProcess, Cgroups
<1> HIDE DEF Known
<1>4. ASSUME NEW p \in Known, NEW via \in {"uprobe", "tracepoint"}, NewEvent(via, p)
      PROVE  ring' \in Seq(Event) /\ Len(ring') <= RingSize
  <2>1. [via |-> via, who |-> p.who, cg |-> p.cg] \in Event
    BY <1>3 DEF Event
  <2>2. QED
    BY <1>1, <1>4, <2>1, BoundsNat DEF NewEvent, HasRoom
<1>5. CASE Probe
  <2>1. PICK p \in Known, via \in {"uprobe", "tracepoint"} : NewEvent(via, p)
    BY <1>1, <1>2, <1>5 DEF Probe, Uprobe, SyscallEvent
  <2>2. UNCHANGED << inst, last, holder, found >>
    BY <2>1 DEF NewEvent, nf_vars
  <2>3. QED
    BY <1>1, <1>4, <2>1, <2>2 DEF Known
<1>6. CASE handle_event
  BY <1>1, <1>6, BoundsNat DEF handle_event, nf_vars, Known
<1>7. CASE NfExit \/ OtherExit
  BY <1>1, <1>2, <1>7 DEF NfExit, OtherExit, event_vars, main_vars, Known
<1>8. CASE \E p \in Others : OtherStart(p)
  BY <1>1, <1>2, <1>8 DEF OtherStart, TakePid, event_vars, main_vars, Known
<1>9. ASSUME NEW cg \in 2..(last + 2), NfStart(cg)
      PROVE  /\ ring' \in Seq(Event) /\ Len(ring') <= RingSize
             /\ {inst', holder', found'} \subseteq Known /\ last' \in 0..MaxInstances
  <2>1. /\ last' = last + 1 /\ last + 1 \in 1..MaxInstances
        /\ inst' = [who |-> last + 1, cg |-> cg]
        /\ UNCHANGED << ring, found >> /\ holder' \in {holder, inst'}
    BY <1>1, <1>9, BoundsNat DEF NfStart, TakePid, event_vars, main_vars
  <2>2. cg \in Cgroups
    BY <1>1, <2>1, BoundsNat DEF Cgroups
  <2>3. inst' \in Known
    BY <2>1, <2>2 DEF Known, Processes
  <2>4. QED
    BY <1>1, <2>1, <2>3, BoundsNat
<1>10. CASE \/ main /\ ~handle_event
            \/ handle_signal
            \/ \E code \in {"EINTR", "other"} : PollError(code)
  <2>1. UNCHANGED << inst, last, ring >>
    BY <1>10, MainQuiet
  <2>2. found' \in {found, inst} /\ holder' \in {holder, inst}
    BY <1>10, MainQuiet DEF find_nf
  <2>3. QED
    BY <1>1, <2>1, <2>2 DEF Known
<1>11. CASE UNCHANGED vars
  BY <1>1, <1>11 DEF vars, nf_vars, event_vars, Known
<1>12. QED
  BY <1>5, <1>6, <1>7, <1>8, <1>9, <1>10, <1>11 DEF Next, Probe, Known

\* The program counter and the results.
MainTyped ==
    /\ pc \in Before \cup Running \cup Cleanup \cup {"done"}
    /\ g \in 1..(NGroups + 1) /\ i \in 1..15
    /\ pc = "attach" /\ g <= NGroups => i <= Groups[nf][g]
    /\ links \subseteq Targets
    /\ status \in {-2, -1, 0, 1, 128} /\ err \in {-1, 0, 1}
    /\ failures \in Nat
    /\ status = -2 <=> pc # "done"

\* A step that goes to the head of a place, or returns.
LEMMA MoveTyped ==
    ASSUME nf \in NFs, MainTyped, nf' = nf, links' \subseteq Targets, failures' \in Nat,
           err' \in {-1, 0, 1}, pc # "done",
           \/ \E to \in Before \cup Running \cup Cleanup : Goto(to)
           \/ \E ret \in {-1, 0, 1, 128} : Return(ret)
    PROVE  MainTyped'
<1>1. NGroups \in Nat /\ \A a \in 1..NGroups : Groups[nf][a] \in 1..15
  BY NGroupsFacts
<1>2. QED
  BY <1>1, SameLists DEF MainTyped, Goto, Return, Before, Running, Cleanup

LEMMA FailsNat ==
    ASSUME failures \in Nat, NEW cond, FailsIf(cond) \/ Fails \/ UNCHANGED failures
    PROVE  failures' \in Nat
BY DEF FailsIf, Fails

LEMMA AttachTyped ==
    ASSUME nf \in NFs, MainTyped, attach_programs
    PROVE  MainTyped'
<1>1. NGroups \in Nat /\ \A a \in 1..NGroups : Groups[nf][a] \in 1..15
  BY NGroupsFacts
<1>2. nf' = nf /\ pc = "attach"
  BY DEF attach_programs, kernel_vars
<1>3. CASE /\ g > NGroups
           /\ Goto(IF Checked THEN "ring" ELSE "signal")
           /\ UNCHANGED << links, err, failures, failed >>
  BY <1>2, <1>3, MoveTyped DEF MainTyped, Running
<1>4. CASE /\ g <= NGroups
           /\ links' = links \cup {<<g, i>>}
           /\ IF i < Groups[nf][g] THEN i' = i + 1 /\ UNCHANGED g
                                   ELSE g' = g + 1 /\ i' = 1
           /\ UNCHANGED << pc, status, err, failures, failed >>
  <2>1. <<g, i>> \in Targets
    BY <1>1, <1>2, <1>4, TargetsFacts DEF MainTyped
  <2>2. /\ g' \in 1..(NGroups + 1) /\ i' \in 1..15
        /\ g' <= NGroups => i' <= Groups[nf][g']
    BY <1>1, <1>2, <1>4 DEF MainTyped
  <2>3. QED
    BY <1>2, <1>4, <2>1, <2>2, SameLists DEF MainTyped
<1>5. CASE /\ g <= NGroups
           /\ FailsIf(~Attachable(<<g, i>>))
           /\ GroupFailed
           /\ UNCHANGED links
  <2>1. failures' \in Nat
    BY <1>5, FailsNat DEF MainTyped
  <2>2. CASE Checked
    BY <1>2, <1>5, <2>1, <2>2, MoveTyped DEF GroupFailed, MainTyped, Cleanup
  <2>3. CASE ~Checked
    <3>1. pc' = pc /\ g' = g + 1 /\ i' = 1 /\ UNCHANGED << err, status, links >>
      BY <1>5, <2>3 DEF GroupFailed
    <3>2. /\ g' \in 1..(NGroups + 1) /\ i' \in 1..15
          /\ g' <= NGroups => i' <= Groups[nf][g']
      BY <1>1, <1>5, <3>1 DEF MainTyped
    <3>3. QED
      BY <1>2, <2>1, <3>1, <3>2, SameLists DEF MainTyped
  <2>4. QED
    BY <2>2, <2>3
<1>6. QED
  BY <1>3, <1>4, <1>5 DEF attach_programs, NGroups

LEMMA DetachTyped ==
    ASSUME nf \in NFs, MainTyped, detach_programs
    PROVE  MainTyped'
<1>1. NGroups \in Nat /\ nf' = nf /\ pc = "detach" /\ UNCHANGED << err, failures >>
  BY NGroupsFacts DEF detach_programs, kernel_vars
<1>2. CASE /\ g <= NGroups
           /\ links' = {t \in links : t[1] # CleanupOrder[g]}
           /\ g' = g + 1 /\ UNCHANGED << pc, i, status >>
  BY <1>1, <1>2, SameLists DEF MainTyped
<1>3. CASE Return(err) /\ UNCHANGED links
  BY <1>1, <1>3, MoveTyped DEF MainTyped
<1>4. QED
  BY <1>2, <1>3 DEF detach_programs, NGroups

\* The other steps of main().
LEMMA CallTyped ==
    ASSUME nf \in NFs, MainTyped,
           \/ find_nf \/ get_nf_cgroup_id \/ open_and_load \/ nrf_cgroup_map_update
           \/ InstallHandlers \/ ring_buffer__new \/ PollStop \/ ring_buffer__free
           \/ \E code \in {"EINTR", "other"} : PollError(code)
    PROVE  MainTyped'
<1>1. nf' = nf /\ UNCHANGED links /\ pc # "done"
  BY DEF find_nf, get_nf_cgroup_id, open_and_load, nrf_cgroup_map_update, InstallHandlers,
         ring_buffer__new, PollStop, ring_buffer__free, PollError, kernel_vars
<1>2. failures' \in Nat
  BY DEF find_nf, get_nf_cgroup_id, open_and_load, nrf_cgroup_map_update, InstallHandlers,
         ring_buffer__new, PollStop, ring_buffer__free, PollError, FailsIf, Fails, MainTyped
<1>3. err' \in {-1, 0, 1}
  BY DEF find_nf, get_nf_cgroup_id, open_and_load, nrf_cgroup_map_update, InstallHandlers,
         ring_buffer__new, PollStop, ring_buffer__free, PollError, MainTyped
<1>4. \/ \E to \in Before \cup Running \cup Cleanup : Goto(to)
      \/ \E ret \in {-1, 0, 1, 128} : Return(ret)
  BY DEF find_nf, get_nf_cgroup_id, open_and_load, nrf_cgroup_map_update, InstallHandlers,
         ring_buffer__new, PollStop, ring_buffer__free, PollError, Before, Running, Cleanup
<1>5. QED
  BY <1>1, <1>2, <1>3, <1>4, MoveTyped DEF MainTyped

LEMMA TypedStep ==
    ASSUME Typed, [Next]_vars
    PROVE  Typed'
<1>1. MainTyped /\ nf \in NFs
  BY DEF MainTyped, Typed, TypeOK, NGroups
<1>2. nf' = nf
  BY NfFixed
<1>3. MainTyped'
  <2>1. CASE UNCHANGED main_vars
    BY <1>1, <2>1, SameLists DEF MainTyped, main_vars
  <2>2. CASE handle_signal
    <3>1. UNCHANGED << links, err, failures >> /\ pc # "done"
      BY <2>2 DEF handle_signal
    <3>2. CASE Return(128)
      BY <1>1, <1>2, <3>1, <3>2, MoveTyped DEF MainTyped
    <3>3. CASE UNCHANGED << pc, g, i, status >>
      BY <1>1, <1>2, <3>1, <3>3, SameLists DEF MainTyped
    <3>4. QED
      BY <2>2, <3>2, <3>3 DEF handle_signal
  <2>3. CASE UNCHANGED vars
    BY <2>1, <2>3 DEF vars, main_vars
  <2>4. QED
    BY <1>1, <2>1, <2>2, <2>3, OutsideQuiet, AttachTyped, DetachTyped, CallTyped
       DEF Next, main, Outside, Process, Probe
<1>4. QED
  BY <1>1, <1>2, <1>3, RingStep, SameLists DEF MainTyped, Typed, TypeOK, NGroups

-----------------------------------------------------------------------------
(***************************************************************************)
(* Events come from the process that was found, or its container.          *)
(***************************************************************************)
\* Takers are never forgotten.
LEMMA StillBindable ==
    ASSUME UNCHANGED found, takers \subseteq takers'
    PROVE  /\ \A who : Bindable(who) => Bindable(who)'
           /\ \A cg : Readable(cg) => Readable(cg)'
BY DEF Bindable, Readable

LEMMA FoundStep ==
    ASSUME Typed, FoundInv, AttachInv, [Next]_vars
    PROVE  FoundInv'
<1>1. CASE find_nf
  <2>1. /\ pc = "find" /\ takers' = {} /\ cgroup_id' = 0 /\ filter' = 0 /\ bound' = {}
        /\ ring' = << >> /\ shown' = {} /\ pc' # "find"
    BY <1>1 DEF find_nf, event_vars, FoundInv, Goto, Return
  <2>2. pc' \in Setup => holder' = found'
    BY <1>1 DEF find_nf, Goto, Return, Setup
  <2>3. QED
    BY <2>1, <2>2 DEF FoundInv, Bindable, Readable, Setup
<1>2. CASE \/ main /\ ~find_nf /\ ~handle_event
           \/ handle_signal
           \/ \E code \in {"EINTR", "other"} : PollError(code)
  <2>1. UNCHANGED << takers, found, holder >>
    BY <1>2, MainQuiet DEF main, handle_signal, PollError, find_nf, kernel_vars, nf_vars
  <2>2. /\ \A who : Bindable(who) => Bindable(who)'
        /\ \A cg : Readable(cg) => Readable(cg)'
    BY <2>1, StillBindable
  <2>3. /\ pc' = "find" => pc = "find" /\ UNCHANGED << cgroup_id, bound, ring, shown >>
        /\ pc' = "cgroup" => pc = "cgroup"
        /\ pc' \in Setup => pc \in Setup
    <3> USE DEF Goto, Return, Setup
    <3>1. CASE handle_signal
      BY <1>2, <3>1, MainQuiet DEF handle_signal
    <3>2. CASE \E code \in {"EINTR", "other"} : PollError(code)
      BY <3>2 DEF PollError
    <3>3. CASE get_nf_cgroup_id \/ open_and_load \/ nrf_cgroup_map_update
      BY <3>3 DEF get_nf_cgroup_id, open_and_load, nrf_cgroup_map_update
    <3>4. CASE attach_programs
      BY <3>4 DEF attach_programs, GroupFailed
    <3>5. CASE InstallHandlers \/ ring_buffer__new \/ PollStop \/ ring_buffer__free
      BY <3>5 DEF InstallHandlers, ring_buffer__new, PollStop, ring_buffer__free
    <3>6. CASE detach_programs
      BY <3>6 DEF detach_programs
    <3>7. QED
      BY <1>2, <3>1, <3>2, <3>3, <3>4, <3>5, <3>6 DEF main
  <2>4. CASE get_nf_cgroup_id
    <3>1. pc = "cgroup" /\ pc' # "find" /\ pc' # "cgroup" /\ UNCHANGED << filter, bound >>
      BY <2>4 DEF get_nf_cgroup_id, Goto, Return
    <3>2. filter = 0 /\ (cgroup_id' = cgroup_id \/ (holder # NoProcess /\ cgroup_id' = holder.cg))
      BY <2>4, <3>1 DEF get_nf_cgroup_id, FoundInv
    <3>3. cgroup_id' # 0 => Readable(cgroup_id)'
      BY <2>2, <3>1, <3>2 DEF FoundInv, Readable
    <3>4. QED
      BY <2>1, <2>2, <2>3, <3>1, <3>2, <3>3 DEF FoundInv
  <2>5. CASE nrf_cgroup_map_update
    BY <2>1, <2>2, <2>3, <2>5 DEF nrf_cgroup_map_update, FoundInv
  <2>6. CASE attach_programs
    <3>1. \A x \in bound' : x \in bound \/ (x[2] = holder.who /\ holder # NoProcess)
      BY <2>6 DEF attach_programs, Attachable, NoProcess
    <3>2. pc \in Setup /\ UNCHANGED << cgroup_id, filter >>
      BY <2>6 DEF attach_programs, Setup
    <3>3. QED
      BY <2>1, <2>2, <2>3, <3>1, <3>2 DEF FoundInv
  <2>7. CASE UNCHANGED << cgroup_id, filter, bound >>
    BY <2>1, <2>2, <2>3, <2>7 DEF FoundInv
  <2>8. QED
    BY <1>2, <2>4, <2>5, <2>6, <2>7 DEF main, open_and_load, InstallHandlers,
       ring_buffer__new, PollStop, PollError, ring_buffer__free, detach_programs, handle_signal
<1>3. CASE Process
  <2>1. /\ UNCHANGED << pc, found, cgroup_id, filter, bound, ring, shown >>
        /\ takers \subseteq takers'
    BY <1>3, ProcessQuiet DEF main_vars, event_vars
  <2>2. /\ \A who : Bindable(who) => Bindable(who)'
        /\ \A cg : Readable(cg) => Readable(cg)'
    BY <2>1, StillBindable
  <2>3. CASE holder' \in {holder, NoProcess}
    <3>1. pc = "find" => takers' = {}
      BY <1>3 DEF FoundInv, Process, NfExit, OtherExit, NfStart, OtherStart, TakePid
    <3>2. QED
      BY <2>1, <2>2, <2>3, <3>1 DEF FoundInv
  <2>4. CASE \E x \in takers' : /\ x.at = pc /\ x.who = holder'.who /\ x.cg = holder'.cg
                                /\ found # NoProcess
    <3>1. pc # "find"
      BY <2>4 DEF FoundInv
    <3>2. pc \in Setup => Bindable(holder.who)'
      BY <2>4, <2>1 DEF Bindable
    <3>3. pc = "cgroup" => Readable(holder.cg)'
      BY <2>4, <2>1 DEF Readable
    <3>4. QED
      BY <2>1, <2>2, <3>1, <3>2, <3>3 DEF FoundInv
  <2>5. QED
    BY <1>3, <2>3, <2>4, ProcessQuiet
<1>4. CASE handle_event \/ Probe
  <2>1. UNCHANGED << pc, found, holder, takers, cgroup_id, filter, bound >>
    BY <1>4 DEF handle_event, Probe, Uprobe, SyscallEvent, NewEvent, nf_vars
  <2>2. /\ \A who : Bindable(who) => Bindable(who)'
        /\ \A cg : Readable(cg) => Readable(cg)'
    BY <2>1, StillBindable
  <2>3. pc # "find"
    BY <1>4 DEF handle_event, Probe, AttachInv, Before
  <2>4. QED
    BY <2>1, <2>2, <2>3 DEF FoundInv
<1>5. CASE UNCHANGED vars
  <2>1. UNCHANGED << pc, found, holder, takers, cgroup_id, filter, bound, ring, shown >>
    BY <1>5 DEF vars, nf_vars, event_vars
  <2>2. QED
    BY <2>1 DEF FoundInv, Bindable, Readable
<1>6. QED
  BY <1>1, <1>2, <1>3, <1>4, <1>5 DEF Next, Process, Probe

\* What a process may have sent.
Accounted(e) ==
    /\ e.via = "uprobe" => Bindable(e.who)
    /\ e.via = "tracepoint" => Readable(e.cg)

LEMMA AccountedFacts == EventsOfTheFound <=> \A e \in Events : Accounted(e)
BY DEF EventsOfTheFound, Accounted, Bindable, Readable

\* A uprobe that fires is bound to the process; a tracepoint that sends has compared
\* the container.
LEMMA EventStep ==
    ASSUME Typed, FoundInv, AttachInv, EventsOfTheFound, [Next]_vars
    PROVE  EventsOfTheFound'
<1>1. \A e \in Events : Accounted(e)
  BY AccountedFacts
<1>2. CASE Probe
  <2>1. PICK via, p : /\ NewEvent(via, p)
                      /\ Accounted([via |-> via, who |-> p.who, cg |-> p.cg])
    <3>1. CASE \E t \in links : Uprobe(t)
      <4>1. PICK t \in links : Uprobe(t)
        BY <3>1
      <4>2. Bindable(inst.who) /\ NewEvent("uprobe", inst)
        BY <4>1 DEF Uprobe, FoundInv
      <4>3. QED
        BY <4>2 DEF Accounted
    <3>2. CASE \E t \in links : \E p \in {inst} \cup Others : SyscallEvent(t, p)
      <4>1. PICK t \in links, p \in {inst} \cup Others : SyscallEvent(t, p)
        BY <3>2
      <4>2. Readable(p.cg) /\ NewEvent("tracepoint", p)
        BY <4>1 DEF SyscallEvent, is_nrf_cgroup, FoundInv
      <4>3. QED
        BY <4>2 DEF Accounted
    <3>3. QED
      BY <1>2, <3>1, <3>2 DEF Probe
  <2> DEFINE new == [via |-> via, who |-> p.who, cg |-> p.cg]
  <2>2. UNCHANGED << shown, found, takers >>
    BY <2>1 DEF NewEvent, nf_vars
  <2>3. \A e \in Events' : e \in Events \/ e = new
    <3>1. ring \in Seq(Event)
      BY DEF Typed
    <3>2. CASE ring' = ring
      BY <2>2, <3>2 DEF Events
    <3>3. CASE ring' = Append(ring, new)
      <4>1. \A k \in DOMAIN ring' : (k \in DOMAIN ring /\ ring'[k] = ring[k]) \/ ring'[k] = new
        BY <3>1, <3>3
      <4>2. QED
        BY <2>2, <4>1 DEF Events
    <3>4. QED
      BY <2>1, <3>2, <3>3 DEF NewEvent
  <2>4. \A e : Accounted(e) => Accounted(e)'
    BY <2>2 DEF Accounted, Bindable, Readable
  <2>5. QED
    <3>1. \A e \in Events' : Accounted(e)'
      BY <1>1, <2>1, <2>3, <2>4
    <3>2. QED
      BY <3>1 DEF EventsOfTheFound, Accounted, Bindable, Readable
<1>3. CASE handle_event
  <2>1. ring \in Seq(Event) /\ ring # << >> /\ UNCHANGED << found, takers >>
    BY <1>3 DEF handle_event, Typed, nf_vars
  <2>2. /\ Head(ring) = ring[1] /\ 1 \in DOMAIN ring
        /\ \A k \in DOMAIN Tail(ring) : k + 1 \in DOMAIN ring /\ Tail(ring)[k] = ring[k + 1]
    BY <2>1
  <2>3. \A e \in Events' : e \in Events
    BY <1>3, <2>2 DEF handle_event, Events
  <2>4. QED
    BY <2>1, <2>3 DEF EventsOfTheFound
<1>4. CASE find_nf
  <2>1. Events' = {}
    BY <1>4 DEF find_nf, event_vars, FoundInv, Events
  <2>2. QED
    BY <2>1 DEF EventsOfTheFound
<1>5. CASE UNCHANGED << ring, shown, found >> /\ takers \subseteq takers'
  <2>1. Events' = Events
    BY <1>5 DEF Events
  <2>2. QED
    BY <1>5, <2>1 DEF EventsOfTheFound
<1>6. ASSUME \/ main /\ ~handle_event /\ ~find_nf
             \/ \E code \in {"EINTR", "other"} : PollError(code)
             \/ handle_signal
      PROVE  UNCHANGED << ring, shown, found, takers >>
  BY <1>6, MainQuiet DEF PollError, handle_signal
<1>7. CASE Process
  BY <1>5, <1>7, ProcessQuiet DEF main_vars, event_vars
<1>8. CASE UNCHANGED vars
  BY <1>5, <1>8 DEF vars, nf_vars, event_vars
<1>9. QED
  BY <1>2, <1>3, <1>4, <1>5, <1>6, <1>7, <1>8 DEF Next, Probe, Process

-----------------------------------------------------------------------------
(***************************************************************************)
(* Attaching, failing, and cleaning up.                                    *)
(***************************************************************************)
\* The steps after which the places in the attach loops, the links and the
\* failures are as before, or main() has gone on to cleanup or its end.
LEMMA AttachQuiet ==
    ASSUME AttachInv, nf' = nf,
           pc' \in Cleanup \cup {"done"} \/ UNCHANGED << pc, g, i, links, failed >>
    PROVE  AttachInv'
<1>1. CASE pc' \in Cleanup \cup {"done"}
  BY <1>1 DEF AttachInv, Before, Cleanup
<1>2. CASE UNCHANGED << pc, g, i, links, failed >>
  BY <1>2, SameLists DEF AttachInv, Visited
<1>3. QED
  BY <1>1, <1>2

LEMMA AttachLoopStep ==
    ASSUME Typed, AttachInv, attach_programs
    PROVE  AttachInv'
<1>1. /\ NGroups \in Nat /\ \A a \in 1..NGroups : Groups[nf][a] \in 1..15
      /\ g \in 1..(NGroups + 1) /\ i \in 1..15
      /\ g <= NGroups => i <= Groups[nf][g]
      /\ nf \in NFs /\ nf' = nf /\ pc = "attach"
  BY NGroupsFacts DEF attach_programs, kernel_vars, Typed, TypeOK, NGroups
<1>2. /\ \A t \in Targets : t[1] < g => Visited(t)
      /\ \A t \in Targets : t[1] = g /\ t[2] < i => t \in links
  BY <1>1 DEF AttachInv
<1>3. \A t \in Targets : t[1] \in 1..NGroups /\ t[2] \in 1..Groups[nf][t[1]] /\ t = <<t[1], t[2]>>
  BY <1>1, TargetsFacts
<1>4. Targets' = Targets
  BY <1>1, SameLists
<1>5. CASE /\ g > NGroups
           /\ Goto(IF Checked THEN "ring" ELSE "signal")
           /\ UNCHANGED << links, err, failures, failed >>
  <2>1. \A t \in Targets : Visited(t)
    BY <1>1, <1>2, <1>3, <1>5
  <2>2. QED
    BY <1>4, <1>5, <2>1 DEF AttachInv, Visited, Goto, Before
<1>6. CASE /\ g <= NGroups
           /\ links' = links \cup {<<g, i>>}
           /\ IF i < Groups[nf][g] THEN i' = i + 1 /\ UNCHANGED g
                                   ELSE g' = g + 1 /\ i' = 1
           /\ UNCHANGED << pc, status, err, failures, failed >>
  <2>1. ASSUME NEW t \in Targets, t[1] < g'
        PROVE  Visited(t)'
    BY <1>1, <1>2, <1>3, <1>6, <2>1 DEF Visited
  <2>2. ASSUME NEW t \in Targets, t[1] = g', t[2] < i'
        PROVE  t \in links'
    BY <1>1, <1>2, <1>3, <1>6, <2>2
  <2>3. QED
    BY <1>1, <1>4, <1>6, <2>1, <2>2 DEF AttachInv, Before
<1>7. CASE /\ g <= NGroups
           /\ failed' = failed \cup {<<g, i>>}
           /\ GroupFailed
           /\ UNCHANGED links
  <2>1. CASE Checked
    BY <1>1, <1>7, <2>1, AttachQuiet DEF GroupFailed, Goto, Cleanup
  <2>2. CASE ~Checked
    <3>1. pc' = pc /\ g' = g + 1 /\ i' = 1
      BY <1>7, <2>2 DEF GroupFailed
    <3>2. ASSUME NEW t \in Targets, t[1] < g'
          PROVE  Visited(t)'
      <4>1. t[1] \in 1..NGroups /\ t[2] \in 1..15
        BY <1>1, <1>3
      <4>2. CASE t[1] < g
        BY <1>2, <1>7, <4>2 DEF Visited
      <4>3. CASE t[1] = g /\ t[2] < i
        BY <1>2, <1>7, <4>3 DEF Visited
      <4>4. CASE t[1] = g /\ t[2] >= i
        <5>1. i \in 1..t[2] /\ <<t[1], i>> \in failed'
          BY <1>1, <1>7, <4>1, <4>4
        <5>2. QED
          BY <5>1 DEF Visited
      <4>5. QED
        BY <1>1, <3>1, <3>2, <4>1, <4>2, <4>3, <4>4
    <3>3. \A t \in Targets : ~(t[2] < i')
      BY <1>1, <1>3, <3>1
    <3>4. QED
      BY <1>1, <1>4, <3>1, <3>2, <3>3 DEF AttachInv, Before
  <2>3. QED
    BY <2>1, <2>2
<1>8. QED
  BY <1>5, <1>6, <1>7 DEF attach_programs, NGroups

LEMMA AttachStep ==
    ASSUME Typed, AttachInv, [Next]_vars
    PROVE  AttachInv'
<1>1. nf' = nf
  BY NfFixed
<1>2. CASE find_nf \/ get_nf_cgroup_id \/ open_and_load \/ nrf_cgroup_map_update
  <2>1. UNCHANGED << links, failed >> /\ links = {} /\ failed = {}
    BY <1>2 DEF AttachInv, Before, find_nf, get_nf_cgroup_id, open_and_load,
                nrf_cgroup_map_update
  <2>2. pc' \in Before \cup Cleanup \cup {"attach", "done"} /\ (pc' = "attach" => g' = 1 /\ i' = 1)
    BY <1>2 DEF Before, Cleanup, find_nf, get_nf_cgroup_id, open_and_load,
                nrf_cgroup_map_update, Goto, Return
  <2>3. CASE pc' = "attach"
    <3>1. \A t \in Targets' : ~(t[1] < 1) /\ ~(t[2] < 1)
      <4>1. nf \in NFs /\ Targets' = Targets
        BY <1>1, SameLists DEF Typed
      <4>2. QED
        BY <4>1, TargetsFacts, NGroupsFacts
    <3>2. QED
      BY <2>1, <2>2, <2>3, <3>1 DEF AttachInv, Before
  <2>4. QED
    BY <1>1, <2>1, <2>2, <2>3, AttachQuiet DEF AttachInv, Before, Cleanup
<1>3. CASE attach_programs
  BY <1>3, AttachLoopStep
<1>4. CASE InstallHandlers \/ ring_buffer__new
  <2>1. /\ pc \in {"signal", "ring"} /\ pc' \in {"signal", "ring", "poll"} \cup Cleanup \cup {"done"}
        /\ UNCHANGED << links, failed >>
    BY <1>4 DEF InstallHandlers, ring_buffer__new, Goto, Return, Cleanup
  <2>2. QED
    BY <1>1, <2>1, SameLists DEF AttachInv, Visited, Before, Cleanup
<1>5. CASE \/ PollStop \/ ring_buffer__free
           \/ \E code \in {"EINTR", "other"} : PollError(code)
  BY <1>1, <1>5, AttachQuiet DEF PollStop, ring_buffer__free, PollError, Goto, Cleanup
<1>6. CASE detach_programs
  BY <1>1, <1>6, AttachQuiet DEF detach_programs, Return, Cleanup
<1>7. CASE handle_signal
  BY <1>1, <1>7, AttachQuiet DEF handle_signal, Return
<1>8. CASE Outside \/ handle_event
  BY <1>1, <1>8, AttachQuiet, OutsideQuiet DEF main_vars
<1>9. CASE UNCHANGED vars
  BY <1>1, <1>9, AttachQuiet DEF vars
<1>10. QED
  BY <1>2, <1>3, <1>4, <1>5, <1>6, <1>7, <1>8, <1>9 DEF Next, main, Outside, Process, Probe

LEMMA ErrStep ==
    ASSUME Typed, ErrInv, [Next]_vars
    PROVE  ErrInv'
<1> USE DEF ErrInv, Before, Running, Cleanup, Goto, Return
<1>1. Checked' = Checked /\ pc \in Before \cup Running \cup Cleanup \cup {"done"}
      /\ (status = -2 <=> pc # "done")
  BY NfFixed, SameLists DEF Typed
<1>2. CASE find_nf \/ get_nf_cgroup_id \/ open_and_load \/ nrf_cgroup_map_update
  BY <1>1, <1>2 DEF find_nf, get_nf_cgroup_id, open_and_load, nrf_cgroup_map_update
<1>3. CASE attach_programs
  BY <1>1, <1>3 DEF attach_programs, GroupFailed
<1>4. CASE InstallHandlers \/ ring_buffer__new \/ ring_buffer__free
  BY <1>1, <1>4 DEF InstallHandlers, ring_buffer__new, ring_buffer__free
<1>5. CASE PollStop \/ \E code \in {"EINTR", "other"} : PollError(code)
  BY <1>1, <1>5 DEF PollStop, PollError
<1>6. CASE detach_programs
  BY <1>1, <1>6 DEF detach_programs
<1>7. CASE handle_signal
  BY <1>1, <1>7 DEF handle_signal
<1>8. CASE Outside \/ handle_event
  BY <1>1, <1>8, OutsideQuiet DEF main_vars
<1>9. CASE UNCHANGED vars
  BY <1>1, <1>9 DEF vars
<1>10. QED
  BY <1>2, <1>3, <1>4, <1>5, <1>6, <1>7, <1>8, <1>9 DEF Next, main, Outside, Process, Probe

LEMMA CleanupStep ==
    ASSUME Typed, AttachInv, CleanupInv, [Next]_vars
    PROVE  CleanupInv'
<1> USE DEF CleanupInv, CleanupComplete, Goto, Return
<1>1. /\ nf' = nf /\ Checked' = Checked /\ CleanupOrder' = CleanupOrder
      /\ nf \in NFs /\ NGroups \in Nat /\ g \in 1..(NGroups + 1)
      /\ links \subseteq Targets
      /\ (status = -2 <=> pc # "done")
  BY NfFixed, SameLists, NGroupsFacts DEF Typed, TypeOK, NGroups
<1>2. CASE find_nf \/ get_nf_cgroup_id \/ open_and_load \/ nrf_cgroup_map_update
  BY <1>1, <1>2 DEF find_nf, get_nf_cgroup_id, open_and_load, nrf_cgroup_map_update,
                    AttachInv, Before
<1>3. CASE attach_programs
  BY <1>1, <1>3 DEF attach_programs, GroupFailed
<1>4. CASE InstallHandlers \/ ring_buffer__new \/ PollStop
           \/ \E code \in {"EINTR", "other"} : PollError(code)
  BY <1>1, <1>4 DEF InstallHandlers, ring_buffer__new, PollStop, PollError
<1>5. CASE ring_buffer__free
  BY <1>1, <1>5 DEF ring_buffer__free
<1>6. CASE detach_programs
  <2>1. CASE /\ g <= NGroups
             /\ links' = {t \in links : t[1] # CleanupOrder[g]}
             /\ g' = g + 1 /\ UNCHANGED << pc, i, status >>
    <3>1. pc = "detach"
      BY <1>6 DEF detach_programs
    <3>2. ASSUME NEW t \in links', NEW k \in 1..(g' - 1)
          PROVE  t[1] # CleanupOrder[k]
      BY <1>1, <2>1, <3>1, <3>2
    <3>3. QED
      BY <1>1, <2>1, <3>1, <3>2
  <2>2. CASE g > NGroups /\ Return(err) /\ UNCHANGED links
    <3>1. pc = "detach" /\ g - 1 = NGroups
      BY <1>1, <1>6, <2>2 DEF detach_programs
    <3>2. ASSUME NEW t \in links
          PROVE  FALSE
      <4>1. t[1] \in 1..NGroups
        BY <1>1, TargetsFacts
      <4>2. PICK k \in 1..NGroups : CleanupOrder[k] = t[1]
        BY <1>1, <4>1, CleanupVisitsAll
      <4>3. QED
        BY <3>1, <4>2
    <3>3. QED
      BY <2>2, <3>2
  <2>3. QED
    BY <1>6, <2>1, <2>2 DEF detach_programs, NGroups
<1>7. CASE handle_signal
  BY <1>1, <1>7 DEF handle_signal
<1>8. CASE Outside \/ handle_event
  BY <1>1, <1>8, OutsideQuiet DEF main_vars
<1>9. CASE UNCHANGED vars
  BY <1>1, <1>9 DEF vars
<1>10. QED
  BY <1>2, <1>3, <1>4, <1>5, <1>6, <1>7, <1>8, <1>9 DEF Next, main, Outside, Process, Probe

-----------------------------------------------------------------------------
(***************************************************************************)
(* The theorems.                                                           *)
(***************************************************************************)
\* The inductive invariant of the loaders: what is attached, what has failed, which
\* processes and containers main() can have taken for those of the pid it found, and
\* that the events are theirs, by the place main() is at.
THEOREM LoadersInvariant == Spec => []LoadersInv
<1>1. Init => LoadersInv
  <2> SUFFICES ASSUME Init
               PROVE  LoadersInv
    OBVIOUS
  <2>1. /\ nf \in NFs /\ NGroups \in Nat /\ pc = "find" /\ g = 1 /\ i = 1 /\ links = {}
        /\ status = -2 /\ err = 0 /\ ring = << >> /\ shown = {} /\ failures = 0
    BY NGroupsFacts DEF Init
  <2>2. /\ inst \in {NoProcess, [who |-> 1, cg |-> 2]} /\ last \in {0, 1}
        /\ found = NoProcess /\ holder = NoProcess
    BY DEF Init, NoProcess
  <2>3. last \in 0..MaxInstances /\ inst \in Processes \cup {NoProcess}
    BY <2>2, BoundsNat, LoadersAssumption DEF Processes, Cgroups
  <2>4. Typed
    BY <2>1, <2>2, <2>3, BoundsNat DEF Typed, TypeOK, Before, NGroups
  <2>5. FoundInv /\ EventsOfTheFound /\ AttachInv /\ ErrInv /\ CleanupInv
    BY <2>1 DEF Init, FoundInv, EventsOfTheFound, Events, Setup, AttachInv, ErrInv, CleanupInv,
                CleanupComplete, Before, Running, Cleanup
  <2>6. QED
    BY <2>4, <2>5 DEF LoadersInv
<1>2. LoadersInv /\ [Next]_vars => LoadersInv'
  BY TypedStep, FoundStep, EventStep, AttachStep, ErrStep, CleanupStep DEF LoadersInv
<1>3. QED
  BY <1>1, <1>2, PTL DEF Spec

\* find_nf(), the pid of the uprobes and the cgroup filter: every event, in the ring or
\* printed, is of the process found, or for a tracepoint of its container, or of a
\* process that took the pid while main() still used it; however often the network
\* function restarts, in whatever container, and whoever gets its pid later.
THEOREM FoundEvents == Spec => []EventsOfTheFound
<1>1. LoadersInv => EventsOfTheFound
  BY DEF LoadersInv
<1>2. QED
  BY <1>1, LoadersInvariant, PTL

\* attach_programs(): a failure costs the probes behind it in its own group and
\* none of another group.
THEOREM FailuresStay == Spec => []FailureStaysInItsGroup
<1>1. LoadersInv => FailureStaysInItsGroup
  BY DEF LoadersInv, AttachInv, Visited, FailureStaysInItsGroup
<1>2. QED
  BY <1>1, LoadersInvariant, PTL

\* nrf_loader.c returns 0 only after everything was attached and a signal came.
THEOREM ZeroIsTraced == Spec => []ZeroMeansTraced
<1>1. LoadersInv => ZeroMeansTraced
  BY DEF LoadersInv, ErrInv, ZeroMeansTraced
<1>2. QED
  BY <1>1, LoadersInvariant, PTL

\* A loader that has polled returns with nothing attached, whichever order its
\* cleanup visits the groups in and whichever of them were attached.
THEOREM NothingAttachedAfterCleanup == Spec => []CleanupComplete
<1>1. LoadersInv => CleanupComplete
  BY DEF LoadersInv, CleanupInv
<1>2. QED
  BY <1>1, LoadersInvariant, PTL

=============================================================================
