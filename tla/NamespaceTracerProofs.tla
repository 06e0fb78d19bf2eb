------------------------ MODULE NamespaceTracerProofs ------------------------
(***************************************************************************)
(* What holds of the scan of /proc and of the calls it makes the tracer    *)
(* report, for any number of processes, cgroups and calls.                 *)
(***************************************************************************)
EXTENDS NamespaceTracer, FiniteSetTheorems, WellFoundedInduction, TLAPS

-----------------------------------------------------------------------------
(***************************************************************************)
(* The inductive invariant.                                                *)
(***************************************************************************)
Scanning == {"comm", "cgroup", "stat"}
Scanned == {"attach", "ring", "poll"}

\* The types of the scan: the scan looks at a pid, and is over, or was given up, once
\* anything is attached.
ScanTypes ==
    /\ pc \in {"load", "opendir", "done"} \cup Scanning \cup Scanned
    /\ cursor \in 1..(Cardinality(Pids) + 1)
    /\ pc \in {"load", "opendir"} \cup Scanning => cursor \in Pids
    /\ pc \in Scanned => cursor = Cardinality(Pids) + 1 \/ refused
    /\ linked \in Nat /\ (linked # 0 => pc \in Scanned)
    /\ pc = "stat" => cg_id \in Resolvable
    /\ seen \in Seq(Cgroups) /\ inserted \in Nat
    /\ container_cgroups \subseteq Resolvable /\ IsFiniteSet(container_cgroups)

ProcTypes ==
    /\ proc \in [Pids -> Processes \cup {NULL}]
    /\ stable \subseteq Pids
    /\ \A p \in stable : proc[p] # NULL /\ proc[p].nf

CallTypes ==
    /\ calls \in Nat
    /\ call \in [Pids -> CallInProgress \cup {NULL}]
    /\ scratch \in [Kinds -> [Pids -> SavedCall \cup {NULL}]]

\* The cgroups remembered, each once, and those in the map: while there is room to
\* remember, all in the map are remembered; one that is remembered and not in the map
\* was refused by a full map; the count is only wrong about one that is not remembered.
SeenSet == {seen[k] : k \in DOMAIN seen}
SeenInv ==
    /\ IsFiniteSet(SeenSet) /\ Cardinality(SeenSet) = Len(seen) /\ Len(seen) <= SeenMax
    /\ container_cgroups \subseteq SeenSet => inserted = Cardinality(container_cgroups)
    /\ inserted >= Cardinality(container_cgroups)
    /\ SeenSet \subseteq container_cgroups \/ Cardinality(container_cgroups) >= MapMax
    /\ \/ container_cgroups \subseteq SeenSet
       \/ SeenSet \subseteq container_cgroups /\ Len(seen) = SeenMax

\* Between the two reads of a pid its process is the one whose comm was read, by another
\* name perhaps, or it took the pid meanwhile.
NfInv ==
    /\ \A p \in Pids : proc[p] # NULL /\ proc[p].nf => proc[p].cg \in nfCgroups
    /\ TrackedIsNf
    /\ pc = "cgroup" /\ proc[cursor] # NULL => proc[cursor].cg \in nfCgroups \cup takers
    /\ pc = "stat" => cg_id \in nfCgroups \cup takers

\* A network function that was there before the scan and that the scan has passed is
\* tracked, if its cgroup can be resolved and no insert failed.
PassedInv ==
    /\ refused \/ SeenSet \subseteq container_cgroups
    /\ \A p \in stable : p < cursor /\ proc[p].cg \in Resolvable =>
         refused \/ proc[p].cg \in container_cgroups
    /\ pc = "stat" /\ cursor \in stable => cg_id = proc[cursor].cg

\* A call of such a process that both probes see has an entry, or was given up.
EntryInv ==
    \A p \in stable :
        call[p] # NULL /\ call[p].args = NULL /\ call[p].seen /\ proc[p].cg \in Resolvable =>
          refused \/ scratch[call[p].kind][p] # NULL \/ call[p].n \in lost

\* A call has a number of its own, and is due at its return.
NumbersInv ==
    /\ due \subseteq 1..calls
    /\ \A p \in Pids : call[p] # NULL => call[p].n \in 1..calls
    /\ \A p, q \in Pids : call[p] # NULL /\ call[q] # NULL /\ call[p].n = call[q].n => p = q
    /\ \A p \in Pids : call[p] # NULL /\ call[p].args = NULL => call[p].n \notin due

NsInv ==
    /\ ScanTypes /\ ProcTypes /\ CallTypes
    /\ SeenInv /\ NfInv /\ PassedInv /\ EntryInv /\ NumbersInv /\ StableIsTraced

-----------------------------------------------------------------------------
(***************************************************************************)
(* The steps, by what they change.                                         *)
(***************************************************************************)
LEMMA Constants ==
    /\ Cardinality(Pids) \in Nat /\ Pids = 1..Cardinality(Pids) /\ 1 \in Pids
    /\ SeenMax \in Nat /\ MapMax \in Nat /\ Resolvable \subseteq Cgroups
    /\ NULL \notin SavedCall /\ NULL \notin CallInProgress
<1>1. Cardinality(Pids) \in Nat
  BY NsAssumption, FS_CardinalityType
<1>2. Pids = 1..Cardinality(Pids) /\ Pids # {}
  BY NsAssumption
<1>3. 1 \in Pids
  BY <1>1, <1>2
<1>4. SeenMax \in Nat /\ MapMax \in Nat /\ Resolvable \subseteq Cgroups
  BY NsAssumption
<1>5. QED
  BY <1>1, <1>2, <1>3, <1>4, NullAssumption

\* The steps of main() before and after the scan, and the signal.
LoaderOnly ==
    LoadSkeleton \/ Attach \/ ring_buffer__new \/ sig_handler \/ PollDone \/ PollError

LEMMA LoaderOnlyDoes ==
    ASSUME ScanTypes, LoaderOnly
    PROVE  /\ UNCHANGED << scan_vars, kernel_vars >>
           /\ pc' \notin {"cgroup", "stat"} /\ ScanTypes'
<1> USE DEF LoadSkeleton, Attach, ring_buffer__new, sig_handler, PollDone, PollError, Goto, Return
<1>1. UNCHANGED << scan_vars, kernel_vars >>
  BY DEF LoaderOnly
<1>2. \/ pc = "load" /\ pc' = "opendir" /\ linked' = linked
      \/ pc' = "done" /\ linked' = 0
      \/ pc = "attach" /\ pc' = "attach" /\ linked' = linked + 1
      \/ pc = "attach" /\ pc' = "ring" /\ linked' = linked
      \/ pc = "ring" /\ pc' = "poll" /\ linked' = linked
      \/ pc = "poll" /\ pc' = "poll" /\ linked' = linked
  BY DEF LoaderOnly
<1>3. pc' \notin {"cgroup", "stat"}
  BY <1>2
<1>4. linked' \in Nat /\ (linked' # 0 => pc' \in Scanned)
  BY <1>2 DEF ScanTypes, Scanned, Scanning
<1>5. UNCHANGED << cursor, cg_id, seen, inserted, container_cgroups, refused >>
  BY <1>1 DEF scan_vars
<1>6. ScanTypes'
  BY <1>2, <1>4, <1>5 DEF ScanTypes, Scanned, Scanning
<1>7. QED
  BY <1>1, <1>3, <1>6

\* The steps of the scan.
ScanStep == seed_container_cgroups \/ ReadComm \/ parse_cgroupv2_path \/ cgroup_id_from_path

LEMMA SeedDoes ==
    ASSUME ScanTypes, seed_container_cgroups
    PROVE  /\ UNCHANGED << cursor, cg_id, seen, inserted, container_cgroups, kernel_vars >>
           /\ pc = "opendir" /\ pc' \notin {"cgroup", "stat"} /\ (refused => refused')
           /\ linked = 0 /\ UNCHANGED linked /\ ScanTypes'
<1>1. /\ pc = "opendir" /\ UNCHANGED << cursor, cg_id, seen, inserted, container_cgroups, kernel_vars >>
      /\ \/ pc' = "comm" /\ refused' = refused
         \/ pc' = "attach" /\ refused' = TRUE
      /\ UNCHANGED linked
  BY DEF seed_container_cgroups, Goto
<1>2. linked = 0
  BY <1>1 DEF ScanTypes, Scanned
<1>3. ScanTypes'
  BY <1>1, <1>2 DEF ScanTypes, Scanned, Scanning
<1>4. QED
  BY <1>1, <1>2, <1>3

LEMMA NextEntryDoes ==
    ASSUME ScanTypes, pc \in Scanning, NextEntry
    PROVE  /\ cursor' = cursor + 1 /\ UNCHANGED linked /\ linked = 0 /\ pc' # "stat" /\ pc' # "cgroup"
           /\ pc' \in {"load", "opendir", "done"} \cup Scanning \cup Scanned
           /\ cursor' \in 1..(Cardinality(Pids) + 1)
           /\ pc' \in {"load", "opendir"} \cup Scanning => cursor' \in Pids
           /\ pc' \in Scanned => cursor' = Cardinality(Pids) + 1
<1>1. /\ cursor' = cursor + 1 /\ UNCHANGED linked /\ linked = 0
      /\ pc' = IF cursor = Cardinality(Pids) THEN "attach" ELSE "comm"
  BY DEF NextEntry, Goto, ScanTypes, Scanning, Scanned
<1>2. cursor \in 1..Cardinality(Pids) /\ Cardinality(Pids) \in Nat
  BY Constants DEF ScanTypes
<1>3. cursor' \in 1..(Cardinality(Pids) + 1) /\ (cursor # Cardinality(Pids) => cursor' \in Pids)
  BY <1>1, <1>2, Constants
<1>4. QED
  BY <1>1, <1>3 DEF Scanning, Scanned

\* The steps of the probes and handle_event(): the scan has no part in them.
Probes ==
    \/ \E p \in Pids :
         \/ \E k \in Kinds, own \in Families \cup {NULL} : EnterCall(p, k, own)
         \/ \E ret : ExitCall(p, ret)
         \/ ExitReport(p)
         \/ \E prog, worth, own, bytes : DataCall(p, prog, worth, own, bytes)
    \/ handle_event
    \/ UNCHANGED vars

LEMMA ProbesDo ==
    ASSUME Probes
    PROVE  UNCHANGED << group, loader_vars, scan_vars, proc_vars >>
BY DEF Probes, EnterCall, ExitCall, ExitReport, DataCall, handle_event, vars

LEMMA NsSteps ==
    ASSUME [Next]_vars
    PROVE  \/ LoaderOnly \/ ScanStep \/ Probes
           \/ \E p \in Pids, q \in Processes \cup {NULL} : ProcChange(p, q)
<1>1. CASE main
  BY <1>1 DEF main, LoaderOnly, ScanStep, Probes
<1>2. CASE sig_handler
  BY <1>2 DEF LoaderOnly
<1>3. ASSUME NEW p \in Pids,
             \/ \E af \in Families : EnterCall(p, "connect", af)
             \/ \E af \in Families \cup {NULL} : EnterCall(p, "accept4", af)
      PROVE  Probes
  <2>1. \E k \in Kinds, own \in Families \cup {NULL} : EnterCall(p, k, own)
    BY <1>3 DEF Kinds
  <2>2. QED
    BY <2>1 DEF Probes
<1>4. ASSUME NEW p \in Pids, \E lens \in Iovs : trace_sendmsg(p, lens)
      PROVE  Probes
  BY <1>4 DEF trace_sendmsg, Probes
<1>5. ASSUME NEW p \in Pids, \E ret \in {-11, 0, 1} : trace_recvmsg_exit(p, ret)
      PROVE  Probes
  BY <1>5 DEF trace_recvmsg_exit, Probes
<1>6. ASSUME NEW p \in Pids, \/ \E ret \in Returns(call[p].kind) : ExitCall(p, ret)
                             \/ ExitReport(p)
      PROVE  Probes
  BY <1>6 DEF Probes
<1>7. CASE UNCHANGED vars
  BY <1>7 DEF Probes
<1>8. QED
  BY <1>1, <1>2, <1>3, <1>4, <1>5, <1>6, <1>7 DEF Next

-----------------------------------------------------------------------------
(***************************************************************************)
(* The cgroups remembered and those in the map.                            *)
(***************************************************************************)
SeedTypes ==
    /\ seen \in Seq(Cgroups) /\ inserted \in Nat
    /\ container_cgroups \subseteq Resolvable /\ IsFiniteSet(container_cgroups)

\* seen[seen_n++] = cg, for one that is not there yet.
LEMMA AppendSeen ==
    ASSUME seen \in Seq(Cgroups), IsFiniteSet(SeenSet), Cardinality(SeenSet) = Len(seen),
           NEW cg \in Cgroups, cg \notin SeenSet, seen' = Append(seen, cg)
    PROVE  /\ seen' \in Seq(Cgroups) /\ SeenSet' = SeenSet \cup {cg} /\ Len(seen') = Len(seen) + 1
           /\ IsFiniteSet(SeenSet') /\ Cardinality(SeenSet') = Len(seen')
<1>1. seen' \in Seq(Cgroups) /\ Len(seen') = Len(seen) + 1 /\ Len(seen) \in Nat
  OBVIOUS
<1>2. SeenSet = {seen[k] : k \in 1..Len(seen)} /\ SeenSet' = {seen'[k] : k \in 1..Len(seen')}
  BY <1>1 DEF SeenSet
<1>3. /\ \A k \in 1..Len(seen) : seen'[k] = seen[k]
      /\ seen'[Len(seen) + 1] = cg
  OBVIOUS
<1>4. \A x : x \in SeenSet' <=> x \in SeenSet \/ x = cg
  <2>1. \A k \in 1..Len(seen') : k \in 1..Len(seen) \/ k = Len(seen) + 1
    BY <1>1
  <2>2. 1..Len(seen) \subseteq 1..Len(seen') /\ Len(seen) + 1 \in 1..Len(seen')
    BY <1>1
  <2>3. QED
    BY <1>2, <1>3, <2>1, <2>2
<1>5. SeenSet' = SeenSet \cup {cg}
  BY <1>4
<1>6. IsFiniteSet(SeenSet') /\ Cardinality(SeenSet') = Cardinality(SeenSet) + 1
  BY <1>5, FS_AddElement
<1>7. QED
  BY <1>1, <1>5, <1>6

\* bpf_map_update_elem(), with a map that is not full.
LEMMA AddTracked ==
    ASSUME IsFiniteSet(container_cgroups), NEW cg,
           container_cgroups' = container_cgroups \cup {cg}
    PROVE  /\ IsFiniteSet(container_cgroups') /\ Cardinality(container_cgroups) \in Nat
           /\ Cardinality(container_cgroups') = IF cg \in container_cgroups
                THEN Cardinality(container_cgroups) ELSE Cardinality(container_cgroups) + 1
BY FS_AddElement, FS_CardinalityType

LEMMA RememberDoes ==
    ASSUME SeedTypes, SeenInv, NEW cg \in Resolvable, Remember(cg)
    PROVE  /\ SeedTypes' /\ SeenInv'
           /\ container_cgroups \subseteq container_cgroups'
           /\ container_cgroups' \subseteq container_cgroups \cup {cg}
           /\ refused => refused'
           /\ refused \/ SeenSet \subseteq container_cgroups =>
                refused' \/ (cg \in container_cgroups' /\ SeenSet' \subseteq container_cgroups')
<1> DEFINE C == Cardinality(container_cgroups)
<1>1. C \in Nat /\ Len(seen) \in Nat /\ SeenMax \in Nat /\ MapMax \in Nat /\ cg \in Cgroups
  BY Constants, FS_CardinalityType DEF SeedTypes
<1>2. CASE cg \in SeenSet
  <2>1. UNCHANGED << seen, inserted, container_cgroups, refused >>
    BY <1>2 DEF Remember, SeenSet
  <2>2. SeenSet' = SeenSet
    BY <2>1 DEF SeenSet
  <2>3. QED
    BY <1>2, <2>1, <2>2 DEF SeedTypes, SeenInv
<1>3. CASE cg \notin SeenSet
  <2>1. /\ seen' = IF Len(seen) < SeenMax THEN Append(seen, cg) ELSE seen
        /\ \/ /\ cg \in container_cgroups \/ C < MapMax
              /\ container_cgroups' = container_cgroups \cup {cg}
              /\ inserted' = inserted + 1 /\ UNCHANGED refused
           \/ /\ cg \notin container_cgroups /\ C >= MapMax
              /\ refused' = TRUE /\ UNCHANGED << container_cgroups, inserted >>
    BY <1>1, <1>3 DEF Remember, SeenSet, SeenHasRoom
  <2>2. \/ /\ Len(seen) < SeenMax /\ SeenSet' = SeenSet \cup {cg}
        \/ /\ Len(seen) = SeenMax /\ SeenSet' = SeenSet
    BY <1>1, <1>3, <2>1, AppendSeen DEF SeenInv, SeedTypes, SeenSet
  <2>3. /\ seen' \in Seq(Cgroups) /\ IsFiniteSet(SeenSet') /\ Cardinality(SeenSet') = Len(seen')
        /\ Len(seen') <= SeenMax /\ Len(seen') >= Len(seen)
    <3>1. CASE Len(seen) < SeenMax
      BY <1>1, <1>3, <2>1, <3>1, AppendSeen DEF SeenInv, SeedTypes
    <3>2. CASE ~(Len(seen) < SeenMax)
      BY <1>1, <2>1, <3>2 DEF SeenInv, SeedTypes, SeenSet
    <3>3. QED
      BY <3>1, <3>2
  <2>4. CASE cg \notin container_cgroups /\ C >= MapMax /\ UNCHANGED << container_cgroups, inserted >>
             /\ refused' = TRUE
    BY <1>1, <2>2, <2>3, <2>4 DEF SeedTypes, SeenInv
  <2>5. CASE /\ cg \in container_cgroups \/ C < MapMax
             /\ container_cgroups' = container_cgroups \cup {cg}
             /\ inserted' = inserted + 1 /\ UNCHANGED refused
    <3>1. /\ IsFiniteSet(container_cgroups')
          /\ Cardinality(container_cgroups') = IF cg \in container_cgroups THEN C ELSE C + 1
      BY <2>5, AddTracked DEF SeedTypes
    <3>2. SeedTypes'
      BY <2>3, <2>5, <3>1 DEF SeedTypes
    <3>3. container_cgroups' \subseteq SeenSet' => inserted' = Cardinality(container_cgroups')
      BY <1>3, <2>2, <2>5, <3>1 DEF SeenInv
    <3>4. inserted' >= Cardinality(container_cgroups')
      BY <1>1, <2>5, <3>1 DEF SeenInv, SeedTypes
    <3>5. SeenSet' \subseteq container_cgroups' \/ Cardinality(container_cgroups') >= MapMax
      BY <1>1, <2>2, <2>5, <3>1 DEF SeenInv
    <3>6. \/ container_cgroups' \subseteq SeenSet'
          \/ SeenSet' \subseteq container_cgroups' /\ Len(seen') = SeenMax
      BY <1>1, <1>3, <2>1, <2>2, <2>3, <2>5 DEF SeenInv
    <3>7. SeenInv'
      BY <2>3, <3>3, <3>4, <3>5, <3>6 DEF SeenInv
    <3>8. QED
      BY <2>2, <2>5, <3>2, <3>7
  <2>6. QED
    BY <2>1, <2>4, <2>5
<1>4. QED
  BY <1>2, <1>3

-----------------------------------------------------------------------------
(***************************************************************************)
(* The scan.                                                               *)
(***************************************************************************)
\* What the two reads of a pid and the stat() of its cgroup do.
LEMMA ReadCommDoes ==
    ASSUME ScanTypes, ReadComm
    PROVE  /\ UNCHANGED << seen, inserted, container_cgroups, refused, kernel_vars >>
           /\ pc = "comm" /\ pc' # "stat" /\ ScanTypes'
           /\ \/ is_nf_comm(cursor) /\ pc' = "cgroup" /\ cursor' = cursor
              \/ ~is_nf_comm(cursor) /\ pc' # "cgroup" /\ cursor' = cursor + 1
<1>1. UNCHANGED << seen, inserted, container_cgroups, refused, kernel_vars >> /\ pc = "comm"
  BY DEF ReadComm
<1>2. CASE is_nf_comm(cursor)
  <2>1. pc' = "cgroup" /\ UNCHANGED << linked, cursor, cg_id >>
    BY <1>2 DEF ReadComm, Goto
  <2>2. QED
    BY <1>1, <1>2, <2>1 DEF ScanTypes, Scanning, Scanned
<1>3. CASE ~is_nf_comm(cursor)
  <2>1. NextEntry /\ pc \in Scanning
    BY <1>1, <1>3 DEF ReadComm, Scanning
  <2>2. QED
    BY <1>1, <1>3, <2>1, NextEntryDoes DEF ScanTypes
<1>4. QED
  BY <1>2, <1>3

LEMMA ParseDoes ==
    ASSUME ScanTypes, parse_cgroupv2_path
    PROVE  /\ UNCHANGED << seen, inserted, container_cgroups, refused, kernel_vars >>
           /\ pc = "cgroup" /\ pc' # "cgroup" /\ ScanTypes'
           /\ \/ /\ proc[cursor] # NULL /\ proc[cursor].cg \in Resolvable
                 /\ pc' = "stat" /\ cg_id' = proc[cursor].cg /\ cursor' = cursor
              \/ /\ ~(proc[cursor] # NULL /\ proc[cursor].cg \in Resolvable)
                 /\ pc' # "stat" /\ cursor' = cursor + 1
<1>1. UNCHANGED << seen, inserted, container_cgroups, refused, kernel_vars >> /\ pc = "cgroup"
  BY DEF parse_cgroupv2_path
<1>2. CASE proc[cursor] # NULL /\ proc[cursor].cg \in Resolvable
  <2>1. pc' = "stat" /\ cg_id' = proc[cursor].cg /\ UNCHANGED << linked, cursor >>
    BY <1>2 DEF parse_cgroupv2_path, Goto
  <2>2. QED
    BY <1>1, <1>2, <2>1 DEF ScanTypes, Scanning, Scanned
<1>3. CASE ~(proc[cursor] # NULL /\ proc[cursor].cg \in Resolvable)
  <2>1. NextEntry /\ pc \in Scanning
    BY <1>1, <1>3 DEF parse_cgroupv2_path, Scanning
  <2>2. QED
    BY <1>1, <1>3, <2>1, NextEntryDoes DEF ScanTypes
<1>4. QED
  BY <1>2, <1>3

LEMMA StatDoes ==
    ASSUME ScanTypes, SeenInv, cgroup_id_from_path
    PROVE  /\ UNCHANGED kernel_vars /\ pc = "stat" /\ pc' \notin {"cgroup", "stat"}
           /\ ScanTypes' /\ SeenInv' /\ cursor' = cursor + 1 /\ cg_id \in Resolvable
           /\ container_cgroups \subseteq container_cgroups'
           /\ container_cgroups' \subseteq container_cgroups \cup {cg_id}
           /\ refused => refused'
           /\ refused \/ SeenSet \subseteq container_cgroups =>
                refused' \/ SeenSet' \subseteq container_cgroups'
           /\ \/ refused \/ SeenSet \subseteq container_cgroups =>
                   refused' \/ cg_id \in container_cgroups'
              \/ \A p \in Pids : proc[p] # NULL => proc[p].cg # cg_id
<1>1. pc = "stat" /\ NextEntry /\ UNCHANGED kernel_vars /\ pc \in Scanning
  BY DEF cgroup_id_from_path, Scanning
<1>2. cg_id \in Resolvable /\ SeedTypes
  BY <1>1 DEF ScanTypes, SeedTypes
<1>3. CASE Remember(cg_id)
  <2>1. /\ SeedTypes' /\ SeenInv'
        /\ container_cgroups \subseteq container_cgroups'
        /\ container_cgroups' \subseteq container_cgroups \cup {cg_id}
        /\ refused => refused'
        /\ refused \/ SeenSet \subseteq container_cgroups =>
             refused' \/ (cg_id \in container_cgroups' /\ SeenSet' \subseteq container_cgroups')
    BY <1>2, <1>3, RememberDoes
  <2>2. ScanTypes'
    BY <1>1, <2>1, NextEntryDoes DEF ScanTypes, SeedTypes
  <2>3. QED
    BY <1>1, <1>2, <2>1, <2>2, NextEntryDoes
<1>4. CASE /\ \A p \in Pids : proc[p] # NULL => proc[p].cg # cg_id
           /\ UNCHANGED << seen, inserted, container_cgroups, refused >>
  <2>1. SeenInv' /\ SeenSet' = SeenSet
    BY <1>4 DEF SeenInv, SeenSet
  <2>2. ScanTypes'
    BY <1>1, <1>4, NextEntryDoes DEF ScanTypes
  <2>3. QED
    BY <1>1, <1>2, <1>4, <2>1, <2>2, NextEntryDoes
<1>5. QED
  BY <1>3, <1>4 DEF cgroup_id_from_path

LEMMA ProcChangeDoes ==
    ASSUME ProcTypes, NEW p \in Pids, NEW q \in Processes \cup {NULL}, ProcChange(p, q)
    PROVE  /\ UNCHANGED << group, loader_vars, scan_vars, call, scratch, report_vars, calls, due, shown >>
           /\ proc'[p] = q /\ \A r \in Pids : r # p => proc'[r] = proc[r]
           /\ stable' = stable \ {p} /\ call[p] = NULL
           /\ takers \subseteq takers'
           /\ pc = "cgroup" /\ p = cursor /\ q # NULL => \/ proc[p] # NULL /\ q.cg = proc[p].cg
                                                        \/ q.cg \in takers'
           /\ nfCgroups \subseteq nfCgroups' /\ (q # NULL /\ q.nf => q.cg \in nfCgroups')
           /\ ProcTypes'
<1>1. /\ UNCHANGED << group, loader_vars, scan_vars, call, scratch, report_vars, calls, due, shown >>
      /\ proc' = [proc EXCEPT ![p] = q] /\ stable' = stable \ {p} /\ call[p] = NULL
      /\ nfCgroups' = IF q # NULL /\ q.nf THEN nfCgroups \cup {q.cg} ELSE nfCgroups
  BY DEF ProcChange
<1>2. /\ takers \subseteq takers'
      /\ pc = "cgroup" /\ p = cursor /\ q # NULL => \/ proc[p] # NULL /\ q.cg = proc[p].cg
                                                   \/ q.cg \in takers'
  <2>1. /\ takers' = IF pc = "cgroup" /\ p = cursor /\ proc[p] = NULL THEN takers \cup {q.cg}
                                                                   ELSE takers
        /\ proc[p] # NULL /\ q # NULL => q.cg = proc[p].cg
    BY DEF ProcChange
  <2>2. QED
    BY <2>1
<1>3. proc'[p] = q /\ \A r \in Pids : r # p => proc'[r] = proc[r]
  BY <1>1 DEF ProcTypes
<1>4. ProcTypes'
  BY <1>1, <1>3 DEF ProcTypes
<1>5. QED
  BY <1>1, <1>2, <1>3, <1>4

LEMMA ScanTypesStep ==
    ASSUME ScanTypes, SeenInv, ProcTypes, [Next]_vars
    PROVE  ScanTypes' /\ SeenInv' /\ ProcTypes'
<1>1. ASSUME UNCHANGED << seen, inserted, container_cgroups >> PROVE SeenInv'
  BY <1>1 DEF SeenInv, SeenSet
<1>2. ASSUME UNCHANGED proc_vars PROVE ProcTypes'
  BY <1>2 DEF ProcTypes, proc_vars
<1>3. ASSUME UNCHANGED << loader_vars, scan_vars >> PROVE ScanTypes' /\ SeenInv'
  BY <1>1, <1>3 DEF ScanTypes, loader_vars, scan_vars
<1>4. CASE LoaderOnly
  BY <1>1, <1>2, <1>4, LoaderOnlyDoes DEF scan_vars, kernel_vars
<1>5. CASE ReadComm
  BY <1>1, <1>2, <1>5, ReadCommDoes DEF kernel_vars
<1>6. CASE parse_cgroupv2_path
  BY <1>1, <1>2, <1>6, ParseDoes DEF kernel_vars
<1>7. CASE cgroup_id_from_path
  BY <1>2, <1>7, StatDoes DEF kernel_vars
<1>8. CASE Probes
  BY <1>2, <1>3, <1>8, ProbesDo
<1>9. ASSUME NEW p \in Pids, NEW q \in Processes \cup {NULL}, ProcChange(p, q)
      PROVE  ScanTypes' /\ SeenInv' /\ ProcTypes'
  BY <1>3, <1>9, ProcChangeDoes
<1>10. CASE seed_container_cgroups
  BY <1>1, <1>2, <1>10, SeedDoes DEF kernel_vars
<1>11. QED
  BY <1>4, <1>5, <1>6, <1>7, <1>8, <1>9, <1>10, NsSteps DEF ScanStep

\* Whose cgroups get into the map.
LEMMA NfStep ==
    ASSUME ScanTypes, SeenInv, ProcTypes, NfInv, [Next]_vars
    PROVE  NfInv'
<1>1. CASE LoaderOnly
  <2>1. UNCHANGED << proc, nfCgroups, takers, container_cgroups >> /\ pc' \notin {"cgroup", "stat"}
    BY <1>1, LoaderOnlyDoes DEF scan_vars, kernel_vars, proc_vars
  <2>2. QED
    BY <2>1 DEF NfInv, TrackedIsNf
<1>2. CASE ReadComm
  <2>1. UNCHANGED << proc, nfCgroups, takers, container_cgroups >>
    BY <1>2, ReadCommDoes DEF kernel_vars, proc_vars
  <2>2. /\ pc' # "stat" /\ pc = "comm" /\ cursor \in Pids
        /\ pc' = "cgroup" => is_nf_comm(cursor) /\ cursor' = cursor
    BY <1>2, ReadCommDoes DEF ScanTypes, Scanning
  <2>3. pc' = "cgroup" /\ proc'[cursor'] # NULL => proc'[cursor'].cg \in nfCgroups' \cup takers'
    BY <2>1, <2>2 DEF NfInv, is_nf_comm
  <2>4. QED
    BY <2>1, <2>2, <2>3 DEF NfInv, TrackedIsNf
<1>3. CASE parse_cgroupv2_path
  <2>1. UNCHANGED << proc, nfCgroups, takers, container_cgroups >>
    BY <1>3, ParseDoes DEF kernel_vars, proc_vars
  <2>2. pc = "cgroup" /\ cursor \in Pids
    BY <1>3, ParseDoes DEF ScanTypes, Scanning
  <2>3. QED
    BY <1>3, <2>1, <2>2, ParseDoes DEF NfInv, TrackedIsNf
<1>4. CASE cgroup_id_from_path
  <2>1. UNCHANGED << proc, nfCgroups, takers >>
    BY <1>4, StatDoes DEF kernel_vars, proc_vars
  <2>2. container_cgroups' \subseteq container_cgroups \cup {cg_id} /\ pc = "stat"
        /\ pc' \notin {"cgroup", "stat"}
    BY <1>4, StatDoes
  <2>3. QED
    BY <2>1, <2>2 DEF NfInv, TrackedIsNf
<1>5. CASE Probes
  <2>1. UNCHANGED << proc, nfCgroups, takers, container_cgroups, pc, cursor, cg_id >>
    BY <1>5, ProbesDo DEF loader_vars, scan_vars, proc_vars
  <2>2. QED
    BY <2>1 DEF NfInv, TrackedIsNf
<1>6. ASSUME NEW p \in Pids, NEW q \in Processes \cup {NULL}, ProcChange(p, q)
      PROVE  NfInv'
  <2>1. UNCHANGED << container_cgroups, pc, cursor, cg_id >>
    BY <1>6, ProcChangeDoes DEF loader_vars, scan_vars
  <2>2. /\ proc'[p] = q /\ \A r \in Pids : r # p => proc'[r] = proc[r]
        /\ takers \subseteq takers'
        /\ pc = "cgroup" /\ p = cursor /\ q # NULL => \/ proc[p] # NULL /\ q.cg = proc[p].cg
                                                     \/ q.cg \in takers'
        /\ nfCgroups \subseteq nfCgroups' /\ (q # NULL /\ q.nf => q.cg \in nfCgroups')
    BY <1>6, ProcChangeDoes
  <2>3. \A r \in Pids : proc'[r] # NULL /\ proc'[r].nf => proc'[r].cg \in nfCgroups'
    BY <2>2 DEF NfInv
  <2>4. pc = "cgroup" => cursor \in Pids
    BY DEF ScanTypes, Scanning
  <2>5. pc = "cgroup" /\ proc'[cursor] # NULL => proc'[cursor].cg \in nfCgroups' \cup takers'
    BY <2>2, <2>4 DEF NfInv
  <2>6. QED
    BY <2>1, <2>2, <2>3, <2>5 DEF NfInv, TrackedIsNf
<1>7. CASE seed_container_cgroups
  <2>1. UNCHANGED << proc, nfCgroups, takers, container_cgroups >> /\ pc' \notin {"cgroup", "stat"}
    BY <1>7, SeedDoes DEF kernel_vars, proc_vars
  <2>2. QED
    BY <2>1 DEF NfInv, TrackedIsNf
<1>8. QED
  BY <1>1, <1>2, <1>3, <1>4, <1>5, <1>6, <1>7, NsSteps DEF ScanStep

\* What the scan has passed is tracked.
LEMMA PassedStep ==
    ASSUME ScanTypes, SeenInv, ProcTypes, PassedInv, [Next]_vars
    PROVE  PassedInv' /\ (refused => refused')
<1>1. CASE LoaderOnly
  <2>1. UNCHANGED << proc, stable, container_cgroups, refused, seen, cursor >> /\ pc' \notin {"cgroup", "stat"}
    BY <1>1, LoaderOnlyDoes DEF scan_vars, kernel_vars, proc_vars
  <2>2. QED
    BY <2>1 DEF PassedInv, SeenSet
<1>2. CASE ReadComm
  <2>1. UNCHANGED << proc, stable, container_cgroups, refused, seen >>
    BY <1>2, ReadCommDoes DEF kernel_vars, proc_vars
  <2>2. /\ pc' # "stat" /\ cursor \in Pids
        /\ cursor' = cursor \/ (cursor' = cursor + 1 /\ ~is_nf_comm(cursor))
    BY <1>2, ReadCommDoes DEF ScanTypes, Scanning
  <2>3. \A p \in stable : p < cursor' => p < cursor
    BY <2>2, Constants DEF ProcTypes, is_nf_comm
  <2>4. QED
    BY <2>1, <2>2, <2>3 DEF PassedInv, SeenSet
<1>3. CASE parse_cgroupv2_path
  <2>1. UNCHANGED << proc, stable, container_cgroups, refused, seen >>
    BY <1>3, ParseDoes DEF kernel_vars, proc_vars
  <2>2. /\ cursor \in Pids
        /\ \/ pc' = "stat" /\ cg_id' = proc[cursor].cg /\ cursor' = cursor
           \/ /\ ~(proc[cursor] # NULL /\ proc[cursor].cg \in Resolvable)
              /\ pc' # "stat" /\ cursor' = cursor + 1
    BY <1>3, ParseDoes DEF ScanTypes, Scanning
  <2>3. \A p \in stable : p < cursor' /\ proc[p].cg \in Resolvable => p < cursor
    BY <2>2, Constants DEF ProcTypes
  <2>4. QED
    BY <2>1, <2>2, <2>3 DEF PassedInv, SeenSet
<1>4. CASE cgroup_id_from_path
  <2>1. UNCHANGED << proc, stable >>
    BY <1>4, StatDoes DEF kernel_vars, proc_vars
  <2>2. /\ pc = "stat" /\ pc' # "stat" /\ cursor' = cursor + 1 /\ cursor \in Pids
        /\ container_cgroups \subseteq container_cgroups' /\ (refused => refused')
        /\ refused' \/ SeenSet' \subseteq container_cgroups'
        /\ \/ refused' \/ cg_id \in container_cgroups'
           \/ \A p \in Pids : proc[p] # NULL => proc[p].cg # cg_id
    BY <1>4, StatDoes DEF ScanTypes, Scanning, PassedInv
  <2>3. cursor \in stable => refused' \/ proc[cursor].cg \in container_cgroups'
    BY <2>2 DEF PassedInv, ProcTypes
  <2>4. \A p \in stable : p < cursor' => p < cursor \/ p = cursor
    BY <2>2, Constants DEF ProcTypes
  <2>5. \A p \in stable : p < cursor' /\ proc[p].cg \in Resolvable =>
          refused' \/ proc[p].cg \in container_cgroups'
    BY <2>2, <2>3, <2>4 DEF PassedInv
  <2>6. QED
    BY <2>1, <2>2, <2>5 DEF PassedInv
<1>5. CASE Probes
  <2>1. UNCHANGED << proc, stable, container_cgroups, refused, seen, pc, cursor, cg_id >>
    BY <1>5, ProbesDo DEF loader_vars, scan_vars, proc_vars
  <2>2. QED
    BY <2>1 DEF PassedInv, SeenSet
<1>6. ASSUME NEW p \in Pids, NEW q \in Processes \cup {NULL}, ProcChange(p, q)
      PROVE  PassedInv' /\ (refused => refused')
  <2>1. UNCHANGED << container_cgroups, refused, seen, pc, cursor, cg_id >>
    BY <1>6, ProcChangeDoes DEF loader_vars, scan_vars
  <2>2. stable' = stable \ {p} /\ \A r \in stable' : proc'[r] = proc[r]
    BY <1>6, ProcChangeDoes DEF ProcTypes
  <2>3. QED
    BY <2>1, <2>2 DEF PassedInv, SeenSet
<1>7. CASE seed_container_cgroups
  <2>1. /\ UNCHANGED << proc, stable, container_cgroups, seen, cursor >> /\ (refused => refused')
        /\ pc' \notin {"cgroup", "stat"}
    BY <1>7, SeedDoes DEF kernel_vars, proc_vars
  <2>2. QED
    BY <2>1 DEF PassedInv, SeenSet
<1>8. QED
  BY <1>1, <1>2, <1>3, <1>4, <1>5, <1>6, <1>7, NsSteps DEF ScanStep

\* Nothing is attached before the scan is over.
LEMMA TrackedWhenAttached ==
    ASSUME ScanTypes, ProcTypes, PassedInv, NEW p \in stable, proc[p].cg \in Resolvable,
           NEW prog, Attached(prog)
    PROVE  refused \/ is_tracked_cgroup(p)
<1>1. linked # 0
  BY DEF Attached, ScanTypes
<1>2. (cursor = Cardinality(Pids) + 1 \/ refused) /\ p \in Pids
  BY <1>1 DEF ScanTypes, ProcTypes
<1>3. p < cursor \/ refused
  BY <1>2, Constants
<1>4. QED
  BY <1>3 DEF PassedInv, is_tracked_cgroup

-----------------------------------------------------------------------------
(***************************************************************************)
(* The calls.                                                              *)
(***************************************************************************)
\* Another call goes on as it was, or its exit handler reads another entry.
SameCall(r) ==
    \/ call'[r] = call[r]
    \/ /\ call[r] # NULL /\ call[r].args # NULL /\ call'[r] # NULL /\ call'[r].args # NULL
       /\ call'[r].n = call[r].n

LEMMA SaveDoes ==
    ASSUME CallTypes, NEW p \in Pids, NEW k \in Kinds, NEW c \in SavedCall, bpf_map_update_elem(k, p, c)
    PROVE  /\ call' \in [Pids -> CallInProgress \cup {NULL}]
           /\ scratch' \in [Kinds -> [Pids -> SavedCall \cup {NULL}]]
           /\ call'[p] = c /\ \A r \in Pids : r # p => SameCall(r)
           /\ \A j \in Kinds, r \in Pids : r # p => scratch'[j][r] = scratch[j][r]
           /\ lost \subseteq lost'
           /\ scratch'[k][p] # NULL \/ c.n \in lost'
<1>1. c \in CallInProgress /\ c # NULL
  BY Constants DEF SavedCall, CallInProgress
<1>2. CASE /\ scratch' = [scratch EXCEPT ![k][p] = c]
           /\ \E q \in {r \in Pids : call[r] # NULL /\ call[r].args # NULL /\ call[r].kind = k} \cup {p} :
                call' = [r \in Pids |-> IF r = p THEN c
                                        ELSE IF r = q THEN [call[r] EXCEPT !.args = c]
                                        ELSE call[r]]
           /\ UNCHANGED lost
  <2>1. PICK q \in {r \in Pids : call[r] # NULL /\ call[r].args # NULL /\ call[r].kind = k} \cup {p} :
          call' = [r \in Pids |-> IF r = p THEN c
                                  ELSE IF r = q THEN [call[r] EXCEPT !.args = c]
                                  ELSE call[r]]
    BY <1>2
  <2>2. ASSUME NEW r \in Pids, r # p, r = q
        PROVE  /\ call'[r] \in CallInProgress /\ call'[r].args = c /\ call'[r].n = call[r].n
               /\ call[r] # NULL /\ call[r].args # NULL
    <3>1. call'[r] = [call[r] EXCEPT !.args = c] /\ call[r] # NULL /\ call[r].args # NULL
      BY <2>1, <2>2
    <3>2. call[r] \in CallInProgress
      BY <3>1 DEF CallTypes
    <3>3. QED
      BY <3>1, <3>2 DEF CallInProgress
  <2>3. ASSUME NEW r \in Pids, r # p, r # q
        PROVE  call'[r] = call[r]
    BY <2>1, <2>3
  <2>4. call'[p] = c
    BY <2>1
  <2>5. \A r \in Pids : call'[r] \in CallInProgress \cup {NULL}
    BY <1>1, <2>2, <2>3, <2>4 DEF CallTypes
  <2>6. call' \in [Pids -> CallInProgress \cup {NULL}]
    BY <2>1, <2>5
  <2>7. \A r \in Pids : r # p => SameCall(r)
    BY <1>1, <2>2, <2>3, Constants DEF SameCall
  <2>8. /\ scratch' \in [Kinds -> [Pids -> SavedCall \cup {NULL}]] /\ scratch'[k][p] = c
        /\ \A j \in Kinds, r \in Pids : r # p => scratch'[j][r] = scratch[j][r]
    BY <1>2 DEF CallTypes
  <2>9. QED
    BY <1>1, <1>2, <2>4, <2>6, <2>7, <2>8
<1>3. CASE call' = [call EXCEPT ![p] = c] /\ lost' = lost \cup {c.n} /\ UNCHANGED scratch
  BY <1>1, <1>3 DEF CallTypes, SameCall
<1>4. QED
  BY <1>2, <1>3 DEF bpf_map_update_elem

LEMMA NewCall ==
    ASSUME NEW n \in Nat, NEW k \in Kinds, NEW own \in Families \cup {NULL}, NEW s \in BOOLEAN
    PROVE  LET c == [n |-> n, kind |-> k, own |-> own, args |-> NULL, seen |-> s]
           IN  /\ c \in SavedCall /\ c \in CallInProgress
               /\ c.n = n /\ c.kind = k /\ c.args = NULL /\ c.seen = s
BY DEF SavedCall, CallInProgress

\* The enter handlers: the call has an entry if its cgroup is tracked, unless the
\* scratch map is full.
LEMMA EnterCallDoes ==
    ASSUME CallTypes, NEW p \in Pids, NEW k \in Kinds, NEW own \in Families \cup {NULL},
           EnterCall(p, k, own)
    PROVE  /\ CallTypes' /\ UNCHANGED << sent, due >> /\ call[p] = NULL /\ lost \subseteq lost'
           /\ \A r \in Pids : r # p => SameCall(r)
           /\ \A j \in Kinds, r \in Pids : r # p => scratch'[j][r] = scratch[j][r]
           /\ call'[p] # NULL /\ call'[p].kind = k /\ call'[p].n = calls + 1 /\ calls' = calls + 1
           /\ call'[p].seen => Attached(<<k, "enter">>)
           /\ call'[p].seen /\ is_tracked_cgroup(p) => scratch'[k][p] # NULL \/ call'[p].n \in lost'
<1> DEFINE s == Attached(<<k, "enter">>)
           c == [n |-> calls + 1, kind |-> k, own |-> own, args |-> NULL, seen |-> s]
<1>1. /\ call[p] = NULL /\ calls' = calls + 1 /\ UNCHANGED << sent, due >>
  BY DEF EnterCall, Call
<1>2. \/ c.seen /\ is_tracked_cgroup(p) /\ bpf_map_update_elem(k, p, c)
      \/ /\ ~(c.seen /\ is_tracked_cgroup(p))
         /\ call' = [call EXCEPT ![p] = c] /\ UNCHANGED << scratch, lost >>
  BY Zenon DEF EnterCall, trace_enter
<1>3. s \in BOOLEAN
  BY DEF Attached
<1>4. calls + 1 \in Nat
  BY DEF CallTypes
<1> HIDE DEF s
<1>5. c \in SavedCall /\ c \in CallInProgress /\ c.n = calls + 1 /\ c.kind = k /\ c.seen = s
  BY <1>3, <1>4, NewCall
<1> HIDE DEF c
<1>6. c # NULL
  BY <1>5, Constants
<1>7. c.seen => s
  BY <1>5, Zenon
<1>8. CASE c.seen /\ is_tracked_cgroup(p) /\ bpf_map_update_elem(k, p, c)
  BY <1>1, <1>4, <1>5, <1>6, <1>7, <1>8, SaveDoes DEF CallTypes, s
<1>9. CASE /\ ~(c.seen /\ is_tracked_cgroup(p))
           /\ call' = [call EXCEPT ![p] = c] /\ UNCHANGED << scratch, lost >>
  <2>1. call'[p] = c /\ \A r \in Pids : r # p => call'[r] = call[r]
    BY <1>9 DEF CallTypes
  <2>2. CallTypes'
    BY <1>1, <1>4, <1>5, <1>9 DEF CallTypes
  <2>3. QED
    BY <1>1, <1>5, <1>6, <1>7, <1>9, <2>1, <2>2 DEF SameCall, s
<1>10. QED
  BY <1>2, <1>8, <1>9

\* The exit handlers up to the new event: a call that is due has its entry taken.
LEMMA ExitCallDoes ==
    ASSUME CallTypes, NEW p \in Pids, NEW ret, ExitCall(p, ret)
    PROVE  /\ CallTypes' /\ UNCHANGED << sent, lost, calls >>
           /\ call[p] # NULL /\ call[p].args = NULL /\ call[p].kind \in Kinds
           /\ \A r \in Pids : r # p => call'[r] = call[r]
           /\ \A j \in Kinds, r \in Pids : r # p => scratch'[j][r] = scratch[j][r]
           /\ \/ call'[p] = NULL
              \/ call'[p] # NULL /\ call'[p].args # NULL /\ call'[p].n = call[p].n
           /\ \/ due' = due
              \/ /\ due' = due \cup {call[p].n} /\ call[p].seen /\ p \in stable
                 /\ proc[p].cg \in Resolvable /\ Attached(<<call[p].kind, "exit">>)
                 /\ is_tracked_cgroup(p) /\ scratch[call[p].kind][p] # NULL => call'[p] # NULL
<1> DEFINE c == call[p]
           traced == Attached(<<c.kind, "exit">>) /\ is_tracked_cgroup(p)
           found == scratch[c.kind][p]
           taken == traced /\ found # NULL /\ Reported(c.kind, ret)
           d == [c EXCEPT !.args = found]
<1>1. /\ c # NULL /\ c.args = NULL /\ UNCHANGED << sent, lost, calls >>
  BY DEF ExitCall, report_vars
<1>2. c \in CallInProgress /\ c.kind \in Kinds /\ c.n \in Nat
  BY <1>1 DEF CallTypes, CallInProgress
<1>3. found \in SavedCall \cup {NULL}
  BY <1>2 DEF CallTypes
<1>4. d \in CallInProgress /\ d.args = found /\ d.n = c.n /\ d # NULL
  BY <1>2, <1>3, Constants DEF CallInProgress
<1>5. /\ scratch' = IF traced THEN [scratch EXCEPT ![c.kind][p] = NULL] ELSE scratch
      /\ call' = [call EXCEPT ![p] = IF taken THEN d ELSE NULL]
  BY DEF ExitCall
<1>6. /\ scratch' \in [Kinds -> [Pids -> SavedCall \cup {NULL}]]
      /\ \A j \in Kinds, r \in Pids : r # p => scratch'[j][r] = scratch[j][r]
  <2>1. CASE traced
    <3>1. scratch' = [scratch EXCEPT ![c.kind][p] = NULL]
      BY <1>5, <2>1
    <3> HIDE DEF c
    <3>2. QED
      BY <1>2, <3>1 DEF CallTypes
  <2>2. CASE ~traced
    BY <1>5, <2>2 DEF CallTypes
  <2>3. QED
    BY <2>1, <2>2
<1>7. due' = IF c.seen /\ p \in stable /\ proc[p].cg \in Resolvable
                /\ Attached(<<c.kind, "exit">>) /\ Reported(c.kind, ret)
               THEN due \cup {c.n} ELSE due
  BY DEF ExitCall
<1> HIDE DEF d, traced
<1>8. /\ call' \in [Pids -> CallInProgress \cup {NULL}] /\ call'[p] = (IF taken THEN d ELSE NULL)
      /\ \A r \in Pids : r # p => call'[r] = call[r]
  BY <1>4, <1>5 DEF CallTypes
<1>9. CallTypes'
  BY <1>1, <1>6, <1>8 DEF CallTypes
<1>10. call'[p] = NULL \/ (call'[p] # NULL /\ call'[p].args # NULL /\ call'[p].n = call[p].n)
  BY <1>4, <1>8
<1>11. \/ due' = due
       \/ /\ due' = due \cup {c.n} /\ c.seen /\ p \in stable
          /\ proc[p].cg \in Resolvable /\ Attached(<<c.kind, "exit">>)
          /\ is_tracked_cgroup(p) /\ scratch[c.kind][p] # NULL => call'[p] # NULL
  BY <1>4, <1>7, <1>8 DEF traced
<1>12. QED
  BY <1>1, <1>2, <1>6, <1>8, <1>9, <1>10, <1>11

LEMMA SubmitDoes ==
    ASSUME NEW n, NEW events, Submit(n, events)
    PROVE  sent \subseteq sent' /\ lost \subseteq lost' /\ n \in sent' \cup lost'
BY DEF Submit

LEMMA ExitReportDoes ==
    ASSUME CallTypes, NEW p \in Pids, ExitReport(p)
    PROVE  /\ CallTypes' /\ UNCHANGED << scratch, due, calls >>
           /\ call[p] # NULL /\ call'[p] = NULL /\ \A r \in Pids : r # p => call'[r] = call[r]
           /\ sent \subseteq sent' /\ lost \subseteq lost' /\ call[p].n \in sent' \cup lost'
<1>1. /\ call[p] # NULL /\ call' = [call EXCEPT ![p] = NULL] /\ UNCHANGED << scratch, due, calls >>
  BY DEF ExitReport
<1>2. sent \subseteq sent' /\ lost \subseteq lost' /\ call[p].n \in sent' \cup lost'
  <2>1. PICK events : Submit(call[p].n, events)
    BY DEF ExitReport
  <2>2. QED
    BY <2>1, SubmitDoes
<1>3. QED
  BY <1>1, <1>2 DEF CallTypes

LEMMA DataCallDoes ==
    ASSUME CallTypes, NEW p \in Pids, NEW prog, NEW worth, NEW own, NEW bytes,
           DataCall(p, prog, worth, own, bytes)
    PROVE  /\ CallTypes' /\ UNCHANGED << call, scratch >> /\ calls' = calls + 1
           /\ sent \subseteq sent' /\ lost \subseteq lost'
           /\ \/ due' = due
              \/ /\ due' = due \cup {calls + 1} /\ p \in stable
                 /\ proc[p].cg \in Resolvable /\ Attached(prog)
                 /\ is_tracked_cgroup(p) => calls + 1 \in sent' \cup lost'
<1>1. calls' = calls + 1 /\ UNCHANGED << call, scratch >>
  BY DEF DataCall, Call
<1>2. CASE Attached(prog) /\ is_tracked_cgroup(p) /\ worth
  <2>1. PICK events : Submit(calls + 1, events)
    BY <1>2 DEF DataCall
  <2>2. sent \subseteq sent' /\ lost \subseteq lost' /\ calls + 1 \in sent' \cup lost'
    BY <2>1, SubmitDoes
  <2>3. \/ due' = due
        \/ /\ due' = due \cup {calls + 1} /\ p \in stable
           /\ proc[p].cg \in Resolvable /\ Attached(prog)
    BY DEF DataCall
  <2>4. QED
    BY <1>1, <2>2, <2>3 DEF CallTypes
<1>3. CASE ~(Attached(prog) /\ is_tracked_cgroup(p) /\ worth)
  <2>1. UNCHANGED << sent, lost >>
    BY <1>3 DEF DataCall, report_vars
  <2>2. \/ due' = due
        \/ /\ due' = due \cup {calls + 1} /\ p \in stable
           /\ proc[p].cg \in Resolvable /\ Attached(prog) /\ worth
    BY DEF DataCall
  <2>3. QED
    BY <1>1, <1>3, <2>1, <2>2 DEF CallTypes
<1>4. QED
  BY <1>2, <1>3

\* The steps in which no call begins or goes on.
LEMMA OtherStepsDo ==
    ASSUME ProcTypes, \/ LoaderOnly \/ ScanStep \/ handle_event \/ UNCHANGED vars
                      \/ \E p \in Pids, q \in Processes \cup {NULL} : ProcChange(p, q)
    PROVE  /\ UNCHANGED << call, scratch, calls, sent, lost, due >>
           /\ stable' \subseteq stable /\ \A p \in stable' : proc'[p] = proc[p]
<1>1. ASSUME UNCHANGED kernel_vars
      PROVE  /\ UNCHANGED << call, scratch, calls, sent, lost, due >>
             /\ stable' \subseteq stable /\ \A p \in stable' : proc'[p] = proc[p]
  BY <1>1 DEF kernel_vars, report_vars, proc_vars
<1>2. CASE LoaderOnly
  BY <1>1, <1>2 DEF LoaderOnly, LoadSkeleton, Attach, ring_buffer__new, sig_handler, PollDone, PollError
<1>3. CASE ScanStep
  BY <1>1, <1>3 DEF ScanStep, seed_container_cgroups, ReadComm, parse_cgroupv2_path, cgroup_id_from_path
<1>4. CASE handle_event \/ UNCHANGED vars
  BY <1>4 DEF handle_event, vars, report_vars, proc_vars
<1>5. ASSUME NEW p \in Pids, NEW q \in Processes \cup {NULL}, ProcChange(p, q)
      PROVE  /\ UNCHANGED << call, scratch, calls, sent, lost, due >>
             /\ stable' \subseteq stable /\ \A r \in stable' : proc'[r] = proc[r]
  BY <1>5, ProcChangeDoes DEF report_vars, ProcTypes
<1>6. QED
  BY <1>2, <1>3, <1>4, <1>5

LEMMA NumbersStep ==
    ASSUME ProcTypes, CallTypes, NumbersInv, [Next]_vars
    PROVE  NumbersInv'
<1>1. calls \in Nat
  BY DEF CallTypes
<1>2. ASSUME NEW p \in Pids, NEW k \in Kinds, NEW own \in Families \cup {NULL}, EnterCall(p, k, own)
      PROVE  NumbersInv'
  <2>1. /\ call'[p].n = calls + 1 /\ calls' = calls + 1 /\ due' = due
        /\ \A r \in Pids : r # p => SameCall(r)
    BY <1>2, EnterCallDoes
  <2>2. \A r \in Pids : r # p /\ call'[r] # NULL =>
          /\ call[r] # NULL /\ call'[r].n = call[r].n /\ (call'[r].args = NULL => call[r].args = NULL)
    BY <2>1 DEF SameCall
  <2>3. 1..calls \subseteq 1..calls' /\ calls + 1 \in 1..calls' /\ calls + 1 \notin 1..calls
    BY <1>1, <2>1
  <2>4. QED
    BY <2>1, <2>2, <2>3 DEF NumbersInv
<1>3. ASSUME NEW p \in Pids, NEW ret, ExitCall(p, ret)
      PROVE  NumbersInv'
  <2>1. /\ calls' = calls /\ call[p] # NULL /\ due' \subseteq due \cup {call[p].n}
        /\ \A r \in Pids : r # p => call'[r] = call[r]
        /\ call'[p] = NULL \/ (call'[p].args # NULL /\ call'[p].n = call[p].n)
    BY <1>3, ExitCallDoes
  <2>2. call[p].n \in 1..calls /\ due' \subseteq 1..calls
    BY <2>1 DEF NumbersInv
  <2>3. \A r \in Pids : call'[r] # NULL => call[r] # NULL /\ call'[r].n = call[r].n
    BY <2>1
  <2>4. \A r \in Pids : call'[r] # NULL /\ call'[r].args = NULL => call'[r].n \notin due'
    <3>1. ASSUME NEW r \in Pids, call'[r] # NULL, call'[r].args = NULL
          PROVE  call'[r].n \notin due'
      <4>1. r # p /\ call'[r] = call[r] /\ call[r].n # call[p].n
        BY <2>1, <3>1 DEF NumbersInv
      <4>2. QED
        BY <2>1, <3>1, <4>1 DEF NumbersInv
    <3>2. QED
      BY <3>1
  <2>5. QED
    BY <2>1, <2>2, <2>3, <2>4 DEF NumbersInv
<1>4. ASSUME NEW p \in Pids, ExitReport(p)
      PROVE  NumbersInv'
  <2>1. /\ UNCHANGED << calls, due >>
        /\ \A r \in Pids : call'[r] # NULL => call'[r] = call[r]
    BY <1>4, ExitReportDoes
  <2>2. QED
    BY <2>1 DEF NumbersInv
<1>5. ASSUME NEW p \in Pids, NEW prog, NEW worth, NEW own, NEW bytes,
             DataCall(p, prog, worth, own, bytes)
      PROVE  NumbersInv'
  <2>1. calls' = calls + 1 /\ call' = call /\ due' \subseteq due \cup {calls + 1}
    BY <1>5, DataCallDoes
  <2>2. 1..calls \subseteq 1..calls' /\ calls + 1 \in 1..calls' /\ calls + 1 \notin 1..calls
    BY <1>1, <2>1
  <2>3. QED
    BY <2>1, <2>2 DEF NumbersInv
<1>6. CASE \/ LoaderOnly \/ ScanStep \/ handle_event \/ UNCHANGED vars
           \/ \E p \in Pids, q \in Processes \cup {NULL} : ProcChange(p, q)
  BY <1>6, OtherStepsDo DEF NumbersInv
<1>7. QED
  BY <1>2, <1>3, <1>4, <1>5, <1>6, NsSteps DEF Probes

LEMMA CallsStep ==
    ASSUME ScanTypes, ProcTypes, CallTypes, PassedInv, EntryInv, NumbersInv, StableIsTraced,
           refused => refused', [Next]_vars
    PROVE  CallTypes' /\ EntryInv' /\ StableIsTraced'
<1> DEFINE Same == UNCHANGED << stable, proc, refused >>
<1>1. ASSUME Probes PROVE Same
  BY <1>1, ProbesDo DEF scan_vars, proc_vars
<1>2. ASSUME NEW p \in Pids, NEW k \in Kinds, NEW own \in Families \cup {NULL}, EnterCall(p, k, own)
      PROVE  CallTypes' /\ EntryInv' /\ StableIsTraced'
  <2>1. Same
    BY <1>1, <1>2 DEF Probes
  <2>2. /\ CallTypes' /\ UNCHANGED << sent, due >> /\ call[p] = NULL /\ lost \subseteq lost'
        /\ \A r \in Pids : r # p => SameCall(r)
        /\ \A j \in Kinds, r \in Pids : r # p => scratch'[j][r] = scratch[j][r]
        /\ call'[p] # NULL /\ call'[p].kind = k
        /\ call'[p].seen => Attached(<<k, "enter">>)
        /\ call'[p].seen /\ is_tracked_cgroup(p) => scratch'[k][p] # NULL \/ call'[p].n \in lost'
    BY <1>2, EnterCallDoes
  <2>3. call'[p].seen /\ p \in stable /\ proc[p].cg \in Resolvable =>
          refused \/ scratch'[call'[p].kind][p] # NULL \/ call'[p].n \in lost'
    BY <2>2, TrackedWhenAttached
  <2>4. ASSUME NEW r \in stable, r # p, call'[r] # NULL, call'[r].args = NULL, call'[r].seen,
               proc[r].cg \in Resolvable
        PROVE  refused \/ scratch'[call'[r].kind][r] # NULL \/ call'[r].n \in lost'
    <3>1. r \in Pids /\ call'[r] = call[r]
      BY <2>2, <2>4 DEF SameCall, ProcTypes
    <3>2. call[r].kind \in Kinds
      BY <2>4, <3>1 DEF CallTypes, CallInProgress
    <3>3. QED
      BY <2>2, <2>4, <3>1, <3>2 DEF EntryInv
  <2>5. EntryInv'
    BY <2>1, <2>3, <2>4 DEF EntryInv
  <2>6. \A r \in Pids : call[r] # NULL => call'[r] # NULL /\ call'[r].n = call[r].n
    BY <2>2 DEF SameCall
  <2>7. StableIsTraced'
    BY <2>1, <2>2, <2>6 DEF StableIsTraced
  <2>8. QED
    BY <2>2, <2>5, <2>7
<1>3. ASSUME NEW p \in Pids, NEW ret, ExitCall(p, ret)
      PROVE  CallTypes' /\ EntryInv' /\ StableIsTraced'
  <2>1. Same
    BY <1>1, <1>3 DEF Probes
  <2>2. /\ CallTypes' /\ UNCHANGED << sent, lost >>
        /\ call[p] # NULL /\ call[p].args = NULL /\ call[p].kind \in Kinds
        /\ \A r \in Pids : r # p => call'[r] = call[r]
        /\ \A j \in Kinds, r \in Pids : r # p => scratch'[j][r] = scratch[j][r]
        /\ \/ call'[p] = NULL
           \/ call'[p] # NULL /\ call'[p].args # NULL /\ call'[p].n = call[p].n
    BY <1>3, ExitCallDoes
  <2>3. EntryInv'
    <3>1. ASSUME NEW r \in stable, r # p, call'[r] # NULL
          PROVE  call'[r] = call[r] /\ scratch'[call[r].kind][r] = scratch[call[r].kind][r]
      BY <2>2, <3>1 DEF ProcTypes, CallTypes, CallInProgress
    <3>2. QED
      BY <2>1, <2>2, <3>1 DEF EntryInv
  <2>4. refused \/ \A n \in due' \ due : n \in lost \/ (call'[p] # NULL /\ call'[p].n = n)
    <3>1. CASE due' = due
      BY <3>1
    <3>2. CASE /\ due' = due \cup {call[p].n} /\ call[p].seen /\ p \in stable
               /\ proc[p].cg \in Resolvable /\ Attached(<<call[p].kind, "exit">>)
               /\ is_tracked_cgroup(p) /\ scratch[call[p].kind][p] # NULL => call'[p] # NULL
      <4>1. refused \/ is_tracked_cgroup(p)
        BY <3>2, TrackedWhenAttached
      <4>2. refused \/ scratch[call[p].kind][p] # NULL \/ call[p].n \in lost
        BY <2>2, <3>2 DEF EntryInv
      <4>3. QED
        BY <2>2, <3>2, <4>1, <4>2
    <3>3. QED
      BY <1>3, <3>1, <3>2, ExitCallDoes
  <2>5. ASSUME ~refused, NEW n \in due', n \notin sent', n \notin lost'
        PROVE  \E r \in Pids : call'[r] # NULL /\ call'[r].n = n
    <3>1. CASE n \notin due
      BY <2>2, <2>4, <2>5, <3>1
    <3>2. CASE n \in due
      <4>1. PICK r \in Pids : call[r] # NULL /\ call[r].n = n
        BY <2>2, <2>5, <3>2 DEF StableIsTraced
      <4>2. CASE r # p
        BY <2>2, <4>1, <4>2
      <4>3. CASE r = p
        BY <2>2, <3>2, <4>1, <4>3 DEF NumbersInv
      <4>4. QED
        BY <4>2, <4>3
    <3>3. QED
      BY <3>1, <3>2
  <2>6. StableIsTraced'
    BY <2>1, <2>5 DEF StableIsTraced
  <2>7. QED
    BY <2>2, <2>3, <2>6
<1>4. ASSUME NEW p \in Pids, ExitReport(p)
      PROVE  CallTypes' /\ EntryInv' /\ StableIsTraced'
  <2>1. Same
    BY <1>1, <1>4 DEF Probes
  <2>2. /\ CallTypes' /\ UNCHANGED << scratch, due >>
        /\ call[p] # NULL /\ call'[p] = NULL /\ \A r \in Pids : r # p => call'[r] = call[r]
        /\ sent \subseteq sent' /\ lost \subseteq lost' /\ call[p].n \in sent' \cup lost'
    BY <1>4, ExitReportDoes
  <2>3. EntryInv'
    BY <2>1, <2>2 DEF EntryInv, ProcTypes
  <2>4. ASSUME ~refused, NEW n \in due', n \notin sent', n \notin lost'
        PROVE  \E r \in Pids : call'[r] # NULL /\ call'[r].n = n
    <3>1. PICK r \in Pids : call[r] # NULL /\ call[r].n = n
      BY <2>2, <2>4 DEF StableIsTraced
    <3>2. QED
      BY <2>2, <2>4, <3>1
  <2>5. StableIsTraced'
    BY <2>1, <2>4 DEF StableIsTraced
  <2>6. QED
    BY <2>2, <2>3, <2>5
<1>5. ASSUME NEW p \in Pids, NEW prog, NEW worth, NEW own, NEW bytes,
             DataCall(p, prog, worth, own, bytes)
      PROVE  CallTypes' /\ EntryInv' /\ StableIsTraced'
  <2>1. Same
    BY <1>1, <1>5 DEF Probes
  <2>2. /\ CallTypes' /\ UNCHANGED << call, scratch >>
        /\ sent \subseteq sent' /\ lost \subseteq lost'
    BY <1>5, DataCallDoes
  <2>3. EntryInv'
    BY <2>1, <2>2 DEF EntryInv
  <2>4. refused \/ due' \ due \subseteq sent' \cup lost'
    BY <1>5, DataCallDoes, TrackedWhenAttached
  <2>5. StableIsTraced'
    BY <2>1, <2>2, <2>4 DEF StableIsTraced
  <2>6. QED
    BY <2>2, <2>3, <2>5
<1>6. CASE \/ LoaderOnly \/ ScanStep \/ handle_event \/ UNCHANGED vars
           \/ \E p \in Pids, q \in Processes \cup {NULL} : ProcChange(p, q)
  <2>1. /\ UNCHANGED << call, scratch, calls, sent, lost, due >>
        /\ stable' \subseteq stable /\ \A p \in stable' : proc'[p] = proc[p]
    BY <1>6, OtherStepsDo
  <2>2. CallTypes'
    BY <2>1 DEF CallTypes
  <2>3. EntryInv'
    BY <2>1 DEF EntryInv
  <2>4. StableIsTraced'
    BY <2>1 DEF StableIsTraced
  <2>5. QED
    BY <2>2, <2>3, <2>4
<1>7. QED
  BY <1>2, <1>3, <1>4, <1>5, <1>6, NsSteps DEF Probes

-----------------------------------------------------------------------------
(***************************************************************************)
(* The theorems.                                                           *)
(***************************************************************************)
LEMMA NsInit == Init => NsInv
<1> SUFFICES ASSUME Init PROVE NsInv
  OBVIOUS
<1>1. /\ pc = "load" /\ cursor = 1 /\ seen = << >> /\ inserted = 0 /\ container_cgroups = {}
      /\ linked = 0 /\ proc \in [Pids -> Processes \cup {NULL}]
      /\ stable = {p \in Pids : proc[p] # NULL /\ proc[p].nf}
      /\ nfCgroups = {proc[p].cg : p \in stable}
      /\ call = [p \in Pids |-> NULL] /\ scratch = [k \in Kinds |-> call]
      /\ calls = 0 /\ due = {}
  BY DEF Init
<1>2. IsFiniteSet({}) /\ Cardinality({}) = 0
  BY FS_EmptySet
<1>3. ScanTypes
  BY <1>1, <1>2, Constants DEF ScanTypes, Scanning, Scanned
<1>4. ProcTypes /\ CallTypes
  BY <1>1 DEF ProcTypes, CallTypes
<1>5. SeenSet = {}
  BY <1>1 DEF SeenSet
<1>6. SeenInv
  BY <1>1, <1>2, <1>5, Constants DEF SeenInv
<1>7. NfInv
  BY <1>1 DEF NfInv, TrackedIsNf
<1>8. \A p \in stable : ~(p < cursor)
  BY <1>1, Constants
<1>9. PassedInv
  BY <1>1, <1>5, <1>8 DEF PassedInv
<1>10. \A p \in Pids : call[p] = NULL
  BY <1>1
<1>11. EntryInv /\ NumbersInv /\ StableIsTraced
  BY <1>1, <1>4, <1>10 DEF EntryInv, NumbersInv, StableIsTraced, ProcTypes
<1>12. QED
  BY <1>3, <1>4, <1>6, <1>7, <1>9, <1>11 DEF NsInv

\* The invariant above, whatever starts, execs and exits while /proc is read.
THEOREM NsInvariant == Spec => []NsInv
<1>1. NsInv /\ [Next]_vars => NsInv'
  <2> SUFFICES ASSUME NsInv, [Next]_vars PROVE NsInv'
    OBVIOUS
  <2>1. ScanTypes' /\ SeenInv' /\ ProcTypes'
    BY ScanTypesStep DEF NsInv
  <2>2. NfInv'
    BY NfStep DEF NsInv
  <2>3. PassedInv' /\ (refused => refused')
    BY PassedStep DEF NsInv
  <2>4. NumbersInv'
    BY NumbersStep DEF NsInv
  <2>5. CallTypes' /\ EntryInv' /\ StableIsTraced'
    BY <2>3, CallsStep DEF NsInv
  <2>6. QED
    BY <2>1, <2>2, <2>3, <2>4, <2>5 DEF NsInv
<1>2. QED
  BY <1>1, NsInit, PTL DEF Spec

\* seed_cgroups(): the number printed is the number of cgroups in the map, unless there
\* are more of them than seen[] can remember.
THEOREM SeedCounts == Spec => []SeedCountExact
<1>1. NsInv => SeedCountExact
  <2> SUFFICES ASSUME ScanTypes, SeenInv PROVE SeedCountExact
    BY DEF NsInv
  <2>1. inserted >= Cardinality(container_cgroups) /\ Cardinality(container_cgroups) \in Nat
    BY FS_CardinalityType DEF SeenInv, ScanTypes
  <2>2. ASSUME inserted > Cardinality(container_cgroups)
        PROVE  Cardinality(container_cgroups) > SeenMax
    <3>1. SeenSet \subseteq container_cgroups /\ Len(seen) = SeenMax /\ SeenSet # container_cgroups
      BY <2>1, <2>2 DEF SeenInv
    <3>2. Cardinality(SeenSet) = SeenMax
      BY <3>1 DEF SeenInv
    <3>3. Cardinality(SeenSet) <= Cardinality(container_cgroups)
          /\ Cardinality(SeenSet) # Cardinality(container_cgroups)
      BY <3>1, FS_Subset DEF ScanTypes
    <3>4. QED
      BY <2>1, <3>2, <3>3, Constants
  <2>3. QED
    BY <2>1, <2>2 DEF SeedCountExact
<1>2. QED
  BY <1>1, NsInvariant, PTL

\* A cgroup in the map has held a network function, or is that of a process that took
\* the pid of one between the reads of its comm and of its cgroup.
THEOREM TrackedHeldNf == Spec => []TrackedIsNf
<1>1. NsInv => TrackedIsNf
  BY DEF NsInv, NfInv
<1>2. QED
  BY <1>1, NsInvariant, PTL

\* No call of a network function that was there before the scan goes unreported, unless
\* a map or the ring was full.
THEOREM StableTraced == Spec => []StableIsTraced
<1>1. NsInv => StableIsTraced
  BY DEF NsInv
<1>2. QED
  BY <1>1, NsInvariant, PTL

-----------------------------------------------------------------------------
(***************************************************************************)
(* The lengths of a message: induction over the loop, from the least       *)
(* counterexample.                                                         *)
(***************************************************************************)
LEMMA LeastNat ==
    ASSUME NEW T, T \subseteq Nat, T # {}
    PROVE  \E n \in T : \A m \in T : n <= m
<1> DEFINE R == OpToRel(<, Nat)
<1>1. \A m, n \in Nat : m < n => <<m, n>> \in R
  BY DEF OpToRel
<1>2. \E n \in T : \A m \in T : ~(<<m, n>> \in R)
  BY NatLessThanWellFounded, WFMin, Zenon
<1>3. \E n \in T : \A m \in T : ~(m < n)
  <2> HIDE DEF R
  <2>1. QED
    BY <1>1, <1>2, Zenon
<1>4. QED
  BY <1>3

LEMMA Induct ==
    ASSUME NEW T, 0 \in T, \A n \in Nat : n \in T => n + 1 \in T
    PROVE  Nat \subseteq T
<1> DEFINE B == Nat \ T
<1> SUFFICES ASSUME B # {} PROVE FALSE
  OBVIOUS
<1>1. PICK n \in B : \A m \in B : n <= m
  BY LeastNat
<1>2. n # 0 /\ n - 1 \in Nat /\ n - 1 \in T
  BY <1>1
<1>3. QED
  BY <1>1, <1>2

\* The sums of the first k lengths exist.
LEMMA SumsExist ==
    ASSUME NEW lens \in Seq(Nat)
    PROVE  \E S \in [0..Len(lens) -> Nat] :
             S[0] = 0 /\ \A k \in 1..Len(lens) : S[k] = S[k - 1] + lens[k]
<1> DEFINE Adds(m, S) == S[0] = 0 /\ \A k \in 1..m : S[k] = S[k - 1] + lens[k]
           P(m) == m <= Len(lens) => \E S \in [0..m -> Nat] : Adds(m, S)
           T == {m \in Nat : P(m)}
<1>1. P(0)
  <2>1. [k \in 0..0 |-> 0] \in [0..0 -> Nat] /\ Adds(0, [k \in 0..0 |-> 0])
    OBVIOUS
  <2>2. QED
    BY <2>1
<1>2. ASSUME NEW m \in Nat, P(m)
      PROVE  P(m + 1)
  <2>1. CASE ~(m + 1 <= Len(lens))
    BY <2>1
  <2>2. CASE m + 1 <= Len(lens)
    <3>1. PICK S \in [0..m -> Nat] : Adds(m, S)
      <4>1. m <= Len(lens)
        BY <2>2
      <4> HIDE DEF Adds
      <4>2. QED
        BY <1>2, <4>1
    <3> DEFINE U == [k \in 0..(m + 1) |-> IF k = m + 1 THEN S[m] + lens[m + 1] ELSE S[k]]
    <3>2. S[m] + lens[m + 1] \in Nat
      BY <2>2, <3>1
    <3>3. U \in [0..(m + 1) -> Nat]
      BY <3>2
    <3>4. Adds(m + 1, U)
      <4>1. U[m + 1] = S[m] + lens[m + 1] /\ \A k \in 0..m : U[k] = S[k]
        OBVIOUS
      <4> HIDE DEF U
      <4>2. \A k \in 1..m : k \in 0..m /\ k - 1 \in 0..m
        OBVIOUS
      <4>3. \A k \in 1..m : U[k] = U[k - 1] + lens[k]
        BY <3>1, <4>1, <4>2
      <4>4. U[m + 1] = U[(m + 1) - 1] + lens[m + 1]
        BY <4>1
      <4>5. \A k \in 1..(m + 1) : k \in 1..m \/ k = m + 1
        OBVIOUS
      <4>6. ASSUME NEW k \in 1..(m + 1)
            PROVE  U[k] = U[k - 1] + lens[k]
        <5>1. CASE k \in 1..m
          BY <4>3, <5>1
        <5>2. CASE k = m + 1
          BY <4>4, <5>2
        <5>3. QED
          BY <4>5, <5>1, <5>2
      <4>7. U[0] = 0
        BY <3>1, <4>1
      <4>8. QED
        BY <4>6, <4>7
    <3> HIDE DEF Adds, U
    <3>5. QED
      BY <3>3, <3>4
  <2>3. QED
    BY <2>1, <2>2
<1>3. \A m \in Nat : P(m)
  <2> HIDE DEF P
  <2>1. 0 \in T /\ \A m \in Nat : m \in T => m + 1 \in T
    BY <1>1, <1>2
  <2>2. Nat \subseteq T
    <3> HIDE DEF T
    <3>1. QED
      BY <2>1, Induct
  <2>3. QED
    BY <2>2
<1>4. P(Len(lens))
  BY <1>3
<1>5. QED
  BY <1>4

\* They are what Sums computes, and they never decrease.
LEMMA SumsAdd ==
    ASSUME NEW lens \in Seq(Nat)
    PROVE  /\ Sums(lens) \in [0..Len(lens) -> Nat]
           /\ \A k \in 1..Len(lens) : Sums(lens)[k] = Sums(lens)[k - 1] + lens[k]
<1> DEFINE D(f) == f = [k \in 0..Len(lens) |-> IF k = 0 THEN 0 ELSE f[k - 1] + lens[k]]
<1>1. PICK S \in [0..Len(lens) -> Nat] :
        S[0] = 0 /\ \A k \in 1..Len(lens) : S[k] = S[k - 1] + lens[k]
  BY SumsExist
<1>2. D(S)
  BY <1>1
<1>3. Sums(lens) = CHOOSE f : D(f)
  BY DEF Sums
<1>4. D(Sums(lens))
  <2> HIDE DEF D
  <2>1. QED
    BY <1>2, <1>3
<1> DEFINE C == Sums(lens)
           P(k) == k <= Len(lens) => C[k] \in Nat
           T == {k \in Nat : P(k)}
<1>5. /\ C = [k \in 0..Len(lens) |-> C[k]] /\ C[0] = 0
      /\ \A k \in 1..Len(lens) : C[k] = C[k - 1] + lens[k]
  BY <1>4
<1> HIDE DEF C, D
<1>6. P(0)
  BY <1>5
<1>7. ASSUME NEW k \in Nat, P(k)
      PROVE  P(k + 1)
  <2> SUFFICES ASSUME k + 1 <= Len(lens) PROVE C[k + 1] \in Nat
    OBVIOUS
  <2>1. k + 1 \in 1..Len(lens) /\ (k + 1) - 1 = k /\ C[k] \in Nat /\ lens[k + 1] \in Nat
    BY <1>7
  <2>2. C[k + 1] = C[k] + lens[k + 1]
    BY <1>5, <2>1
  <2>3. QED
    BY <2>1, <2>2
<1>8. \A k \in Nat : P(k)
  <2> HIDE DEF P
  <2>1. 0 \in T /\ \A k \in Nat : k \in T => k + 1 \in T
    BY <1>6, <1>7
  <2>2. Nat \subseteq T
    <3> HIDE DEF T
    <3>1. QED
      BY <2>1, Induct
  <2>3. QED
    BY <2>2
<1>9. \A k \in 0..Len(lens) : C[k] \in Nat
  BY <1>8
<1>10. QED
  BY <1>5, <1>9 DEF C

LEMMA SumsGrow ==
    ASSUME NEW lens \in Seq(Nat), NEW j \in 0..Len(lens)
    PROVE  Sums(lens)[j] <= Sum(lens) /\ Sums(lens)[j] \in Nat /\ Sum(lens) \in Nat
<1> DEFINE S == Sums(lens)
           P(d) == j + d <= Len(lens) => S[j] <= S[j + d]
           T == {d \in Nat : P(d)}
<1>1. /\ S \in [0..Len(lens) -> Nat]
      /\ \A k \in 1..Len(lens) : S[k] = S[k - 1] + lens[k]
  BY SumsAdd
<1> HIDE DEF S
<1>2. S[j] \in Nat /\ j + 0 = j
  BY <1>1
<1>3. P(0)
  BY <1>2
<1>4. ASSUME NEW d \in Nat, P(d)
      PROVE  P(d + 1)
  <2> SUFFICES ASSUME j + (d + 1) <= Len(lens) PROVE S[j] <= S[j + (d + 1)]
    OBVIOUS
  <2>1. S[j] <= S[j + d] /\ j + (d + 1) \in 1..Len(lens) /\ (j + (d + 1)) - 1 = j + d
    BY <1>4
  <2>2. S[j + (d + 1)] = S[j + d] + lens[j + (d + 1)]
    BY <1>1, <2>1
  <2>3. S[j] \in Nat /\ S[j + d] \in Nat /\ lens[j + (d + 1)] \in Nat
    <3>1. j + d \in 0..Len(lens)
      OBVIOUS
    <3>2. S[j + d] \in Nat
      BY <1>1, <3>1
    <3>3. lens[j + (d + 1)] \in Nat
      BY <2>1
    <3>4. QED
      BY <1>2, <3>2, <3>3
  <2>4. QED
    BY <2>1, <2>2, <2>3
<1>5. \A d \in Nat : P(d)
  <2> HIDE DEF P
  <2>1. 0 \in T /\ \A d \in Nat : d \in T => d + 1 \in T
    BY <1>3, <1>4
  <2>2. Nat \subseteq T
    <3> HIDE DEF T
    <3>1. QED
      BY <2>1, Induct
  <2>3. QED
    BY <2>2
<1>6. P(Len(lens) - j) /\ j + (Len(lens) - j) = Len(lens)
  <2>1. Len(lens) - j \in Nat /\ j + (Len(lens) - j) = Len(lens)
    OBVIOUS
  <2> HIDE DEF P
  <2>2. QED
    BY <1>5, <2>1
<1>7. S[j] <= S[Len(lens)] /\ S[Len(lens)] \in Nat
  BY <1>1, <1>6
<1>8. QED
  BY <1>2, <1>7 DEF S, Sum

-----------------------------------------------------------------------------
(***************************************************************************)
(* The records.                                                            *)
(***************************************************************************)
\* The entry an exit handler reads is that of its own call or of one that began later;
\* the entry it will find is that of its own call, and none is there before the enter
\* handler is attached.
ArgsInv ==
    /\ \A p \in Pids : call[p] # NULL /\ call[p].kind = "connect" => call[p].own # NULL
    /\ \A p \in Pids : call[p] # NULL /\ call[p].args # NULL =>
         /\ call[p].args.n \in call[p].n..calls
         /\ call[p].args.n = call[p].n => call[p].args.own = call[p].own
         /\ call[p].kind = "connect" => call[p].args.own # NULL
    /\ \A p \in Pids : linked # 0 /\ call[p] # NULL /\ call[p].args = NULL /\ is_tracked_cgroup(p)
                       /\ scratch[call[p].kind][p] # NULL => scratch[call[p].kind][p] = call[p]
    /\ linked = 0 /\ pc # "done" => \A k \in Kinds, p \in Pids : scratch[k][p] = NULL

Records == [n : Nat, type : Kinds \cup {"sendmsg", "recvmsg"}, own : Nat \cup {NULL}, by : Nat,
            old : BOOLEAN, addr : [af : Nat, ip : Nat, port : Nat], bytes : Nat]

RecordsInv ==
    /\ ring \in Seq(Records)
    /\ \A i \in 1..Len(ring) : IsOwn(Printed(ring[i]))
    /\ ShownIsOwn

\* The enter handlers once more, with the entry c they save.
LEMMA EnterCallSaves ==
    ASSUME ScanTypes, CallTypes, NEW p \in Pids, NEW k \in Kinds, NEW own \in Families \cup {NULL},
           EnterCall(p, k, own)
    PROVE  \E c \in SavedCall :
             /\ c.n = calls + 1 /\ c.kind = k /\ c.own = own /\ c.args = NULL
             /\ call'[p] = c
             /\ \A r \in Pids : r # p =>
                  \/ call'[r] = call[r]
                  \/ /\ call[r] # NULL /\ call[r].args # NULL /\ call[r].kind = k
                     /\ call'[r] = [call[r] EXCEPT !.args = c]
             /\ \/ linked # 0 /\ is_tracked_cgroup(p) /\ scratch'[k][p] \in {c, NULL}
                \/ (linked = 0 \/ ~is_tracked_cgroup(p)) /\ scratch' = scratch
             /\ \A j \in Kinds, r \in Pids : r # p \/ j # k => scratch'[j][r] = scratch[j][r]
<1> DEFINE s == Attached(<<k, "enter">>)
           c == [n |-> calls + 1, kind |-> k, own |-> own, args |-> NULL, seen |-> s]
<1>1. k = group
  BY DEF EnterCall
<1>2. \/ c.seen /\ is_tracked_cgroup(p) /\ bpf_map_update_elem(k, p, c)
      \/ /\ ~(c.seen /\ is_tracked_cgroup(p))
         /\ call' = [call EXCEPT ![p] = c] /\ UNCHANGED << scratch, lost >>
  BY Zenon DEF EnterCall, trace_enter
<1>3. s \in BOOLEAN /\ (s <=> linked # 0)
  <2>1. Programs[group][1] = <<k, "enter">>
    BY <1>1 DEF Programs, Kinds
  <2>2. linked \in Nat
    BY DEF ScanTypes
  <2>3. linked # 0 => 1 \in 1..linked
    BY <2>2
  <2>4. linked = 0 => ~\E j : j \in 1..linked
    BY <2>2
  <2>5. QED
    BY <2>1, <2>3, <2>4 DEF Attached
<1>4. calls + 1 \in Nat
  BY DEF CallTypes
<1> HIDE DEF s
<1>5. c \in SavedCall /\ c.n = calls + 1 /\ c.kind = k /\ c.args = NULL /\ c.seen = s
  BY <1>3, <1>4, NewCall
<1>6. c.own = own
  OBVIOUS
<1> HIDE DEF c
<1>7. c.seen <=> linked # 0
  BY <1>3, <1>5, Zenon
<1>8. CASE linked # 0 /\ is_tracked_cgroup(p) /\ bpf_map_update_elem(k, p, c)
  <2>1. CASE /\ scratch' = [scratch EXCEPT ![k][p] = c]
             /\ \E q \in {r \in Pids : call[r] # NULL /\ call[r].args # NULL /\ call[r].kind = k} \cup {p} :
                  call' = [r \in Pids |-> IF r = p THEN c
                                          ELSE IF r = q THEN [call[r] EXCEPT !.args = c]
                                          ELSE call[r]]
    <3>1. PICK q \in {r \in Pids : call[r] # NULL /\ call[r].args # NULL /\ call[r].kind = k} \cup {p} :
            call' = [r \in Pids |-> IF r = p THEN c
                                    ELSE IF r = q THEN [call[r] EXCEPT !.args = c]
                                    ELSE call[r]]
      BY <2>1
    <3>2. call'[p] = c
      BY <3>1
    <3>3. ASSUME NEW r \in Pids, r # p
          PROVE  \/ call'[r] = call[r]
                 \/ /\ call[r] # NULL /\ call[r].args # NULL /\ call[r].kind = k
                    /\ call'[r] = [call[r] EXCEPT !.args = c]
      <4>1. CASE r = q
        BY <3>1, <3>3, <4>1
      <4>2. CASE r # q
        BY <3>1, <3>3, <4>2
      <4>3. QED
        BY <4>1, <4>2
    <3>4. /\ scratch'[k][p] = c
          /\ \A j \in Kinds, r \in Pids : r # p \/ j # k => scratch'[j][r] = scratch[j][r]
      BY <2>1 DEF CallTypes
    <3>5. QED
      BY <1>5, <1>6, <1>8, <3>2, <3>3, <3>4
  <2>2. CASE scratch[k][p] = NULL /\ call' = [call EXCEPT ![p] = c] /\ UNCHANGED scratch
    <3>1. call'[p] = c /\ \A r \in Pids : r # p => call'[r] = call[r]
      BY <2>2 DEF CallTypes
    <3>2. QED
      BY <1>5, <1>6, <1>8, <2>2, <3>1
  <2>3. QED
    BY <1>8, <2>1, <2>2 DEF bpf_map_update_elem
<1>9. CASE /\ linked = 0 \/ ~is_tracked_cgroup(p)
           /\ call' = [call EXCEPT ![p] = c] /\ UNCHANGED << scratch, lost >>
  <2>1. call'[p] = c /\ \A r \in Pids : r # p => call'[r] = call[r]
    BY <1>9 DEF CallTypes
  <2>2. QED
    BY <1>5, <1>6, <1>9, <2>1
<1>10. QED
  BY <1>2, <1>7, <1>8, <1>9

\* The exit handlers: what they read is the entry they find.
LEMMA ExitCallTakes ==
    ASSUME ScanTypes, CallTypes, NEW p \in Pids, NEW ret, ExitCall(p, ret)
    PROVE  /\ call[p] # NULL /\ call[p].args = NULL /\ call[p].kind \in Kinds
           /\ \A r \in Pids : r # p => call'[r] = call[r]
           /\ \A j \in Kinds, r \in Pids : scratch'[j][r] = scratch[j][r] \/ scratch'[j][r] = NULL
           /\ \A j \in Kinds, r \in Pids : r # p => scratch'[j][r] = scratch[j][r]
           /\ \/ call'[p] = NULL
              \/ /\ linked # 0 /\ is_tracked_cgroup(p) /\ scratch[call[p].kind][p] # NULL
                 /\ call'[p] = [call[p] EXCEPT !.args = scratch[call[p].kind][p]]
<1> DEFINE c == call[p]
           traced == Attached(<<c.kind, "exit">>) /\ is_tracked_cgroup(p)
           found == scratch[c.kind][p]
           taken == traced /\ found # NULL /\ Reported(c.kind, ret)
           d == [c EXCEPT !.args = found]
<1>1. /\ c # NULL /\ c.args = NULL /\ c.kind \in Kinds
      /\ \A r \in Pids : r # p => call'[r] = call[r]
      /\ \A j \in Kinds, r \in Pids : r # p => scratch'[j][r] = scratch[j][r]
  BY ExitCallDoes
<1>2. /\ scratch' = IF traced THEN [scratch EXCEPT ![c.kind][p] = NULL] ELSE scratch
      /\ call' = [call EXCEPT ![p] = IF taken THEN d ELSE NULL]
  BY DEF ExitCall
<1>3. traced => linked # 0 /\ is_tracked_cgroup(p)
  BY DEF Attached, ScanTypes
<1>4. \A j \in Kinds, r \in Pids : scratch'[j][r] = scratch[j][r] \/ scratch'[j][r] = NULL
  <2>1. CASE traced
    <3>1. scratch' = [scratch EXCEPT ![c.kind][p] = NULL]
      BY <1>2, <2>1
    <3> HIDE DEF c
    <3>2. QED
      BY <1>1, <3>1 DEF CallTypes
  <2>2. CASE ~traced
    BY <1>2, <2>2
  <2>3. QED
    BY <2>1, <2>2
<1> HIDE DEF d, traced
<1>5. call'[p] = IF taken THEN d ELSE NULL
  BY <1>2 DEF CallTypes
<1>6. call'[p] = NULL \/ (traced /\ found # NULL /\ call'[p] = d)
  BY <1>5
<1>7. QED
  BY <1>1, <1>3, <1>4, <1>6 DEF d

LEMMA ArgsStep ==
    ASSUME ScanTypes, ProcTypes, CallTypes, CallTypes', NumbersInv, ArgsInv, [Next]_vars
    PROVE  ArgsInv'
<1>1. calls \in Nat
  BY DEF CallTypes
<1>2. ASSUME NEW p \in Pids, NEW k \in Kinds, NEW own \in Families \cup {NULL}, EnterCall(p, k, own),
             k = "connect" => own # NULL
      PROVE  ArgsInv'
  <2>1. UNCHANGED << pc, linked, proc, container_cgroups >> /\ calls' = calls + 1
    BY <1>2 DEF EnterCall, Call, loader_vars, scan_vars, proc_vars
  <2>2. PICK c \in SavedCall :
             /\ c.n = calls + 1 /\ c.kind = k /\ c.own = own /\ c.args = NULL
             /\ call'[p] = c
             /\ \A r \in Pids : r # p =>
                  \/ call'[r] = call[r]
                  \/ /\ call[r] # NULL /\ call[r].args # NULL /\ call[r].kind = k
                     /\ call'[r] = [call[r] EXCEPT !.args = c]
             /\ \/ linked # 0 /\ is_tracked_cgroup(p) /\ scratch'[k][p] \in {c, NULL}
                \/ (linked = 0 \/ ~is_tracked_cgroup(p)) /\ scratch' = scratch
             /\ \A j \in Kinds, r \in Pids : r # p \/ j # k => scratch'[j][r] = scratch[j][r]
    BY <1>2, EnterCallSaves
  <2>3. c # NULL
    BY Constants
  <2>4. ASSUME NEW r \in Pids, r # p, call'[r] # NULL
        PROVE  /\ call[r] # NULL /\ call'[r].kind = call[r].kind /\ call'[r].own = call[r].own
               /\ call'[r].n = call[r].n /\ call[r].n \in Nat /\ call[r].kind \in Kinds
               /\ \/ call'[r] = call[r]
                  \/ call'[r].args = c /\ call[r].kind = k
    <3>1. call[r] # NULL
      BY <2>2, <2>4
    <3>2. call[r] \in CallInProgress
      BY <3>1 DEF CallTypes
    <3>3. CASE call'[r] = call[r]
      BY <3>1, <3>2, <3>3 DEF CallInProgress
    <3>4. CASE call'[r] = [call[r] EXCEPT !.args = c] /\ call[r].kind = k
      BY <3>1, <3>2, <3>4 DEF CallInProgress
    <3>5. QED
      BY <2>2, <2>4, <3>3, <3>4
  <2>5. \A r \in Pids : is_tracked_cgroup(r)' <=> is_tracked_cgroup(r)
    BY <2>1 DEF is_tracked_cgroup
  <2>6. \A r \in Pids : call'[r] # NULL /\ call'[r].kind = "connect" => call'[r].own # NULL
    BY <1>2, <2>2, <2>4 DEF ArgsInv
  <2>7. ASSUME NEW r \in Pids, call'[r] # NULL, call'[r].args # NULL
        PROVE  /\ call'[r].args.n \in call'[r].n..calls'
               /\ call'[r].args.n = call'[r].n => call'[r].args.own = call'[r].own
               /\ call'[r].kind = "connect" => call'[r].args.own # NULL
    <3>1. r # p
      BY <2>2, <2>7
    <3>2. CASE call'[r] = call[r]
      <4>1. /\ call[r].args.n \in call[r].n..calls
            /\ call[r].args.n = call[r].n => call[r].args.own = call[r].own
            /\ call[r].kind = "connect" => call[r].args.own # NULL
        BY <2>7, <3>2 DEF ArgsInv
      <4>2. call[r].n..calls \subseteq call[r].n..calls'
        BY <1>1, <2>1, <2>4, <2>7, <3>1
      <4>3. QED
        BY <3>2, <4>1, <4>2
    <3>3. CASE call'[r].args = c /\ call[r].kind = k
      <4>1. call[r].n \in 1..calls /\ call'[r].n = call[r].n /\ call'[r].kind = k
        BY <2>4, <2>7, <3>1, <3>3 DEF NumbersInv
      <4>2. c.n \in call'[r].n..calls' /\ c.n # call'[r].n
        BY <1>1, <2>1, <2>2, <4>1
      <4>3. QED
        BY <1>2, <2>2, <3>3, <4>1, <4>2
    <3>4. QED
      BY <2>4, <2>7, <3>1, <3>2, <3>3
  <2>8. ASSUME NEW r \in Pids, linked # 0, call'[r] # NULL, call'[r].args = NULL, is_tracked_cgroup(r),
               scratch'[call'[r].kind][r] # NULL
        PROVE  scratch'[call'[r].kind][r] = call'[r]
    <3>1. CASE r = p
      BY <2>2, <2>8, <3>1
    <3>2. CASE r # p
      <4>1. call'[r] = call[r] /\ call[r].kind \in Kinds
        BY <2>3, <2>4, <2>8, <3>2
      <4>2. scratch'[call[r].kind][r] = scratch[call[r].kind][r]
        BY <2>2, <3>2, <4>1
      <4>3. QED
        BY <2>8, <4>1, <4>2 DEF ArgsInv
    <3>3. QED
      BY <3>1, <3>2
  <2>9. linked = 0 /\ pc # "done" => \A j \in Kinds, r \in Pids : scratch'[j][r] = NULL
    BY <2>2 DEF ArgsInv
  <2>10. QED
    BY <2>1, <2>5, <2>6, <2>7, <2>8, <2>9 DEF ArgsInv
<1>3. ASSUME NEW p \in Pids, NEW ret, ExitCall(p, ret)
      PROVE  ArgsInv'
  <2>1. UNCHANGED << pc, linked, proc, container_cgroups, calls >>
    BY <1>3 DEF ExitCall, loader_vars, scan_vars, proc_vars
  <2>2. /\ call[p] # NULL /\ call[p].args = NULL /\ call[p].kind \in Kinds
        /\ \A r \in Pids : r # p => call'[r] = call[r]
        /\ \A j \in Kinds, r \in Pids : scratch'[j][r] = scratch[j][r] \/ scratch'[j][r] = NULL
        /\ \A j \in Kinds, r \in Pids : r # p => scratch'[j][r] = scratch[j][r]
        /\ \/ call'[p] = NULL
           \/ /\ linked # 0 /\ is_tracked_cgroup(p) /\ scratch[call[p].kind][p] # NULL
              /\ call'[p] = [call[p] EXCEPT !.args = scratch[call[p].kind][p]]
    BY <1>3, ExitCallTakes
  <2>3. \A r \in Pids : is_tracked_cgroup(r)' <=> is_tracked_cgroup(r)
    BY <2>1 DEF is_tracked_cgroup
  <2>4. call[p] \in CallInProgress
    BY <2>2 DEF CallTypes
  <2>5. ASSUME call'[p] # NULL
        PROVE  /\ call'[p].args = call[p] /\ call'[p].n = call[p].n /\ call'[p].own = call[p].own
               /\ call'[p].kind = call[p].kind
    <3>1. scratch[call[p].kind][p] = call[p] /\ call'[p] = [call[p] EXCEPT !.args = call[p]]
      BY <2>2, <2>5 DEF ArgsInv
    <3>2. QED
      BY <2>4, <3>1 DEF CallInProgress
  <2>6. \A r \in Pids : call'[r] # NULL /\ call'[r].kind = "connect" => call'[r].own # NULL
    BY <2>2, <2>5 DEF ArgsInv
  <2>7. ASSUME NEW r \in Pids, call'[r] # NULL, call'[r].args # NULL
        PROVE  /\ call'[r].args.n \in call'[r].n..calls
               /\ call'[r].args.n = call'[r].n => call'[r].args.own = call'[r].own
               /\ call'[r].kind = "connect" => call'[r].args.own # NULL
    <3>1. CASE r = p
      <4>1. call[p].n \in 1..calls
        BY <2>2 DEF NumbersInv
      <4>2. call[p].n \in call[p].n..calls
        BY <1>1, <4>1
      <4>3. QED
        BY <2>2, <2>5, <2>7, <3>1, <4>2 DEF ArgsInv
    <3>2. CASE r # p
      BY <2>2, <2>7, <3>2 DEF ArgsInv
    <3>3. QED
      BY <3>1, <3>2
  <2>8. ASSUME NEW r \in Pids, linked # 0, call'[r] # NULL, call'[r].args = NULL, is_tracked_cgroup(r),
               scratch'[call'[r].kind][r] # NULL
        PROVE  scratch'[call'[r].kind][r] = call'[r]
    <3>1. r # p /\ call'[r] = call[r]
      BY <2>2, <2>5, <2>8
    <3>2. call[r].kind \in Kinds
      BY <2>8, <3>1 DEF CallTypes, CallInProgress
    <3>3. QED
      BY <2>2, <2>8, <3>1, <3>2 DEF ArgsInv
  <2>9. linked = 0 /\ pc # "done" => \A j \in Kinds, r \in Pids : scratch'[j][r] = NULL
    BY <2>2 DEF ArgsInv
  <2>10. QED
    BY <2>1, <2>3, <2>6, <2>7, <2>8, <2>9 DEF ArgsInv
<1>4. ASSUME NEW p \in Pids, ExitReport(p)
      PROVE  ArgsInv'
  <2>1. UNCHANGED << pc, linked, proc, container_cgroups, calls, scratch >>
    BY <1>4 DEF ExitReport, loader_vars, scan_vars, proc_vars
  <2>2. \A r \in Pids : call'[r] # NULL => call'[r] = call[r]
    BY <1>4, ExitReportDoes
  <2>3. QED
    BY <2>1, <2>2 DEF ArgsInv, is_tracked_cgroup
<1>5. ASSUME NEW p \in Pids, NEW prog, NEW worth, NEW own, NEW bytes,
             DataCall(p, prog, worth, own, bytes)
      PROVE  ArgsInv'
  <2>1. UNCHANGED << pc, linked, proc, container_cgroups, call, scratch >> /\ calls' = calls + 1
    BY <1>5 DEF DataCall, Call, loader_vars, scan_vars, proc_vars
  <2>2. ASSUME NEW r \in Pids, call[r] # NULL
        PROVE  call[r].n..calls \subseteq call[r].n..calls'
    <3>1. call[r].n \in Nat
      BY <2>2 DEF CallTypes, CallInProgress
    <3>2. QED
      BY <1>1, <2>1, <3>1
  <2>3. QED
    BY <2>1, <2>2 DEF ArgsInv, is_tracked_cgroup
<1>6. CASE \/ handle_event \/ UNCHANGED vars
  <2>1. UNCHANGED << pc, linked, proc, container_cgroups, call, scratch, calls >>
    BY <1>6 DEF handle_event, vars, loader_vars, scan_vars, proc_vars
  <2>2. QED
    BY <2>1 DEF ArgsInv, is_tracked_cgroup
<1>7. CASE LoaderOnly
  <2>1. UNCHANGED << proc, container_cgroups, call, scratch, calls >>
    BY <1>7, LoaderOnlyDoes DEF kernel_vars, scan_vars, proc_vars
  <2>2. \/ linked' = 0 /\ (pc' # "done" => linked = 0 /\ pc # "done")
        \/ linked' # 0 /\ (linked = 0 => pc # "done")
    BY <1>7 DEF LoaderOnly, LoadSkeleton, Attach, ring_buffer__new, sig_handler, PollDone, PollError,
                Goto, Return, ScanTypes
  <2>3. ASSUME NEW r \in Pids, linked' # 0, call[r] # NULL, call[r].args = NULL, is_tracked_cgroup(r),
               scratch[call[r].kind][r] # NULL
        PROVE  scratch[call[r].kind][r] = call[r]
    <3>1. call[r].kind \in Kinds
      BY <2>3 DEF CallTypes, CallInProgress
    <3>2. QED
      BY <2>2, <2>3, <3>1 DEF ArgsInv
  <2>4. QED
    BY <2>1, <2>2, <2>3 DEF ArgsInv, is_tracked_cgroup
<1>8. CASE ScanStep
  <2>1. UNCHANGED << call, scratch, calls >>
    BY <1>8, OtherStepsDo
  <2>2. linked' = linked /\ linked = 0 /\ pc # "done"
    BY <1>8 DEF ScanStep, seed_container_cgroups, ReadComm, parse_cgroupv2_path, cgroup_id_from_path, NextEntry, Goto,
                ScanTypes, Scanned
  <2>3. QED
    BY <2>1, <2>2 DEF ArgsInv
<1>9. ASSUME NEW p \in Pids, NEW q \in Processes \cup {NULL}, ProcChange(p, q)
      PROVE  ArgsInv'
  <2>1. /\ UNCHANGED << pc, linked, container_cgroups, call, scratch, calls >>
        /\ call[p] = NULL /\ proc' = [proc EXCEPT ![p] = q]
    BY <1>9 DEF ProcChange, loader_vars, scan_vars
  <2>2. \A r \in Pids : call[r] # NULL => proc'[r] = proc[r]
    BY <2>1 DEF ProcTypes
  <2>3. QED
    BY <2>1, <2>2 DEF ArgsInv, is_tracked_cgroup
<1>10. ASSUME NEW p \in Pids,
              \/ \E af \in Families : EnterCall(p, "connect", af)
              \/ \E af \in Families \cup {NULL} : EnterCall(p, "accept4", af)
       PROVE  ArgsInv'
  <2>1. \A af \in Families : af # NULL
    BY NullAssumption DEF Families
  <2>2. \E k \in Kinds, own \in Families \cup {NULL} : EnterCall(p, k, own) /\ (k = "connect" => own # NULL)
    BY <1>10, <2>1 DEF Kinds
  <2>3. QED
    BY <1>2, <2>2
<1>11. ASSUME NEW p \in Pids, \/ \E lens \in Iovs : trace_sendmsg(p, lens)
                              \/ \E ret \in {-11, 0, 1} : trace_recvmsg_exit(p, ret)
       PROVE  ArgsInv'
  BY <1>5, <1>11 DEF trace_sendmsg, trace_recvmsg_exit
<1>12. CASE main \/ sig_handler
  BY <1>6, <1>7, <1>8, <1>12 DEF main, LoaderOnly, ScanStep
<1>13. QED
  BY <1>3, <1>4, <1>6, <1>9, <1>10, <1>11, <1>12 DEF Next

LEMMA AddressesAre ==
    ASSUME NEW a \in Addresses \cup {NoAddress}
    PROVE  a \in [af : Nat, ip : Nat, port : Nat]
<1>1. 0..MaxCalls \subseteq Nat /\ Families \cup {0} \subseteq Nat /\ 0 \in Nat
  BY NsAssumption DEF Families
<1>2. QED
  BY <1>1 DEF Addresses, NoAddress

LEMMA NewEventIs ==
    ASSUME NEW n, NEW type, NEW own, NEW e \in new_event(n, type, own),
           n \in Nat, type \in Kinds \cup {"sendmsg", "recvmsg"}, own \in Nat \cup {NULL}
    PROVE  /\ e \in Records /\ e.n = n /\ e.type = type /\ e.own = own /\ e.by = n
           /\ e.old \/ e.addr = NoAddress
<1>1. PICK a \in IF produced = RingWrap /\ type \in Kinds THEN Addresses ELSE {NoAddress} :
        e = [n |-> n, type |-> type, own |-> own, by |-> n, old |-> produced = RingWrap,
             addr |-> a, bytes |-> 0]
  BY DEF new_event
<1>2. a \in Addresses \cup {NoAddress} /\ (produced = RingWrap \/ a = NoAddress)
  BY <1>1
<1>3. a \in [af : Nat, ip : Nat, port : Nat]
  BY <1>2, AddressesAre
<1>4. (produced = RingWrap) \in BOOLEAN
  OBVIOUS
<1>5. e \in Records
  BY <1>1, <1>3, <1>4 DEF Records
<1>6. QED
  BY <1>1, <1>2, <1>5

\* A record that is submitted, and the others.
LEMMA SubmitKeeps ==
    ASSUME RecordsInv, NEW n, NEW events, Submit(n, events), UNCHANGED shown,
           events \subseteq Records, \A e \in events : IsOwn(Printed(e))
    PROVE  RecordsInv'
<1>1. ring \in Seq(Records) /\ \A i \in 1..Len(ring) : IsOwn(Printed(ring[i]))
  BY DEF RecordsInv
<1>2. ShownIsOwn'
  BY DEF ShownIsOwn, RecordsInv
<1>3. CASE \E e \in events : ring' = Append(ring, e)
  <2>1. PICK e \in events : ring' = Append(ring, e)
    BY <1>3
  <2>2. e \in Records /\ IsOwn(Printed(e))
    BY <2>1
  <2>3. /\ ring' \in Seq(Records) /\ Len(ring') = Len(ring) + 1 /\ ring'[Len(ring) + 1] = e
        /\ \A i \in 1..Len(ring) : ring'[i] = ring[i]
    BY <1>1, <2>1, <2>2
  <2>4. \A i \in 1..Len(ring') : i \in 1..Len(ring) \/ i = Len(ring) + 1
    BY <1>1, <2>3
  <2>5. \A i \in 1..Len(ring') : IsOwn(Printed(ring'[i]))
    BY <1>1, <2>2, <2>3, <2>4
  <2>6. QED
    BY <1>2, <2>3, <2>5 DEF RecordsInv
<1>4. CASE UNCHANGED ring
  BY <1>1, <1>2, <1>4 DEF RecordsInv
<1>5. QED
  BY <1>3, <1>4 DEF Submit

\* What the exit handlers submit: read through their own call's entry, or through a later
\* one's.
LEMMA ReportIsOwn ==
    ASSUME CallTypes, ArgsInv, NEW p \in Pids,
           call[p] # NULL, call[p].args # NULL,
           NEW f \in new_event(call[p].n, call[p].kind, call[p].own), NEW e,
           e \in IF call[p].kind = "accept4" /\ call[p].args.own = NULL
                   THEN {[f EXCEPT !.by = call[p].args.n]}
                   ELSE read_addr(f, call[p].args)
    PROVE  e \in Records /\ IsOwn(Printed(e))
<1> DEFINE c == call[p]
           a == call[p].args
<1>1. /\ c.n \in Nat /\ c.kind \in Kinds /\ c.own \in Families \cup {NULL}
      /\ a.n \in Nat /\ a.own \in Families \cup {NULL}
  <2>1. c \in CallInProgress /\ a \in SavedCall
    BY DEF CallTypes, CallInProgress
  <2>2. QED
    BY <2>1 DEF CallInProgress, SavedCall
<1>2. /\ a.n \in c.n..calls /\ (a.n = c.n => a.own = c.own)
      /\ c.kind = "connect" => a.own # NULL
  BY DEF ArgsInv
<1>3. calls \in Nat
  BY DEF CallTypes
<1>4. a.n = c.n \/ a.n > c.n
  BY <1>1, <1>2, <1>3
<1>5. Families \cup {NULL} \subseteq Nat \cup {NULL} /\ NULL \notin Nat
  BY NullAssumption DEF Families
<1>6. /\ f \in Records /\ f.n = c.n /\ f.type = c.kind /\ f.own = c.own /\ f.by = c.n
      /\ f.old \/ f.addr = NoAddress
  <2>1. c.kind \in Kinds \cup {"sendmsg", "recvmsg"} /\ c.own \in Nat \cup {NULL}
    BY <1>1, <1>5
  <2>2. QED
    BY <1>1, <2>1, NewEventIs
<1>7. CASE c.kind = "accept4" /\ a.own = NULL
  <2>1. e = [f EXCEPT !.by = a.n]
    BY <1>7
  <2> HIDE DEF c, a
  <2>2. /\ e \in Records /\ e.n = c.n /\ e.type = c.kind /\ e.own = c.own /\ e.by = a.n
        /\ e.old \/ e.addr = NoAddress
    BY <1>1, <1>6, <2>1 DEF Records
  <2>3. /\ Printed(e).n = c.n /\ Printed(e).type = c.kind /\ Printed(e).own = c.own
        /\ Printed(e).by = a.n /\ Printed(e).old = e.old
        /\ e.addr = NoAddress => Printed(e).ip = NULL /\ Printed(e).port = 0
    BY <2>2 DEF Printed, NoAddress
  <2>4. CASE a.n > c.n
    BY <1>1, <2>2, <2>3, <2>4 DEF IsOwn
  <2>5. CASE a.n = c.n
    <3>1. c.own = NULL
      BY <1>2, <1>7, <2>5
    <3>2. QED
      BY <1>1, <2>2, <2>3, <2>5, <3>1 DEF IsOwn, ShowsOwnAddress
  <2>6. QED
    BY <1>4, <2>2, <2>4, <2>5
<1>8. CASE ~(c.kind = "accept4" /\ a.own = NULL)
  <2>1. e \in read_addr(f, a)
    BY <1>8
  <2>2. a.own \in Families
    BY <1>1, <1>2, <1>8 DEF Kinds
  <2> HIDE DEF c, a
  <2>3. PICK m \in UserMemory(f.n, a) :
          e = [f EXCEPT !.by = a.n,
                        !.addr = IF m.af \in {2, 10} THEN m ELSE [f.addr EXCEPT !.af = m.af]]
    BY <2>1 DEF read_addr
  <2>4. /\ m \in [af : Nat, ip : Nat, port : Nat]
        /\ a.n = c.n => m.af = a.own /\ m.ip = c.n /\ m.port = c.n
    <3>1. CASE a.n = c.n
      <4>1. m = [af |-> a.own, ip |-> c.n, port |-> c.n]
        BY <1>6, <2>3, <3>1 DEF UserMemory
      <4>2. a.own \in Nat
        BY <2>2 DEF Families
      <4>3. QED
        BY <1>1, <4>1, <4>2
    <3>2. CASE a.n # c.n
      <4>1. m \in Addresses
        BY <1>6, <2>3, <3>2 DEF UserMemory
      <4>2. QED
        BY <3>2, <4>1, AddressesAre
    <3>3. QED
      BY <3>1, <3>2
  <2> DEFINE d == IF m.af \in {2, 10} THEN m ELSE [f.addr EXCEPT !.af = m.af]
  <2>5. f.addr \in [af : Nat, ip : Nat, port : Nat]
    BY <1>6 DEF Records
  <2>6. /\ d \in [af : Nat, ip : Nat, port : Nat]
        /\ m.af = 2 => d = m
        /\ m.af = 1 => d.af = 1 /\ d.port = f.addr.port
    BY <2>4, <2>5
  <2>7. e = [f EXCEPT !.by = a.n, !.addr = d]
    BY <2>3
  <2> HIDE DEF d
  <2>8. /\ e \in Records /\ e.n = c.n /\ e.type = c.kind /\ e.own = c.own /\ e.by = a.n
        /\ e.old = f.old /\ e.addr = d
    BY <1>1, <1>6, <2>6, <2>7 DEF Records
  <2>9. /\ Printed(e).n = c.n /\ Printed(e).type = c.kind /\ Printed(e).own = c.own
        /\ Printed(e).by = a.n /\ Printed(e).old = f.old /\ Printed(e).port = d.port
        /\ Printed(e).ip = IF d.af \in {2, 10} THEN d.ip ELSE NULL
    BY <2>8 DEF Printed
  <2>10. CASE a.n > c.n
    BY <1>1, <2>8, <2>9, <2>10 DEF IsOwn
  <2>11. CASE a.n = c.n
    <3>1. m.af = c.own /\ m.ip = c.n /\ m.port = c.n
      BY <1>2, <2>4, <2>11
    <3>2. CASE c.own = 2
      <4>1. d = m
        BY <2>6, <3>1, <3>2
      <4>2. Printed(e).ip = c.n /\ Printed(e).port = c.n
        BY <2>9, <3>1, <3>2, <4>1
      <4>3. QED
        BY <1>1, <2>8, <2>9, <2>11, <3>2, <4>2 DEF IsOwn, ShowsOwnAddress
    <3>3. CASE c.own = 1
      <4>1. Printed(e).ip = NULL /\ Printed(e).port = f.addr.port
        BY <2>6, <2>9, <3>1, <3>3
      <4>2. f.old \/ f.addr.port = 0
        BY <1>6 DEF NoAddress
      <4>3. QED
        BY <1>1, <2>8, <2>9, <2>11, <3>3, <4>1, <4>2 DEF IsOwn, ShowsOwnAddress
    <3>4. c.own \in {2, 1}
      BY <1>2, <2>2, <2>11 DEF Families
    <3>5. QED
      BY <3>2, <3>3, <3>4
  <2>12. QED
    BY <1>4, <2>10, <2>11
<1>9. QED
  BY <1>7, <1>8

\* The byte count of a sendmsg(): all its lengths, or the first IovMax of them.
LEMMA IovBytes ==
    ASSUME NEW lens \in Iovs
    PROVE  /\ Sum(lens) \in Nat /\ iov_bytes(lens) \in Nat
           /\ iov_bytes(lens) = Sum(lens) \/ (iov_bytes(lens) < Sum(lens) /\ Len(lens) > IovMax)
<1>1. lens \in Seq(Nat) /\ IovMax \in Nat
  BY NsAssumption
<1>2. Len(lens) \in Nat
  BY <1>1
<1>3. CASE Len(lens) <= IovMax
  <2>1. \A y \in {Len(lens), IovMax} : y >= Len(lens)
    BY <1>1, <1>2, <1>3
  <2>2. Min({Len(lens), IovMax}) = Len(lens)
    BY <1>1, <1>2, <2>1 DEF Min
  <2>3. Sum(lens) \in Nat
    BY <1>1, <1>2, SumsGrow
  <2>4. QED
    BY <2>2, <2>3 DEF iov_bytes, Sum
<1>4. CASE Len(lens) > IovMax
  <2>1. \A y \in {Len(lens), IovMax} : y >= IovMax
    BY <1>1, <1>2, <1>4
  <2>2. Min({Len(lens), IovMax}) = IovMax /\ IovMax \in 0..Len(lens)
    BY <1>1, <1>2, <1>4, <2>1 DEF Min
  <2>3. Sums(lens)[IovMax] <= Sum(lens) /\ Sums(lens)[IovMax] \in Nat /\ Sum(lens) \in Nat
    BY <1>1, <2>2, SumsGrow
  <2>4. iov_bytes(lens) = Sums(lens)[IovMax]
    BY <2>2 DEF iov_bytes
  <2>5. QED
    BY <1>4, <2>3, <2>4
<1>5. QED
  BY <1>1, <1>2, <1>3, <1>4

LEMMA RecordsStep ==
    ASSUME ScanTypes, ProcTypes, CallTypes, NumbersInv, ArgsInv, RecordsInv, [Next]_vars
    PROVE  RecordsInv'
<1>1. calls \in Nat
  BY DEF CallTypes
<1>2. ASSUME UNCHANGED << ring, shown >>
      PROVE  RecordsInv'
  BY <1>2 DEF RecordsInv, ShownIsOwn
<1>3. ASSUME NEW p \in Pids, NEW k, NEW own, EnterCall(p, k, own)
      PROVE  RecordsInv'
  BY <1>2, <1>3 DEF EnterCall
<1>4. ASSUME NEW p \in Pids, NEW ret, ExitCall(p, ret)
      PROVE  RecordsInv'
  BY <1>2, <1>4 DEF ExitCall, report_vars
<1>5. ASSUME NEW p \in Pids, ExitReport(p)
      PROVE  RecordsInv'
  <2> DEFINE fresh == new_event(call[p].n, call[p].kind, call[p].own)
             events == IF call[p].kind = "accept4" /\ call[p].args.own = NULL
                         THEN {[e EXCEPT !.by = call[p].args.n] : e \in fresh}
                       ELSE UNION {read_addr(e, call[p].args) : e \in fresh}
  <2>1. /\ call[p] # NULL /\ call[p].args # NULL /\ UNCHANGED shown
        /\ Submit(call[p].n, events)
    BY <1>5 DEF ExitReport
  <2>2. ASSUME NEW e \in events
        PROVE  e \in Records /\ IsOwn(Printed(e))
    <3>1. PICK f \in fresh : e \in IF call[p].kind = "accept4" /\ call[p].args.own = NULL
                                       THEN {[f EXCEPT !.by = call[p].args.n]}
                                       ELSE read_addr(f, call[p].args)
      BY <2>2
    <3>2. QED
      BY <2>1, <3>1, ReportIsOwn
  <2> HIDE DEF events
  <2>3. QED
    BY <2>1, <2>2, SubmitKeeps
<1>6. ASSUME NEW p \in Pids, NEW prog, NEW worth, NEW own, NEW bytes,
             DataCall(p, prog, worth, own, bytes),
             worth => /\ own \in Nat /\ bytes \in Nat /\ prog[1] \in {"sendmsg", "recvmsg"}
                      /\ \/ bytes = own
                         \/ /\ prog[1] = "sendmsg" /\ bytes < own
                            /\ \E lens \in Iovs : Sum(lens) = own /\ Len(lens) > IovMax
      PROVE  RecordsInv'
  <2>1. UNCHANGED shown
    BY <1>6 DEF DataCall
  <2>2. CASE UNCHANGED report_vars
    BY <1>2, <2>1, <2>2 DEF report_vars
  <2>3. CASE worth /\ Submit(calls + 1, {[e EXCEPT !.bytes = bytes] :
                                           e \in new_event(calls + 1, prog[1], own)})
    <3> DEFINE events == {[e EXCEPT !.bytes = bytes] : e \in new_event(calls + 1, prog[1], own)}
    <3>1. ASSUME NEW e \in events
          PROVE  e \in Records /\ IsOwn(Printed(e))
      <4>1. PICK f \in new_event(calls + 1, prog[1], own) : e = [f EXCEPT !.bytes = bytes]
        BY <3>1
      <4>2. f \in Records /\ f.type = prog[1] /\ f.own = own
        <5>1. /\ calls + 1 \in Nat /\ prog[1] \in Kinds \cup {"sendmsg", "recvmsg"}
              /\ own \in Nat \cup {NULL}
          BY <1>1, <1>6, <2>3
        <5>2. QED
          BY <5>1, NewEventIs
      <4>3. e \in Records /\ e.type = prog[1] /\ e.own = own /\ e.bytes = bytes
        BY <1>6, <2>3, <4>1, <4>2 DEF Records
      <4>4. Printed(e).type = prog[1] /\ Printed(e).own = own /\ Printed(e).bytes = bytes
        BY <4>3 DEF Printed
      <4>5. QED
        BY <1>6, <2>3, <4>3, <4>4 DEF IsOwn
    <3> HIDE DEF events
    <3>2. QED
      BY <2>1, <2>3, <3>1, SubmitKeeps DEF events
  <2>4. QED
    BY <1>6, <2>2, <2>3 DEF DataCall
<1>7. ASSUME NEW p \in Pids, NEW lens \in Iovs, trace_sendmsg(p, lens)
      PROVE  RecordsInv'
  BY <1>6, <1>7, IovBytes DEF trace_sendmsg
<1>8. ASSUME NEW p \in Pids, NEW ret \in {-11, 0, 1}, trace_recvmsg_exit(p, ret)
      PROVE  RecordsInv'
  <2>1. ret > 0 => ret \in Nat
    OBVIOUS
  <2>2. QED
    BY <1>6, <1>8, <2>1 DEF trace_recvmsg_exit
<1>9. CASE handle_event
  <2>1. /\ ring # << >> /\ shown' = shown \cup {Printed(Head(ring))} /\ ring' = Tail(ring)
    BY <1>9 DEF handle_event
  <2>2. ring \in Seq(Records) /\ \A i \in 1..Len(ring) : IsOwn(Printed(ring[i]))
    BY DEF RecordsInv
  <2>3. 1 \in 1..Len(ring) /\ Head(ring) = ring[1] /\ Head(ring) \in Records
    BY <2>1, <2>2
  <2>4. IsOwn(Printed(Head(ring)))
    BY <2>2, <2>3
  <2>5. /\ Tail(ring) \in Seq(Records) /\ Len(Tail(ring)) = Len(ring) - 1
        /\ \A i \in 1..Len(Tail(ring)) : i + 1 \in 1..Len(ring) /\ Tail(ring)[i] = ring[i + 1]
    BY <2>1, <2>2
  <2>6. \A i \in 1..Len(ring') : IsOwn(Printed(ring'[i]))
    BY <2>1, <2>2, <2>5
  <2>7. \A e \in shown' : IsOwn(e)
    BY <2>1, <2>4 DEF RecordsInv, ShownIsOwn
  <2>8. QED
    BY <2>1, <2>5, <2>6, <2>7 DEF RecordsInv, ShownIsOwn
<1>10. CASE LoaderOnly
  BY <1>2, <1>10, LoaderOnlyDoes DEF kernel_vars, report_vars
<1>11. CASE ScanStep
  BY <1>2, <1>11 DEF ScanStep, seed_container_cgroups, ReadComm, parse_cgroupv2_path, cgroup_id_from_path, kernel_vars,
                     report_vars
<1>12. ASSUME NEW p \in Pids, NEW q \in Processes \cup {NULL}, ProcChange(p, q)
       PROVE  RecordsInv'
  BY <1>2, <1>12 DEF ProcChange, report_vars
<1>13. CASE UNCHANGED vars
  BY <1>2, <1>13 DEF vars, report_vars
<1>14. CASE main \/ sig_handler
  BY <1>9, <1>10, <1>11, <1>14 DEF main, LoaderOnly, ScanStep
<1>15. QED
  BY <1>3, <1>4, <1>5, <1>7, <1>8, <1>12, <1>13, <1>14 DEF Next

\* What is printed of a call is read through its own entry or a later one's, however the
\* two halves of two calls overlap and at whatever moment the handlers are attached; read
\* through its own, an IPv4 address is printed exactly, and what an uncleared record holds
\* only in the place of one.
THEOREM ShownOwn == Spec => []ShownIsOwn
<1>1. Init => ArgsInv /\ RecordsInv
  <2> SUFFICES ASSUME Init PROVE ArgsInv /\ RecordsInv
    OBVIOUS
  <2>1. /\ call = [p \in Pids |-> NULL] /\ scratch = [k \in Kinds |-> call]
        /\ linked = 0 /\ ring = << >> /\ shown = {} /\ calls = 0
    BY DEF Init
  <2>2. ArgsInv
    BY <2>1 DEF ArgsInv
  <2>3. RecordsInv
    BY <2>1 DEF RecordsInv, ShownIsOwn
  <2>4. QED
    BY <2>2, <2>3
<1>2. NsInv /\ NsInv' /\ ArgsInv /\ RecordsInv /\ [Next]_vars => ArgsInv' /\ RecordsInv'
  BY ArgsStep, RecordsStep DEF NsInv
<1>3. RecordsInv => ShownIsOwn
  BY DEF RecordsInv
<1>4. QED
  BY <1>1, <1>2, <1>3, NsInvariant, PTL DEF Spec

=============================================================================
