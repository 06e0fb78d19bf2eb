---------------------------- MODULE TestXdpProofs ----------------------------
(***************************************************************************)
(* Proofs about the two parts of test/test_xdp.c.  XdpWatchdog, for any    *)
(* number of changes by others, failing calls and runs; H2Streams, for any *)
(* streams, frames, packets and sizes.  The parts share no state: what is  *)
(* proved of one assumes nothing of the other.                             *)
(***************************************************************************)
EXTENDS XdpWatchdog, H2Streams, SequenceTheorems, FiniteSetTheorems,
        WellFoundedInduction, TLAPS

-----------------------------------------------------------------------------
(***************************************************************************)
(* The watchdog.                                                           *)
(***************************************************************************)
\* The calls main() makes between the first time it has an ifindex and its end.
Watching == {"attach_drv", "attach_skb", "info", "poll", "polled", "query"}

Places == {"start", "load", "wait", "undo", "shutdown"} \cup Watching \cup Ended

\* An absent interface has no program, and no program is of a run to come.
IfaceInv ==
    /\ iface.index = 0 => iface.prog = NoProg
    /\ iface.prog <= run

\* main() asks the kernel about an interface it has seen.
IndexInv == pc \in Watching \cup {"load"} => ifindex # 0

\* The places where attach_xdp() is on its way, and those before it.
NotYet == {"start", "load", "attach_drv", "attach_skb", "wait", "returned"}

\* While the program of this run is attached and no detach was refused, main()
\* knows in which mode and where, and is at none of the places that lead to the
\* end without a detach.
OwnInv ==
    iface.prog = run /\ run # 0 /\ pc # "killed" /\ ~refused =>
        /\ pc \in Places \ NotYet
        /\ iface.index = ifindex /\ ifindex # 0
        /\ iface.mode = xdp_flags
        /\ state = "ATTACHED"

\* With the program of an earlier run attached, main() is still starting, or has
\* given up.
Starting == {"start", "load", "attach_drv", "attach_skb"}

LeftoverInv ==
    iface.prog \in 1..(run - 1) =>
        \/ pc \in Starting /\ why = "start"
        \/ pc \in Ended

WatchdogInv ==
    TypeOK /\ pc \in Places /\ IfaceInv /\ IndexInv /\ OwnInv /\ LeftoverInv

-----------------------------------------------------------------------------
LEMMA BoundsNat == MaxEnv \in Nat /\ MaxFaults \in Nat /\ MaxRuns \in Nat
BY WatchdogAssumption

\* A program put in or taken out leaves a record of an interface.
LEMMA ExceptIface ==
    ASSUME NEW r \in Ifaces, NEW p \in (-1)..MaxRuns, NEW m \in Modes
    PROVE  /\ [r EXCEPT !.prog = p, !.mode = m] \in Ifaces
           /\ [r EXCEPT !.prog = p, !.mode = m].index = r.index
           /\ [r EXCEPT !.prog = p, !.mode = m].prog = p
           /\ [r EXCEPT !.prog = p, !.mode = m].mode = m
           /\ [r EXCEPT !.prog = p] \in Ifaces
           /\ [r EXCEPT !.prog = p].index = r.index
           /\ [r EXCEPT !.prog = p].prog = p
           /\ [r EXCEPT !.prog = p].mode = r.mode
BY DEF Ifaces

LEMMA IfaceFields ==
    ASSUME TypeOK
    PROVE  iface.index \in 0..MaxEnv /\ iface.prog \in (-1)..MaxRuns /\ iface.mode \in Modes
BY DEF TypeOK, Ifaces

LEMMA NewIface ==
    ASSUME NEW idx \in 0..MaxEnv, NEW native \in BOOLEAN
    PROVE  [index |-> idx, prog |-> NoProg, mode |-> "skb", native |-> native] \in Ifaces
<1>1. NoProg \in (-1)..MaxRuns /\ "skb" \in Modes
  BY BoundsNat DEF NoProg, Modes
<1>2. QED
  BY <1>1, Zenon DEF Ifaces

LEMMA AbsentIface == Absent \in Ifaces /\ Absent.prog = NoProg /\ Absent.index = 0
<1>1. 0 \in 0..MaxEnv
  BY BoundsNat
<1>2. Absent \in Ifaces
  BY <1>1, NewIface, Zenon DEF Absent
<1>3. QED
  BY <1>2 DEF Absent

\* The kernel's answers: what detaching leaves behind.
LEMMA DetachType ==
    ASSUME TypeOK
    PROVE  /\ AfterDetach(ifindex, xdp_flags) \in Ifaces
           /\ AfterDetach(ifindex, xdp_flags).index = iface.index
           /\ AfterDetach(ifindex, xdp_flags).mode = iface.mode
           /\ AfterDetach(ifindex, xdp_flags).prog \in {NoProg, iface.prog}
           /\ iface.index = ifindex /\ iface.mode = xdp_flags
                => AfterDetach(ifindex, xdp_flags).prog = NoProg
<1>1. NoProg \in (-1)..MaxRuns
  BY BoundsNat DEF NoProg
<1>2. QED
  BY <1>1, ExceptIface DEF TypeOK, AfterDetach

\* A step of main() that leaves the interface, and what it knows of it, alone.
LEMMA QuietStep ==
    ASSUME WatchdogInv, pc' \in Places, faults' \in 0..MaxFaults,
           UNCHANGED << iface, env, run, local, stop, hist >>,
           pc \in Ended => pc' = pc,
           pc \in Starting => pc' \in Starting \cup Ended,
           pc' \in Watching \cup {"load"} => pc \in Watching \cup {"load"},
           pc' \in NotYet => pc \in NotYet
    PROVE  WatchdogInv'
<1>1. TypeOK' /\ IfaceInv'
  BY DEF WatchdogInv, TypeOK, IfaceInv, local
<1>2. IndexInv'
  BY DEF WatchdogInv, IndexInv, Watching, NotYet, Places, local
<1>3. OwnInv'
  BY DEF WatchdogInv, OwnInv, Places, Ended, local, hist
<1>4. LeftoverInv'
  BY DEF WatchdogInv, LeftoverInv, local
<1>5. QED
  BY <1>1, <1>2, <1>3, <1>4 DEF WatchdogInv

-----------------------------------------------------------------------------
\* The steps of main(), one lemma for each kind of call.
LEMMA WaitStep ==
    ASSUME WatchdogInv,
           NEW from, NEW found, NEW stopped,
           \/ from = "start" /\ found = "load" /\ stopped = "returned"
           \/ from = "wait" /\ found = "attach_drv" /\ stopped = "shutdown",
           wait_for_ifindex(from, found, stopped)
    PROVE  WatchdogInv'
<1> USE DEF wait_for_ifindex, Goto
<1>1. TypeOK' /\ IfaceInv' /\ pc' \in Places
  BY IfaceFields DEF WatchdogInv, TypeOK, IfaceInv, Places, Watching, Ended
<1>2. IndexInv'
  BY DEF WatchdogInv, TypeOK, IndexInv, Watching
<1>3. OwnInv'
  BY DEF WatchdogInv, OwnInv, NotYet, hist
<1>4. LeftoverInv'
  BY DEF WatchdogInv, LeftoverInv, Starting, Ended
<1>5. QED
  BY <1>1, <1>2, <1>3, <1>4 DEF WatchdogInv

\* attach_xdp() is called without a program of this run attached; when it
\* succeeds, all that OwnInv asks for has just been written down.
LEMMA AttachStep ==
    ASSUME WatchdogInv,
           NEW from, NEW mode \in Modes, NEW failed,
           \/ from = "attach_drv" /\ failed = "attach_skb"
           \/ from = "attach_skb" /\ failed = AfterFailure,
           attach_xdp(from, mode, failed)
    PROVE  WatchdogInv'
<1> USE DEF attach_xdp, Goto, AfterAttach, AfterFailure
<1>1. pc' \in Places \ {"killed"} /\ pc \in NotYet \cap Watching /\ ifindex # 0
  BY DEF WatchdogInv, IndexInv, Places, Watching, Ended, NotYet
<1>2. run = 0 \/ iface.prog # run \/ refused
  BY <1>1 DEF WatchdogInv, OwnInv, NotYet, Watching
<1> UNCHANGED << run, why, refused >>
  BY DEF hist
<1>3. CASE /\ CanAttach(ifindex, mode)
           /\ Goto(from, AfterAttach)
           /\ iface' = [iface EXCEPT !.prog = run, !.mode = mode]
           /\ xdp_flags' = FlagsUsed(mode)
           /\ state' = "ATTACHED"
           /\ UNCHANGED faults
  <2>1. /\ iface' \in Ifaces
        /\ iface'.index = iface.index /\ iface'.prog = run
        /\ iface'.mode = mode /\ xdp_flags' = mode
        /\ iface.index = ifindex
    <3>1. run \in (-1)..MaxRuns /\ iface \in Ifaces
      BY BoundsNat DEF WatchdogInv, TypeOK
    <3>2. iface' = [iface EXCEPT !.prog = run, !.mode = mode]
      BY <1>3
    <3>3. iface' \in Ifaces
      BY <3>1, <3>2, ExceptIface, Zenon
    <3>4. iface'.index = iface.index /\ iface'.prog = run /\ iface'.mode = mode
      BY <3>1, <3>2 DEF Ifaces
    <3>5. QED
      BY <1>3, <3>3, <3>4 DEF CanAttach, FlagsUsed
  <2>2. TypeOK'
    BY <1>3, <2>1 DEF WatchdogInv, TypeOK
  <2>3. IfaceInv' /\ IndexInv'
    BY <1>1, <2>1 DEF WatchdogInv, TypeOK, IfaceInv, IndexInv
  <2>4. pc' \in {"info", "poll"}
    BY <1>3
  <2>5. OwnInv'
    BY <1>1, <1>3, <2>1, <2>4 DEF OwnInv, NotYet, Places
  <2>6. LeftoverInv'
    BY <2>1 DEF LeftoverInv, WatchdogInv, TypeOK
  <2>7. QED
    BY <1>1, <2>2, <2>3, <2>5, <2>6 DEF WatchdogInv
<1>4. CASE /\ \/ ~CanAttach(ifindex, mode) /\ UNCHANGED faults
              \/ Fault
           /\ Goto(from, failed)
           /\ state' = IF failed = AfterFailure THEN StateAfterFailure ELSE state
           /\ UNCHANGED << iface, xdp_flags >>
  <2>1. faults' \in 0..MaxFaults
    BY <1>4, BoundsNat DEF WatchdogInv, TypeOK, Fault
  <2>2. TypeOK' /\ IfaceInv' /\ IndexInv'
    BY <1>1, <1>4, <2>1 DEF WatchdogInv, TypeOK, IfaceInv, IndexInv, StateAfterFailure
  <2>3. OwnInv'
    BY <1>2, <1>4 DEF OwnInv
  <2>4. LeftoverInv'
    BY <1>1, <1>4 DEF LeftoverInv, WatchdogInv, Starting, Ended
  <2>5. QED
    BY <1>1, <2>2, <2>3, <2>4 DEF WatchdogInv
<1>5. QED
  BY <1>3, <1>4

\* The two places where main() detaches: what is there is taken out, or the
\* kernel refuses.
LEMMA DetachStep ==
    ASSUME WatchdogInv, Undo \/ Shutdown
    PROVE  WatchdogInv'
<1> USE DEF Goto
<1>1. UNCHANGED << env, run, local, stop >> /\ pc \in {"undo", "shutdown"} /\ pc' = "returned"
  BY DEF Undo, Shutdown
<1>2. \/ iface' = AfterDetach(ifindex, xdp_flags) /\ UNCHANGED << faults, refused >>
      \/ Fault /\ refused' = TRUE /\ UNCHANGED iface
      \/ state \notin {"ATTACHED", "REPLACED"} /\ UNCHANGED << iface, faults, refused >>
  BY DEF Undo, Shutdown, bpf_xdp_detach, hist
<1>3. faults' \in 0..MaxFaults
  BY <1>2, BoundsNat DEF Fault, WatchdogInv, TypeOK
<1>4. iface' = iface \/ iface' = AfterDetach(ifindex, xdp_flags)
  BY <1>2
<1>5. TypeOK' /\ IfaceInv' /\ IndexInv' /\ pc' \in Places
  BY <1>1, <1>3, <1>4, DetachType
     DEF WatchdogInv, TypeOK, IfaceInv, IndexInv, Watching, Places, Ended, NoProg, local
<1>6. OwnInv'
  BY <1>1, <1>2, DetachType DEF WatchdogInv, OwnInv, NoProg, local
<1>7. LeftoverInv'
  BY <1>1 DEF LeftoverInv, Ended
<1>8. QED
  BY <1>5, <1>6, <1>7 DEF WatchdogInv

\* The rest of the loop, which only looks.
LEMMA LookStep ==
    ASSUME WatchdogInv, LoadObject \/ GetInfo \/ Poll \/ CheckName \/ QueryId
    PROVE  WatchdogInv'
<1> USE DEF Goto
<1>1. CASE LoadObject \/ GetInfo \/ Poll
  <2>1. UNCHANGED << iface, env, run, local, stop, hist >>
    BY <1>1 DEF LoadObject, GetInfo, Poll
  <2>2. faults' \in 0..MaxFaults
    BY <1>1, BoundsNat DEF LoadObject, GetInfo, Poll, WatchdogInv, TypeOK, Fault
  <2>3. \/ pc = "load" /\ pc' \in {"attach_drv", "returned"}
        \/ pc = "info" /\ pc' \in {"poll", "undo"}
        \/ pc = "poll" /\ pc' \in {"polled", "shutdown"}
    BY <1>1 DEF LoadObject, GetInfo, Poll
  <2>4. QED
    BY <2>1, <2>2, <2>3, QuietStep DEF Places, Watching, Ended, NotYet, Starting
<1>2. CASE CheckName
  <2>1. UNCHANGED << iface, env, faults, run, xdp_flags, stop >>
    BY <1>2 DEF CheckName, local
  <2>2. TypeOK' /\ IfaceInv' /\ pc' \in Places
    BY <1>2, <2>1, IfaceFields DEF CheckName, WatchdogInv, TypeOK, IfaceInv, Places, Watching, Ended, local
  <2>3. IndexInv'
    BY <1>2, <2>1 DEF CheckName, WatchdogInv, IndexInv, Watching, local
  <2>4. OwnInv'
    BY <1>2, <2>1 DEF CheckName, WatchdogInv, OwnInv, Places, Watching, Ended, NotYet, local, hist
  <2>5. LeftoverInv'
    BY <1>2, <2>1 DEF CheckName, WatchdogInv, LeftoverInv, Starting, Ended
  <2>6. QED
    BY <2>2, <2>3, <2>4, <2>5 DEF WatchdogInv
<1>3. CASE QueryId
  <2>1. UNCHANGED << iface, env, run, ifindex, xdp_flags, stop >>
    BY <1>3 DEF QueryId, local
  <2>2. faults' \in 0..MaxFaults
    BY <1>3, BoundsNat DEF QueryId, WatchdogInv, TypeOK, Fault
  <2>3. TypeOK' /\ IfaceInv' /\ IndexInv' /\ pc' \in Places
    BY <1>3, <2>1, <2>2
       DEF QueryId, WatchdogInv, TypeOK, IfaceInv, IndexInv, Places, Watching, Ended, local
  <2>4. OwnInv'
    BY <1>3, <2>1
       DEF QueryId, WatchdogInv, OwnInv, Places, Watching, Ended, NotYet, NoProg, local, hist
  <2>5. LeftoverInv'
    BY <1>3, <2>1 DEF QueryId, WatchdogInv, LeftoverInv, Starting, Ended
  <2>6. QED
    BY <2>3, <2>4, <2>5 DEF WatchdogInv
<1>4. QED
  BY <1>1, <1>2, <1>3

\* The environment attaches no program of this watchdog.
Changed ==
    /\ iface' \in Ifaces
    /\ iface'.prog \in {NoProg, Other}
    /\ iface'.index = 0 => iface'.prog = NoProg
    /\ env' \in 0..MaxEnv
    /\ env' # env
    /\ UNCHANGED << faults, run, pc, local, stop, hist >>

Environment ==
    \/ IfaceDown
    \/ \E native \in BOOLEAN : IfaceUp(native)
    \/ XdpOff
    \/ \E mode \in Modes : XdpReplace(mode)

LEMMA EnvironmentChanges ==
    ASSUME TypeOK, Environment
    PROVE  Changed
<1>1. NoProg \in (-1)..MaxRuns /\ Other \in (-1)..MaxRuns
  BY BoundsNat DEF NoProg, Other
<1>2. (env < MaxEnv => env + 1 \in 0..MaxEnv) /\ env + 1 # env
  BY BoundsNat DEF TypeOK
<1>3. CASE IfaceDown
  BY <1>2, <1>3, AbsentIface DEF IfaceDown, Change, Changed
<1>4. ASSUME NEW native \in BOOLEAN, IfaceUp(native)
      PROVE  Changed
  <2>1. /\ env < MaxEnv
        /\ iface' = [index |-> env + 1, prog |-> NoProg, mode |-> "skb", native |-> native]
        /\ UNCHANGED << faults, run, pc, local, stop, hist >>
        /\ env' = env + 1
    BY <1>4 DEF IfaceUp, Change
  <2>2. iface' \in Ifaces
    BY <1>2, <2>1, NewIface, Zenon
  <2>3. iface'.prog = NoProg
    BY <2>1
  <2>4. QED
    BY <1>2, <2>1, <2>2, <2>3 DEF Changed
<1>5. CASE XdpOff
  BY <1>1, <1>2, <1>5, ExceptIface DEF XdpOff, Change, Changed, TypeOK
<1>6. ASSUME NEW mode \in Modes, XdpReplace(mode)
      PROVE  Changed
  <2>1. /\ iface' \in Ifaces /\ iface'.prog = Other
        /\ iface'.index = iface.index /\ iface.index # 0
    <3>1. /\ iface' = [iface EXCEPT !.prog = Other, !.mode = mode]
          /\ iface \in Ifaces /\ iface.index # 0
      BY <1>6 DEF XdpReplace, Change, TypeOK
    <3>2. iface' \in Ifaces
      BY <1>1, <3>1, ExceptIface, Zenon
    <3>3. QED
      BY <3>1, <3>2 DEF Ifaces
  <2>2. QED
    BY <1>2, <1>6, <2>1 DEF XdpReplace, Change, Changed
<1>7. QED
  BY <1>3, <1>4, <1>5, <1>6 DEF Environment

LEMMA ChangeStep ==
    ASSUME WatchdogInv, Environment
    PROVE  WatchdogInv'
<1>1. Changed
  BY EnvironmentChanges DEF WatchdogInv
<1>2. TypeOK' /\ IfaceInv' /\ IndexInv' /\ pc' \in Places
  BY <1>1, BoundsNat DEF Changed, WatchdogInv, TypeOK, IfaceInv, IndexInv, NoProg, Other, local
<1>3. OwnInv' /\ LeftoverInv'
  BY <1>1 DEF Changed, WatchdogInv, TypeOK, OwnInv, LeftoverInv, NoProg, Other
<1>4. QED
  BY <1>2, <1>3 DEF WatchdogInv

LEMMA ProcessStep ==
    ASSUME WatchdogInv, Signal \/ Kill \/ Start
    PROVE  WatchdogInv'
<1>1. CASE Signal \/ Kill
  BY <1>1 DEF Signal, Kill, WatchdogInv, TypeOK, IfaceInv, IndexInv, OwnInv, LeftoverInv,
              Places, Watching, Ended, local, hist
<1>2. CASE Start
  <2>1. iface.prog \in (-1)..MaxRuns /\ run \in 0..MaxRuns /\ run + 1 \in 0..MaxRuns
    BY <1>2, BoundsNat, IfaceFields DEF Start, WatchdogInv, TypeOK
  <2>2. TypeOK'
    <3>1. stop' \in BOOLEAN
      BY <1>2, Zenon DEF Start
    <3>2. ifindex' \in 0..MaxEnv /\ run' \in 0..MaxRuns /\ xdp_flags' \in Modes
      BY <1>2, <2>1, BoundsNat DEF Start, Modes
    <3>3. QED
      BY <1>2, <3>1, <3>2 DEF Start, WatchdogInv, TypeOK
  <2>3. IfaceInv' /\ IndexInv' /\ pc' \in Places
    BY <1>2, <2>1 DEF Start, WatchdogInv, IfaceInv, IndexInv, Places, Watching, Ended
  <2>4. iface'.prog # run'
    BY <1>2, <2>1 DEF Start, WatchdogInv, IfaceInv
  <2>5. LeftoverInv'
    BY <1>2 DEF Start, LeftoverInv, Starting
  <2>6. QED
    BY <2>2, <2>3, <2>4, <2>5 DEF WatchdogInv, OwnInv
<1>3. QED
  BY <1>1, <1>2

-----------------------------------------------------------------------------
\* The inductive invariant of the watchdog: the types, and that main() knows
\* everything it needs to detach its program as long as that is attached.
THEOREM WatchdogInvariant == Spec => []WatchdogInv
<1>1. Init => WatchdogInv
  <2> SUFFICES ASSUME Init
               PROVE  WatchdogInv
    OBVIOUS
  <2>1. TypeOK
    <3>1. stop \in BOOLEAN
      BY Zenon DEF Init
    <3>2. QED
      BY <3>1, BoundsNat, AbsentIface DEF Init, TypeOK, Modes
  <2>2. pc \in Places /\ IfaceInv /\ IndexInv /\ OwnInv /\ LeftoverInv
    BY AbsentIface
       DEF Init, IfaceInv, IndexInv, OwnInv, LeftoverInv, NoProg, Places, Watching, Ended
  <2>3. QED
    BY <2>1, <2>2 DEF WatchdogInv
<1>2. WatchdogInv /\ [Next]_vars => WatchdogInv'
  <2> SUFFICES ASSUME WatchdogInv, [Next]_vars
               PROVE  WatchdogInv'
    OBVIOUS
  <2>1. CASE \/ wait_for_ifindex("start", "load", "returned")
             \/ wait_for_ifindex("wait", "attach_drv", "shutdown")
    BY <2>1, WaitStep
  <2>2. CASE \/ attach_xdp("attach_drv", "drv", "attach_skb")
             \/ attach_xdp("attach_skb", "skb", AfterFailure)
    BY <2>2, AttachStep DEF Modes
  <2>3. CASE Undo \/ Shutdown
    BY <2>3, DetachStep
  <2>4. CASE LoadObject \/ GetInfo \/ Poll \/ CheckName \/ QueryId
    BY <2>4, LookStep
  <2>5. CASE Environment
    BY <2>5, ChangeStep
  <2>6. CASE Signal \/ Kill \/ Start
    BY <2>6, ProcessStep
  <2>7. CASE UNCHANGED vars
    BY <2>7 DEF vars, local, hist, WatchdogInv, TypeOK, IfaceInv, IndexInv, OwnInv, LeftoverInv
  <2>8. QED
    BY <2>1, <2>2, <2>3, <2>4, <2>5, <2>6, <2>7 DEF Next, main, Environment
<1>3. QED
  BY <1>1, <1>2, PTL DEF Spec

\* The end of main(): whatever others did to the interface meanwhile, a run that
\* returns leaves no program of its own on it, unless its detach was refused.
THEOREM NoProgramLeft == Spec => []NothingLeftBehind
<1>1. WatchdogInv => NothingLeftBehind
  BY DEF WatchdogInv, OwnInv, NothingLeftBehind, Places, NotYet, Ended
<1>2. QED
  BY <1>1, WatchdogInvariant, PTL

\* attach_xdp() and its call sites: what a killed run left attached is never
\* replaced or detached by the runs after it.
THEOREM LeftoversStand == Spec => LeftoverStands
<1>1. WatchdogInv /\ [Next]_vars
        => [iface.prog \in 1..(run - 1) /\ iface' # iface => env' # env]_vars
  <2> SUFFICES ASSUME WatchdogInv, Next, iface.prog \in 1..(run - 1), iface' # iface
               PROVE  env' # env
    OBVIOUS
  <2>1. CASE Environment
    BY <2>1, EnvironmentChanges DEF Changed, WatchdogInv
  <2>2. CASE \/ attach_xdp("attach_drv", "drv", "attach_skb")
             \/ attach_xdp("attach_skb", "skb", AfterFailure)
    BY <2>2 DEF attach_xdp, CanAttach, NoProg
  <2>3. CASE Undo \/ Shutdown
    BY <2>3 DEF Undo, Shutdown, Goto, WatchdogInv, LeftoverInv, Starting, Ended
  <2>4. ~(LoadObject \/ GetInfo \/ Poll \/ CheckName \/ QueryId)
    BY DEF LoadObject, GetInfo, Poll, CheckName, QueryId
  <2>5. ~(\/ wait_for_ifindex("start", "load", "returned")
          \/ wait_for_ifindex("wait", "attach_drv", "shutdown"))
    BY DEF wait_for_ifindex
  <2>6. ~(Signal \/ Kill \/ Start)
    BY DEF Signal, Kill, Start
  <2>7. QED
    BY <2>1, <2>2, <2>3, <2>4, <2>5, <2>6 DEF Next, main, Environment
<1>2. QED
  BY <1>1, WatchdogInvariant, PTL DEF Spec, LeftoverStands

-----------------------------------------------------------------------------
(***************************************************************************)
(* Induction, from the least counterexample, and the functions that are    *)
(* defined by it.                                                          *)
(***************************************************************************)
LEMMA LeastNat ==
    ASSUME NEW T, T \subseteq Nat, T # {}
    PROVE  \E n \in T : \A m \in T : n <= m
<1> DEFINE R == OpToRel(<, Nat)
<1>1. \A m, n \in Nat : m < n => <<m, n>> \in R
  BY DEF OpToRel
<1>2. \E n \in T : \A m \in T : ~(<<m, n>> \in R)
  BY NatLessThanWellFounded, WFMin, Zenon
<1>3. \E n \in T : \A m \in T : ~(m < n)
  <2> HIDE DEF R
  <2>1. QED
    BY <1>1, <1>2, Zenon
<1>4. QED
  BY <1>3

LEMMA Induct ==
    ASSUME NEW T, 0 \in T, \A n \in Nat : n \in T => n + 1 \in T
    PROVE  Nat \subseteq T
<1> DEFINE B == Nat \ T
<1> SUFFICES ASSUME B # {} PROVE FALSE
  OBVIOUS
<1>1. PICK n \in B : \A m \in B : n <= m
  BY LeastNat
<1>2. n # 0 /\ n - 1 \in Nat /\ n - 1 \in T
  BY <1>1
<1>3. QED
  BY <1>1, <1>2

\* g applies F[1], F[2], ... one after the other to x0.
Iterates(g, X, x0, F, n) ==
    g \in [0..n -> X] /\ g[0] = x0 /\ \A k \in 1..n : g[k] = F[k][g[k - 1]]

LEMMA Iterated ==
    ASSUME NEW X, NEW x0 \in X, NEW F \in [Nat -> [X -> X]], NEW n \in Nat
    PROVE  \E g : Iterates(g, X, x0, F, n)
<1> DEFINE Rec(m, g) == g[0] = x0 /\ \A k \in 1..m : g[k] = F[k][g[k - 1]]
           T == {m \in Nat : \E g \in [0..m -> X] : Rec(m, g)}
<1>1. 0 \in T
  <2>1. [k \in 0..0 |-> x0] \in [0..0 -> X] /\ Rec(0, [k \in 0..0 |-> x0])
    OBVIOUS
  <2>2. QED
    BY <2>1
<1>2. ASSUME NEW m \in Nat, m \in T
      PROVE  m + 1 \in T
  <2>1. PICK g \in [0..m -> X] : Rec(m, g)
    BY <1>2
  <2> DEFINE h == [k \in 0..(m + 1) |-> IF k = m + 1 THEN F[m + 1][g[m]] ELSE g[k]]
  <2>2. F[m + 1][g[m]] \in X
    BY <2>1
  <2>3. h \in [0..(m + 1) -> X]
    BY <2>2
  <2>4. Rec(m + 1, h)
    BY <2>1
  <2> HIDE DEF Rec, h
  <2>5. QED
    BY <2>3, <2>4
<1> HIDE DEF T
<1>3. Nat \subseteq T
  BY <1>1, <1>2, Induct
<1>4. \E g \in [0..n -> X] : Rec(n, g)
  BY <1>3 DEF T
<1>5. QED
  BY <1>4 DEF Iterates

-----------------------------------------------------------------------------
(***************************************************************************)
(* The bytes of a stream.                                                  *)
(***************************************************************************)
LEMMA FramesAre ==
    ASSUME NEW c \in Streams
    PROVE  /\ FramesOf[c] \in Seq(Seq(Nat)) /\ Len(FramesOf[c]) \in Nat
           /\ \A n \in 1..Len(FramesOf[c]) :
                /\ FramesOf[c][n] \in Seq(Nat) /\ Len(FramesOf[c][n]) \in Nat \ {0}
                /\ FramesOf[c][n][1] \in Nat
                /\ Len(FramesOf[c][n]) = H2_HDR + FramesOf[c][n][1]
<1>1. FramesOf[c] \in Seq(Seq(Nat))
  BY StreamsAssumption
<1>2. ASSUME NEW n \in 1..Len(FramesOf[c])
      PROVE  /\ FramesOf[c][n] \in Seq(Nat) /\ Len(FramesOf[c][n]) \in Nat \ {0}
             /\ FramesOf[c][n][1] \in Nat
             /\ Len(FramesOf[c][n]) = H2_HDR + FramesOf[c][n][1]
  <2>1. n \in DOMAIN FramesOf[c] /\ FramesOf[c][n] \in Seq(Nat)
    BY <1>1
  <2>2. FramesOf[c][n] # << >> /\ Len(FramesOf[c][n]) = H2_HDR + FramesOf[c][n][1]
    BY <2>1, StreamsAssumption
  <2>3. Len(FramesOf[c][n]) \in Nat \ {0}
    BY <2>1, <2>2
  <2>4. FramesOf[c][n][1] \in Nat
    BY <2>1, <2>3
  <2>5. QED
    BY <2>1, <2>2, <2>3, <2>4
<1>3. QED
  BY <1>1, <1>2

\* The ends of the frames, each behind the one before.
LEMMA EndsAre ==
    ASSUME NEW c \in Streams
    PROVE  /\ Ends(c) \in [0..Len(FramesOf[c]) -> Nat] /\ Ends(c)[0] = 0
           /\ \A n \in 1..Len(FramesOf[c]) : Ends(c)[n] = Ends(c)[n - 1] + Len(FramesOf[c][n])
<1> DEFINE N == Len(FramesOf[c])
           D(f) == f = [n \in 0..N |-> IF n = 0 THEN 0 ELSE f[n - 1] + Len(FramesOf[c][n])]
           F == [k \in Nat |-> [x \in Nat |-> IF k \in 1..N THEN x + Len(FramesOf[c][k]) ELSE x]]
<1>1. N \in Nat /\ \A n \in 1..N : Len(FramesOf[c][n]) \in Nat
  BY FramesAre
<1>2. F \in [Nat -> [Nat -> Nat]]
  BY <1>1
<1>3. PICK g : Iterates(g, Nat, 0, F, N)
  <2> HIDE DEF F, N
  <2>1. QED
    BY <1>1, <1>2, Iterated
<1>4. g \in [0..N -> Nat] /\ g[0] = 0 /\ \A k \in 1..N : g[k] = F[k][g[k - 1]]
  <2> HIDE DEF F, N
  <2>1. QED
    BY <1>3 DEF Iterates
<1>5. \A k \in 1..N : g[k] = g[k - 1] + Len(FramesOf[c][k])
  <2> HIDE DEF N
  <2>1. ASSUME NEW k \in 1..N
        PROVE  g[k] = g[k - 1] + Len(FramesOf[c][k])
    <3>1. k \in Nat /\ k - 1 \in 0..N /\ g[k - 1] \in Nat
      BY <1>1, <1>4
    <3>2. g[k] = F[k][g[k - 1]]
      BY <1>4
    <3>3. QED
      BY <3>1, <3>2
  <2>2. QED
    BY <2>1
<1>6. D(g)
  BY <1>1, <1>4, <1>5
<1>7. Ends(c) = CHOOSE f : D(f)
  BY DEF Ends
<1>8. D(Ends(c))
  <2> HIDE DEF D
  <2>1. QED
    BY <1>6, <1>7
<1> DEFINE E == Ends(c)
<1>9. /\ E = [n \in 0..N |-> E[n]] /\ E[0] = 0
      /\ \A n \in 1..N : E[n] = E[n - 1] + Len(FramesOf[c][n])
  <2> HIDE DEF E, N
  <2>1. E = [n \in 0..N |-> IF n = 0 THEN 0 ELSE E[n - 1] + Len(FramesOf[c][n])]
    BY <1>8 DEF E
  <2>2. E = [n \in 0..N |-> E[n]] /\ E[0] = 0
    BY <1>1, <2>1
  <2>3. \A n \in 1..N : n \in 0..N /\ n # 0
    BY <1>1
  <2>4. QED
    BY <2>1, <2>2, <2>3
<1> HIDE DEF E, D, N
<1> DEFINE P(k) == k <= N => E[k] \in Nat
           T == {k \in Nat : P(k)}
<1>10. P(0)
  BY <1>9
<1>11. ASSUME NEW k \in Nat, P(k)
       PROVE  P(k + 1)
  <2> SUFFICES ASSUME k + 1 <= N PROVE E[k + 1] \in Nat
    OBVIOUS
  <2>1. k + 1 \in 1..N /\ (k + 1) - 1 = k /\ E[k] \in Nat
    BY <1>1, <1>11
  <2>2. E[k + 1] = E[k] + Len(FramesOf[c][k + 1])
    BY <1>9, <2>1
  <2>3. QED
    BY <1>1, <2>1, <2>2
<1>12. \A k \in Nat : P(k)
  <2> HIDE DEF P
  <2>1. 0 \in T /\ \A k \in Nat : k \in T => k + 1 \in T
    BY <1>10, <1>11
  <2>2. Nat \subseteq T
    <3> HIDE DEF T
    <3>1. QED
      BY <2>1, Induct
  <2>3. QED
    BY <2>2
<1>13. \A k \in 0..N : E[k] \in Nat
  BY <1>1, <1>12
<1>14. QED
  BY <1>9, <1>13 DEF E, N

LEMMA EndsGrow ==
    ASSUME NEW c \in Streams, NEW j \in 0..Len(FramesOf[c]), NEW k \in 0..Len(FramesOf[c])
    PROVE  j < k => Ends(c)[j] < Ends(c)[k]
<1> DEFINE N == Len(FramesOf[c])
           E == Ends(c)
           P(d) == j + (d + 1) <= N => E[j] < E[j + (d + 1)]
           T == {d \in Nat : P(d)}
<1>1. N \in Nat /\ \A n \in 1..N : Len(FramesOf[c][n]) \in Nat \ {0}
  BY FramesAre
<1>2. \A n \in 0..N : E[n] \in Nat
  BY EndsAre
<1>3. \A n \in 1..N : E[n] = E[n - 1] + Len(FramesOf[c][n])
  BY EndsAre
<1> HIDE DEF E, N
<1>4. \A n \in 0..N : n + 1 <= N => E[n] < E[n + 1]
  <2>1. ASSUME NEW n \in 0..N, n + 1 <= N
        PROVE  E[n] < E[n + 1]
    <3>1. n + 1 \in 1..N /\ (n + 1) - 1 = n /\ E[n] \in Nat
      BY <1>1, <1>2, <2>1
    <3>2. E[n + 1] = E[n] + Len(FramesOf[c][n + 1]) /\ Len(FramesOf[c][n + 1]) \in Nat \ {0}
      BY <1>1, <1>3, <3>1
    <3>3. QED
      BY <3>1, <3>2
  <2>2. QED
    BY <2>1
<1>5. j \in 0..N /\ k \in 0..N
  BY DEF N
<1>6. P(0)
  BY <1>1, <1>4, <1>5
<1>7. ASSUME NEW d \in Nat, P(d)
      PROVE  P(d + 1)
  <2> SUFFICES ASSUME j + ((d + 1) + 1) <= N PROVE E[j] < E[j + ((d + 1) + 1)]
    OBVIOUS
  <2>1. /\ j + (d + 1) \in 0..N /\ j + ((d + 1) + 1) \in 0..N
        /\ (j + (d + 1)) + 1 = j + ((d + 1) + 1)
    BY <1>1, <1>5
  <2>2. E[j] < E[j + (d + 1)]
    BY <1>7, <2>1
  <2>3. E[j + (d + 1)] < E[j + ((d + 1) + 1)]
    BY <1>4, <2>1
  <2>4. E[j] \in Nat /\ E[j + (d + 1)] \in Nat /\ E[j + ((d + 1) + 1)] \in Nat
    BY <1>2, <1>5, <2>1
  <2>5. QED
    BY <2>2, <2>3, <2>4
<1>8. \A d \in Nat : P(d)
  <2> HIDE DEF P
  <2>1. 0 \in T /\ \A d \in Nat : d \in T => d + 1 \in T
    BY <1>6, <1>7
  <2>2. Nat \subseteq T
    <3> HIDE DEF T
    <3>1. QED
      BY <2>1, Induct
  <2>3. QED
    BY <2>2
<1>9. ASSUME j < k
      PROVE  E[j] < E[k]
  <2>1. (k - j) - 1 \in Nat /\ j + (((k - j) - 1) + 1) = k /\ k <= N
    BY <1>1, <1>5, <1>9
  <2>2. P((k - j) - 1)
    <3> HIDE DEF P
    <3>1. QED
      BY <1>8, <2>1
  <2>3. QED
    BY <2>1, <2>2
<1>10. QED
  BY <1>9 DEF E

\* The bytes of the frames one behind the other.
LEMMA Flattened ==
    ASSUME NEW c \in Streams
    PROVE  LET N == Len(FramesOf[c])
               all == FlattenSeq(FramesOf[c])
           IN  /\ all \in Seq(Nat) /\ Len(all) = Ends(c)[N]
               /\ \A n \in 1..N : \A i \in 1..Len(FramesOf[c][n]) :
                    all[Ends(c)[n - 1] + i] = FramesOf[c][n][i]
<1> DEFINE fs == FramesOf[c]
           N == Len(fs)
           E == Ends(c)
           Layout(s, m) == /\ s \in Seq(Nat) /\ Len(s) = E[m]
                           /\ \A n \in 1..m : \A i \in 1..Len(fs[n]) :
                                s[E[n - 1] + i] = fs[n][i]
<1>1. N \in Nat /\ \A n \in 1..N : fs[n] \in Seq(Nat) /\ Len(fs[n]) \in Nat \ {0}
  BY FramesAre
<1>2. /\ E \in [0..N -> Nat] /\ E[0] = 0
      /\ \A n \in 1..N : E[n] = E[n - 1] + Len(fs[n])
  BY EndsAre
<1>3. fs \in Seq(Seq(Nat))
  BY FramesAre
<1> SUFFICES Layout(FlattenSeq(fs), N)
  OBVIOUS
<1> HIDE DEF E, N, fs
<1>4. CASE N = 0
  <2>1. fs = << >> /\ FlattenSeq(fs) = fs
    BY <1>3, <1>4 DEF FlattenSeq, N
  <2>2. QED
    BY <1>2, <1>4, <2>1
<1>5. CASE N > 0
  <2> DEFINE D(f) == f = [i \in 1..N |-> IF i = 1 THEN fs[i] ELSE f[i - 1] \o fs[i]]
             F == [k \in Nat |-> [x \in Seq(Nat) |-> IF k \in 1..N THEN x \o fs[k] ELSE x]]
             fl == CHOOSE f : D(f)
  <2>1. F \in [Nat -> [Seq(Nat) -> Seq(Nat)]]
    BY <1>1
  <2>2. PICK g : Iterates(g, Seq(Nat), << >>, F, N)
    <3> HIDE DEF F
    <3>1. << >> \in Seq(Nat)
      OBVIOUS
    <3>2. QED
      BY <1>1, <2>1, <3>1, Iterated
  <2>3. /\ g \in [0..N -> Seq(Nat)] /\ g[0] = << >>
        /\ \A k \in 1..N : g[k] = F[k][g[k - 1]]
    <3> HIDE DEF F
    <3>1. QED
      BY <2>2 DEF Iterates
  <2>4. ASSUME NEW k \in 1..N
        PROVE  g[k] = g[k - 1] \o fs[k]
    <3>1. k \in Nat /\ k - 1 \in 0..N /\ g[k - 1] \in Seq(Nat)
      BY <1>1, <2>3
    <3>2. g[k] = F[k][g[k - 1]]
      BY <2>3
    <3>3. QED
      BY <3>1, <3>2
  <2> DEFINE h == [i \in 1..N |-> g[i]]
  <2>5. ASSUME NEW i \in 1..N
        PROVE  h[i] = IF i = 1 THEN fs[i] ELSE h[i - 1] \o fs[i]
    <3>1. h[i] = g[i - 1] \o fs[i]
      BY <2>4
    <3>2. CASE i = 1
      <4>1. g[i - 1] = << >> /\ fs[i] \in Seq(Nat)
        BY <1>1, <2>3, <3>2
      <4>2. QED
        BY <3>1, <3>2, <4>1, ConcatEmptySeq
    <3>3. CASE i # 1
      <4>1. i - 1 \in 1..N
        BY <1>1, <3>3
      <4>2. QED
        BY <3>1, <3>3, <4>1
    <3>4. QED
      BY <3>2, <3>3
  <2>6. D(h)
    BY <2>5, Zenon
  <2>7. D(fl)
    <3> HIDE DEF D, h
    <3>1. QED
      BY <2>6, Zenon
  <2>8. FlattenSeq(fs) = fl[N]
    BY <1>5 DEF FlattenSeq, N
  <2> HIDE DEF fl
  <2>9. /\ 1 \in 1..N /\ fl[1] = fs[1]
        /\ \A i \in 1..N : i # 1 => fl[i] = fl[i - 1] \o fs[i]
    <3>1. 1 \in 1..N
      BY <1>1, <1>5
    <3>2. fl = [i \in 1..N |-> IF i = 1 THEN fs[i] ELSE fl[i - 1] \o fs[i]]
      BY <2>7
    <3>3. \A i \in 1..N : fl[i] = IF i = 1 THEN fs[i] ELSE fl[i - 1] \o fs[i]
      BY <3>2, Zenon
    <3>4. QED
      BY <3>1, <3>3
  <2> DEFINE P(k) == k + 1 <= N => Layout(fl[k + 1], k + 1)
             T == {k \in Nat : P(k)}
  <2>10. P(0)
    <3>1. E[1] = Len(fs[1]) /\ Len(fs[1]) \in Nat /\ fs[1] \in Seq(Nat)
      <4>1. E[1] = E[1 - 1] + Len(fs[1])
        BY <1>2, <2>9
      <4>2. QED
        BY <1>1, <1>2, <2>9, <4>1
    <3>2. \A n \in 1..1 : n = 1 /\ E[n - 1] = 0
      BY <1>2
    <3>3. QED
      BY <2>9, <3>1, <3>2
  <2>11. ASSUME NEW k \in Nat, P(k)
         PROVE  P(k + 1)
    <3> SUFFICES ASSUME (k + 1) + 1 <= N PROVE Layout(fl[(k + 1) + 1], (k + 1) + 1)
      OBVIOUS
    <3> DEFINE m == k + 1
    <3>1. m \in 1..N /\ m + 1 \in 1..N /\ m + 1 # 1 /\ (m + 1) - 1 = m /\ m <= N
      BY <1>1
    <3>2. Layout(fl[m], m)
      BY <2>11, <3>1
    <3>3. fl[m + 1] = fl[m] \o fs[m + 1]
      BY <2>9, <3>1
    <3>4. E[m + 1] = E[m] + Len(fs[m + 1])
      BY <1>2, <3>1
    <3>5. fs[m + 1] \in Seq(Nat) /\ Len(fs[m + 1]) \in Nat /\ E[m] \in Nat
      BY <1>1, <1>2, <3>1
    <3> SUFFICES Layout(fl[m + 1], m + 1)
      OBVIOUS
    <3> HIDE DEF m
    <3>6. /\ fl[m + 1] \in Seq(Nat) /\ Len(fl[m + 1]) = E[m] + Len(fs[m + 1])
          /\ \A i \in 1..(E[m] + Len(fs[m + 1])) :
               fl[m + 1][i] = IF i <= E[m] THEN fl[m][i] ELSE fs[m + 1][i - E[m]]
      <4>1. fl[m] \in Seq(Nat) /\ Len(fl[m]) = E[m]
        BY <3>2
      <4>2. /\ fl[m] \o fs[m + 1] \in Seq(Nat)
            /\ Len(fl[m] \o fs[m + 1]) = Len(fl[m]) + Len(fs[m + 1])
            /\ \A i \in 1..(Len(fl[m]) + Len(fs[m + 1])) : (fl[m] \o fs[m + 1])[i] =
                 IF i <= Len(fl[m]) THEN fl[m][i] ELSE fs[m + 1][i - Len(fl[m])]
        BY <3>5, <4>1, ConcatProperties, Zenon
      <4>3. QED
        BY <3>3, <4>1, <4>2, Zenon
    <3>7. ASSUME NEW n \in 1..(m + 1), NEW i \in 1..Len(fs[n])
          PROVE  fl[m + 1][E[n - 1] + i] = fs[n][i]
      <4>1. CASE n = m + 1
        <5>1. n - 1 = m /\ i \in 1..Len(fs[m + 1]) /\ E[m] + i \in 1..(E[m] + Len(fs[m + 1]))
          BY <3>1, <3>5, <4>1
        <5>2. ~(E[m] + i <= E[m]) /\ (E[m] + i) - E[m] = i
          BY <3>5, <5>1
        <5>3. fl[m + 1][E[m] + i] = fs[m + 1][(E[m] + i) - E[m]]
          BY <3>6, <5>1, <5>2
        <5>4. QED
          BY <4>1, <5>1, <5>2, <5>3
      <4>2. CASE n # m + 1
        <5>1. n \in 1..m /\ n \in 1..N /\ m \in 0..N /\ n \in 0..N /\ n - 1 \in 0..N
          BY <1>1, <3>1, <4>2
        <5>2. E[n] = E[n - 1] + Len(fs[n]) /\ E[n - 1] \in Nat /\ E[n] \in Nat
              /\ Len(fs[n]) \in Nat
          BY <1>1, <1>2, <5>1
        <5>3. E[n] <= E[m]
          <6>1. n < m => E[n] < E[m]
            BY <5>1, EndsGrow DEF E, N, fs
          <6>2. QED
            BY <3>5, <5>1, <5>2, <6>1
        <5>4. E[n - 1] + i \in 1..(E[m] + Len(fs[m + 1])) /\ E[n - 1] + i <= E[m]
          <6>1. i \in Nat \ {0} /\ i <= Len(fs[n])
            BY <5>2
          <6>2. E[n - 1] + i <= E[m]
            BY <3>5, <5>2, <5>3, <6>1
          <6>3. QED
            BY <3>5, <5>2, <6>1, <6>2
        <5>5. fl[m + 1][E[n - 1] + i] = fl[m][E[n - 1] + i]
          BY <3>6, <5>4
        <5>6. QED
          BY <3>2, <5>1, <5>5
      <4>3. QED
        BY <4>1, <4>2
    <3>8. QED
      BY <3>4, <3>6, <3>7
  <2>12. \A k \in Nat : P(k)
    <3> HIDE DEF P
    <3>1. 0 \in T /\ \A k \in Nat : k \in T => k + 1 \in T
      BY <2>10, <2>11
    <3>2. Nat \subseteq T
      <4> HIDE DEF T
      <4>1. QED
        BY <3>1, Induct
    <3>3. QED
      BY <3>2
  <2>13. P(N - 1)
    <3>1. N - 1 \in Nat
      BY <1>1, <1>5
    <3> HIDE DEF P
    <3>2. QED
      BY <2>12, <3>1
  <2>14. QED
    <3>1. (N - 1) + 1 = N /\ N <= N
      BY <1>1
    <3> HIDE DEF Layout
    <3>2. QED
      BY <2>8, <2>13, <3>1
<1>6. QED
  BY <1>1, <1>4, <1>5

LEMMA SentIs ==
    ASSUME NEW c \in Streams
    PROVE  /\ Sent[c] \in Seq(Bytes) /\ Len(Sent[c]) = Ends(c)[Len(FramesOf[c])]
           /\ \A i \in 1..Len(Sent[c]) : Sent[c][i].from = c
           /\ \A n \in 1..Len(FramesOf[c]) : \A i \in 1..Len(FramesOf[c][n]) :
                Sent[c][Ends(c)[n - 1] + i].v = FramesOf[c][n][i]
<1> DEFINE N == Len(FramesOf[c])
           all == FlattenSeq(FramesOf[c])
<1>1. /\ all \in Seq(Nat) /\ Len(all) = Ends(c)[N] /\ Len(all) \in Nat
      /\ \A n \in 1..N : \A i \in 1..Len(FramesOf[c][n]) :
           all[Ends(c)[n - 1] + i] = FramesOf[c][n][i]
  <2>1. all \in Seq(Nat) => Len(all) \in Nat
    OBVIOUS
  <2>2. QED
    BY <2>1, Flattened, Zenon
<1>2. Sent[c] = [i \in DOMAIN all |-> [v |-> all[i], from |-> c]]
  BY DEF Sent
<1> HIDE DEF all
<1>3. DOMAIN all = 1..Len(all) /\ \A i \in 1..Len(all) : all[i] \in Nat
  BY <1>1
<1>4. \A i \in 1..Len(all) : [v |-> all[i], from |-> c] \in Bytes
  BY <1>3 DEF Bytes
<1>5. /\ Sent[c] \in Seq(Bytes) /\ Len(Sent[c]) = Len(all)
      /\ \A i \in 1..Len(all) : Sent[c][i] = [v |-> all[i], from |-> c]
  BY <1>1, <1>2, <1>3, <1>4
<1>6. \A i \in 1..Len(all) : Sent[c][i].from = c /\ Sent[c][i].v = all[i]
  <2>1. ASSUME NEW i \in 1..Len(all)
        PROVE  Sent[c][i].from = c /\ Sent[c][i].v = all[i]
    <3>1. Sent[c][i] = [v |-> all[i], from |-> c]
      BY <1>5
    <3>2. QED
      BY <3>1
  <2>2. QED
    BY <2>1
<1>7. ASSUME NEW n \in 1..N, NEW i \in 1..Len(FramesOf[c][n])
      PROVE  Sent[c][Ends(c)[n - 1] + i].v = FramesOf[c][n][i]
  <2>1. n \in 0..N /\ n - 1 \in 0..N /\ N \in 0..N /\ Len(FramesOf[c][n]) \in Nat
    BY FramesAre
  <2>2. /\ Ends(c)[n] = Ends(c)[n - 1] + Len(FramesOf[c][n])
        /\ Ends(c)[n - 1] \in Nat /\ Ends(c)[n] \in Nat
    BY <2>1, EndsAre
  <2>3. n < N => Ends(c)[n] < Ends(c)[N]
    BY <2>1, EndsGrow
  <2>4. Ends(c)[n] <= Len(all)
    BY <1>1, <2>1, <2>2, <2>3
  <2>5. Ends(c)[n - 1] + i \in 1..Len(all)
    <3>1. i \in Nat \ {0} /\ i <= Len(FramesOf[c][n])
      BY <2>1
    <3>2. Ends(c)[n - 1] + i <= Len(all)
      BY <1>1, <2>1, <2>2, <2>4, <3>1
    <3>3. QED
      BY <1>1, <2>2, <3>1, <3>2
  <2>6. QED
    BY <1>1, <1>6, <2>5
<1>8. QED
  BY <1>1, <1>5, <1>6, <1>7

-----------------------------------------------------------------------------
(***************************************************************************)
(* What drain_h2_frames() computes: the K frames that end at Off[1], ...,  *)
(* Off[K], and the rest, whose first frame is not complete.                *)
(***************************************************************************)
Drains(buf, Off, K) ==
    /\ K \in 0..Len(buf) /\ Off \in [0..K -> 0..Len(buf)] /\ Off[0] = 0
    /\ \A n \in 1..K : Off[n] = NextOffset(buf, Off[n - 1]) /\ Off[n - 1] < Off[n]
    /\ NextOffset(buf, Off[K]) = Off[K]
    /\ drain_h2_frames(buf) = [frames |-> [n \in 1..K |-> SubSeq(buf, Off[n - 1] + 1, Off[n])],
                               buf |-> SubSeq(buf, Off[K] + 1, Len(buf))]

LEMMA NextOffsetType ==
    ASSUME NEW buf \in Seq(Bytes), NEW off \in 0..Len(buf)
    PROVE  /\ NextOffset(buf, off) \in 0..Len(buf) /\ off <= NextOffset(buf, off)
           /\ off = Len(buf) => NextOffset(buf, off) = off
<1> DEFINE L == Len(buf)
<1>1. L \in Nat /\ H2_HDR \in Nat \ {0}
  BY StreamsAssumption
<1>2. CASE L - off >= H2_HDR /\ L - off >= H2_HDR + buf[off + 1].v
  <2>1. off + 1 \in 1..L
    BY <1>1, <1>2
  <2>2. buf[off + 1].v \in Nat
    <3>1. buf[off + 1] \in Bytes
      BY <2>1
    <3>2. QED
      BY <3>1 DEF Bytes
  <2>3. NextOffset(buf, off) = off + H2_HDR + buf[off + 1].v
    BY <1>2 DEF NextOffset
  <2>4. QED
    BY <1>1, <1>2, <2>2, <2>3
<1>3. CASE ~(L - off >= H2_HDR /\ L - off >= H2_HDR + buf[off + 1].v)
  <2>1. NextOffset(buf, off) = off
    BY <1>3 DEF NextOffset
  <2>2. QED
    BY <1>1, <2>1
<1>4. QED
  BY <1>2, <1>3

LEMMA DrainDoes ==
    ASSUME NEW buf \in Seq(Bytes)
    PROVE  \E Off, K : Drains(buf, Off, K)
<1> DEFINE L == Len(buf)
           D(f) == f = [n \in 0..L |-> IF n = 0 THEN 0 ELSE NextOffset(buf, f[n - 1])]
           F == [k \in Nat |-> [x \in 0..L |-> NextOffset(buf, x)]]
           Off == CHOOSE f : D(f)
           Done == {n \in 1..L : Off[n] > Off[n - 1]}
<1>1. L \in Nat /\ 0 \in 0..L
  OBVIOUS
<1>2. F \in [Nat -> [0..L -> 0..L]]
  BY NextOffsetType
<1>3. PICK g : Iterates(g, 0..L, 0, F, L)
  <2> HIDE DEF F, L
  <2>1. QED
    BY <1>1, <1>2, Iterated
<1>4. g \in [0..L -> 0..L] /\ g[0] = 0 /\ \A k \in 1..L : g[k] = F[k][g[k - 1]]
  <2> HIDE DEF F, L
  <2>1. QED
    BY <1>3 DEF Iterates
<1>5. \A k \in 1..L : g[k] = NextOffset(buf, g[k - 1])
  <2> HIDE DEF L
  <2>1. ASSUME NEW k \in 1..L
        PROVE  g[k] = NextOffset(buf, g[k - 1])
    <3>1. k \in Nat /\ k - 1 \in 0..L /\ g[k - 1] \in 0..L
      BY <1>1, <1>4
    <3>2. g[k] = F[k][g[k - 1]]
      BY <1>4
    <3>3. QED
      BY <3>1, <3>2
  <2>2. QED
    BY <2>1
<1>6. D(g)
  <2> HIDE DEF L
  <2>1. ASSUME NEW n \in 0..L
        PROVE  g[n] = IF n = 0 THEN 0 ELSE NextOffset(buf, g[n - 1])
    <3>1. n # 0 => n \in 1..L
      BY <1>1
    <3>2. QED
      BY <1>4, <1>5, <3>1
  <2>2. QED
    BY <1>4, <2>1
<1>7. D(Off)
  <2> HIDE DEF D
  <2>1. QED
    BY <1>6, Zenon
<1>8. drain_h2_frames(buf) = [frames |-> [n \in Done |-> SubSeq(buf, Off[n - 1] + 1, Off[n])],
                              buf |-> SubSeq(buf, Off[L] + 1, L)]
  BY DEF drain_h2_frames
<1> HIDE DEF Off, L
<1>9. /\ Off = [n \in 0..L |-> Off[n]] /\ Off[0] = 0
      /\ \A n \in 1..L : Off[n] = NextOffset(buf, Off[n - 1])
  <2>1. Off = [n \in 0..L |-> IF n = 0 THEN 0 ELSE NextOffset(buf, Off[n - 1])]
    BY <1>7
  <2>2. Off = [n \in 0..L |-> Off[n]] /\ Off[0] = 0
    BY <1>1, <2>1
  <2>3. \A n \in 1..L : n \in 0..L /\ n # 0
    BY <1>1
  <2>4. QED
    BY <2>1, <2>2, <2>3
<1> HIDE DEF D
<1>10. \A k \in 0..L : Off[k] \in 0..L
  <2> DEFINE P(k) == k <= L => Off[k] \in 0..L
             T == {k \in Nat : P(k)}
  <2>1. P(0)
    BY <1>1, <1>9
  <2>2. ASSUME NEW k \in Nat, P(k)
        PROVE  P(k + 1)
    <3> SUFFICES ASSUME k + 1 <= L PROVE Off[k + 1] \in 0..L
      OBVIOUS
    <3>1. k + 1 \in 1..L /\ (k + 1) - 1 = k /\ Off[k] \in 0..L
      BY <1>1, <2>2
    <3>2. Off[k + 1] = NextOffset(buf, Off[k])
      BY <1>9, <3>1
    <3>3. QED
      BY <3>1, <3>2, NextOffsetType DEF L
  <2>3. \A k \in Nat : P(k)
    <3> HIDE DEF P
    <3>1. 0 \in T /\ \A k \in Nat : k \in T => k + 1 \in T
      BY <2>1, <2>2
    <3>2. Nat \subseteq T
      <4> HIDE DEF T
      <4>1. QED
        BY <3>1, Induct
    <3>3. QED
      BY <3>2
  <2>4. QED
    BY <1>1, <2>3
<1> DEFINE Fixed == {k \in 0..L : k = L \/ Off[k + 1] = Off[k]}
<1>11. PICK K \in Fixed : \A k \in Fixed : K <= k
  <2>1. Fixed \subseteq Nat /\ L \in Fixed
    BY <1>1
  <2>2. QED
    BY <2>1, LeastNat
<1>12. K \in 0..L
  BY <1>11
<1>13. ASSUME NEW n \in 1..K
       PROVE  Off[n - 1] < Off[n] /\ Off[n] = NextOffset(buf, Off[n - 1])
  <2>1. n - 1 \in 0..L /\ n - 1 < K /\ n - 1 # L /\ n \in 1..L /\ (n - 1) + 1 = n
    BY <1>1, <1>12
  <2>2. Off[n] # Off[n - 1]
    BY <1>11, <2>1
  <2>3. Off[n] = NextOffset(buf, Off[n - 1]) /\ Off[n - 1] \in 0..L
    BY <1>9, <1>10, <2>1
  <2>4. Off[n - 1] <= Off[n] /\ Off[n] \in 0..L
    BY <2>3, NextOffsetType DEF L
  <2>5. QED
    BY <1>1, <2>2, <2>3, <2>4
<1>14. \A n \in 0..K : Off[n] >= n
  <2> DEFINE P(k) == k <= K => Off[k] >= k
             T == {k \in Nat : P(k)}
  <2>1. P(0)
    BY <1>9
  <2>2. ASSUME NEW k \in Nat, P(k)
        PROVE  P(k + 1)
    <3> SUFFICES ASSUME k + 1 <= K PROVE Off[k + 1] >= k + 1
      OBVIOUS
    <3>1. /\ k + 1 \in 1..K /\ (k + 1) - 1 = k /\ Off[k] >= k
          /\ k \in 0..L /\ k + 1 \in 0..L
      BY <1>1, <1>12, <2>2
    <3>2. Off[k] < Off[k + 1]
      BY <1>13, <3>1
    <3>3. Off[k] \in Nat /\ Off[k + 1] \in Nat
      BY <1>10, <3>1
    <3>4. QED
      BY <3>1, <3>2, <3>3
  <2>3. \A k \in Nat : P(k)
    <3> HIDE DEF P
    <3>1. 0 \in T /\ \A k \in Nat : k \in T => k + 1 \in T
      BY <2>1, <2>2
    <3>2. Nat \subseteq T
      <4> HIDE DEF T
      <4>1. QED
        BY <3>1, Induct
    <3>3. QED
      BY <3>2
  <2>4. QED
    BY <1>12, <2>3
<1>15. NextOffset(buf, Off[K]) = Off[K]
  <2>1. CASE K = L
    <3>1. Off[K] \in 0..L /\ Off[K] >= K
      BY <1>10, <1>12, <1>14
    <3>2. Off[K] = L
      BY <1>1, <2>1, <3>1
    <3>3. QED
      BY <3>1, <3>2, NextOffsetType DEF L
  <2>2. CASE K # L
    <3>1. K + 1 \in 1..L /\ (K + 1) - 1 = K
      BY <1>1, <1>12, <2>2
    <3>2. Off[K + 1] = Off[K] /\ Off[K + 1] = NextOffset(buf, Off[K])
      BY <1>9, <1>11, <2>2, <3>1
    <3>3. QED
      BY <3>2
  <2>3. QED
    BY <2>1, <2>2
<1>16. \A n \in K..L : Off[n] = Off[K]
  <2> DEFINE P(k) == K + k <= L => Off[K + k] = Off[K]
             T == {k \in Nat : P(k)}
  <2>1. P(0)
    BY <1>12
  <2>2. ASSUME NEW k \in Nat, P(k)
        PROVE  P(k + 1)
    <3> SUFFICES ASSUME K + (k + 1) <= L PROVE Off[K + (k + 1)] = Off[K]
      OBVIOUS
    <3>1. K + (k + 1) \in 1..L /\ (K + (k + 1)) - 1 = K + k /\ K + k <= L
      BY <1>1, <1>12, <2>2
    <3>2. Off[K + (k + 1)] = NextOffset(buf, Off[K + k]) /\ Off[K + k] = Off[K]
      BY <1>9, <2>2, <3>1
    <3>3. QED
      BY <1>15, <3>2
  <2>3. \A k \in Nat : P(k)
    <3> HIDE DEF P
    <3>1. 0 \in T /\ \A k \in Nat : k \in T => k + 1 \in T
      BY <2>1, <2>2
    <3>2. Nat \subseteq T
      <4> HIDE DEF T
      <4>1. QED
        BY <3>1, Induct
    <3>3. QED
      BY <3>2
  <2>4. ASSUME NEW n \in K..L
        PROVE  Off[n] = Off[K]
    <3>1. n - K \in Nat /\ K + (n - K) = n /\ n <= L
      BY <1>1, <1>12
    <3>2. P(n - K)
      <4> HIDE DEF P
      <4>1. QED
        BY <2>3, <3>1
    <3>3. QED
      BY <3>1, <3>2
  <2>5. QED
    BY <2>4
<1>17. Done = 1..K
  <2>1. ASSUME NEW n \in Done
        PROVE  n \in 1..K
    <3>1. n \in 1..L /\ Off[n] > Off[n - 1] /\ n - 1 \in 0..L /\ n \in 0..L
      BY <1>1
    <3>2. Off[n] \in Nat /\ Off[n - 1] \in Nat
      BY <1>10, <3>1
    <3>3. ASSUME n > K
          PROVE  FALSE
      <4>1. n \in K..L /\ n - 1 \in K..L
        BY <1>1, <1>12, <3>1, <3>3
      <4>2. QED
        BY <1>16, <3>1, <3>2, <4>1
    <3>4. QED
      BY <1>1, <1>12, <3>1, <3>3
  <2>2. ASSUME NEW n \in 1..K
        PROVE  n \in Done
    <3>1. n \in 1..L /\ n - 1 \in 0..L /\ n \in 0..L
      BY <1>1, <1>12
    <3>2. Off[n - 1] < Off[n] /\ Off[n] \in Nat /\ Off[n - 1] \in Nat
      BY <1>10, <1>13, <3>1
    <3>3. QED
      BY <3>1, <3>2
  <2>3. QED
    <3> HIDE DEF Done
    <3>1. QED
      BY <2>1, <2>2
<1> DEFINE Of == [n \in 0..K |-> Off[n]]
<1>18. \A n \in 1..K : n \in 0..K /\ n - 1 \in 0..K /\ Of[n] = Off[n] /\ Of[n - 1] = Off[n - 1]
  BY <1>12
<1>19. Of \in [0..K -> 0..L] /\ Of[0] = 0 /\ Of[K] = Off[K] /\ Off[L] = Off[K]
  <2>1. \A n \in 0..K : n \in 0..L
    BY <1>1, <1>12
  <2>2. 0 \in 0..K /\ K \in 0..K /\ L \in K..L
    BY <1>1, <1>12
  <2>3. QED
    BY <1>9, <1>10, <1>16, <2>1, <2>2
<1> HIDE DEF Of, Done
<1>20. [n \in Done |-> SubSeq(buf, Off[n - 1] + 1, Off[n])]
         = [n \in 1..K |-> SubSeq(buf, Of[n - 1] + 1, Of[n])]
  BY <1>17, <1>18
<1>21. Drains(buf, Of, K)
  BY <1>8, <1>12, <1>13, <1>15, <1>18, <1>19, <1>20 DEF Drains, L
<1>22. QED
  BY <1>21

LEMMA Slice ==
    ASSUME NEW S, NEW s \in Seq(S), NEW a \in Nat, NEW b \in Nat, a <= b, b <= Len(s)
    PROVE  /\ SubSeq(s, a + 1, b) \in Seq(S) /\ Len(SubSeq(s, a + 1, b)) = b - a
           /\ \A i \in 1..(b - a) : SubSeq(s, a + 1, b)[i] = s[a + i]
<1>1. \A i \in (a + 1)..b : s[i] \in S
  OBVIOUS
<1>2. a + 1 \in Int /\ b \in Int
  OBVIOUS
<1>3. /\ SubSeq(s, a + 1, b) \in Seq(S)
      /\ Len(SubSeq(s, a + 1, b)) = IF a + 1 <= b THEN b - (a + 1) + 1 ELSE 0
      /\ \A i \in 1..(b - (a + 1) + 1) : SubSeq(s, a + 1, b)[i] = s[(a + 1) + i - 1]
  BY <1>1, <1>2, SubSeqProperties
<1>4. Len(SubSeq(s, a + 1, b)) = b - a
  BY <1>3
<1>5. ASSUME NEW i \in 1..(b - a)
      PROVE  SubSeq(s, a + 1, b)[i] = s[a + i]
  <2>1. i \in 1..(b - (a + 1) + 1) /\ (a + 1) + i - 1 = a + i
    OBVIOUS
  <2>2. SubSeq(s, a + 1, b)[i] = s[(a + 1) + i - 1]
    BY <1>3, <2>1
  <2>3. QED
    BY <2>1, <2>2
<1>6. QED
  BY <1>3, <1>4, <1>5

\* The frame with length field v that starts behind position e of s, in a buffer
\* that holds what is between positions a and b.
LEMMA FrameAt ==
    ASSUME NEW s \in Seq(Bytes), NEW a \in Nat, NEW e \in Nat, NEW b \in Nat, NEW v \in Nat,
           a <= e, e <= b, b <= Len(s), s[e + 1].v = v
    PROVE  NextOffset(SubSeq(s, a + 1, b), e - a)
             = IF e + (H2_HDR + v) <= b THEN (e + (H2_HDR + v)) - a ELSE e - a
<1> DEFINE full == SubSeq(s, a + 1, b)
<1>1. Len(full) = b - a /\ \A i \in 1..(b - a) : full[i] = s[a + i]
  BY Slice
<1>2. H2_HDR \in Nat \ {0}
  BY StreamsAssumption
<1> HIDE DEF full
<1>3. Len(full) - (e - a) = b - e
  BY <1>1
<1>4. CASE b = e
  <2>1. ~(Len(full) - (e - a) >= H2_HDR) /\ ~(e + (H2_HDR + v) <= b)
    BY <1>2, <1>3, <1>4
  <2>2. NextOffset(full, e - a) = e - a
    BY <2>1 DEF NextOffset
  <2>3. QED
    BY <2>1, <2>2 DEF full
<1>5. CASE b # e
  <2>1. (e - a) + 1 \in 1..(b - a) /\ a + ((e - a) + 1) = e + 1
    BY <1>5
  <2>2. full[(e - a) + 1] = s[e + 1]
    BY <1>1, <2>1
  <2>3. NextOffset(full, e - a) = IF b - e >= H2_HDR /\ b - e >= H2_HDR + v
                                    THEN (e - a) + H2_HDR + v ELSE e - a
    BY <1>3, <2>2 DEF NextOffset
  <2>4. (e - a) + H2_HDR + v = (e + (H2_HDR + v)) - a
    BY <1>2
  <2>5. (b - e >= H2_HDR /\ b - e >= H2_HDR + v) <=> e + (H2_HDR + v) <= b
    BY <1>2
  <2>6. QED
    BY <2>3, <2>4, <2>5 DEF full
<1>6. QED
  BY <1>4, <1>5

\* The same for frame j + 1 of stream c, the buffer starting at the end of frame m.
LEMMA NextOffsetAt ==
    ASSUME NEW c \in Streams, NEW m \in Nat, NEW j \in Nat, NEW h \in Nat,
           m <= Len(FramesOf[c]), j < Len(FramesOf[c]), h <= Len(Sent[c]),
           Ends(c)[m] <= Ends(c)[j], Ends(c)[j] <= h
    PROVE  NextOffset(SubSeq(Sent[c], Ends(c)[m] + 1, h), Ends(c)[j] - Ends(c)[m])
             = IF Ends(c)[j + 1] <= h THEN Ends(c)[j + 1] - Ends(c)[m]
                                      ELSE Ends(c)[j] - Ends(c)[m]
<1> DEFINE E == Ends(c)
           N == Len(FramesOf[c])
           f == FramesOf[c][j + 1]
<1>1. N \in Nat
  BY FramesAre
<1>2. j + 1 \in 1..N /\ (j + 1) - 1 = j /\ j + 1 \in 0..N /\ j \in 0..N /\ m \in 0..N
  BY <1>1
<1>3. Len(f) \in Nat \ {0} /\ f[1] \in Nat /\ Len(f) = H2_HDR + f[1]
  BY <1>2, FramesAre
<1>4. E[m] \in Nat /\ E[j] \in Nat /\ E[j + 1] \in Nat
  BY <1>2, EndsAre
<1>5. E[j + 1] = E[j] + Len(f)
  <2>1. E[j + 1] = E[(j + 1) - 1] + Len(f)
    BY <1>2, EndsAre
  <2>2. QED
    BY <1>2, <2>1
<1>6. Sent[c] \in Seq(Bytes)
  BY SentIs
<1>7. Sent[c][E[j] + 1].v = f[1]
  <2>1. 1 \in 1..Len(f)
    BY <1>3
  <2>2. Sent[c][E[(j + 1) - 1] + 1].v = f[1]
    BY <1>2, <2>1, SentIs
  <2>3. QED
    BY <1>2, <2>2
<1>8. NextOffset(SubSeq(Sent[c], E[m] + 1, h), E[j] - E[m])
        = IF E[j] + (H2_HDR + f[1]) <= h THEN (E[j] + (H2_HDR + f[1])) - E[m] ELSE E[j] - E[m]
  <2> HIDE DEF E, f
  <2>1. E[m] <= E[j] /\ E[j] <= h /\ h <= Len(Sent[c])
    BY DEF E
  <2>2. \A a, e, v \in Nat :
          a <= e /\ e <= h /\ Sent[c][e + 1].v = v =>
            NextOffset(SubSeq(Sent[c], a + 1, h), e - a)
              = IF e + (H2_HDR + v) <= h THEN (e + (H2_HDR + v)) - a ELSE e - a
    BY <1>6, <2>1, FrameAt
  <2>3. E[m] \in Nat /\ E[j] \in Nat /\ f[1] \in Nat
    BY <1>3, <1>4
  <2>4. QED
    BY <1>7, <2>1, <2>2, <2>3, Zenon
<1>9. QED
  BY <1>3, <1>5, <1>8

\* Draining what was sent between the end of frame m and position h gives the
\* frames behind m that end by h, and leaves the start of the next one.
Cuts(c, m, h, K) ==
    /\ K \in Nat /\ m + K <= Len(FramesOf[c]) /\ Ends(c)[m + K] <= h
    /\ m + K = Len(FramesOf[c]) \/ h < Ends(c)[m + K + 1]
    /\ drain_h2_frames(SubSeq(Sent[c], Ends(c)[m] + 1, h)) =
         [frames |-> [n \in 1..K |-> SubSeq(Sent[c], Ends(c)[m + n - 1] + 1, Ends(c)[m + n])],
          buf |-> SubSeq(Sent[c], Ends(c)[m + K] + 1, h)]

LEMMA DrainExact ==
    ASSUME NEW c \in Streams, NEW m \in Nat, NEW h \in Nat,
           m <= Len(FramesOf[c]), h <= Len(Sent[c]), Ends(c)[m] <= h
    PROVE  \E K : Cuts(c, m, h, K)
<1> DEFINE N == Len(FramesOf[c])
           E == Ends(c)
           S == Sent[c]
           full == SubSeq(S, E[m] + 1, h)
<1>1. N \in Nat /\ m \in 0..N
  BY FramesAre
<1>2. \A n \in 0..N : E[n] \in Nat
  BY EndsAre
<1>3. S \in Seq(Bytes) /\ Len(S) = E[N]
  BY SentIs
<1>4. E[m] <= h /\ h <= Len(S) /\ m <= N
  OBVIOUS
<1>5. \A j \in Nat : j < N /\ E[m] <= E[j] /\ E[j] <= h =>
        NextOffset(full, E[j] - E[m])
          = IF E[j + 1] <= h THEN E[j + 1] - E[m] ELSE E[j] - E[m]
  BY <1>4, NextOffsetAt
<1>6. \A j, k \in 0..N : j < k => E[j] < E[k]
  BY EndsGrow
<1> HIDE DEF N, E, S
<1>7. E[m] \in Nat /\ E[N] \in Nat
  BY <1>1, <1>2
<1>8. /\ full \in Seq(Bytes) /\ Len(full) = h - E[m]
      /\ \A i \in 1..(h - E[m]) : full[i] = S[E[m] + i]
  BY <1>3, <1>4, <1>7, Slice
<1>9. PICK Off, K : Drains(full, Off, K)
  <2> HIDE DEF full
  <2>1. QED
    BY <1>8, DrainDoes
<1> HIDE DEF full
<1>10. /\ K \in 0..Len(full) /\ Off \in [0..K -> 0..Len(full)] /\ Off[0] = 0
       /\ \A n \in 1..K : Off[n] = NextOffset(full, Off[n - 1]) /\ Off[n - 1] < Off[n]
       /\ NextOffset(full, Off[K]) = Off[K]
  BY <1>9 DEF Drains
<1>11. drain_h2_frames(full) =
         [frames |-> [n \in 1..K |-> SubSeq(full, Off[n - 1] + 1, Off[n])],
          buf |-> SubSeq(full, Off[K] + 1, Len(full))]
  BY <1>9 DEF Drains
<1>12. K \in Nat /\ h - E[m] \in Nat
  BY <1>4, <1>7, <1>8, <1>10
<1>13. \A n \in 0..K : Off[n] \in Nat /\ Off[n] <= h - E[m]
  BY <1>8, <1>10, <1>12
\* Every step of the drain is a frame of the stream.
<1>14. \A n \in 0..K : m + n <= N /\ E[m + n] = E[m] + Off[n]
  <2> DEFINE P(n) == n <= K => m + n <= N /\ E[m + n] = E[m] + Off[n]
             T == {n \in Nat : P(n)}
  <2>1. P(0)
    BY <1>1, <1>7, <1>10
  <2>2. ASSUME NEW n \in Nat, P(n)
        PROVE  P(n + 1)
    <3> SUFFICES ASSUME n + 1 <= K PROVE m + (n + 1) <= N /\ E[m + (n + 1)] = E[m] + Off[n + 1]
      OBVIOUS
    <3> DEFINE j == m + n
    <3>1. n + 1 \in 1..K /\ (n + 1) - 1 = n /\ n \in 0..K /\ n + 1 \in 0..K /\ n <= K
      BY <1>12
    <3>2. j <= N /\ E[j] = E[m] + Off[n] /\ j \in 0..N /\ j \in Nat
      BY <1>1, <2>2, <3>1
    <3>3. Off[n + 1] = NextOffset(full, Off[n]) /\ Off[n] < Off[n + 1]
      BY <1>10, <3>1
    <3>4. Off[n] \in Nat /\ Off[n + 1] \in Nat /\ Off[n + 1] <= h - E[m]
      BY <1>13, <3>1
    <3>5. m + (n + 1) = j + 1
      BY <1>1
    <3> HIDE DEF j
    <3>6. E[j] < E[N] /\ E[m] <= E[j] /\ E[j] <= h /\ E[j] - E[m] = Off[n]
      BY <1>3, <1>4, <1>7, <3>2, <3>3, <3>4
    <3>7. j < N /\ j + 1 \in 0..N
      <4>1. j # N
        BY <1>7, <3>6
      <4>2. QED
        BY <1>1, <3>2, <4>1
    <3>8. Off[n + 1] = IF E[j + 1] <= h THEN E[j + 1] - E[m] ELSE E[j] - E[m]
      BY <1>5, <3>2, <3>3, <3>6, <3>7
    <3>9. E[j + 1] \in Nat
      BY <1>2, <3>7
    <3>10. E[j + 1] = E[m] + Off[n + 1]
      BY <1>7, <3>3, <3>4, <3>6, <3>8, <3>9
    <3>11. QED
      BY <1>1, <3>5, <3>7, <3>10
  <2>3. \A n \in Nat : P(n)
    <3> HIDE DEF P
    <3>1. 0 \in T /\ \A n \in Nat : n \in T => n + 1 \in T
      BY <2>1, <2>2
    <3>2. Nat \subseteq T
      <4> HIDE DEF T
      <4>1. QED
        BY <3>1, Induct
    <3>3. QED
      BY <3>2
  <2>4. QED
    BY <1>12, <2>3
<1> DEFINE j == m + K
<1>15. j <= N /\ E[j] = E[m] + Off[K] /\ j \in Nat /\ j \in 0..N
  BY <1>1, <1>12, <1>14
<1>16. Off[K] \in Nat /\ Off[K] <= h - E[m]
  BY <1>12, <1>13
<1>17. E[j] \in Nat /\ E[j] <= h /\ E[m] <= E[j] /\ E[j] - E[m] = Off[K]
  BY <1>4, <1>7, <1>15, <1>16
<1>18. j = N \/ h < E[j + 1]
  <2> HIDE DEF j
  <2> SUFFICES ASSUME j # N PROVE h < E[j + 1]
    OBVIOUS
  <2>1. j < N /\ j + 1 \in 0..N
    BY <1>1, <1>15
  <2>2. Off[K] = IF E[j + 1] <= h THEN E[j + 1] - E[m] ELSE E[j] - E[m]
    BY <1>5, <1>10, <1>15, <1>17, <2>1
  <2>3. E[j + 1] \in Nat /\ E[j] < E[j + 1]
    <3>1. j < j + 1
      BY <1>15
    <3>2. QED
      BY <1>2, <1>6, <1>15, <2>1, <3>1
  <2>4. QED
    BY <1>7, <1>17, <2>2, <2>3
\* Slices of the buffer are slices of the stream.
<1>19. ASSUME NEW a \in Nat, NEW b \in Nat, a <= b, b <= h - E[m]
       PROVE  SubSeq(full, a + 1, b) = SubSeq(S, (E[m] + a) + 1, E[m] + b)
  <2> DEFINE x == SubSeq(full, a + 1, b)
             y == SubSeq(S, (E[m] + a) + 1, E[m] + b)
  <2>1. x \in Seq(Bytes) /\ Len(x) = b - a /\ \A i \in 1..(b - a) : x[i] = full[a + i]
    BY <1>8, <1>19, Slice
  <2>2. E[m] + a \in Nat /\ E[m] + b \in Nat /\ E[m] + a <= E[m] + b /\ E[m] + b <= Len(S)
    BY <1>3, <1>4, <1>7, <1>19
  <2>3. /\ y \in Seq(Bytes) /\ Len(y) = (E[m] + b) - (E[m] + a)
        /\ \A i \in 1..((E[m] + b) - (E[m] + a)) : y[i] = S[(E[m] + a) + i]
    BY <1>3, <2>2, Slice
  <2>4. (E[m] + b) - (E[m] + a) = b - a
    BY <1>7
  <2> HIDE DEF x, y
  <2>5. ASSUME NEW i \in 1..(b - a)
        PROVE  x[i] = y[i]
    <3>1. a + i \in 1..(h - E[m]) /\ E[m] + (a + i) = (E[m] + a) + i
      BY <1>7, <1>12, <1>19
    <3>2. QED
      BY <1>8, <2>1, <2>3, <2>4, <3>1
  <2>6. x = y
    BY <2>1, <2>3, <2>4, <2>5, SeqEqual
  <2>7. QED
    BY <2>6 DEF x, y
<1>20. ASSUME NEW n \in 1..K
       PROVE  SubSeq(full, Off[n - 1] + 1, Off[n]) = SubSeq(S, E[m + n - 1] + 1, E[m + n])
  <2>1. n \in 0..K /\ n - 1 \in 0..K /\ m + (n - 1) = m + n - 1
    BY <1>1, <1>12
  <2>2. /\ Off[n - 1] \in Nat /\ Off[n] \in Nat /\ Off[n - 1] <= Off[n]
        /\ Off[n] <= h - E[m]
    BY <1>10, <1>13, <2>1
  <2>3. E[m + n] = E[m] + Off[n] /\ E[m + n - 1] = E[m] + Off[n - 1]
    BY <1>14, <2>1
  <2>4. QED
    BY <1>19, <2>2, <2>3
<1>21. SubSeq(full, Off[K] + 1, Len(full)) = SubSeq(S, E[j] + 1, h)
  <2> DEFINE b == h - E[m]
  <2>1. SubSeq(full, Off[K] + 1, b) = SubSeq(S, (E[m] + Off[K]) + 1, E[m] + b)
    <3>1. b \in Nat /\ Off[K] <= b /\ b <= h - E[m]
      BY <1>12, <1>16
    <3> HIDE DEF b
    <3>2. QED
      BY <1>16, <1>19, <3>1
  <2>2. E[m] + (h - E[m]) = h
    BY <1>7
  <2>3. QED
    BY <1>8, <1>15, <2>1, <2>2
<1>22. drain_h2_frames(full) =
         [frames |-> [n \in 1..K |-> SubSeq(S, E[m + n - 1] + 1, E[m + n])],
          buf |-> SubSeq(S, E[j] + 1, h)]
  <2>1. [n \in 1..K |-> SubSeq(full, Off[n - 1] + 1, Off[n])]
          = [n \in 1..K |-> SubSeq(S, E[m + n - 1] + 1, E[m + n])]
    BY <1>20
  <2>2. QED
    BY <1>11, <1>21, <2>1
<1>23. Cuts(c, m, h, K)
  BY <1>12, <1>15, <1>17, <1>18, <1>22 DEF Cuts, N, E, S, full
<1>24. QED
  BY <1>23

-----------------------------------------------------------------------------
(***************************************************************************)
(* The first invariant: the types, and that the bytes of a payload, of a   *)
(* buffer and of a printed frame are of their stream or filler.            *)
(***************************************************************************)
OwnBytes(c) == [v : Nat, from : {c, NULL}]

NgapEvents == [type : {"NGAP"}]

OtherEvents ==
    {e \in [type : {"OTHER"}, key : Streams, new : Nat, raw_len : Nat, payload : Seq(Bytes)] :
        e.payload \in Seq(OwnBytes(e.key)) /\ payload_len(e) = Len(e.payload)}

OwnSlots == {s \in Slot : s.buf \in Seq(OwnBytes(s.key)) /\ Len(s.buf) <= STREAM_BUF_MAX}

BytesInv ==
    /\ next \in [Streams -> Nat] /\ handled \in [Streams -> Nat]
    /\ \A c \in Streams : next[c] <= Len(Sent[c])
    /\ shown = [c \in Streams |-> shown[c]]
    /\ \A c \in Streams : shown[c] \in Seq(Seq(OwnBytes(c)))
    /\ events \in Seq(NgapEvents \cup OtherEvents) /\ Len(events) <= RingSize
    /\ streams \in [Slots -> OwnSlots \cup {NULL}]
    /\ unseen \subseteq Streams /\ evicted \subseteq Streams /\ overrun \subseteq Streams

LEMMA OwnAreBytes ==
    ASSUME NEW c \in Streams
    PROVE  OwnBytes(c) \subseteq Bytes /\ Seq(OwnBytes(c)) \subseteq Seq(Bytes)
<1>1. OwnBytes(c) \subseteq Bytes
  BY DEF OwnBytes, Bytes
<1>2. QED
  BY <1>1, SeqMonotonic

LEMMA SentOwn ==
    ASSUME NEW c \in Streams
    PROVE  Sent[c] \in Seq(OwnBytes(c))
<1>1. Sent[c] \in Seq(Bytes) /\ \A i \in 1..Len(Sent[c]) : Sent[c][i].from = c
  BY SentIs
<1>2. ASSUME NEW i \in 1..Len(Sent[c])
      PROVE  Sent[c][i] \in OwnBytes(c)
  <2>1. Sent[c][i] \in Bytes /\ Sent[c][i].from = c
    BY <1>1
  <2>2. QED
    BY <2>1 DEF Bytes, OwnBytes
<1>3. QED
  BY <1>1, <1>2

LEMMA EventIs ==
    ASSUME NEW e \in NgapEvents \cup OtherEvents
    PROVE  \/ e.type = "NGAP" /\ e \in NgapEvents
           \/ /\ e.type = "OTHER" /\ e \in OtherEvents
              /\ e.key \in Streams /\ e.new \in Nat /\ e.payload \in Seq(OwnBytes(e.key))
              /\ payload_len(e) = Len(e.payload)
<1>1. CASE e \in NgapEvents
  BY <1>1 DEF NgapEvents
<1>2. CASE e \in OtherEvents
  BY <1>2 DEF OtherEvents
<1>3. QED
  BY <1>1, <1>2

\* Filler and what handle_other() captures.
LEMMA PaddingOwn ==
    ASSUME NEW c \in Streams, NEW k \in Nat
    PROVE  Padding(k) \in Seq(OwnBytes(c))
<1> DEFINE n == HdrsLen + k
<1>1. n \in Nat /\ EthMin \in Nat
  BY StreamsAssumption
<1>2. [v |-> 0, from |-> NULL] \in OwnBytes(c)
  BY DEF OwnBytes
<1>3. CASE padding /\ n < EthMin
  <2>1. Padding(k) = [i \in 1..(EthMin - n) |-> [v |-> 0, from |-> NULL]]
    BY <1>3 DEF Padding
  <2>2. EthMin - n \in Nat
    BY <1>1, <1>3
  <2> HIDE DEF n
  <2>3. QED
    BY <1>2, <2>1, <2>2
<1>4. CASE ~(padding /\ n < EthMin)
  <2>1. Padding(k) = << >>
    BY <1>4 DEF Padding
  <2>2. QED
    BY <2>1
<1>5. QED
  BY <1>3, <1>4

LEMMA CapturedIs ==
    ASSUME NEW c \in Streams, NEW p \in Seq(OwnBytes(c)), NEW loaded \in BOOLEAN
    PROVE  /\ Captured(p, loaded).raw_len \in Nat
           /\ Captured(p, loaded).payload \in Seq(OwnBytes(c))
           /\ Len(Captured(p, loaded).payload)
                = IF Captured(p, loaded).raw_len > HdrsLen
                    THEN Captured(p, loaded).raw_len - HdrsLen ELSE 0
<1> DEFINE want == Least(HdrsLen + Len(p), XDP_EVT_OTHER_RAW_MAX)
           k == IF loaded THEN want - HdrsLen ELSE 0
<1>1. HdrsLen \in Nat \ {0} /\ XDP_EVT_OTHER_RAW_MAX \in Nat /\ Len(p) \in Nat
  BY StreamsAssumption
<1>2. want \in Nat /\ want <= HdrsLen + Len(p)
  BY <1>1 DEF Least
<1>3. /\ Captured(p, loaded).raw_len = IF loaded THEN want ELSE 0
      /\ Captured(p, loaded).payload = SubSeq(p, 1, k)
  BY DEF Captured
<1> HIDE DEF want
<1>4. k \in Int /\ k <= Len(p)
  BY <1>1, <1>2
<1> HIDE DEF k
<1>5. SubSeq(p, 1, k) \in Seq(OwnBytes(c)) /\ Len(SubSeq(p, 1, k)) = IF 1 <= k THEN k ELSE 0
  <2>1. \A i \in 1..k : p[i] \in OwnBytes(c)
    BY <1>1, <1>4
  <2>2. /\ SubSeq(p, 1, k) \in Seq(OwnBytes(c))
        /\ Len(SubSeq(p, 1, k)) = IF 1 <= k THEN k - 1 + 1 ELSE 0
    BY <1>4, <2>1, SubSeqProperties
  <2>3. QED
    BY <1>4, <2>2
<1>6. CASE loaded
  BY <1>1, <1>2, <1>3, <1>5, <1>6 DEF k
<1>7. CASE ~loaded
  BY <1>1, <1>2, <1>3, <1>5, <1>7 DEF k
<1>8. QED
  BY <1>6, <1>7

-----------------------------------------------------------------------------
(***************************************************************************)
(* What a packet does to the ring buffer.                                  *)
(***************************************************************************)
OfStream(e, c) == e.type = "OTHER" /\ e.key = c

Delivers(ev) ==
    /\ ev \in NgapEvents \cup OtherEvents
    /\ Len(events) < RingSize /\ events' = Append(events, ev)
    /\ \A c \in Streams : OfStream(ev, c) => next[c] + ev.new <= next'[c]
    /\ \A c \in Streams \ unseen' :
         /\ ~OfStream(ev, c) => next'[c] = next[c]
         /\ OfStream(ev, c) => /\ next'[c] = next[c] + ev.new
                               /\ ev.payload = SubSeq(Sent[c], next[c] + 1, next'[c])

Delivered ==
    /\ unseen \subseteq unseen' /\ unseen' \subseteq Streams
    /\ \/ events' = events /\ \A c \in Streams \ unseen' : next'[c] = next[c]
       \/ \E ev : Delivers(ev)

LEMMA HandleOther ==
    ASSUME BytesInv, NEW c \in Streams, NEW seg \in Seq(OwnBytes(c)), NEW n \in Nat,
           NEW loaded \in BOOLEAN, handle_other(c, seg, n, loaded),
           next[c] + n <= next'[c],
           \A d \in Streams : d # c => next'[d] = next[d],
           n = Len(seg) => /\ next'[c] = next[c] + n
                           /\ seg = SubSeq(Sent[c], next[c] + 1, next'[c])
    PROVE  Delivered
<1> DEFINE p == seg \o Padding(Len(seg))
           r == Captured(p, loaded)
           ev == [type |-> "OTHER", key |-> c, new |-> n, raw_len |-> r.raw_len,
                  payload |-> r.payload]
<1>1. p \in Seq(OwnBytes(c))
  <2>1. Len(seg) \in Nat
    OBVIOUS
  <2>2. Padding(Len(seg)) \in Seq(OwnBytes(c))
    BY <2>1, PaddingOwn
  <2>3. QED
    BY <2>2, ConcatProperties
<1>2. /\ r.raw_len \in Nat /\ r.payload \in Seq(OwnBytes(c))
      /\ Len(r.payload) = IF r.raw_len > HdrsLen THEN r.raw_len - HdrsLen ELSE 0
  <2> HIDE DEF p
  <2>1. QED
    BY <1>1, CapturedIs
<1>3. /\ events' = IF HasRoom THEN Append(events, ev) ELSE events
      /\ unseen' = IF HasRoom /\ r.payload = seg /\ n = Len(seg)
                     THEN unseen ELSE unseen \cup {c}
  BY DEF handle_other
<1> HIDE DEF r
<1>4. /\ ev.type = "OTHER" /\ ev.key = c /\ ev.new = n /\ ev.payload = r.payload
      /\ ev.raw_len = r.raw_len
  OBVIOUS
<1>5. ev \in OtherEvents
  <2>1. r.payload \in Seq(Bytes)
    BY <1>2, OwnAreBytes
  <2>2. ev \in [type : {"OTHER"}, key : Streams, new : Nat, raw_len : Nat, payload : Seq(Bytes)]
    BY <1>2, <2>1
  <2>3. ev.payload \in Seq(OwnBytes(ev.key)) /\ payload_len(ev) = Len(ev.payload)
    BY <1>2, <1>4 DEF payload_len
  <2> HIDE DEF ev
  <2>4. QED
    BY <2>2, <2>3 DEF OtherEvents
<1> HIDE DEF ev
<1>6. unseen \subseteq unseen' /\ unseen' \subseteq Streams
  BY <1>3 DEF BytesInv
<1>7. \A d \in Streams : OfStream(ev, d) <=> d = c
  BY <1>4 DEF OfStream
<1>8. CASE HasRoom
  <2>1. Len(events) < RingSize /\ events' = Append(events, ev)
    BY <1>3, <1>8 DEF HasRoom
  <2>2. \A d \in Streams : OfStream(ev, d) => next[d] + ev.new <= next'[d]
    BY <1>4, <1>7
  <2>3. ASSUME NEW d \in Streams, d \notin unseen'
        PROVE  /\ ~OfStream(ev, d) => next'[d] = next[d]
               /\ OfStream(ev, d) => /\ next'[d] = next[d] + ev.new
                                     /\ ev.payload = SubSeq(Sent[d], next[d] + 1, next'[d])
    <3>1. CASE d # c
      BY <1>7, <3>1
    <3>2. CASE d = c
      <4>1. r.payload = seg /\ n = Len(seg)
        BY <1>3, <2>3, <3>2
      <4>2. QED
        BY <1>4, <1>7, <3>2, <4>1
    <3>3. QED
      BY <3>1, <3>2
  <2>4. Delivers(ev)
    BY <1>5, <2>1, <2>2, <2>3 DEF Delivers
  <2>5. QED
    BY <1>6, <2>4 DEF Delivered
<1>9. CASE ~HasRoom
  <2>1. events' = events /\ c \in unseen'
    BY <1>3, <1>9
  <2>2. QED
    BY <1>6, <2>1 DEF Delivered
<1>10. QED
  BY <1>8, <1>9

\* next grows by k for stream c.
LEMMA NextGrows ==
    ASSUME BytesInv, NEW c \in Streams, NEW k \in Nat, next[c] + k <= Len(Sent[c]),
           next' = [next EXCEPT ![c] = @ + k]
    PROVE  /\ next' \in [Streams -> Nat] /\ next'[c] = next[c] + k
           /\ \A d \in Streams : d # c => next'[d] = next[d]
           /\ \A d \in Streams : next[d] <= next'[d] /\ next'[d] <= Len(Sent[d])
<1>1. next \in [Streams -> Nat] /\ \A d \in Streams : next[d] <= Len(Sent[d])
  BY DEF BytesInv
<1>2. /\ next' \in [Streams -> Nat] /\ next'[c] = next[c] + k
      /\ \A d \in Streams : d # c => next'[d] = next[d]
  BY <1>1
<1>3. ASSUME NEW d \in Streams
      PROVE  next[d] <= next'[d] /\ next'[d] <= Len(Sent[d])
  <2>1. next[d] \in Nat /\ next'[d] \in Nat
    BY <1>1, <1>2
  <2>2. CASE d = c
    BY <1>2, <2>1, <2>2
  <2>3. CASE d # c
    BY <1>1, <1>2, <2>1, <2>3
  <2>4. QED
    BY <2>2, <2>3
<1>4. QED
  BY <1>2, <1>3

\* Everything a packet does.
LEMMA PacketDoes ==
    ASSUME BytesInv, Packet
    PROVE  /\ Delivered
           /\ UNCHANGED << streams, handled, shown, evicted, overrun >>
           /\ next' \in [Streams -> Nat]
           /\ \A c \in Streams : next[c] <= next'[c] /\ next'[c] <= Len(Sent[c])
<1> DEFINE Same == UNCHANGED << streams, handled, shown, evicted, overrun >>
           Grown == /\ next' \in [Streams -> Nat]
                    /\ \A c \in Streams : next[c] <= next'[c] /\ next'[c] <= Len(Sent[c])
<1>1. /\ next \in [Streams -> Nat] /\ \A c \in Streams : next[c] <= Len(Sent[c])
      /\ unseen \subseteq Streams
  BY DEF BytesInv
<1>2. \A k \in Segs : k \in Nat
  BY StreamsAssumption
<1>3. next' = next => Grown
  BY <1>1
<1>4. ASSUME NEW c \in Streams, NEW k \in Segs, NEW loaded \in BOOLEAN, Segment(c, k, loaded)
      PROVE  Delivered /\ Same /\ Grown
  <2> DEFINE seg == SubSeq(Sent[c], next[c] + 1, next[c] + k)
  <2>1. /\ next[c] + k <= Len(Sent[c]) /\ next' = [next EXCEPT ![c] = @ + k]
        /\ handle_other(c, seg, k, loaded) /\ Same
    BY <1>4 DEF Segment
  <2>2. /\ Grown /\ next'[c] = next[c] + k
        /\ \A d \in Streams : d # c => next'[d] = next[d]
    BY <1>2, <2>1, NextGrows
  <2>3. next[c] \in Nat /\ next[c] + k \in Nat /\ next[c] <= next[c] + k
    BY <1>1, <1>2
  <2>4. seg \in Seq(OwnBytes(c))
    BY <2>1, <2>3, SentOwn, Slice
  <2>5. seg = SubSeq(Sent[c], next[c] + 1, next'[c])
    BY <2>2
  <2>6. next[c] + k <= next'[c]
    BY <2>2, <2>3
  <2> HIDE DEF seg
  <2>7. Delivered
    BY <1>2, <2>1, <2>2, <2>4, <2>5, <2>6, HandleOther
  <2>8. QED
    BY <2>1, <2>2, <2>7
<1>5. ASSUME NEW pkt \in SctpPackets, handle_sctp(pkt)
      PROVE  Delivered /\ Same /\ Grown
  <2>1. /\ next' = next /\ unseen' = unseen /\ Same
        /\ \/ events' = events
           \/ HasRoom /\ events' = Append(events, [type |-> "NGAP"])
    BY <1>5 DEF handle_sctp, history
  <2>2. CASE events' = events
    BY <1>1, <1>3, <2>1, <2>2 DEF Delivered
  <2>3. CASE HasRoom /\ events' = Append(events, [type |-> "NGAP"])
    <3> DEFINE ev == [type |-> "NGAP"]
    <3>1. ev \in NgapEvents /\ ev.type = "NGAP"
      BY DEF NgapEvents
    <3>2. \A c \in Streams : ~OfStream(ev, c)
      BY <3>1 DEF OfStream
    <3>3. Delivers(ev)
      <4> HIDE DEF ev
      <4>1. events' = Append(events, ev)
        BY <2>3 DEF ev
      <4>2. QED
        BY <2>1, <2>3, <3>1, <3>2, <4>1 DEF Delivers, HasRoom
    <3> HIDE DEF ev
    <3>4. QED
      BY <1>1, <1>3, <2>1, <3>3 DEF Delivered
  <2>4. QED
    BY <2>1, <2>2, <2>3
<1>6. ASSUME NEW c \in Streams, NEW k \in Segs \ {0}, Missed(c, k)
      PROVE  Delivered /\ Same /\ Grown
  <2>1. /\ next[c] + k <= Len(Sent[c]) /\ next' = [next EXCEPT ![c] = @ + k]
        /\ unseen' = unseen \cup {c} /\ events' = events /\ Same
    BY <1>6 DEF Missed
  <2>2. Grown /\ \A d \in Streams : d # c => next'[d] = next[d]
    BY <1>2, <2>1, NextGrows
  <2>3. QED
    BY <1>1, <2>1, <2>2 DEF Delivered
<1>7. ASSUME NEW c \in Streams, NEW k \in Segs \ {0}, NEW p \in 0..next[c], Again(c, p, k)
      PROVE  Delivered /\ Same /\ Grown
  <2> DEFINE seg == SubSeq(Sent[c], p + 1, p + k)
  <2>1. /\ p + k <= next[c] /\ next' = next
        /\ handle_other(c, seg, 0, TRUE) /\ Same
    BY <1>7 DEF Again
  <2>2. next[c] \in Nat /\ next[c] <= Len(Sent[c]) /\ k \in Nat /\ k # 0
    BY <1>1, <1>2
  <2>3. p \in Nat /\ p + k \in Nat /\ p <= p + k /\ p + k <= Len(Sent[c])
    <3>1. Len(Sent[c]) \in Nat
      BY SentIs
    <3>2. QED
      BY <2>1, <2>2, <3>1
  <2>4. seg \in Seq(OwnBytes(c)) /\ Len(seg) = (p + k) - p
    BY <2>3, SentOwn, Slice
  <2>5. 0 # Len(seg)
    <3> HIDE DEF seg
    <3>1. QED
      BY <2>2, <2>3, <2>4
  <2> HIDE DEF seg
  <2>6. next[c] + 0 <= next'[c] /\ 0 \in Nat /\ TRUE \in BOOLEAN
    BY <2>1, <2>2
  <2>7. Delivered
    BY <2>1, <2>4, <2>5, <2>6, HandleOther
  <2>8. QED
    BY <1>3, <2>1, <2>7
<1>8. QED
  <2>1. \/ \E c \in Streams, k \in Segs, loaded \in BOOLEAN : Segment(c, k, loaded)
        \/ \E pkt \in SctpPackets : handle_sctp(pkt)
        \/ \E c \in Streams, k \in Segs \ {0} : Missed(c, k)
        \/ \E c \in Streams, k \in Segs \ {0} : \E p \in 0..next[c] : Again(c, p, k)
    BY DEF Packet, xdp_prog
  <2>2. QED
    BY <1>4, <1>5, <1>6, <1>7, <2>1

-----------------------------------------------------------------------------
(***************************************************************************)
(* The stream cache.                                                       *)
(***************************************************************************)
LEMMA FirstIs ==
    ASSUME NEW S, S \subseteq Nat, S # {}
    PROVE  First(S) \in S /\ \A j \in S : First(S) <= j
<1>1. \E i \in S : \A j \in S : i <= j
  BY LeastNat
<1>2. QED
  BY <1>1 DEF First

\* The slot and the buffer find_or_create_stream() returns.
LEMMA FoundIs ==
    ASSUME BytesInv, NEW c \in Streams
    PROVE  /\ find_or_create_stream(c).slot \in Slots
           /\ FoundSlot(c) # {} =>
                /\ find_or_create_stream(c).slot = First(FoundSlot(c))
                /\ find_or_create_stream(c).slot \in FoundSlot(c)
                /\ find_or_create_stream(c).buf = streams[First(FoundSlot(c))].buf
           /\ FoundSlot(c) = {} => find_or_create_stream(c).buf = << >>
           /\ find_or_create_stream(c).buf \in Seq(OwnBytes(c))
           /\ Len(find_or_create_stream(c).buf) <= STREAM_BUF_MAX
<1> DEFINE s == find_or_create_stream(c)
<1>1. STREAM_CACHE_MAX \in Nat \ {0} /\ STREAM_BUF_MAX \in Nat \ {0} /\ NULL \notin Slot
  BY StreamsAssumption
<1>2. Slots \subseteq Nat /\ 1 \in Slots
  BY <1>1 DEF Slots
<1>3. streams \in [Slots -> OwnSlots \cup {NULL}]
  BY DEF BytesInv
<1>4. CASE FoundSlot(c) # {}
  <2>1. First(FoundSlot(c)) \in FoundSlot(c)
    <3>1. FoundSlot(c) \subseteq Nat
      BY <1>2 DEF FoundSlot
    <3>2. QED
      BY <1>4, <3>1, FirstIs
  <2>2. s.slot = First(FoundSlot(c)) /\ s.buf = streams[First(FoundSlot(c))].buf
    BY <1>4 DEF find_or_create_stream
  <2> DEFINE i == First(FoundSlot(c))
  <2>3. i \in Slots /\ streams[i] # NULL /\ streams[i].key = c
    BY <2>1 DEF FoundSlot
  <2> HIDE DEF i
  <2>4. streams[i] \in OwnSlots
    BY <1>3, <2>3
  <2>5. streams[i].buf \in Seq(OwnBytes(c)) /\ Len(streams[i].buf) <= STREAM_BUF_MAX
    BY <2>3, <2>4 DEF OwnSlots
  <2>6. QED
    BY <1>4, <2>1, <2>2, <2>3, <2>5 DEF i
<1>5. CASE FoundSlot(c) = {}
  <2>1. s.buf = << >> /\ s.slot = IF FreeSlot # {} THEN First(FreeSlot) ELSE 1
    BY <1>5 DEF find_or_create_stream
  <2>2. s.slot \in Slots
    <3>1. FreeSlot \subseteq Slots /\ FreeSlot \subseteq Nat
      BY <1>2 DEF FreeSlot
    <3>2. FreeSlot # {} => First(FreeSlot) \in FreeSlot
      BY <3>1, FirstIs
    <3>3. QED
      BY <1>2, <2>1, <3>1, <3>2
  <2>3. << >> \in Seq(OwnBytes(c)) /\ Len(<< >>) <= STREAM_BUF_MAX
    BY <1>1
  <2>4. QED
    BY <1>5, <2>1, <2>2, <2>3
<1>6. QED
  BY <1>4, <1>5

\* Storing a buffer for stream c: c finds it again, and no other stream loses
\* its own, unless it had the slot.
LEMMA SlotStored ==
    ASSUME BytesInv, NEW c \in Streams, NEW b, [key |-> c, buf |-> b] \in Slot,
           streams' = [streams EXCEPT ![find_or_create_stream(c).slot] = [key |-> c, buf |-> b]]
    PROVE  LET i == find_or_create_stream(c).slot
           IN  /\ find_or_create_stream(c).buf' = b
               /\ \A d \in Streams :
                    \/ d = c
                    \/ streams[i] # NULL /\ streams[i].key = d
                    \/ find_or_create_stream(d).buf' = find_or_create_stream(d).buf
<1> DEFINE i == find_or_create_stream(c).slot
<1>1. i \in Slots
  BY FoundIs
<1>2. FoundSlot(c) # {} => i = First(FoundSlot(c)) /\ i \in FoundSlot(c)
  BY FoundIs
<1>3. streams' = [streams EXCEPT ![i] = [key |-> c, buf |-> b]]
  OBVIOUS
<1>4. streams \in [Slots -> OwnSlots \cup {NULL}]
  BY DEF BytesInv
<1>5. [key |-> c, buf |-> b] # NULL
  BY StreamsAssumption
<1> HIDE DEF i
<1>6. /\ streams'[i] = [key |-> c, buf |-> b]
      /\ \A j \in Slots : j # i => streams'[j] = streams[j]
  BY <1>1, <1>3, <1>4
<1>7. streams'[i] # NULL /\ streams'[i].key = c /\ streams'[i].buf = b
  BY <1>5, <1>6
<1>8. Slots \subseteq Nat
  BY StreamsAssumption DEF Slots
<1>9. find_or_create_stream(c).buf' = b
  <2>1. i \in FoundSlot(c)'
    BY <1>1, <1>7 DEF FoundSlot
  <2>2. ASSUME NEW j \in FoundSlot(c)'
        PROVE  i <= j
    <3>1. j \in Slots /\ (j # i => j \in FoundSlot(c))
      BY <1>6 DEF FoundSlot
    <3>2. j \in FoundSlot(c) => i <= j
      <4>1. FoundSlot(c) \subseteq Nat
        BY <1>8 DEF FoundSlot
      <4>2. QED
        BY <1>2, <4>1, FirstIs
    <3>3. QED
      BY <1>1, <1>8, <3>1, <3>2
  <2>3. First(FoundSlot(c)') = i
    <3>1. FoundSlot(c)' \subseteq Nat
      BY <1>8 DEF FoundSlot, Slots
    <3>2. First(FoundSlot(c)') \in FoundSlot(c)' /\ First(FoundSlot(c)') <= i
      BY <2>1, <3>1, FirstIs
    <3>3. QED
      BY <2>1, <2>2, <3>1, <3>2
  <2>4. find_or_create_stream(c).buf' = streams'[First(FoundSlot(c)')].buf
    BY <2>1 DEF find_or_create_stream, First
  <2>5. QED
    BY <1>7, <2>3, <2>4
<1>10. ASSUME NEW d \in Streams, d # c, ~(streams[i] # NULL /\ streams[i].key = d)
       PROVE  find_or_create_stream(d).buf' = find_or_create_stream(d).buf
  <2>1. FoundSlot(d)' = FoundSlot(d) /\ i \notin FoundSlot(d)
    BY <1>6, <1>7, <1>10 DEF FoundSlot, Slots
  <2>2. CASE FoundSlot(d) = {}
    BY <2>1, <2>2 DEF find_or_create_stream, FreeSlot
  <2>3. CASE FoundSlot(d) # {}
    <3> DEFINE j == First(FoundSlot(d))
    <3>1. j \in FoundSlot(d) /\ j \in Slots
      <4>1. FoundSlot(d) \subseteq Nat /\ FoundSlot(d) \subseteq Slots
        BY <1>8 DEF FoundSlot
      <4>2. QED
        BY <2>3, <4>1, FirstIs
    <3>2. streams'[j] = streams[j]
      BY <1>6, <2>1, <3>1
    <3>3. find_or_create_stream(d).buf = streams[j].buf
      BY <2>3 DEF find_or_create_stream
    <3>4. find_or_create_stream(d).buf' = streams'[j].buf
      BY <2>1, <2>3 DEF find_or_create_stream, First
    <3>5. QED
      BY <3>2, <3>3, <3>4
  <2>4. QED
    BY <2>2, <2>3
<1>11. QED
  BY <1>9, <1>10 DEF i

LEMMA AppendedIs ==
    ASSUME NEW S, NEW buf \in Seq(S), NEW payload \in Seq(S), Len(buf) <= STREAM_BUF_MAX
    PROVE  /\ Appended(buf, payload) \in Seq(S)
           /\ Len(Appended(buf, payload)) <= STREAM_BUF_MAX
           /\ ~(Len(Appended(buf, payload)) < Len(buf) + Len(payload)) =>
                Appended(buf, payload) = buf \o payload
<1> DEFINE k == Least(Len(payload), STREAM_BUF_MAX - Len(buf))
           cut == SubSeq(payload, 1, k)
<1>1. STREAM_BUF_MAX \in Nat /\ Len(buf) \in Nat /\ Len(payload) \in Nat
  BY StreamsAssumption
<1>2. k \in Nat /\ k <= Len(payload) /\ k <= STREAM_BUF_MAX - Len(buf)
  BY <1>1 DEF Least
<1>3. Appended(buf, payload) = buf \o cut
  BY DEF Appended
<1> HIDE DEF k
<1>4. cut \in Seq(S) /\ Len(cut) = k
  <2>1. SubSeq(payload, 0 + 1, k) \in Seq(S) /\ Len(SubSeq(payload, 0 + 1, k)) = k - 0
    BY <1>1, <1>2, Slice
  <2>2. QED
    BY <1>2, <2>1
<1>5. k = Len(payload) => cut = payload
  BY SubSeqFull
<1> HIDE DEF cut
<1>6. buf \o cut \in Seq(S) /\ Len(buf \o cut) = Len(buf) + k
  BY <1>4, ConcatProperties
<1>7. Len(buf) + k <= STREAM_BUF_MAX
  BY <1>1, <1>2
<1>8. ASSUME ~(Len(buf) + k < Len(buf) + Len(payload))
      PROVE  cut = payload
  <2>1. k = Len(payload)
    BY <1>1, <1>2, <1>8
  <2>2. QED
    BY <1>5, <2>1
<1>9. QED
  BY <1>3, <1>6, <1>7, <1>8

LEMMA DrainOwn ==
    ASSUME NEW c \in Streams, NEW buf \in Seq(OwnBytes(c))
    PROVE  /\ drain_h2_frames(buf).frames \in Seq(Seq(OwnBytes(c)))
           /\ drain_h2_frames(buf).buf \in Seq(OwnBytes(c))
           /\ Len(drain_h2_frames(buf).buf) <= Len(buf)
<1>1. buf \in Seq(Bytes)
  BY OwnAreBytes
<1>2. PICK Off, K : Drains(buf, Off, K)
  BY <1>1, DrainDoes
<1> DEFINE L == Len(buf)
           frames == [n \in 1..K |-> SubSeq(buf, Off[n - 1] + 1, Off[n])]
<1>3. /\ K \in 0..L /\ Off \in [0..K -> 0..L]
      /\ \A n \in 1..K : Off[n - 1] < Off[n]
  BY <1>2 DEF Drains
<1>4. drain_h2_frames(buf) = [frames |-> frames, buf |-> SubSeq(buf, Off[K] + 1, L)]
  BY <1>2 DEF Drains
<1>5. L \in Nat /\ K \in Nat
  BY <1>3
<1>6. ASSUME NEW n \in 1..K
      PROVE  SubSeq(buf, Off[n - 1] + 1, Off[n]) \in Seq(OwnBytes(c))
  <2>1. n \in 0..K /\ n - 1 \in 0..K
    BY <1>5
  <2>2. Off[n] \in Nat /\ Off[n] <= Len(buf) /\ Off[n - 1] \in Nat /\ Off[n - 1] <= Off[n]
    BY <1>3, <1>5, <2>1
  <2>3. QED
    BY <2>2, Slice
<1>7. frames \in Seq(Seq(OwnBytes(c)))
  BY <1>5, <1>6
<1>8. SubSeq(buf, Off[K] + 1, L) \in Seq(OwnBytes(c)) /\ Len(SubSeq(buf, Off[K] + 1, L)) <= L
  <2>1. Off[K] \in Nat /\ Off[K] <= Len(buf)
    BY <1>3, <1>5
  <2>2. SubSeq(buf, Off[K] + 1, L) \in Seq(OwnBytes(c))
        /\ Len(SubSeq(buf, Off[K] + 1, L)) = L - Off[K]
    BY <1>5, <2>1, Slice
  <2>3. QED
    BY <1>5, <2>1, <2>2
<1> HIDE DEF frames
<1>9. QED
  BY <1>4, <1>7, <1>8

\* The types after an event of a TCP packet with payload.
LEMMA ReassembleTypes ==
    ASSUME BytesInv, NEW e \in OtherEvents, Reassemble(e)
    PROVE  /\ streams' \in [Slots -> OwnSlots \cup {NULL}]
           /\ shown' = [c \in Streams |-> shown'[c]]
           /\ \A c \in Streams : shown'[c] \in Seq(Seq(OwnBytes(c)))
           /\ evicted' \subseteq Streams /\ overrun' \subseteq Streams
<1> DEFINE c == e.key
           s == find_or_create_stream(c)
           full == Appended(s.buf, e.payload)
           d == drain_h2_frames(full)
<1>1. c \in Streams /\ e.payload \in Seq(OwnBytes(c))
  BY EventIs DEF OtherEvents
<1>2. s.slot \in Slots /\ s.buf \in Seq(OwnBytes(c)) /\ Len(s.buf) <= STREAM_BUF_MAX
  <2> HIDE DEF c
  <2>1. QED
    BY <1>1, FoundIs
<1>3. full \in Seq(OwnBytes(c)) /\ Len(full) <= STREAM_BUF_MAX
  <2> HIDE DEF c, s
  <2>1. QED
    BY <1>1, <1>2, AppendedIs
<1>4. /\ d.frames \in Seq(Seq(OwnBytes(c))) /\ d.buf \in Seq(OwnBytes(c))
      /\ Len(d.buf) <= Len(full)
  <2> HIDE DEF c, s, full
  <2>1. QED
    BY <1>1, <1>3, DrainOwn
<1>5. /\ streams' = [streams EXCEPT ![s.slot] = [key |-> c, buf |-> d.buf]]
      /\ shown' = [shown EXCEPT ![c] = @ \o d.frames]
      /\ evicted' = IF streams[s.slot] # NULL /\ streams[s.slot].key # c
                      THEN evicted \cup {streams[s.slot].key} ELSE evicted
      /\ overrun' = IF Len(full) < Len(s.buf) + Len(e.payload)
                      THEN overrun \cup {c} ELSE overrun
  BY DEF Reassemble
<1> HIDE DEF c, s, full, d
<1>6. /\ streams \in [Slots -> OwnSlots \cup {NULL}] /\ shown = [k \in Streams |-> shown[k]]
      /\ \A k \in Streams : shown[k] \in Seq(Seq(OwnBytes(k)))
      /\ evicted \subseteq Streams /\ overrun \subseteq Streams
  BY DEF BytesInv
<1>7. [key |-> c, buf |-> d.buf] \in OwnSlots
  <2>1. d.buf \in Seq(Bytes)
    BY <1>1, <1>4, OwnAreBytes
  <2>2. Len(d.buf) <= STREAM_BUF_MAX
    <3>1. Len(d.buf) \in Nat /\ Len(full) \in Nat /\ STREAM_BUF_MAX \in Nat
      BY <1>3, <1>4, StreamsAssumption
    <3>2. QED
      BY <1>3, <1>4, <3>1
  <2>3. QED
    BY <1>1, <1>4, <2>1, <2>2 DEF OwnSlots, Slot
<1>8. streams' \in [Slots -> OwnSlots \cup {NULL}]
  BY <1>2, <1>5, <1>6, <1>7
<1>9. shown[c] \o d.frames \in Seq(Seq(OwnBytes(c)))
  BY <1>1, <1>4, <1>6, ConcatProperties
<1>10. /\ shown' = [k \in Streams |-> shown'[k]] /\ shown'[c] = shown[c] \o d.frames
       /\ \A k \in Streams : k # c => shown'[k] = shown[k]
  BY <1>1, <1>5, <1>6
<1>11. \A k \in Streams : shown'[k] \in Seq(Seq(OwnBytes(k)))
  BY <1>6, <1>9, <1>10
<1>12. evicted' \subseteq Streams
  <2>1. streams[s.slot] # NULL => streams[s.slot].key \in Streams
    BY <1>2, <1>6 DEF OwnSlots, Slot
  <2>2. QED
    BY <1>5, <1>6, <2>1
<1>13. overrun' \subseteq Streams
  BY <1>1, <1>5, <1>6
<1>14. QED
  BY <1>8, <1>10, <1>11, <1>12, <1>13

LEMMA BytesInit ==
    ASSUME StreamsInit
    PROVE  BytesInv
<1>1. \A c \in Streams : Len(Sent[c]) \in Nat
  BY SentIs
<1>2. /\ << >> \in Seq(NgapEvents \cup OtherEvents)
      /\ \A c \in Streams : << >> \in Seq(Seq(OwnBytes(c)))
  OBVIOUS
<1>3. RingSize \in Nat
  BY StreamsAssumption
<1>4. QED
  BY <1>1, <1>2, <1>3 DEF StreamsInit, BytesInv

LEMMA BytesStep ==
    ASSUME BytesInv, [StreamsNext]_stream_vars
    PROVE  BytesInv'
<1>1. CASE Packet
  <2>1. /\ Delivered /\ UNCHANGED << streams, handled, shown, evicted, overrun >>
        /\ next' \in [Streams -> Nat] /\ \A c \in Streams : next'[c] <= Len(Sent[c])
    BY <1>1, PacketDoes
  <2>2. events' \in Seq(NgapEvents \cup OtherEvents) /\ Len(events') <= RingSize
    <3>1. /\ events \in Seq(NgapEvents \cup OtherEvents) /\ Len(events) <= RingSize
          /\ RingSize \in Nat
      BY StreamsAssumption DEF BytesInv
    <3>2. CASE events' = events
      BY <3>1, <3>2
    <3>3. ASSUME NEW ev, Delivers(ev)
          PROVE  events' \in Seq(NgapEvents \cup OtherEvents) /\ Len(events') <= RingSize
      <4>1. /\ ev \in NgapEvents \cup OtherEvents /\ Len(events) < RingSize
            /\ events' = Append(events, ev)
        BY <3>3 DEF Delivers
      <4> DEFINE Ev == NgapEvents \cup OtherEvents
      <4>2. ev \in Ev /\ events \in Seq(Ev)
        BY <3>1, <4>1
      <4> HIDE DEF Ev
      <4>3. events' \in Seq(Ev) /\ Len(events') = Len(events) + 1
        BY <4>1, <4>2
      <4>4. QED
        BY <3>1, <4>1, <4>2, <4>3 DEF Ev
    <3>4. QED
      BY <2>1, <3>2, <3>3 DEF Delivered
  <2>3. unseen' \subseteq Streams
    BY <2>1 DEF Delivered
  <2>4. QED
    BY <2>1, <2>2, <2>3 DEF BytesInv
<1>2. CASE handle_xdp_event
  <2> DEFINE e == Head(events)
             Ev == NgapEvents \cup OtherEvents
  <2>1. /\ events # << >> /\ events' = Tail(events) /\ next' = next
        /\ \/ e.type = "NGAP" /\ UNCHANGED << streams, history >>
           \/ /\ e.type = "OTHER" /\ handled' = [handled EXCEPT ![e.key] = @ + e.new]
              /\ \/ UNCHANGED << streams, shown, evicted, overrun >>
                 \/ Reassemble(e)
              /\ unseen' = unseen
    BY <1>2 DEF handle_xdp_event
  <2>2. e \in Ev /\ events' \in Seq(Ev) /\ Len(events') <= RingSize
    <3>1. events \in Seq(Ev) /\ Len(events) <= RingSize /\ RingSize \in Nat
      BY StreamsAssumption DEF BytesInv
    <3> HIDE DEF Ev
    <3>2. e \in Ev /\ Tail(events) \in Seq(Ev) /\ Len(Tail(events)) = Len(events) - 1
          /\ Len(events) \in Nat
      BY <2>1, <3>1
    <3> HIDE DEF e
    <3>3. QED
      BY <2>1, <3>1, <3>2
  <2> HIDE DEF e
  <2>3. CASE e.type = "NGAP" /\ UNCHANGED << streams, history >>
    BY <2>1, <2>2, <2>3 DEF BytesInv, history
  <2>4. CASE /\ e.type = "OTHER" /\ handled' = [handled EXCEPT ![e.key] = @ + e.new]
             /\ \/ UNCHANGED << streams, shown, evicted, overrun >>
                \/ Reassemble(e)
             /\ unseen' = unseen
    <3>1. e \in OtherEvents /\ e.key \in Streams /\ e.new \in Nat
      BY <2>2, <2>4, EventIs
    <3>2. handled' \in [Streams -> Nat]
      BY <2>4, <3>1 DEF BytesInv
    <3>3. /\ streams' \in [Slots -> OwnSlots \cup {NULL}]
          /\ shown' = [c \in Streams |-> shown'[c]]
          /\ \A c \in Streams : shown'[c] \in Seq(Seq(OwnBytes(c)))
          /\ evicted' \subseteq Streams /\ overrun' \subseteq Streams
      <4>1. CASE UNCHANGED << streams, shown, evicted, overrun >>
        BY <4>1 DEF BytesInv
      <4>2. CASE Reassemble(e)
        BY <3>1, <4>2, ReassembleTypes
      <4>3. QED
        BY <2>4, <4>1, <4>2
    <3>4. QED
      BY <2>1, <2>2, <2>4, <3>2, <3>3 DEF BytesInv
  <2>5. QED
    BY <2>1, <2>3, <2>4
<1>3. CASE UNCHANGED stream_vars
  BY <1>3 DEF BytesInv, stream_vars, history
<1>4. QED
  BY <1>1, <1>2, <1>3 DEF StreamsNext

\* struct tcp_stream, find_or_create_stream(): whatever was lost, repeated,
\* evicted or overrun, a printed frame has no byte of another stream, for any
\* number of streams and slots.
THEOREM FramesOwn == StreamsSpec => []NoForeignBytes
<1>1. StreamsInit => BytesInv
  BY BytesInit
<1>2. BytesInv /\ [StreamsNext]_stream_vars => BytesInv'
  BY BytesStep
<1>3. BytesInv => NoForeignBytes
  <2> SUFFICES ASSUME BytesInv, NEW c \in Streams, NEW n \in DOMAIN shown[c],
                      NEW i \in DOMAIN shown[c][n]
               PROVE  shown[c][n][i].from \in {c, NULL}
    BY DEF NoForeignBytes
  <2>1. shown[c] \in Seq(Seq(OwnBytes(c)))
    BY DEF BytesInv
  <2>2. shown[c][n] \in Seq(OwnBytes(c))
    BY <2>1
  <2>3. shown[c][n][i] \in OwnBytes(c)
    BY <2>2
  <2>4. QED
    BY <2>3 DEF OwnBytes
<1>4. QED
  BY <1>1, <1>2, <1>3, PTL DEF StreamsSpec

-----------------------------------------------------------------------------
(***************************************************************************)
(* The second invariant.  The events in the ring buffer carry, each from   *)
(* where the one before it ended, what was sent behind what was handled.   *)
(* At[i] is the position in stream c at which event i starts.              *)
(***************************************************************************)
Advance(e, c) == IF OfStream(e, c) THEN e.new ELSE 0

Flight(At, c, ev, sent, done, lost) ==
    /\ At \in [1..(Len(ev) + 1) -> 0..sent] /\ At[1] = done
    /\ \A i \in 1..Len(ev) : At[i + 1] = At[i] + Advance(ev[i], c)
    /\ ~lost =>
         /\ At[Len(ev) + 1] = sent
         /\ \A i \in 1..Len(ev) :
              OfStream(ev[i], c) => ev[i].payload = SubSeq(Sent[c], At[i] + 1, At[i + 1])

InFlight(c) == \E At : Flight(At, c, events, next[c], handled[c], c \in unseen)

FlightInv == \A c \in Streams : InFlight(c)

LEMMA FlightAppend ==
    ASSUME NEW c, NEW Ev, NEW ev \in Seq(Ev), NEW x \in Ev, NEW sent \in Nat, NEW more \in Nat,
           NEW done, NEW lost, NEW lost2, NEW At, Flight(At, c, ev, sent, done, lost),
           Advance(x, c) \in Nat, sent + Advance(x, c) <= more,
           ~lost2 => /\ ~lost /\ more = sent + Advance(x, c)
                     /\ OfStream(x, c) => x.payload = SubSeq(Sent[c], sent + 1, more)
    PROVE  \E B : Flight(B, c, Append(ev, x), more, done, lost2)
<1> DEFINE L == Len(ev)
           a == Advance(x, c)
           w == Append(ev, x)
           B == [i \in 1..(L + 2) |-> IF i = L + 2 THEN At[L + 1] + a ELSE At[i]]
<1>1. L \in Nat /\ a \in Nat
  OBVIOUS
<1>2. Len(w) = L + 1 /\ w[L + 1] = x /\ \A i \in 1..L : w[i] = ev[i]
  BY AppendProperties
<1>3. At \in [1..(L + 1) -> 0..sent] /\ At[1] = done
  BY DEF Flight
<1>4. \A i \in 1..L : At[i + 1] = At[i] + Advance(ev[i], c)
  BY DEF Flight
<1>5. ~lost => /\ At[L + 1] = sent
               /\ \A i \in 1..L :
                    OfStream(ev[i], c) => ev[i].payload = SubSeq(Sent[c], At[i] + 1, At[i + 1])
  BY DEF Flight
<1>6. sent + a <= more
  OBVIOUS
<1> HIDE DEF L, a, w
<1>7. At[L + 1] \in Nat /\ At[L + 1] <= sent
  BY <1>1, <1>3
<1>8. B \in [1..(L + 2) -> 0..more] /\ B[1] = done
  <2>1. At[L + 1] + a \in 0..more /\ \A i \in 0..sent : i \in 0..more
    BY <1>1, <1>6, <1>7
  <2>2. \A i \in 1..(L + 2) : i # L + 2 => i \in 1..(L + 1)
    BY <1>1
  <2>3. 1 \in 1..(L + 2) /\ 1 # L + 2
    BY <1>1
  <2>4. QED
    BY <1>3, <2>1, <2>2, <2>3
<1>9. B[L + 2] = At[L + 1] + a /\ \A i \in 1..(L + 1) : B[i] = At[i]
  BY <1>1
<1> HIDE DEF B
<1>10. ASSUME NEW i \in 1..(L + 1)
       PROVE  B[i + 1] = B[i] + Advance(w[i], c)
  <2>1. CASE i = L + 1
    <3>1. i + 1 = L + 2 /\ L + 1 \in 1..(L + 1)
      BY <1>1, <2>1
    <3>2. QED
      BY <1>2, <1>9, <2>1, <3>1 DEF a
  <2>2. CASE i # L + 1
    <3>1. i \in 1..L /\ i + 1 \in 1..(L + 1)
      BY <1>1, <2>2
    <3>2. QED
      BY <1>2, <1>4, <1>9, <3>1
  <2>3. QED
    BY <2>1, <2>2
<1>11. ASSUME ~lost2
       PROVE  /\ B[L + 2] = more
              /\ \A i \in 1..(L + 1) : OfStream(w[i], c) =>
                   w[i].payload = SubSeq(Sent[c], B[i] + 1, B[i + 1])
  <2>1. ~lost /\ more = sent + a /\ (OfStream(x, c) => x.payload = SubSeq(Sent[c], sent + 1, more))
    BY <1>11 DEF a
  <2>2. B[L + 2] = more /\ B[L + 1] = sent
    <3>1. L + 1 \in 1..(L + 1)
      BY <1>1
    <3>2. QED
      BY <1>5, <1>9, <2>1, <3>1
  <2>3. ASSUME NEW i \in 1..(L + 1), OfStream(w[i], c)
        PROVE  w[i].payload = SubSeq(Sent[c], B[i] + 1, B[i + 1])
    <3>1. CASE i = L + 1
      <4>1. i + 1 = L + 2
        BY <1>1, <3>1
      <4>2. QED
        BY <1>2, <2>1, <2>2, <2>3, <3>1, <4>1
    <3>2. CASE i # L + 1
      <4>1. i \in 1..L /\ i \in 1..(L + 1) /\ i + 1 \in 1..(L + 1)
        BY <1>1, <3>2
      <4>2. QED
        BY <1>2, <1>5, <1>9, <2>1, <2>3, <4>1
    <3>3. QED
      BY <3>1, <3>2
  <2>4. QED
    BY <2>2, <2>3
<1>12. Len(w) + 1 = L + 2
  BY <1>1, <1>2
<1>13. Flight(B, c, w, more, done, lost2)
  BY <1>2, <1>8, <1>10, <1>11, <1>12 DEF Flight
<1>14. QED
  BY <1>13 DEF w

LEMMA FlightTail ==
    ASSUME NEW c, NEW Ev, NEW ev \in Seq(Ev), ev # << >>, NEW sent \in Nat,
           NEW done, NEW lost, NEW At, Flight(At, c, ev, sent, done, lost)
    PROVE  /\ \E B : Flight(B, c, Tail(ev), sent, done + Advance(Head(ev), c), lost)
           /\ done + Advance(Head(ev), c) \in 0..sent
           /\ ~lost /\ OfStream(Head(ev), c) =>
                Head(ev).payload = SubSeq(Sent[c], done + 1, done + Advance(Head(ev), c))
<1> DEFINE L == Len(ev)
           a == Advance(Head(ev), c)
           w == Tail(ev)
           B == [i \in 1..L |-> At[i + 1]]
<1>1. L \in Nat /\ L > 0 /\ Head(ev) = ev[1]
  OBVIOUS
<1>2. Len(w) = L - 1 /\ \A i \in 1..(L - 1) : w[i] = ev[i + 1]
  <2>1. Len(w) = L - 1 /\ \A i \in 1..Len(w) : w[i] = ev[i + 1]
    BY HeadTailProperties
  <2>2. QED
    BY <2>1
<1>3. At \in [1..(L + 1) -> 0..sent] /\ At[1] = done
  BY DEF Flight
<1>4. \A i \in 1..L : At[i + 1] = At[i] + Advance(ev[i], c)
  BY DEF Flight
<1>5. ~lost => /\ At[L + 1] = sent
               /\ \A i \in 1..L :
                    OfStream(ev[i], c) => ev[i].payload = SubSeq(Sent[c], At[i] + 1, At[i + 1])
  BY DEF Flight
<1> HIDE DEF L, w
<1>6. 1 \in 1..L /\ 1 + 1 \in 1..(L + 1) /\ 1 + 1 = 2
  BY <1>1
<1>7. At[2] = done + a /\ At[2] \in 0..sent
  <2>1. At[1 + 1] = At[1] + Advance(ev[1], c) /\ At[1 + 1] \in 0..sent
    BY <1>3, <1>4, <1>6
  <2>2. QED
    BY <1>1, <1>3, <1>6, <2>1
<1>8. ~lost /\ OfStream(Head(ev), c) => Head(ev).payload = SubSeq(Sent[c], done + 1, done + a)
  <2> HIDE DEF a
  <2>1. ~lost /\ OfStream(ev[1], c) => ev[1].payload = SubSeq(Sent[c], At[1] + 1, At[1 + 1])
    BY <1>5, <1>6
  <2>2. QED
    BY <1>1, <1>3, <1>6, <1>7, <2>1
<1> HIDE DEF a
<1>9. B \in [1..L -> 0..sent]
  <2>1. \A i \in 1..L : i + 1 \in 1..(L + 1)
    BY <1>1
  <2>2. QED
    BY <1>3, <2>1
<1>10. B[1] = done + a
  BY <1>6, <1>7
<1>11. \A i \in 1..(L - 1) : /\ i \in 1..L /\ i + 1 \in 1..L
                             /\ B[i] = At[i + 1] /\ B[i + 1] = At[(i + 1) + 1]
  BY <1>1
<1>12. ~lost => B[L] = sent
  BY <1>1, <1>5
<1> HIDE DEF B
<1>13. \A i \in 1..(L - 1) : B[i + 1] = B[i] + Advance(w[i], c)
  <2>1. ASSUME NEW i \in 1..(L - 1)
        PROVE  B[i + 1] = B[i] + Advance(w[i], c)
    <3>1. At[(i + 1) + 1] = At[i + 1] + Advance(ev[i + 1], c)
      BY <1>4, <1>11
    <3>2. QED
      BY <1>2, <1>11, <3>1
  <2>2. QED
    BY <2>1
<1>14. ASSUME ~lost, NEW i \in 1..(L - 1), OfStream(w[i], c)
       PROVE  w[i].payload = SubSeq(Sent[c], B[i] + 1, B[i + 1])
  <2>1. OfStream(ev[i + 1], c) =>
          ev[i + 1].payload = SubSeq(Sent[c], At[i + 1] + 1, At[(i + 1) + 1])
    BY <1>5, <1>11, <1>14
  <2>2. QED
    BY <1>2, <1>11, <1>14, <2>1
<1>15. Len(w) + 1 = L
  BY <1>1, <1>2
<1>16. Flight(B, c, w, sent, done + a, lost)
  BY <1>2, <1>9, <1>10, <1>12, <1>13, <1>14, <1>15 DEF Flight
<1>17. QED
  BY <1>7, <1>8, <1>16 DEF w, a

LEMMA FlightMore ==
    ASSUME NEW c, NEW ev, NEW sent \in Nat, NEW more \in Nat, sent <= more,
           NEW done, NEW lost, NEW lost2, NEW At, Flight(At, c, ev, sent, done, lost),
           ~lost2 => ~lost /\ more = sent
    PROVE  Flight(At, c, ev, more, done, lost2)
<1>1. 0..sent \subseteq 0..more
  OBVIOUS
<1>2. QED
  BY <1>1 DEF Flight

LEMMA FlightInit ==
    ASSUME StreamsInit
    PROVE  FlightInv
<1> SUFFICES ASSUME NEW c \in Streams PROVE InFlight(c)
  BY DEF FlightInv
<1>1. events = << >> /\ next[c] = 0 /\ handled[c] = 0 /\ Len(events) = 0
  BY DEF StreamsInit
<1>2. Flight([i \in 1..1 |-> 0], c, events, next[c], handled[c], c \in unseen)
  BY <1>1 DEF Flight
<1>3. QED
  BY <1>2 DEF InFlight

\* What handling an event adds to what was handled of stream c.
LEMMA HandledGrows ==
    ASSUME BytesInv, handle_xdp_event, NEW c \in Streams
    PROVE  /\ Head(events) \in NgapEvents \cup OtherEvents
           /\ Advance(Head(events), c) \in Nat
           /\ handled'[c] = handled[c] + Advance(Head(events), c)
<1> DEFINE e == Head(events)
<1>1. /\ events # << >>
      /\ \/ e.type = "NGAP" /\ handled' = handled
         \/ e.type = "OTHER" /\ handled' = [handled EXCEPT ![e.key] = @ + e.new]
  BY DEF handle_xdp_event, history
<1>2. e \in NgapEvents \cup OtherEvents
  <2> DEFINE Ev == NgapEvents \cup OtherEvents
  <2>1. events \in Seq(Ev)
    BY DEF BytesInv
  <2> HIDE DEF Ev
  <2>2. e \in Ev
    BY <1>1, <2>1
  <2>3. QED
    BY <2>2 DEF Ev
<1> HIDE DEF e
<1>3. handled \in [Streams -> Nat] /\ handled[c] \in Nat
  BY DEF BytesInv
<1>4. CASE e.type = "NGAP" /\ handled' = handled
  <2>1. Advance(e, c) = 0
    BY <1>4 DEF Advance, OfStream
  <2>2. QED
    BY <1>2, <1>3, <1>4, <2>1 DEF e
<1>5. CASE e.type = "OTHER" /\ handled' = [handled EXCEPT ![e.key] = @ + e.new]
  <2>1. e.key \in Streams /\ e.new \in Nat
    BY <1>2, <1>5, EventIs
  <2>2. CASE e.key = c
    <3>1. Advance(e, c) = e.new
      BY <1>5, <2>2 DEF Advance, OfStream
    <3>2. handled'[c] = handled[c] + e.new
      BY <1>3, <1>5, <2>2
    <3>3. QED
      BY <1>2, <2>1, <3>1, <3>2 DEF e
  <2>3. CASE e.key # c
    <3>1. Advance(e, c) = 0
      BY <2>3 DEF Advance, OfStream
    <3>2. handled'[c] = handled[c]
      BY <1>3, <1>5, <2>3
    <3>3. QED
      BY <1>2, <1>3, <3>1, <3>2 DEF e
  <2>4. QED
    BY <2>2, <2>3
<1>6. QED
  BY <1>1, <1>4, <1>5

LEMMA FlightStep ==
    ASSUME BytesInv, FlightInv, [StreamsNext]_stream_vars
    PROVE  FlightInv'
<1> SUFFICES ASSUME NEW c \in Streams PROVE InFlight(c)'
  BY DEF FlightInv
<1>1. PICK At : Flight(At, c, events, next[c], handled[c], c \in unseen)
  BY DEF FlightInv, InFlight
<1> SUFFICES \E B : Flight(B, c, events', next'[c], handled'[c], c \in unseen')
  BY DEF InFlight
<1> DEFINE Ev == NgapEvents \cup OtherEvents
<1>2. events \in Seq(Ev) /\ next[c] \in Nat
  BY DEF BytesInv
<1>3. CASE Packet
  <2>1. /\ Delivered /\ handled' = handled /\ next'[c] \in Nat /\ next[c] <= next'[c]
    BY <1>3, PacketDoes
  <2>2. c \notin unseen' => c \notin unseen
    BY <2>1 DEF Delivered
  <2>3. CASE events' = events /\ \A k \in Streams \ unseen' : next'[k] = next[k]
    <3>1. ~(c \in unseen') => ~(c \in unseen) /\ next'[c] = next[c]
      BY <2>2, <2>3
    <3>2. Flight(At, c, events, next'[c], handled[c], c \in unseen')
      BY <1>1, <1>2, <2>1, <3>1, FlightMore
    <3>3. QED
      BY <2>1, <2>3, <3>2
  <2>4. ASSUME NEW ev, Delivers(ev)
        PROVE  \E B : Flight(B, c, events', next'[c], handled'[c], c \in unseen')
    <3> HIDE DEF Ev
    <3>1. ev \in Ev /\ events' = Append(events, ev)
      BY <2>4 DEF Delivers, Ev
    <3>2. OfStream(ev, c) => ev.new \in Nat
      BY <3>1, EventIs DEF Ev, OfStream
    <3>3. Advance(ev, c) \in Nat
      BY <3>2 DEF Advance
    <3>4. next[c] + Advance(ev, c) <= next'[c]
      <4>1. CASE OfStream(ev, c)
        BY <2>4, <4>1 DEF Delivers, Advance
      <4>2. CASE ~OfStream(ev, c)
        <5>1. Advance(ev, c) = 0
          BY <4>2 DEF Advance
        <5>2. QED
          BY <1>2, <2>1, <5>1
      <4>3. QED
        BY <4>1, <4>2
    <3>5. ASSUME ~(c \in unseen')
          PROVE  /\ ~(c \in unseen) /\ next'[c] = next[c] + Advance(ev, c)
                 /\ OfStream(ev, c) => ev.payload = SubSeq(Sent[c], next[c] + 1, next'[c])
      <4>1. CASE OfStream(ev, c)
        BY <2>2, <2>4, <3>5, <4>1 DEF Delivers, Advance
      <4>2. CASE ~OfStream(ev, c)
        <5>1. Advance(ev, c) = 0 /\ next'[c] = next[c]
          BY <2>4, <3>5, <4>2 DEF Delivers, Advance
        <5>2. QED
          BY <1>2, <2>2, <3>5, <4>2, <5>1
      <4>3. QED
        BY <4>1, <4>2
    <3>6. \E B : Flight(B, c, Append(events, ev), next'[c], handled[c], c \in unseen')
      BY <1>1, <1>2, <2>1, <3>1, <3>3, <3>4, <3>5, FlightAppend
    <3>7. QED
      BY <2>1, <3>1, <3>6
  <2>5. QED
    BY <2>1, <2>3, <2>4 DEF Delivered
<1>4. CASE handle_xdp_event
  <2>1. /\ events # << >> /\ events' = Tail(events) /\ next' = next /\ unseen' = unseen
    BY <1>4 DEF handle_xdp_event, history
  <2>2. handled'[c] = handled[c] + Advance(Head(events), c)
    BY <1>4, HandledGrows
  <2> HIDE DEF Ev
  <2>3. \E B : Flight(B, c, Tail(events), next[c],
                      handled[c] + Advance(Head(events), c), c \in unseen)
    BY <1>1, <1>2, <2>1, FlightTail
  <2>4. QED
    BY <2>1, <2>2, <2>3
<1>5. CASE UNCHANGED stream_vars
  BY <1>1, <1>5 DEF stream_vars, history
<1>6. QED
  BY <1>3, <1>4, <1>5 DEF StreamsNext

LEMMA StateTypes ==
    ASSUME BytesInv, FlightInv
    PROVE  StreamsTypeOK
<1>1. ASSUME NEW c \in Streams
      PROVE  next[c] \in 0..Len(Sent[c]) /\ handled[c] <= next[c]
  <2>1. next[c] \in Nat /\ next[c] <= Len(Sent[c]) /\ handled[c] \in Nat
    BY DEF BytesInv
  <2>2. Len(Sent[c]) \in Nat
    BY SentIs
  <2>3. PICK At : Flight(At, c, events, next[c], handled[c], c \in unseen)
    BY DEF FlightInv, InFlight
  <2>4. At \in [1..(Len(events) + 1) -> 0..next[c]] /\ At[1] = handled[c]
    BY <2>3 DEF Flight
  <2>5. 1 \in 1..(Len(events) + 1)
    <3>1. Len(events) \in Nat
      BY DEF BytesInv
    <3>2. QED
      BY <3>1
  <2>6. QED
    BY <2>1, <2>2, <2>4, <2>5
<1>2. ASSUME NEW i \in Slots, streams[i] # NULL
      PROVE  /\ streams[i].key \in Streams /\ streams[i].buf \in Seq(Bytes)
             /\ Len(streams[i].buf) <= STREAM_BUF_MAX
  BY <1>2 DEF BytesInv, OwnSlots, Slot
<1>3. Len(events) <= RingSize /\ evicted \cup overrun \cup unseen \subseteq Streams
  BY DEF BytesInv
<1>4. QED
  BY <1>1, <1>2, <1>3 DEF StreamsTypeOK

\* The types; a buffer never holds more than STREAM_BUF_MAX bytes, and no more
\* of a stream is handled than was sent.
THEOREM StreamsTypes == StreamsSpec => []StreamsTypeOK
<1>1. StreamsInit => BytesInv /\ FlightInv
  BY BytesInit, FlightInit
<1>2. BytesInv /\ FlightInv /\ [StreamsNext]_stream_vars => BytesInv' /\ FlightInv'
  BY BytesStep, FlightStep
<1>3. BytesInv /\ FlightInv => StreamsTypeOK
  BY StateTypes
<1>4. QED
  BY <1>1, <1>2, <1>3, PTL DEF StreamsSpec

-----------------------------------------------------------------------------
(***************************************************************************)
(* The third invariant.  Of a stream nothing happened to, frames[1],       *)
(* frames[2], ... are the frames sent, all that ended in the done bytes    *)
(* handled, and the buffer is the start of the next one.                   *)
(***************************************************************************)
Reassembled(c, frames, done, buf) ==
    LET m == Len(frames)
    IN  /\ m <= Len(FramesOf[c]) /\ Ends(c)[m] <= done
        /\ m = Len(FramesOf[c]) \/ done < Ends(c)[m + 1]
        /\ \A n \in 1..m : frames[n] = SubSeq(Sent[c], Ends(c)[n - 1] + 1, Ends(c)[n])
        /\ buf = SubSeq(Sent[c], Ends(c)[m] + 1, done)

Untouched == Streams \ (unseen \cup evicted \cup overrun)

InStepInv ==
    \A c \in Untouched :
        Reassembled(c, shown[c], handled[c], find_or_create_stream(c).buf)

LEMMA DrainStep ==
    ASSUME NEW c \in Streams, NEW frames \in Seq(Seq(OwnBytes(c))), NEW done \in Nat,
           NEW more \in Nat, done <= more, more <= Len(Sent[c]), NEW buf,
           Reassembled(c, frames, done, buf)
    PROVE  LET d == drain_h2_frames(buf \o SubSeq(Sent[c], done + 1, more))
           IN  Reassembled(c, frames \o d.frames, more, d.buf)
<1> DEFINE N == Len(FramesOf[c])
           E == Ends(c)
           S == Sent[c]
           m == Len(frames)
           full == SubSeq(S, E[m] + 1, more)
           d == drain_h2_frames(full)
<1>1. m \in Nat /\ N \in Nat
  BY FramesAre
<1>2. m <= N /\ E[m] <= done /\ buf = SubSeq(S, E[m] + 1, done)
  BY DEF Reassembled
<1>3. \A n \in 1..m : frames[n] = SubSeq(S, E[n - 1] + 1, E[n])
  BY DEF Reassembled
<1>4. E[m] \in Nat
  <2>1. m \in 0..N
    BY <1>1, <1>2
  <2>2. QED
    BY <2>1, EndsAre
<1>5. S \in Seq(Bytes) /\ S \in Seq(OwnBytes(c)) /\ Len(S) \in Nat
  BY SentIs, SentOwn
<1>6. done <= more /\ more <= Len(S)
  OBVIOUS
<1>7. PICK K : Cuts(c, m, more, K)
  <2> HIDE DEF m
  <2>1. Ends(c)[m] <= more
    BY <1>2, <1>4, <1>6
  <2>2. QED
    BY <1>1, <1>2, <2>1, DrainExact
<1> DEFINE cut == [n \in 1..K |-> SubSeq(S, E[m + n - 1] + 1, E[m + n])]
<1>8. /\ K \in Nat /\ m + K <= N /\ E[m + K] <= more /\ (m + K = N \/ more < E[m + K + 1])
      /\ d = [frames |-> cut, buf |-> SubSeq(S, E[m + K] + 1, more)]
  BY <1>7 DEF Cuts
<1> HIDE DEF S, E, N, m
<1>9. buf \o SubSeq(S, done + 1, more) = full
  <2>1. /\ E[m] + 1 \in 1..(Len(S) + 1) /\ done \in ((E[m] + 1) - 1)..Len(S)
        /\ more \in done..Len(S)
    BY <1>2, <1>4, <1>5, <1>6
  <2>2. QED
    BY <1>2, <1>5, <2>1, ConcatAdjacentSubSeq
<1>10. d.frames = cut /\ d.buf = SubSeq(S, E[m + K] + 1, more)
  <2> HIDE DEF d, cut
  <2>1. d = [frames |-> cut, buf |-> SubSeq(S, E[m + K] + 1, more)]
    BY <1>8
  <2>2. QED
    BY <2>1
<1> HIDE DEF d, full
<1>11. \A n \in 0..N : E[n] \in Nat
  BY EndsAre DEF E, N
<1>12. cut \in Seq(Seq(OwnBytes(c))) /\ Len(cut) = K
       /\ \A n \in 1..K : cut[n] = SubSeq(S, E[m + n - 1] + 1, E[m + n])
  <2>1. ASSUME NEW n \in 1..K
        PROVE  SubSeq(S, E[m + n - 1] + 1, E[m + n]) \in Seq(OwnBytes(c))
    <3>1. m + n \in 0..N /\ m + n - 1 \in 0..N /\ N \in 0..N /\ m + n - 1 < m + n
      BY <1>1, <1>8
    <3>2. E[m + n] \in Nat /\ E[m + n - 1] \in Nat
      BY <1>11, <3>1
    <3>3. E[m + n - 1] <= E[m + n] /\ E[m + n] <= Len(S)
      <4>1. E[m + n - 1] < E[m + n] /\ (m + n < N => E[m + n] < E[N]) /\ Len(S) = E[N]
        BY <3>1, EndsGrow, SentIs DEF E, N, S
      <4>2. QED
        BY <1>5, <3>1, <3>2, <4>1
    <3>4. QED
      BY <1>5, <3>2, <3>3, Slice
  <2>2. K \in Nat
    BY <1>8
  <2> DEFINE F(n) == SubSeq(S, E[m + n - 1] + 1, E[m + n])
             X == Seq(OwnBytes(c))
  <2>3. cut = [n \in 1..K |-> F(n)] /\ \A n \in 1..K : F(n) \in X
    BY <2>1
  <2> HIDE DEF F, X, cut
  <2>4. cut \in Seq(X) /\ Len(cut) = K /\ \A n \in 1..K : cut[n] = F(n)
    BY <2>2, <2>3
  <2>5. QED
    BY <2>4 DEF F, X
<1> HIDE DEF cut
<1> DEFINE all == frames \o cut
<1>13. /\ Len(all) = m + K
       /\ \A i \in 1..(m + K) : all[i] = IF i <= m THEN frames[i] ELSE cut[i - m]
  <2>1. /\ Len(frames \o cut) = Len(frames) + Len(cut)
        /\ \A i \in 1..(Len(frames) + Len(cut)) : (frames \o cut)[i] =
             IF i <= Len(frames) THEN frames[i] ELSE cut[i - Len(frames)]
    BY <1>12, ConcatProperties
  <2>2. QED
    BY <1>12, <2>1 DEF m
<1> HIDE DEF all
<1>14. ASSUME NEW i \in 1..(m + K)
       PROVE  all[i] = SubSeq(S, E[i - 1] + 1, E[i])
  <2>1. CASE i <= m
    <3>1. i \in 1..m
      BY <1>1, <2>1
    <3>2. QED
      BY <1>3, <1>13, <2>1, <3>1
  <2>2. CASE ~(i <= m)
    <3>1. i - m \in 1..K /\ m + (i - m) = i /\ m + (i - m) - 1 = i - 1
      BY <1>1, <1>8, <2>2
    <3>2. all[i] = cut[i - m]
      BY <1>13, <2>2
    <3>3. QED
      BY <1>12, <3>1, <3>2
  <2>3. QED
    BY <2>1, <2>2
<1>15. Reassembled(c, all, more, SubSeq(S, E[m + K] + 1, more))
  BY <1>8, <1>13, <1>14 DEF Reassembled, S, E, N
<1>16. QED
  BY <1>9, <1>10, <1>15 DEF all, d, full, S

LEMMA ReassembleStep ==
    ASSUME BytesInv, FlightInv, InStepInv, NEW e \in OtherEvents, e = Head(events),
           e.type = "OTHER", handle_xdp_event, Reassemble(e), unseen' = unseen,
           NEW c \in Streams, c \in Untouched'
    PROVE  Reassembled(c, shown'[c], handled'[c], find_or_create_stream(c).buf')
<1> DEFINE k == e.key
           s == find_or_create_stream(k)
           full == Appended(s.buf, e.payload)
           d == drain_h2_frames(full)
<1>1. k \in Streams /\ e.payload \in Seq(OwnBytes(k))
  BY DEF OtherEvents
<1>2. s.slot \in Slots /\ s.buf \in Seq(OwnBytes(k)) /\ Len(s.buf) <= STREAM_BUF_MAX
  <2> HIDE DEF k
  <2>1. QED
    BY <1>1, FoundIs
<1>3. /\ full \in Seq(OwnBytes(k))
      /\ ~(Len(full) < Len(s.buf) + Len(e.payload)) => full = s.buf \o e.payload
  <2> HIDE DEF k, s
  <2>1. QED
    BY <1>1, <1>2, AppendedIs
<1>4. d.buf \in Seq(OwnBytes(k))
  <2> HIDE DEF k, full
  <2>1. QED
    BY <1>1, <1>3, DrainOwn
<1>5. /\ streams' = [streams EXCEPT ![s.slot] = [key |-> k, buf |-> d.buf]]
      /\ shown' = [shown EXCEPT ![k] = @ \o d.frames]
      /\ evicted' = IF streams[s.slot] # NULL /\ streams[s.slot].key # k
                      THEN evicted \cup {streams[s.slot].key} ELSE evicted
      /\ overrun' = IF Len(full) < Len(s.buf) + Len(e.payload)
                      THEN overrun \cup {k} ELSE overrun
  BY DEF Reassemble
<1>6. /\ find_or_create_stream(k).buf' = d.buf
      /\ \A x \in Streams :
           \/ x = k
           \/ streams[s.slot] # NULL /\ streams[s.slot].key = x
           \/ find_or_create_stream(x).buf' = find_or_create_stream(x).buf
  <2>1. [key |-> k, buf |-> d.buf] \in Slot
    <3> HIDE DEF k, d
    <3>1. d.buf \in Seq(Bytes)
      BY <1>1, <1>4, OwnAreBytes
    <3>2. QED
      BY <1>1, <3>1 DEF Slot
  <2> HIDE DEF k, d
  <2>2. streams' = [streams EXCEPT ![find_or_create_stream(k).slot] = [key |-> k, buf |-> d.buf]]
    BY <1>5
  <2>3. QED
    BY <1>1, <2>1, <2>2, SlotStored
<1>7. c \notin unseen /\ c \notin evicted' /\ c \notin overrun'
  BY DEF Untouched
<1>8. c \in Untouched
  BY <1>5, <1>7 DEF Untouched
<1>9. Reassembled(c, shown[c], handled[c], find_or_create_stream(c).buf)
  BY <1>8 DEF InStepInv
<1>10. /\ shown = [x \in Streams |-> shown[x]] /\ shown[c] \in Seq(Seq(OwnBytes(c)))
       /\ handled[c] \in Nat /\ next[c] \in Nat /\ next[c] <= Len(Sent[c])
  BY DEF BytesInv
<1>11. /\ Advance(e, c) \in Nat /\ handled'[c] = handled[c] + Advance(e, c)
  BY HandledGrows
<1>12. CASE c # k
  <2>1. handled'[c] = handled[c]
    <3>1. Advance(e, c) = 0
      BY <1>12 DEF Advance, OfStream
    <3>2. QED
      BY <1>10, <1>11, <3>1
  <2> HIDE DEF k, s, d, full
  <2>2. shown'[c] = shown[c]
    BY <1>5, <1>10, <1>12
  <2>3. ~(streams[s.slot] # NULL /\ streams[s.slot].key = c)
    BY <1>5, <1>7, <1>12
  <2>4. find_or_create_stream(c).buf' = find_or_create_stream(c).buf
    BY <1>6, <1>12, <2>3
  <2>5. QED
    BY <1>9, <2>1, <2>2, <2>4
<1>13. CASE c = k
  <2>1. OfStream(e, c)
    BY <1>13 DEF OfStream
  <2>2. /\ handled'[c] \in 0..next[c]
        /\ e.payload = SubSeq(Sent[c], handled[c] + 1, handled'[c])
    <3>1. PICK At : Flight(At, c, events, next[c], handled[c], c \in unseen)
      BY DEF FlightInv, InFlight
    <3> DEFINE Ev == NgapEvents \cup OtherEvents
    <3>2. events \in Seq(Ev) /\ events # << >>
      BY DEF BytesInv, handle_xdp_event
    <3> HIDE DEF Ev
    <3>3. Flight(At, c, events, next[c], handled[c], FALSE)
      BY <1>7, <3>1 DEF Flight
    <3>4. /\ handled[c] + Advance(Head(events), c) \in 0..next[c]
          /\ OfStream(Head(events), c) =>
               Head(events).payload
                 = SubSeq(Sent[c], handled[c] + 1, handled[c] + Advance(Head(events), c))
      BY <1>10, <3>2, <3>3, FlightTail
    <3>5. QED
      BY <1>11, <2>1, <3>4
  <2>3. handled'[c] \in Nat /\ handled[c] <= handled'[c] /\ handled'[c] <= Len(Sent[c])
    <3>1. Len(Sent[c]) \in Nat
      BY SentIs
    <3>2. QED
      BY <1>10, <1>11, <2>2, <3>1
  <2> HIDE DEF k, s, d, full
  <2>4. shown'[c] = shown[c] \o d.frames /\ find_or_create_stream(c).buf' = d.buf
    BY <1>1, <1>5, <1>6, <1>10, <1>13
  <2>5. full = find_or_create_stream(c).buf \o SubSeq(Sent[c], handled[c] + 1, handled'[c])
    <3>1. full = s.buf \o e.payload
      BY <1>3, <1>5, <1>7, <1>13
    <3>2. QED
      BY <1>13, <2>2, <3>1 DEF s
  <2>6. LET r == drain_h2_frames(find_or_create_stream(c).buf
                                   \o SubSeq(Sent[c], handled[c] + 1, handled'[c]))
        IN  Reassembled(c, shown[c] \o r.frames, handled'[c], r.buf)
    BY <1>9, <1>10, <2>3, DrainStep
  <2>7. Reassembled(c, shown[c] \o d.frames, handled'[c], d.buf)
    BY <2>5, <2>6 DEF d
  <2>8. QED
    BY <2>4, <2>7
<1>14. QED
  BY <1>12, <1>13

LEMMA InStepInit ==
    ASSUME StreamsInit
    PROVE  InStepInv
<1> SUFFICES ASSUME NEW c \in Streams
             PROVE  Reassembled(c, shown[c], handled[c], find_or_create_stream(c).buf)
  BY DEF InStepInv, Untouched
<1>1. shown[c] = << >> /\ handled[c] = 0 /\ Len(shown[c]) = 0
  BY DEF StreamsInit
<1>2. find_or_create_stream(c).buf = << >>
  <2>1. BytesInv
    BY BytesInit
  <2>2. FoundSlot(c) = {}
    BY DEF FoundSlot, StreamsInit
  <2>3. QED
    BY <2>1, <2>2, FoundIs
<1>3. SubSeq(Sent[c], 0 + 1, 0) = << >>
  BY SubSeqEmpty
<1>4. 0 <= Len(FramesOf[c]) /\ Ends(c)[0] = 0
  BY FramesAre, EndsAre
<1>5. 0 = Len(FramesOf[c]) \/ 0 < Ends(c)[0 + 1]
  <2>1. CASE Len(FramesOf[c]) # 0
    <3>1. 1 \in 0..Len(FramesOf[c]) /\ 0 \in 0..Len(FramesOf[c])
      BY <2>1, FramesAre
    <3>2. Ends(c)[0] < Ends(c)[1]
      BY <3>1, EndsGrow
    <3>3. QED
      BY <1>4, <3>2
  <2>2. QED
    BY <2>1
<1>6. QED
  BY <1>1, <1>2, <1>3, <1>4, <1>5 DEF Reassembled

\* An event without payload handles nothing of a stream all of whose packets
\* were captured.
LEMMA NothingHandled ==
    ASSUME BytesInv, FlightInv, handle_xdp_event, NEW c \in Streams, c \notin unseen,
           Head(events).type = "OTHER" => payload_len(Head(events)) = 0
    PROVE  handled'[c] = handled[c]
<1> DEFINE e == Head(events)
<1>1. /\ e \in NgapEvents \cup OtherEvents /\ Advance(e, c) \in Nat
      /\ handled'[c] = handled[c] + Advance(e, c)
  BY HandledGrows
<1>2. handled[c] \in Nat /\ next[c] \in Nat /\ next[c] <= Len(Sent[c])
  BY DEF BytesInv
<1>3. CASE ~OfStream(e, c)
  <2>1. Advance(e, c) = 0
    BY <1>3 DEF Advance
  <2>2. QED
    BY <1>1, <1>2, <2>1
<1>4. CASE OfStream(e, c)
  <2>1. Len(e.payload) = 0
    <3> HIDE DEF e
    <3>1. e.type = "OTHER" /\ payload_len(e) = Len(e.payload)
      BY <1>1, <1>4, EventIs DEF OfStream
    <3>2. QED
      BY <3>1 DEF e
  <2>2. PICK At : Flight(At, c, events, next[c], handled[c], c \in unseen)
    BY DEF FlightInv, InFlight
  <2>3. Flight(At, c, events, next[c], handled[c], FALSE)
    BY <2>2 DEF Flight
  <2> DEFINE Ev == NgapEvents \cup OtherEvents
  <2>4. events \in Seq(Ev) /\ events # << >>
    BY DEF BytesInv, handle_xdp_event
  <2>5. /\ handled[c] + Advance(Head(events), c) \in 0..next[c]
        /\ OfStream(Head(events), c) =>
             Head(events).payload
               = SubSeq(Sent[c], handled[c] + 1, handled[c] + Advance(Head(events), c))
    <3> HIDE DEF Ev
    <3>1. QED
      BY <1>2, <2>3, <2>4, FlightTail
  <2> DEFINE h == handled[c] + Advance(e, c)
  <2>6. h \in Nat /\ handled[c] <= h /\ h <= Len(Sent[c]) /\ Sent[c] \in Seq(Bytes)
    <3>1. Sent[c] \in Seq(Bytes) /\ Len(Sent[c]) \in Nat
      BY SentIs
    <3>2. QED
      BY <1>1, <1>2, <2>5, <3>1
  <2>7. e.payload = SubSeq(Sent[c], handled[c] + 1, h)
    BY <1>4, <2>5
  <2> HIDE DEF e, h
  <2>8. Len(e.payload) = h - handled[c]
    BY <1>2, <2>6, <2>7, Slice
  <2>9. h = handled[c]
    BY <1>2, <2>1, <2>6, <2>8
  <2>10. QED
    BY <1>1, <2>9 DEF h
<1>5. QED
  BY <1>3, <1>4

LEMMA InStepStep ==
    ASSUME BytesInv, FlightInv, InStepInv, [StreamsNext]_stream_vars
    PROVE  InStepInv'
<1> SUFFICES ASSUME NEW c \in Streams, c \in Untouched'
             PROVE  Reassembled(c, shown'[c], handled'[c], find_or_create_stream(c).buf')
  BY DEF InStepInv, Untouched
<1>1. c \in Untouched => Reassembled(c, shown[c], handled[c], find_or_create_stream(c).buf)
  BY DEF InStepInv
<1>2. streams' = streams => find_or_create_stream(c).buf' = find_or_create_stream(c).buf
  BY DEF find_or_create_stream, FoundSlot, FreeSlot, First, Slots
<1>3. CASE Packet
  <2>1. Delivered /\ UNCHANGED << streams, handled, shown, evicted, overrun >>
    BY <1>3, PacketDoes
  <2>2. c \in Untouched
    BY <2>1 DEF Untouched, Delivered
  <2>3. QED
    BY <1>1, <1>2, <2>1, <2>2
<1>4. CASE handle_xdp_event
  <2> DEFINE e == Head(events)
  <2>1. /\ unseen' = unseen
        /\ \/ e.type = "NGAP" /\ UNCHANGED << streams, shown, evicted, overrun >>
           \/ /\ e.type = "OTHER" /\ payload_len(e) = 0
              /\ UNCHANGED << streams, shown, evicted, overrun >>
           \/ e.type = "OTHER" /\ Reassemble(e)
    BY <1>4 DEF handle_xdp_event, history
  <2>2. CASE /\ UNCHANGED << streams, shown, evicted, overrun >>
             /\ e.type = "OTHER" => payload_len(e) = 0
    <3>1. c \in Untouched /\ c \notin unseen
      BY <2>1, <2>2 DEF Untouched
    <3>2. handled'[c] = handled[c]
      BY <1>4, <2>2, <3>1, NothingHandled
    <3>3. QED
      BY <1>1, <1>2, <2>2, <3>1, <3>2
  <2>3. CASE e.type = "OTHER" /\ Reassemble(e)
    <3>1. e \in NgapEvents \cup OtherEvents
      BY <1>4, HandledGrows
    <3>2. e = Head(events)
      OBVIOUS
    <3> HIDE DEF e
    <3>3. e \in OtherEvents
      BY <2>3, <3>1, EventIs
    <3>4. QED
      BY <1>4, <2>1, <2>3, <3>2, <3>3, ReassembleStep
  <2>4. QED
    BY <2>1, <2>2, <2>3
<1>5. CASE UNCHANGED stream_vars
  <2>1. UNCHANGED << streams, handled, shown, unseen, evicted, overrun >>
    BY <1>5 DEF stream_vars, history
  <2>2. c \in Untouched
    BY <2>1 DEF Untouched
  <2>3. QED
    BY <1>1, <1>2, <2>1, <2>2
<1>6. QED
  BY <1>3, <1>4, <1>5 DEF StreamsNext

\* The frames of stream c that end within its first k bytes are the first m.
LEMMA EndedIs ==
    ASSUME NEW c \in Streams, NEW m \in Nat, NEW k \in 0..Len(Sent[c]),
           m <= Len(FramesOf[c]), Ends(c)[m] <= k,
           m = Len(FramesOf[c]) \/ k < Ends(c)[m + 1]
    PROVE  EndedIn[c][k] = m
<1> DEFINE N == Len(FramesOf[c])
           E == Ends(c)
<1>1. N \in Nat /\ DOMAIN FramesOf[c] = 1..N /\ k \in Nat
  <2>1. FramesOf[c] \in Seq(Seq(Nat)) /\ N \in Nat
    BY FramesAre
  <2>2. Len(Sent[c]) \in Nat
    BY SentIs
  <2>3. QED
    BY <2>1, <2>2
<1>2. /\ \A n \in 0..N : E[n] \in Nat
      /\ \A j, n \in 0..N : j < n => E[j] < E[n]
  BY EndsAre, EndsGrow
<1>3. m <= N /\ E[m] <= k /\ (m = N \/ k < E[m + 1])
  OBVIOUS
<1>4. EndedIn[c][k] = Cardinality({n \in 1..N : E[n] <= k})
  BY <1>1 DEF EndedIn
<1> HIDE DEF N, E
<1>5. ASSUME NEW n \in 1..N
      PROVE  E[n] <= k <=> n \in 1..m
  <2>1. n \in 0..N /\ m \in 0..N /\ E[n] \in Nat /\ E[m] \in Nat
    BY <1>1, <1>2, <1>3
  <2>2. CASE n <= m
    <3>1. n < m => E[n] < E[m]
      BY <1>2, <2>1
    <3>2. E[n] <= k
      BY <1>1, <1>3, <2>1, <2>2, <3>1
    <3>3. QED
      BY <2>2, <3>2
  <2>3. CASE ~(n <= m)
    <3>1. m + 1 \in 0..N /\ m # N /\ m + 1 <= n
      BY <1>1, <2>1, <2>3
    <3>2. (m + 1 < n => E[m + 1] < E[n]) /\ E[m + 1] \in Nat
      BY <1>2, <2>1, <3>1
    <3>3. k < E[n]
      BY <1>1, <1>3, <2>1, <3>1, <3>2
    <3>4. ~(E[n] <= k) /\ n \notin 1..m
      BY <1>1, <2>1, <2>3, <3>3
    <3>5. QED
      BY <3>4
  <2>4. QED
    BY <2>2, <2>3
<1>6. {n \in 1..N : E[n] <= k} = 1..m
  <2>1. \A n \in 1..m : n \in 1..N
    BY <1>1, <1>3
  <2>2. QED
    BY <1>5, <2>1
<1>7. Cardinality(1..m) = m
  <2>1. 1 \in Int /\ m \in Int
    OBVIOUS
  <2>2. Cardinality(1..m) = IF 1 > m THEN 0 ELSE m - 1 + 1
    BY <2>1, FS_Interval
  <2>3. QED
    BY <2>2
<1>8. QED
  BY <1>4, <1>6, <1>7

\* handle_xdp_event(), find_or_create_stream(), drain_h2_frames(): however the
\* streams are cut into packets and their packets mixed, the frames printed for
\* a stream are exactly those that have ended in what was handled of it, unless
\* a packet of it was missed, repeated or cut, its slot taken or its buffer full.
THEOREM FramesExact == StreamsSpec => []ReassemblyExact
<1>1. StreamsInit => BytesInv /\ FlightInv /\ InStepInv
  BY BytesInit, FlightInit, InStepInit
<1>2. BytesInv /\ FlightInv /\ InStepInv /\ [StreamsNext]_stream_vars
        => BytesInv' /\ FlightInv' /\ InStepInv'
  BY BytesStep, FlightStep, InStepStep
<1>3. BytesInv /\ FlightInv /\ InStepInv => ReassemblyExact
  <2> SUFFICES ASSUME BytesInv, FlightInv, InStepInv, NEW c \in Streams, c \in Untouched
               PROVE  Values(c) = SubSeq(FramesOf[c], 1, EndedIn[c][handled[c]])
    BY DEF ReassemblyExact, Untouched
  <2> DEFINE fs == FramesOf[c]
             N == Len(fs)
             E == Ends(c)
             m == Len(shown[c])
             x == Values(c)
             y == SubSeq(fs, 1, m)
  <2>1. /\ m <= N /\ E[m] <= handled[c] /\ (m = N \/ handled[c] < E[m + 1])
        /\ \A n \in 1..m : shown[c][n] = SubSeq(Sent[c], E[n - 1] + 1, E[n])
    <3>1. Reassembled(c, shown[c], handled[c], find_or_create_stream(c).buf)
      BY DEF InStepInv
    <3>2. QED
      BY <3>1 DEF Reassembled
  <2>2. shown[c] \in Seq(Seq(OwnBytes(c))) /\ handled[c] \in Nat /\ m \in Nat
    BY DEF BytesInv
  <2>3. handled[c] \in 0..Len(Sent[c])
    <3>1. StreamsTypeOK
      BY StateTypes
    <3>2. Len(Sent[c]) \in Nat
      BY SentIs
    <3>3. QED
      BY <2>2, <3>1, <3>2 DEF StreamsTypeOK
  <2>4. EndedIn[c][handled[c]] = m
    <3> HIDE DEF m
    <3>1. QED
      BY <2>1, <2>2, <2>3, EndedIs
  <2>5. N \in Nat /\ fs \in Seq(Seq(Nat))
    BY FramesAre
  <2>6. y \in Seq(Seq(Nat)) /\ Len(y) = m /\ \A n \in 1..m : y[n] = fs[n]
    <3> HIDE DEF m, fs
    <3>1. /\ SubSeq(fs, 0 + 1, m) \in Seq(Seq(Nat)) /\ Len(SubSeq(fs, 0 + 1, m)) = m - 0
          /\ \A n \in 1..(m - 0) : SubSeq(fs, 0 + 1, m)[n] = fs[0 + n]
      BY <2>1, <2>2, <2>5, Slice
    <3>2. 0 + 1 = 1 /\ m - 0 = m /\ \A n \in 1..m : 0 + n = n
      BY <2>2
    <3>3. QED
      BY <3>1, <3>2
  <2>7. ASSUME NEW n \in 1..m
        PROVE  [i \in DOMAIN shown[c][n] |-> shown[c][n][i].v] = fs[n]
    <3> DEFINE w == shown[c][n]
    <3>1. n \in 1..N /\ n \in 0..N /\ n - 1 \in 0..N /\ N \in 0..N
      BY <2>1, <2>2, <2>5
    <3>2. /\ E[n] = E[n - 1] + Len(fs[n]) /\ E[n] \in Nat /\ E[n - 1] \in Nat
          /\ (n < N => E[n] < E[N]) /\ Len(Sent[c]) = E[N] /\ E[N] \in Nat
      BY <3>1, EndsAre, EndsGrow, SentIs
    <3>3. fs[n] \in Seq(Nat) /\ Len(fs[n]) \in Nat
      BY <3>1, FramesAre
    <3>4. \A i \in 1..Len(fs[n]) : Sent[c][E[n - 1] + i].v = fs[n][i]
      BY <3>1, SentIs
    <3> HIDE DEF fs, E, N
    <3>5. E[n - 1] <= E[n] /\ E[n] <= Len(Sent[c]) /\ E[n] - E[n - 1] = Len(fs[n])
      BY <3>1, <3>2, <3>3
    <3>6. w = SubSeq(Sent[c], E[n - 1] + 1, E[n])
      BY <2>1
    <3> HIDE DEF w
    <3>7. /\ w \in Seq(Bytes) /\ Len(w) = E[n] - E[n - 1]
          /\ \A i \in 1..(E[n] - E[n - 1]) : w[i] = Sent[c][E[n - 1] + i]
      <4> DEFINE lo == E[n - 1]
                 hi == E[n]
      <4>1. Sent[c] \in Seq(Bytes)
        BY SentIs
      <4>2. lo \in Nat /\ hi \in Nat /\ lo <= hi /\ hi <= Len(Sent[c])
        BY <3>2, <3>5
      <4>3. w = SubSeq(Sent[c], lo + 1, hi)
        BY <3>6
      <4> HIDE DEF lo, hi
      <4>4. /\ w \in Seq(Bytes) /\ Len(w) = hi - lo
            /\ \A i \in 1..(hi - lo) : w[i] = Sent[c][lo + i]
        BY <4>1, <4>2, <4>3, Slice
      <4>5. QED
        BY <4>4 DEF lo, hi
    <3>8. DOMAIN w = 1..Len(fs[n]) /\ \A i \in 1..Len(fs[n]) : w[i].v = fs[n][i]
      BY <3>4, <3>5, <3>7
    <3>9. fs[n] = [i \in 1..Len(fs[n]) |-> fs[n][i]]
      BY <3>3
    <3>10. [i \in DOMAIN w |-> w[i].v] = fs[n]
      BY <3>8, <3>9
    <3>11. QED
      BY <3>10 DEF w
  <2>8. x = [n \in 1..m |-> fs[n]]
    <3>1. DOMAIN shown[c] = 1..m
      BY <2>2
    <3> HIDE DEF m, fs
    <3>2. QED
      BY <2>7, <3>1 DEF Values
  <2>9. x = y
    <3>1. y = [n \in 1..m |-> y[n]]
      <4> HIDE DEF y, m
      <4>1. QED
        BY <2>6
    <3> HIDE DEF x, y, m, fs
    <3>2. QED
      BY <2>6, <2>8, <3>1
  <2>10. QED
    BY <2>4, <2>9
<1>4. QED
  BY <1>1, <1>2, <1>3, PTL DEF StreamsSpec

=============================================================================
