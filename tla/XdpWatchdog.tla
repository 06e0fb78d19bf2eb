----------------------------- MODULE XdpWatchdog -----------------------------
(***************************************************************************)
(* main() of test/test_xdp.c: attaches xdp_prog to an interface that may   *)
(* come and go, watches for its removal or replacement, re-attaches it,    *)
(* and detaches it when stopped.  Every system call is a step, so that     *)
(* the interface and its program may change between any two of them.       *)
(*                                                                         *)
(* External: the kernel's netlink XDP attachment.  It outlives the process *)
(* that made it; an attach with XDP_FLAGS_UPDATE_IF_NOEXIST fails when     *)
(* there is a program, in whichever mode; a detach removes the program of  *)
(* the mode it names, whoever attached it, and may be refused.  Nobody     *)
(* else attaches the watchdog's program.                                   *)
(***************************************************************************)
EXTENDS Integers

CONSTANTS
    MaxEnv,             \* bound on changes made by others
    MaxFaults,          \* bound on calls that fail for no modelled reason
    MaxRuns             \* bound on runs of the watchdog

ASSUME WatchdogAssumption == {MaxEnv, MaxFaults, MaxRuns} \subseteq Nat

VARIABLES
    iface,              \* [index, prog, mode, native]; index 0: no interface
    env,                \* changes made by others so far
    faults,             \* failures so far
    run,                \* the current run; also the id of its program
    pc,                 \* the next call of main()
    why,                \* what attach_xdp() was called for
    ifindex, xdp_flags, \* locals of main()
    state,
    stop,
    \* History.
    foreign,            \* main() has detached a program not its own
    refused             \* a detach by the current run failed

local == << why, ifindex, xdp_flags, state >>
hist == << foreign, refused >>
vars == << iface, env, faults, run, pc, local, stop, hist >>

NoProg == 0
Other == -1             \* a program somebody else attached
Modes == {"drv", "skb"}
Ended == {"returned", "killed"}
Absent == [index |-> 0, prog |-> NoProg, mode |-> "skb", native |-> FALSE]

Init ==
    /\ iface = Absent
    /\ env = 0
    /\ faults = 0
    /\ run = 0
    /\ pc = "killed"
    /\ why = "start"
    /\ ifindex = 0
    /\ xdp_flags = "drv"
    /\ state = "ATTACHED"
    /\ stop = FALSE
    /\ foreign = FALSE
    /\ refused = FALSE

-----------------------------------------------------------------------------
(***************************************************************************)
(* System calls.                                                           *)
(***************************************************************************)
\* Wrong variants: the flag is left out, or there is no generic mode to fall
\* back on.
CanAttachOver(idx, mode) ==
    /\ iface.index = idx
    /\ mode = "drv" => iface.native

CanAttachNative(idx, mode) ==
    /\ iface.index = idx
    /\ iface.prog = NoProg
    /\ mode = "drv" /\ iface.native

\* bpf_xdp_attach(idx, prog_fd, UPDATE_IF_NOEXIST | mode)
CanAttach(idx, mode) ==
    /\ iface.index = idx
    /\ iface.prog = NoProg
    /\ mode = "drv" => iface.native

Fault == faults < MaxFaults /\ faults' = faults + 1

\* bpf_xdp_detach(ifindex, xdp_flags).
AfterDetach(idx, mode) ==
    IF iface.index = idx /\ iface.mode = mode THEN [iface EXCEPT !.prog = NoProg]
                                              ELSE iface

bpf_xdp_detach ==
    \/ /\ iface' = AfterDetach(ifindex, xdp_flags)
       /\ foreign' = (foreign \/ (iface' # iface /\ iface.prog \notin {NoProg, run}))
       /\ UNCHANGED << faults, refused >>
    \/ /\ Fault
       /\ refused' = TRUE
       /\ UNCHANGED << iface, foreign >>

Goto(from, to) ==
    /\ pc = from
    /\ pc' = to

-----------------------------------------------------------------------------
(***************************************************************************)
(* Startup.                                                                *)
(***************************************************************************)
\* Wrong variant: the flag is not looked at.
wait_for_ifindex_deaf(from, found, stopped) ==
    /\ iface.index # 0
    /\ Goto(from, found)
    /\ ifindex' = iface.index
    /\ why' = IF from = "start" THEN "start" ELSE "gone"
    /\ UNCHANGED << iface, env, faults, run, xdp_flags, state, stop, hist >>

\* One turn of the loop in wait_for_ifindex(), for startup and for the loop.
wait_for_ifindex(from, found, stopped) ==
    /\ \/ /\ stop
          /\ Goto(from, stopped)
          /\ UNCHANGED << why, ifindex >>
       \/ /\ ~stop /\ iface.index = 0
          /\ Goto(from, from)
          /\ UNCHANGED << why, ifindex >>
       \/ /\ ~stop /\ iface.index # 0
          /\ Goto(from, found)
          /\ ifindex' = iface.index
          /\ why' = IF from = "start" THEN "start" ELSE "gone"
    /\ UNCHANGED << iface, env, faults, run, xdp_flags, state, stop, hist >>

\* Open, load, find the program and the map, make the consumer.
LoadObject ==
    /\ \/ Goto("load", "attach_drv") /\ UNCHANGED faults
       \/ Goto("load", "returned") /\ Fault
    /\ UNCHANGED << iface, env, run, local, stop, hist >>

\* Wrong variant: the mode that won is not recorded.
FlagsForgotten(mode) == xdp_flags

FlagsUsed(mode) == mode

\* Wrong variant: a failure at startup is only reported.
FailureReported == "poll"

\* attach_xdp(): native mode, then generic mode.  What follows a success or a
\* failure depends on the call site.
AfterAttach == IF why = "start" THEN "info" ELSE "poll"
AfterFailure == IF why = "start" THEN "returned" ELSE "poll"
StateAfterFailure == IF why = "recreated" THEN "DETACHED" ELSE state

attach_xdp(from, mode, failed) ==
    /\ \/ /\ CanAttach(ifindex, mode)
          /\ Goto(from, AfterAttach)
          /\ iface' = [iface EXCEPT !.prog = run, !.mode = mode]
          /\ xdp_flags' = FlagsUsed(mode)
          /\ state' = "ATTACHED"
          /\ UNCHANGED faults
       \/ /\ \/ ~CanAttach(ifindex, mode) /\ UNCHANGED faults
             \/ Fault
          /\ Goto(from, failed)
          /\ state' = IF failed = AfterFailure THEN StateAfterFailure ELSE state
          /\ UNCHANGED << iface, xdp_flags >>
    /\ UNCHANGED << env, run, why, ifindex, stop, hist >>

\* bpf_obj_get_info_by_fd(); on failure what was attached is detached, with
\* no look at the result.
GetInfo ==
    /\ \/ Goto("info", "poll") /\ UNCHANGED faults
       \/ Goto("info", "undo") /\ Fault
    /\ UNCHANGED << iface, env, run, local, stop, hist >>

Undo ==
    /\ Goto("undo", "returned")
    /\ bpf_xdp_detach
    /\ UNCHANGED << env, run, local, stop >>

-----------------------------------------------------------------------------
(***************************************************************************)
(* The watchdog loop.                                                      *)
(***************************************************************************)
\* while (!stop), and the test after the poll: an error of the poll itself only
\* prints an alert.
Poll ==
    /\ \/ stop /\ Goto("poll", "shutdown")
       \/ ~stop /\ Goto("poll", "polled")
    /\ UNCHANGED << iface, env, faults, run, local, stop, hist >>

\* if_nametoindex(), and what follows from its answer.
CheckName ==
    /\ \/ /\ stop
          /\ Goto("polled", "shutdown")
          /\ UNCHANGED local
       \/ /\ ~stop /\ iface.index = 0
          /\ Goto("polled", "wait")
          /\ state' = "IFACE_GONE"
          /\ UNCHANGED << why, ifindex, xdp_flags >>
       \/ /\ ~stop /\ iface.index \notin {0, ifindex}
          /\ Goto("polled", "attach_drv")
          /\ ifindex' = iface.index
          /\ why' = "recreated"
          /\ UNCHANGED << xdp_flags, state >>
       \/ /\ ~stop /\ iface.index = ifindex /\ ifindex # 0
          /\ Goto("polled", "query")
          /\ UNCHANGED local
    /\ UNCHANGED << iface, env, faults, run, stop, hist >>

\* bpf_xdp_query_id(ifindex): fails when the interface is gone, and otherwise
\* tells which program is there.
QueryId ==
    /\ \/ /\ \/ iface.index # ifindex /\ UNCHANGED faults
             \/ Fault
          /\ Goto("query", "poll")
          /\ UNCHANGED local
       \/ /\ iface.index = ifindex /\ iface.prog = NoProg
          /\ Goto("query", "attach_drv")
          /\ state' = "DETACHED"
          /\ why' = "detached"
          /\ UNCHANGED << ifindex, xdp_flags, faults >>
       \/ /\ iface.index = ifindex /\ iface.prog # NoProg
          /\ Goto("query", "poll")
          /\ state' = IF iface.prog = run THEN "ATTACHED" ELSE "REPLACED"
          /\ UNCHANGED << why, ifindex, xdp_flags, faults >>
    /\ UNCHANGED << iface, env, run, stop, hist >>

\* The end of main(), which returns 0 whatever the detach says.
Shutdown ==
    /\ Goto("shutdown", "returned")
    /\ \/ state \in {"ATTACHED", "REPLACED"} /\ bpf_xdp_detach
       \/ state \notin {"ATTACHED", "REPLACED"} /\ UNCHANGED << iface, faults, hist >>
    /\ UNCHANGED << env, run, local, stop >>

main ==
    \/ wait_for_ifindex("start", "load", "returned")
    \/ LoadObject
    \/ attach_xdp("attach_drv", "drv", "attach_skb")
    \/ attach_xdp("attach_skb", "skb", AfterFailure)
    \/ GetInfo
    \/ Undo
    \/ Poll
    \/ CheckName
    \/ wait_for_ifindex("wait", "attach_drv", "shutdown")
    \/ QueryId
    \/ Shutdown

-----------------------------------------------------------------------------
(***************************************************************************)
(* The environment.                                                        *)
(***************************************************************************)
Change(new) ==
    /\ env < MaxEnv
    /\ env' = env + 1
    /\ iface' = new
    /\ UNCHANGED << faults, run, pc, local, stop, hist >>

\* The container goes, and its program with the interface; or comes, with an
\* ifindex never used before.
IfaceDown == iface.index # 0 /\ Change(Absent)
IfaceUp(native) ==
    /\ iface.index = 0
    /\ Change([index |-> env + 1, prog |-> NoProg, mode |-> "skb", native |-> native])

\* ip link set dev <iface> xdp off, and xdp obj ..., which replaces a program
\* in its mode.
XdpOff == iface.prog # NoProg /\ Change([iface EXCEPT !.prog = NoProg])
XdpReplace(mode) ==
    /\ iface.index # 0
    /\ mode = "drv" => iface.native
    /\ iface.prog # NoProg => mode = iface.mode
    /\ Change([iface EXCEPT !.prog = Other, !.mode = mode])

\* handle_signal() is installed before anything else.
Signal ==
    /\ pc \notin Ended
    /\ stop' = TRUE
    /\ UNCHANGED << iface, env, faults, run, pc, local, hist >>

Kill ==
    /\ pc \notin Ended
    /\ pc' = "killed"
    /\ UNCHANGED << iface, env, faults, run, local, stop, hist >>

Start ==
    /\ pc \in Ended
    /\ run < MaxRuns
    /\ run' = run + 1
    /\ pc' = "start"
    /\ ifindex' = 0
    /\ xdp_flags' = "drv"
    /\ state' = "ATTACHED"
    /\ stop' = FALSE
    /\ why' = "start"
    /\ refused' = FALSE
    /\ UNCHANGED << iface, env, faults, foreign >>

Next ==
    \/ main
    \/ IfaceDown
    \/ \E native \in BOOLEAN : IfaceUp(native)
    \/ XdpOff
    \/ \E mode \in Modes : XdpReplace(mode)
    \/ Signal
    \/ Kill
    \/ Start

Spec == Init /\ [][Next]_vars

\* main() keeps running: its polls and sleeps time out.
FairSpec == Spec /\ WF_vars(main)

-----------------------------------------------------------------------------
(***************************************************************************)
(* Properties.                                                             *)
(***************************************************************************)
Ifaces == [index: 0..MaxEnv, prog: (-1)..MaxRuns, mode: Modes, native: BOOLEAN]

\* The types of the watchdog's state.
TypeOK ==
    /\ iface \in Ifaces
    /\ env \in 0..MaxEnv
    /\ faults \in 0..MaxFaults
    /\ run \in 0..MaxRuns
    /\ ifindex \in 0..MaxEnv
    /\ xdp_flags \in Modes
    /\ state \in {"ATTACHED", "DETACHED", "REPLACED", "IFACE_GONE"}
    /\ stop \in BOOLEAN

\* attach_xdp() and its call sites: the program that a killed run left behind
\* stands.  The runs after it neither replace it nor detach it on their way out,
\* however their startup ends; only others take it away.
LeftoverStands ==
    [][iface.prog \in 1..(run - 1) /\ iface' # iface => env' # env]_vars

\* The shutdown code: a run that returns leaves no program of its own attached,
\* whatever happened to the interface, unless the detach itself was refused;
\* a killed one may.
NothingLeftBehind ==
    pc = "returned" /\ ~refused => iface.prog # run \/ run = 0

\* "bpf_xdp_detach() with our flags is a no-op / harmless error if we don't
\* actually own what's attached now": main() detaches nobody else's program.
DetachesOnlyOwn == ~foreign

\* What the watchdog's state should be, given the interface.
Truth ==
    CASE iface.index = 0                                  -> "IFACE_GONE"
      [] iface.index # 0 /\ iface.prog = run              -> "ATTACHED"
      [] iface.index # 0 /\ iface.prog = NoProg           -> "DETACHED"
      [] iface.index # 0 /\ iface.prog \notin {run, NoProg} -> "REPLACED"

\* "alert on detachment, in any of its forms": once nothing changes any more,
\* the watchdog's view settles on what is the case, and an interface left
\* without a program has its own back.
SettlesOnTruth ==
    <>[](pc \in Ended \/ pc = "start" \/ (state = Truth /\ state # "DETACHED"))

\* A signal ends the run, also while it waits for the interface.
StopEnds == stop ~> (pc \in Ended)

=============================================================================
