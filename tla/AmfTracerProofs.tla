--------------------------- MODULE AmfTracerProofs ---------------------------
(***************************************************************************)
(* What holds of the two halves of a traced call, for any number of        *)
(* threads, CPUs and map elements.                                         *)
(***************************************************************************)
EXTENDS AmfTracer, FiniteSetTheorems, TLAPS

-----------------------------------------------------------------------------
(***************************************************************************)
(* The inductive invariant.                                                *)
(***************************************************************************)
\* No element is in two places: under a key, on a free list, or kept for
\* replacing values.
Placed ==
    /\ \A t, u \in Threads : scratch[t] # NULL /\ scratch[t] = scratch[u] => t = u
    /\ \A t \in Threads, c \in CPUs : scratch[t] \notin free[c] /\ scratch[t] # extra[c]
    /\ \A c, d \in CPUs : \A x \in free[c] : x \in free[d] => c = d
    /\ \A c, d \in CPUs : extra[c] \notin free[d]
    /\ \A c, d \in CPUs : extra[c] = extra[d] => c = d

\* An entry is of the call its thread is in, or of one whose return went unseen.
EntriesLive ==
    \A t \in Threads : scratch[t] # NULL =>
        \/ args[scratch[t]] \in unseen
        \/ thr[t].pc = "kernel" /\ args[scratch[t]] = thr[t].call

\* A call has a number of its own, and is reported at its end.
CallsInv ==
    /\ \A t \in Threads : thr[t].pc # "user" => thr[t].call \in 1..calls /\ thr[t].call \notin sent
    /\ \A t, u \in Threads :
         thr[t].pc # "user" /\ thr[u].pc # "user" /\ thr[t].call = thr[u].call => t = u
    /\ \A t \in Threads : thr[t].pc = "kernel" => thr[t].call \notin due
    /\ \A t \in Threads : thr[t].pc = "exit" => thr[t].a # NULL

\* A call that is due is reported or given up, unless its handler still runs; one
\* whose start was seen has an entry, unless the map was full.
DueInv ==
    /\ \A n \in due :
         n \in sent \cup lost \/ \E t \in Threads : thr[t].pc = "exit" /\ thr[t].call = n
    /\ \A t \in Threads :
         thr[t].pc = "kernel" /\ thr[t].seen => scratch[t] # NULL \/ thr[t].call \in lost

\* Until the enter tracepoint is detached, which is after the last event has been
\* read, only a call whose start was seen has an entry.
Early == loader \notin {"detach_exit", "done"}
EarlyInv ==
    /\ loader = "attach_enter" => \A t \in Threads : scratch[t] = NULL
    /\ Early => /\ \A t \in Threads : thr[t].pc = "kernel" /\ ~thr[t].seen => scratch[t] = NULL
                /\ \A t \in Threads : thr[t].pc = "exit" => thr[t].call \in due
                /\ \A k \in 1..Len(events) : events[k].call # NULL => events[k].call \in due

\* Every call is in the ring or printed at most once.
OnceInv ==
    /\ \A k \in 1..Len(events) : events[k].call # NULL => events[k].call \in sent
    /\ \A j, k \in 1..Len(events) :
         events[j].call # NULL /\ events[j].call = events[k].call => j = k
    /\ \A e \in shown : e.call # NULL /\ e.call \in sent /\ e.call \in due
    /\ \A e, f \in shown : e.call = f.call => e = f
    /\ \A e \in shown, k \in 1..Len(events) : events[k].call # e.call

\* As long as no element is stolen, an exit handler's element stays on the free list
\* of its CPU, where no other handler runs, and keeps the call's address.
OwnInv ==
    ~stolen =>
      /\ \A t \in Threads : thr[t].pc = "exit" => thr[t].cpu \in CPUs /\ thr[t].a \in free[thr[t].cpu]
      /\ Early => /\ \A t \in Threads : thr[t].pc = "kernel" /\ thr[t].seen /\ scratch[t] # NULL =>
                       args[scratch[t]] = thr[t].call
                  /\ \A t \in Threads : thr[t].pc = "exit" => args[thr[t].a] = thr[t].call
                  /\ \A k \in 1..Len(events) : events[k].addr = events[k].call
      /\ ShownIsOwn

TracerInv ==
    TypeOK /\ Placed /\ EntriesLive /\ CallsInv /\ DueInv /\ EarlyInv /\ OnceInv /\ OwnInv

-----------------------------------------------------------------------------
(***************************************************************************)
(* The threads.                                                            *)
(***************************************************************************)
LEMMA NullFacts ==
    /\ NULL \notin AllElems /\ NULL \notin CPUs /\ IsFiniteSet(CPUs)
    /\ RingSize \in Nat /\ MaxCalls \in Nat /\ MaxOther \in Nat
BY TracerAssumption DEF AllElems

LEMMA UserState ==
    /\ User \in ThreadStates /\ User.pc = "user" /\ User.call = NULL
BY Zenon DEF User, ThreadStates

LEMMA InKernelState ==
    ASSUME NEW n \in Nat, NEW s \in BOOLEAN
    PROVE  /\ InKernel(n, s) \in ThreadStates /\ InKernel(n, s).pc = "kernel"
           /\ InKernel(n, s).call = n /\ InKernel(n, s).seen = s
BY DEF InKernel, ThreadStates

\* Only thread t changes its state.
OnlyThread(t) ==
    /\ thr' \in [Threads -> ThreadStates]
    /\ \A u \in Threads : u # t => thr'[u] = thr[u]

LEMMA SetThread ==
    ASSUME TypeOK, NEW t \in Threads, NEW r \in ThreadStates, thr' = [thr EXCEPT ![t] = r]
    PROVE  OnlyThread(t) /\ thr'[t] = r
BY DEF TypeOK, OnlyThread

LEMMA EnterCallDoes ==
    ASSUME TypeOK, NEW t \in Threads, NEW c \in CPUs, EnterCall(t, c)
    PROVE  /\ OnlyThread(t) /\ thr[t].pc = "user" /\ thr'[t].pc = "kernel"
           /\ thr'[t].call = calls + 1
           /\ thr'[t].seen = ("enter" \in linked)
           /\ calls \in Nat /\ calls < MaxCalls /\ calls' = calls + 1
<1> DEFINE s == ("enter" \in linked)
           r == InKernel(calls + 1, s)
<1>1. calls \in Nat /\ calls < MaxCalls /\ calls' = calls + 1 /\ calls + 1 \in Nat
  BY NullFacts DEF EnterCall, TypeOK
<1>2. thr[t].pc = "user" /\ s \in BOOLEAN
  BY DEF EnterCall
<1>3. thr' = [thr EXCEPT ![t] = InKernel(calls + 1, "enter" \in linked)]
  BY Zenon DEF EnterCall
<1>4. thr' = [thr EXCEPT ![t] = r]
  BY <1>3
<1> HIDE DEF s
<1>5. r \in ThreadStates /\ r.pc = "kernel" /\ r.call = calls + 1 /\ r.seen = s
  BY <1>1, <1>2, InKernelState
<1> HIDE DEF r
<1>6. OnlyThread(t) /\ thr'[t] = r
  BY <1>4, <1>5, SetThread
<1>7. thr'[t].seen = ("enter" \in linked)
  BY <1>5, <1>6, Zenon DEF s
<1>8. QED
  BY <1>1, <1>2, <1>5, <1>6, <1>7

\* The exit handler takes the entry to report, or the call is over.
LEMMA PairDoes ==
    ASSUME TypeOK, NEW t \in Threads, NEW c \in CPUs, NEW ret, thr[t].pc = "kernel", Pair(t, c, ret)
    PROVE  /\ OnlyThread(t)
           /\ \/ Reported(ret) /\ thr'[t].pc = "exit" /\ thr'[t].call = thr[t].call
                 /\ thr'[t].cpu = c /\ thr'[t].a = scratch[t]
              \/ ~Reported(ret) /\ thr'[t] = User
<1> DEFINE a == scratch[t]
           r == [thr[t] EXCEPT !.pc = "exit", !.cpu = c, !.a = a]
<1>1. thr[t] \in ThreadStates /\ a \in AllElems \cup {NULL}
  BY DEF TypeOK
<1>2. r \in ThreadStates /\ r.pc = "exit" /\ r.call = thr[t].call /\ r.cpu = c /\ r.a = a
  BY <1>1 DEF ThreadStates
<1>3. CASE Reported(ret)
  <2>1. thr' = [thr EXCEPT ![t] = r]
    BY <1>3 DEF Pair
  <2> HIDE DEF r
  <2>2. OnlyThread(t) /\ thr'[t] = r
    BY <1>2, <2>1, SetThread
  <2>3. QED
    BY <1>2, <1>3, <2>2
<1>4. CASE ~Reported(ret)
  BY <1>4, SetThread, UserState DEF Pair
<1>5. QED
  BY <1>3, <1>4

LEMMA ExitCallDoes ==
    ASSUME TypeOK, NEW t \in Threads, NEW c \in CPUs, NEW ret, ExitCall(t, c, ret)
    PROVE  /\ OnlyThread(t) /\ thr[t].pc = "kernel"
           /\ \/ thr'[t].pc = "exit" /\ thr'[t].call = thr[t].call /\ thr'[t].cpu = c
                 /\ thr'[t].a = scratch[t] /\ scratch[t] # NULL /\ "exit" \in linked /\ Reported(ret)
              \/ thr'[t] = User
                 /\ ("exit" \notin linked \/ scratch[t] = NULL \/ ~Reported(ret))
<1>1. thr[t].pc = "kernel"
  BY DEF ExitCall
<1>2. CASE "exit" \in linked /\ Pair(t, c, ret)
  BY <1>1, <1>2, PairDoes DEF Pair
<1>3. CASE ~("exit" \in linked /\ Pair(t, c, ret))
  <2>1. thr' = [thr EXCEPT ![t] = User] /\ ("exit" \notin linked \/ scratch[t] = NULL)
    BY <1>3 DEF ExitCall
  <2>2. QED
    BY <1>1, <2>1, SetThread, UserState
<1>4. QED
  BY <1>2, <1>3

LEMMA ExitReportDoes ==
    ASSUME TypeOK, NEW t \in Threads, ExitReport(t)
    PROVE  OnlyThread(t) /\ thr[t].pc = "exit" /\ thr'[t] = User
BY SetThread, UserState DEF ExitReport

-----------------------------------------------------------------------------
(***************************************************************************)
(* The scratch map.                                                        *)
(***************************************************************************)
MapTypes ==
    /\ scratch \in [Threads -> AllElems \cup {NULL}]
    /\ args \in [AllElems -> Nat \cup {NULL}]
    /\ free \in [CPUs -> SUBSET AllElems]
    /\ extra \in [CPUs -> AllElems]

\* An element that is under no key gets the call and is put under t.
Stored(t, c, x, n) ==
    /\ \A u \in Threads : scratch[u] # x
    /\ scratch'[t] = x /\ \A u \in Threads : u # t => scratch'[u] = scratch[u]
    /\ args'[x] = n /\ \A y \in AllElems : y # x => args'[y] = args[y]
    /\ stolen' \in BOOLEAN /\ (~stolen' => ~stolen)
    /\ ~stolen' => \A d \in CPUs : d # c => free'[d] = free[d] /\ x \notin free[d]
    /\ lost' = lost

LEMMA ReplaceDoes ==
    ASSUME TypeOK, Placed, NEW t \in Threads, NEW c \in CPUs, NEW n \in Nat, Replace(c, t, n)
    PROVE  MapTypes' /\ Placed' /\ \E x \in AllElems : Stored(t, c, x, n)
<1>1. /\ scratch[t] # NULL
      /\ args' = [args EXCEPT ![extra[c]] = n]
      /\ scratch' = [scratch EXCEPT ![t] = extra[c]]
      /\ extra' = [extra EXCEPT ![c] = scratch[t]]
      /\ UNCHANGED << free, stolen, lost >>
  BY DEF Replace
<1>2. MapTypes /\ extra[c] \in AllElems /\ scratch[t] \in AllElems
  BY <1>1 DEF TypeOK, MapTypes
<1>3. MapTypes'
  BY <1>1, <1>2 DEF MapTypes
<1>4. /\ scratch'[t] = extra[c] /\ \A u \in Threads : u # t => scratch'[u] = scratch[u]
      /\ extra'[c] = scratch[t] /\ \A d \in CPUs : d # c => extra'[d] = extra[d]
      /\ free' = free
  BY <1>1, <1>2 DEF MapTypes
<1>5. Placed'
  <2>1. \A u, w \in Threads : scratch'[u] # NULL /\ scratch'[u] = scratch'[w] => u = w
    BY <1>4 DEF Placed
  <2>2. \A u \in Threads, d \in CPUs : scratch'[u] \notin free'[d] /\ scratch'[u] # extra'[d]
    BY <1>1, <1>2, <1>4 DEF Placed
  <2>3. \A d, f \in CPUs : extra'[d] \notin free'[f]
    BY <1>4 DEF Placed
  <2>4. \A d, f \in CPUs : extra'[d] = extra'[f] => d = f
    BY <1>4 DEF Placed
  <2>5. \A d, f \in CPUs : \A x \in free'[d] : x \in free'[f] => d = f
    BY <1>4 DEF Placed
  <2>6. QED
    BY <2>1, <2>2, <2>3, <2>4, <2>5 DEF Placed
<1>6. stolen' \in BOOLEAN /\ (~stolen' => ~stolen)
  BY <1>1 DEF TypeOK
<1>7. Stored(t, c, extra[c], n)
  BY <1>1, <1>2, <1>4, <1>6 DEF Stored, Placed, MapTypes
<1>8. QED
  BY <1>2, <1>3, <1>5, <1>7

LEMMA InsertDoes ==
    ASSUME TypeOK, Placed, NEW t \in Threads, NEW c \in CPUs, NEW n \in Nat, Insert(c, t, n)
    PROVE  MapTypes' /\ Placed' /\ \E x \in AllElems : Stored(t, c, x, n)
<1>1. PICK d \in CPUs, x \in AllElems :
        /\ scratch[t] = NULL /\ x \in free[d]
        /\ d = c \/ free[c] = {}
        /\ args' = [args EXCEPT ![x] = n]
        /\ scratch' = [scratch EXCEPT ![t] = x]
        /\ free' = [free EXCEPT ![d] = @ \ {x}]
        /\ stolen' = (stolen \/ d # c)
        /\ UNCHANGED << extra, lost >>
  BY Zenon DEF Insert
<1>2. MapTypes
  BY DEF TypeOK, MapTypes
<1>3. MapTypes'
  BY <1>1, <1>2 DEF MapTypes
<1>4. /\ scratch'[t] = x /\ \A u \in Threads : u # t => scratch'[u] = scratch[u]
      /\ free'[d] = free[d] \ {x} /\ \A f \in CPUs : f # d => free'[f] = free[f]
      /\ extra' = extra
  BY <1>1, <1>2 DEF MapTypes
<1>5. \A f \in CPUs : free'[f] \subseteq free[f] /\ x \notin free'[f]
  BY <1>1, <1>4 DEF Placed
<1>6. Placed'
  <2>1. \A u, w \in Threads : scratch'[u] # NULL /\ scratch'[u] = scratch'[w] => u = w
    BY <1>1, <1>4 DEF Placed
  <2>2. \A u \in Threads, f \in CPUs : scratch'[u] \notin free'[f] /\ scratch'[u] # extra'[f]
    BY <1>1, <1>4, <1>5 DEF Placed
  <2>3. \A e, f \in CPUs : extra'[e] \notin free'[f]
    BY <1>4, <1>5 DEF Placed
  <2>4. \A e, f \in CPUs : extra'[e] = extra'[f] => e = f
    BY <1>4 DEF Placed
  <2>5. \A e, f \in CPUs : \A y \in free'[e] : y \in free'[f] => e = f
    BY <1>5 DEF Placed
  <2>6. QED
    BY <2>1, <2>2, <2>3, <2>4, <2>5 DEF Placed
<1>7. stolen' \in BOOLEAN /\ (~stolen' => ~stolen /\ d = c)
  BY <1>1, Zenon
<1>8. Stored(t, c, x, n)
  <2>1. \A u \in Threads : scratch[u] # x
    BY <1>1 DEF Placed
  <2>2. args'[x] = n /\ \A y \in AllElems : y # x => args'[y] = args[y]
    BY <1>1, <1>2 DEF MapTypes
  <2>3. ~stolen' => \A f \in CPUs : f # c => free'[f] = free[f] /\ x \notin free[f]
    BY <1>1, <1>4, <1>7 DEF Placed
  <2>4. QED
    BY <1>1, <1>4, <1>7, <2>1, <2>2, <2>3, Zenon DEF Stored
<1>9. QED
  BY <1>3, <1>6, <1>8

\* The exit handler puts the element of t on the free list of its CPU.
LEMMA PairPlaced ==
    ASSUME TypeOK, Placed, NEW t \in Threads, NEW c \in CPUs, NEW ret, Pair(t, c, ret)
    PROVE  /\ MapTypes' /\ Placed' /\ UNCHANGED << args, stolen, unseen >>
           /\ scratch[t] \in AllElems /\ scratch'[t] = NULL
           /\ \A u \in Threads : u # t => scratch'[u] = scratch[u]
           /\ scratch[t] \in free'[c]
           /\ \A d \in CPUs : free[d] \subseteq free'[d]
<1>1. /\ scratch[t] # NULL
      /\ scratch' = [scratch EXCEPT ![t] = NULL]
      /\ free' = [free EXCEPT ![c] = @ \cup {scratch[t]}]
      /\ UNCHANGED << args, extra, stolen, unseen >>
  BY DEF Pair
<1>2. MapTypes /\ scratch[t] \in AllElems
  BY <1>1 DEF TypeOK, MapTypes
<1>3. MapTypes'
  BY <1>1, <1>2 DEF MapTypes
<1>4. /\ scratch'[t] = NULL /\ \A u \in Threads : u # t => scratch'[u] = scratch[u]
      /\ free'[c] = free[c] \cup {scratch[t]} /\ \A f \in CPUs : f # c => free'[f] = free[f]
      /\ extra' = extra
  BY <1>1, <1>2 DEF MapTypes
<1>5. Placed'
  <2>1. \A u, w \in Threads : scratch'[u] # NULL /\ scratch'[u] = scratch'[w] => u = w
    BY <1>1, <1>4 DEF Placed
  <2>2. \A u \in Threads, f \in CPUs : scratch'[u] \notin free'[f] /\ scratch'[u] # extra'[f]
    BY <1>1, <1>2, <1>3, <1>4, NullFacts DEF Placed, MapTypes
  <2>3. \A e, f \in CPUs : extra'[e] \notin free'[f]
    BY <1>4 DEF Placed
  <2>4. \A e, f \in CPUs : extra'[e] = extra'[f] => e = f
    BY <1>4 DEF Placed
  <2>5. \A e, f \in CPUs : \A y \in free'[e] : y \in free'[f] => e = f
    BY <1>4 DEF Placed
  <2>6. QED
    BY <2>1, <2>2, <2>3, <2>4, <2>5 DEF Placed
<1>6. \A d \in CPUs : free[d] \subseteq free'[d]
  BY <1>4
<1>7. QED
  BY <1>1, <1>2, <1>3, <1>4, <1>5, <1>6

\* bpf_map_update_elem() in the enter handler: the call is saved, or there is no
\* handler, or no room.
LEMMA EnterCallMap ==
    ASSUME TypeOK, Placed, NEW t \in Threads, NEW c \in CPUs, EnterCall(t, c)
    PROVE  /\ MapTypes' /\ Placed' /\ stolen' \in BOOLEAN /\ (~stolen' => ~stolen)
           /\ \/ "enter" \in linked /\ \E x \in AllElems : Stored(t, c, x, calls + 1)
              \/ /\ UNCHANGED map_vars /\ lost \subseteq lost' /\ lost' \subseteq lost \cup {calls + 1}
                 /\ "enter" \in linked => scratch[t] = NULL /\ calls + 1 \in lost'
<1>1. calls + 1 \in Nat
  BY EnterCallDoes
<1>2. CASE "enter" \in linked /\ (Replace(c, t, calls + 1) \/ Insert(c, t, calls + 1))
  BY <1>1, <1>2, ReplaceDoes, InsertDoes DEF Stored
<1>3. CASE \/ "enter" \in linked /\ MapFull(t, calls + 1)
           \/ "enter" \notin linked /\ UNCHANGED << map_vars, lost >>
  <2>1. UNCHANGED map_vars
    BY <1>3 DEF MapFull
  <2>2. MapTypes' /\ Placed'
    BY <2>1 DEF map_vars, MapTypes, TypeOK, Placed
  <2>3. stolen' \in BOOLEAN /\ (~stolen' => ~stolen)
    BY <2>1, Zenon DEF map_vars, TypeOK
  <2>4. /\ lost \subseteq lost' /\ lost' \subseteq lost \cup {calls + 1}
        /\ "enter" \in linked => scratch[t] = NULL /\ calls + 1 \in lost'
    BY <1>3 DEF MapFull
  <2>5. QED
    BY <2>1, <2>2, <2>3, <2>4
<1>4. QED
  BY <1>2, <1>3 DEF EnterCall

-----------------------------------------------------------------------------
(***************************************************************************)
(* Types and places.                                                       *)
(***************************************************************************)
LoaderTypes ==
    /\ kind \in Kinds
    /\ \/ loader \in {"attach_enter", "done"} /\ linked = {}
       \/ loader = "attach_exit" /\ linked = {"enter"}
       \/ loader \in {"new_ring", "poll", "detach_enter"} /\ linked = {"enter", "exit"}
       \/ loader = "detach_exit" /\ linked = {"exit"}

EventTypes == events \in Seq(Events) /\ Len(events) <= RingSize /\ shown \subseteq Events

LogTypes ==
    /\ calls \in 0..MaxCalls /\ others \in 0..MaxOther
    /\ unseen \subseteq 1..calls /\ due \subseteq 1..calls
    /\ sent \subseteq 1..calls /\ lost \subseteq 1..calls

LEMMA TypeGroups ==
    TypeOK <=> /\ LoaderTypes /\ MapTypes /\ EventTypes /\ LogTypes
               /\ thr \in [Threads -> ThreadStates] /\ stolen \in BOOLEAN
BY Zenon DEF TypeOK, LoaderTypes, MapTypes, EventTypes, LogTypes

LEMMA TypeGroupsNext ==
    TypeOK' <=> /\ LoaderTypes' /\ MapTypes' /\ EventTypes' /\ LogTypes'
                /\ thr' \in [Threads -> ThreadStates] /\ stolen' \in BOOLEAN
BY Zenon DEF TypeOK, LoaderTypes, MapTypes, EventTypes, LogTypes

LEMMA ThreadFields ==
    ASSUME TypeOK, NEW t \in Threads
    PROVE  /\ thr[t] \in ThreadStates
           /\ thr[t].pc \in {"user", "kernel", "exit"} /\ thr[t].call \in Nat \cup {NULL}
           /\ thr[t].cpu \in CPUs \cup {NULL} /\ thr[t].a \in AllElems \cup {NULL}
BY DEF TypeOK, ThreadStates

\* The steps of the loader other than handle_event().
LoaderStep ==
    attach_tracepoints \/ ring_buffer__new \/ ring_buffer__free \/ detach_tracepoints

LEMMA LoaderDoes ==
    ASSUME TypeOK, LoaderStep
    PROVE  /\ UNCHANGED << kind, map_vars, thr, events, calls, others, log_vars >>
           /\ LoaderTypes'
           /\ Early' => Early
           /\ loader' # "attach_enter"
<1> USE DEF LoaderStep, attach_tracepoints, ring_buffer__new, ring_buffer__free,
            detach_tracepoints, Step
<1>1. UNCHANGED << kind, map_vars, thr, events, calls, others, log_vars >>
  OBVIOUS
<1>2. LoaderTypes'
  BY <1>1 DEF TypeOK, LoaderTypes
<1>3. QED
  BY <1>1, <1>2 DEF Early

\* The ring: what an append and a read do.
LEMMA AppendEvent ==
    ASSUME TypeOK, NEW e \in Events, HasRoom, events' = Append(events, e)
    PROVE  /\ events' \in Seq(Events) /\ Len(events') <= RingSize
           /\ Len(events') = Len(events) + 1 /\ Len(events) \in Nat
           /\ events'[Len(events) + 1] = e
           /\ \A k \in 1..Len(events) : events'[k] = events[k]
BY NullFacts DEF TypeOK, HasRoom

LEMMA ReadEvent ==
    ASSUME TypeOK, events # << >>, events' = Tail(events)
    PROVE  /\ events' \in Seq(Events) /\ Len(events') <= RingSize
           /\ Len(events) \in Nat /\ 1 \in 1..Len(events) /\ Len(events') = Len(events) - 1
           /\ Head(events) = events[1] /\ Head(events) \in Events
           /\ \A k \in 1..Len(events') : events'[k] = events[k + 1] /\ k + 1 \in 1..Len(events)
BY NullFacts DEF TypeOK

LEMMA EventFields ==
    /\ \A e \in Events : e.call \in Nat \cup {NULL} /\ e.addr \in Nat \cup {NULL}
    /\ \A n, m \in Nat \cup {NULL} : /\ [call |-> n, addr |-> m] \in Events
                                     /\ [call |-> n, addr |-> m].call = n
                                     /\ [call |-> n, addr |-> m].addr = m
BY DEF Events

LEMMA OtherEventDoes ==
    ASSUME Uprobe \/ (\E count \in {0, 1} : trace_write_enter(count))
                  \/ (\E ret \in {-1, 0, 1} : trace_read_exit(ret))
    PROVE  OtherEvent
BY DEF Uprobe, trace_write_enter, trace_read_exit

LEMMA TypeStep ==
    ASSUME TypeOK, Placed, CallsInv, [Next]_vars
    PROVE  TypeOK' /\ Placed'
<1>1. /\ LoaderTypes /\ MapTypes /\ EventTypes /\ LogTypes
      /\ thr \in [Threads -> ThreadStates] /\ stolen \in BOOLEAN
  BY TypeGroups
<1>2. ASSUME UNCHANGED << kind, loader_vars >> PROVE LoaderTypes'
  BY <1>1, <1>2 DEF LoaderTypes, loader_vars
<1>3. ASSUME UNCHANGED map_vars PROVE MapTypes' /\ Placed' /\ stolen' \in BOOLEAN
  BY <1>1, <1>3 DEF MapTypes, map_vars, Placed
<1>4. ASSUME UNCHANGED << events, shown >> PROVE EventTypes'
  BY <1>1, <1>4 DEF EventTypes
<1>5. ASSUME UNCHANGED << calls, others, unseen, due, sent, lost >> PROVE LogTypes'
  BY <1>1, <1>5 DEF LogTypes
<1>6. ASSUME NEW t \in Threads, NEW c \in CPUs, EnterCall(t, c)
      PROVE  TypeOK' /\ Placed'
  <2>1. OnlyThread(t) /\ calls \in Nat /\ calls < MaxCalls /\ calls' = calls + 1
    BY <1>6, EnterCallDoes
  <2>2. MapTypes' /\ Placed' /\ stolen' \in BOOLEAN /\ lost' \subseteq lost \cup {calls + 1}
    BY <1>6, EnterCallMap DEF Stored
  <2>3. UNCHANGED << kind, loader_vars, events, others, shown, unseen, due, sent >>
    BY <1>6 DEF EnterCall
  <2>4. LogTypes'
    BY <1>1, <2>1, <2>2, <2>3, NullFacts DEF LogTypes
  <2>5. QED
    BY <1>2, <1>4, <2>1, <2>2, <2>3, <2>4, TypeGroupsNext DEF OnlyThread
<1>7. ASSUME NEW t \in Threads, NEW c \in CPUs, NEW ret, ExitCall(t, c, ret)
      PROVE  TypeOK' /\ Placed'
  <2>1. OnlyThread(t) /\ thr[t].pc = "kernel"
    BY <1>7, ExitCallDoes
  <2>2. thr[t].call \in 1..calls
    BY <1>7, <2>1 DEF CallsInv
  <2>3. MapTypes' /\ Placed' /\ stolen' \in BOOLEAN
    <3>1. CASE UNCHANGED map_vars
      BY <3>1, <1>3
    <3>2. CASE Pair(t, c, ret)
      BY <1>1, <3>2, PairPlaced
    <3>3. QED
      BY <1>7, <3>1, <3>2 DEF ExitCall
  <2>4. UNCHANGED << kind, loader_vars, events, calls, others, shown, sent, lost >>
    BY <1>7 DEF ExitCall
  <2>5. unseen' \subseteq unseen \cup {thr[t].call} /\ due' \subseteq due \cup {thr[t].call}
    BY <1>7 DEF ExitCall, Pair
  <2>6. LogTypes'
    BY <1>1, <2>2, <2>4, <2>5 DEF LogTypes
  <2>7. QED
    BY <1>2, <1>4, <2>1, <2>3, <2>4, <2>6, TypeGroupsNext DEF OnlyThread
<1>8. ASSUME NEW t \in Threads, ExitReport(t)
      PROVE  TypeOK' /\ Placed'
  <2>1. OnlyThread(t) /\ thr[t].pc = "exit"
    BY <1>8, ExitReportDoes
  <2>2. thr[t].call \in 1..calls /\ thr[t].call \in Nat \cup {NULL} /\ thr[t].a \in AllElems
    BY <2>1, ThreadFields DEF CallsInv
  <2>3. UNCHANGED << kind, loader_vars, map_vars, calls, others, shown, unseen, due >>
    BY <1>8 DEF ExitReport
  <2>4. sent' \subseteq sent \cup {thr[t].call} /\ lost' \subseteq lost \cup {thr[t].call}
    BY <1>8 DEF ExitReport
  <2>5. LogTypes'
    BY <1>1, <2>2, <2>3, <2>4 DEF LogTypes
  <2>6. EventTypes'
    <3> DEFINE e == [call |-> thr[t].call, addr |-> args[thr[t].a]]
    <3>1. e \in Events
      BY <1>1, <2>2, EventFields DEF MapTypes
    <3>2. CASE HasRoom /\ events' = Append(events, e)
      BY <1>1, <2>3, <3>1, <3>2, AppendEvent DEF EventTypes
    <3>3. CASE UNCHANGED events
      BY <2>3, <3>3, <1>4
    <3>4. QED
      BY <1>8, <3>2, <3>3 DEF ExitReport
  <2>7. QED
    BY <1>2, <1>3, <2>1, <2>3, <2>5, <2>6, TypeGroupsNext DEF OnlyThread
<1>9. CASE OtherEvent
  <2>1. UNCHANGED << kind, loader_vars, map_vars, thr, calls, log_vars >>
    BY <1>9 DEF OtherEvent
  <2>2. EventTypes'
    <3> DEFINE e == [call |-> NULL, addr |-> NULL]
    <3>1. e \in Events
      BY EventFields
    <3>2. CASE HasRoom /\ events' = Append(events, e)
      BY <1>1, <2>1, <3>1, <3>2, AppendEvent DEF EventTypes, log_vars
    <3>3. CASE UNCHANGED events
      BY <2>1, <3>3, <1>4 DEF log_vars
    <3>4. QED
      BY <1>9, <3>2, <3>3 DEF OtherEvent
  <2>3. LogTypes'
    BY <1>1, <1>9, <2>1, NullFacts DEF OtherEvent, LogTypes, log_vars
  <2>4. QED
    BY <1>1, <1>2, <1>3, <2>1, <2>2, <2>3, TypeGroupsNext
<1>10. CASE handle_event
  <2>1. UNCHANGED << kind, loader_vars, map_vars, thr, calls, others, unseen, due, sent, lost >>
    BY <1>10 DEF handle_event
  <2>2. EventTypes'
    BY <1>1, <1>10, ReadEvent DEF handle_event, EventTypes
  <2>3. QED
    BY <1>1, <1>2, <1>3, <1>5, <2>1, <2>2, TypeGroupsNext
<1>11. CASE LoaderStep
  <2>1. LoaderTypes' /\ UNCHANGED << kind, map_vars, thr, events, calls, others, log_vars >>
    BY <1>11, LoaderDoes
  <2>2. QED
    BY <1>1, <1>3, <1>4, <1>5, <2>1, TypeGroupsNext DEF log_vars
<1>12. CASE UNCHANGED vars
  BY <1>1, <1>2, <1>3, <1>4, <1>5, <1>12, TypeGroupsNext DEF vars, log_vars
<1>13. QED
  BY <1>6, <1>7, <1>8, <1>9, <1>10, <1>11, <1>12, OtherEventDoes DEF Next, LoaderStep

-----------------------------------------------------------------------------
(***************************************************************************)
(* Calls.                                                                  *)
(***************************************************************************)
\* The steps that no thread and no entry has a part in.
Apart == OtherEvent \/ handle_event \/ LoaderStep \/ UNCHANGED vars

LEMMA ApartDoes ==
    ASSUME TypeOK, Apart
    PROVE  /\ UNCHANGED << scratch, args, free, extra, stolen, thr, calls, unseen, due, sent, lost >>
           /\ Early' => Early
           /\ loader' = "attach_enter" => loader = "attach_enter"
<1>1. UNCHANGED << map_vars, thr, calls, unseen, due, sent, lost >>
  BY LoaderDoes DEF Apart, OtherEvent, handle_event, vars, log_vars
<1>2. UNCHANGED loader \/ ((Early' => Early) /\ loader' # "attach_enter")
  BY LoaderDoes DEF Apart, OtherEvent, handle_event, vars, loader_vars
<1>3. QED
  BY <1>1, <1>2 DEF map_vars, Early

LEMMA NextSteps ==
    ASSUME [Next]_vars
    PROVE  \/ \E t \in Threads, c \in CPUs : EnterCall(t, c)
           \/ \E t \in Threads, c \in CPUs, ret \in Returns : ExitCall(t, c, ret)
           \/ \E t \in Threads : ExitReport(t)
           \/ Apart
BY OtherEventDoes DEF Next, Apart, LoaderStep

LEMMA CallsStep ==
    ASSUME TypeOK, CallsInv, [Next]_vars
    PROVE  CallsInv'
<1>1. calls \in Nat /\ due \subseteq 1..calls /\ sent \subseteq 1..calls
  BY TypeGroups DEF LogTypes
<1>2. ASSUME NEW t \in Threads, NEW c \in CPUs, EnterCall(t, c)
      PROVE  CallsInv'
  <2>1. /\ OnlyThread(t) /\ thr'[t].pc = "kernel" /\ thr'[t].call = calls + 1 /\ calls' = calls + 1
    BY <1>2, EnterCallDoes
  <2>2. UNCHANGED << due, sent >>
    BY <1>2 DEF EnterCall
  <2>3. \A u \in Threads : thr'[u].pc # "user" =>
            \/ u = t /\ thr'[u].call = calls + 1 /\ thr'[u].pc = "kernel"
            \/ u # t /\ thr'[u] = thr[u] /\ thr[u].call \in 1..calls /\ thr[u].call # calls + 1
    BY <1>1, <2>1 DEF OnlyThread, CallsInv
  <2>4. calls + 1 \in 1..calls' /\ calls + 1 \notin due /\ calls + 1 \notin sent /\ 1..calls \subseteq 1..calls'
    BY <1>1, <2>1
  <2>5. QED
    BY <2>2, <2>3, <2>4 DEF CallsInv
<1>3. ASSUME NEW t \in Threads, NEW c \in CPUs, NEW ret, ExitCall(t, c, ret)
      PROVE  CallsInv'
  <2>1. /\ OnlyThread(t) /\ thr[t].pc = "kernel"
        /\ thr'[t].pc = "user" \/ (/\ thr'[t].pc = "exit" /\ thr'[t].call = thr[t].call
                                   /\ thr'[t].a # NULL)
    BY <1>3, ExitCallDoes, UserState
  <2>2. UNCHANGED << calls, sent >> /\ due' \subseteq due \cup {thr[t].call}
    BY <1>3 DEF ExitCall
  <2>3. \A u \in Threads : u # t => thr'[u] = thr[u]
    BY <2>1 DEF OnlyThread
  <2>4. QED
    BY <2>1, <2>2, <2>3 DEF CallsInv
<1>4. ASSUME NEW t \in Threads, ExitReport(t)
      PROVE  CallsInv'
  <2>1. /\ OnlyThread(t) /\ thr[t].pc = "exit" /\ thr'[t].pc = "user"
    BY <1>4, ExitReportDoes, UserState
  <2>2. UNCHANGED << calls, due >> /\ sent' \subseteq sent \cup {thr[t].call}
    BY <1>4 DEF ExitReport
  <2>3. \A u \in Threads : u # t => thr'[u] = thr[u]
    BY <2>1 DEF OnlyThread
  <2>4. QED
    BY <2>1, <2>2, <2>3 DEF CallsInv
<1>5. CASE Apart
  BY <1>5, ApartDoes DEF CallsInv
<1>6. QED
  BY <1>2, <1>3, <1>4, <1>5, NextSteps

LEMMA EntriesStep ==
    ASSUME TypeOK, Placed, EntriesLive, CallsInv, [Next]_vars
    PROVE  EntriesLive'
<1>1. scratch \in [Threads -> AllElems \cup {NULL}]
  BY DEF TypeOK
<1>2. ASSUME NEW t \in Threads, NEW c \in CPUs, EnterCall(t, c)
      PROVE  EntriesLive'
  <2>1. /\ OnlyThread(t) /\ thr[t].pc = "user" /\ thr'[t].pc = "kernel" /\ thr'[t].call = calls + 1
    BY <1>2, EnterCallDoes
  <2>2. unseen' = unseen
    BY <1>2 DEF EnterCall
  <2>3. ASSUME NEW x \in AllElems, Stored(t, c, x, calls + 1)
        PROVE  EntriesLive'
    BY <1>1, <2>1, <2>2, <2>3 DEF Stored, EntriesLive, OnlyThread
  <2>4. CASE UNCHANGED map_vars
    BY <2>1, <2>2, <2>4 DEF map_vars, EntriesLive, OnlyThread
  <2>5. QED
    BY <1>2, <2>3, <2>4, EnterCallMap
<1>3. ASSUME NEW t \in Threads, NEW c \in CPUs, NEW ret, ExitCall(t, c, ret)
      PROVE  EntriesLive'
  <2>1. OnlyThread(t)
    BY <1>3, ExitCallDoes
  <2>2. CASE "exit" \notin linked /\ unseen' = unseen \cup {thr[t].call} /\ UNCHANGED map_vars
    BY <2>1, <2>2 DEF map_vars, EntriesLive, OnlyThread
  <2>3. CASE scratch[t] = NULL /\ UNCHANGED << map_vars, unseen >>
    BY <2>1, <2>3 DEF map_vars, EntriesLive, OnlyThread
  <2>4. CASE Pair(t, c, ret)
    BY <2>1, <2>4, PairPlaced DEF EntriesLive, OnlyThread
  <2>5. QED
    BY <1>3, <2>2, <2>3, <2>4 DEF ExitCall
<1>4. ASSUME NEW t \in Threads, ExitReport(t)
      PROVE  EntriesLive'
  <2>1. OnlyThread(t) /\ thr[t].pc = "exit" /\ UNCHANGED << scratch, args, unseen >>
    BY <1>4, ExitReportDoes DEF ExitReport, map_vars
  <2>2. QED
    BY <2>1 DEF EntriesLive, OnlyThread
<1>5. CASE Apart
  BY <1>5, ApartDoes DEF EntriesLive
<1>6. QED
  BY <1>2, <1>3, <1>4, <1>5, NextSteps

LEMMA DueStep ==
    ASSUME TypeOK, Placed, CallsInv, DueInv, [Next]_vars
    PROVE  DueInv'
<1>1. ASSUME NEW t \in Threads, NEW c \in CPUs, EnterCall(t, c)
      PROVE  DueInv'
  <2>1. /\ OnlyThread(t) /\ thr[t].pc = "user" /\ thr'[t].pc = "kernel" /\ thr'[t].call = calls + 1
        /\ thr'[t].seen = ("enter" \in linked)
    BY <1>1, EnterCallDoes
  <2>2. UNCHANGED << due, sent >> /\ lost \subseteq lost'
    BY <1>1, EnterCallMap DEF EnterCall, Stored
  <2>3. \A n \in due' : n \in sent' \cup lost' \/ \E u \in Threads : thr'[u].pc = "exit" /\ thr'[u].call = n
    BY <2>1, <2>2 DEF DueInv, OnlyThread
  <2>4. ASSUME NEW u \in Threads, u # t
        PROVE  scratch'[u] = scratch[u]
    BY <1>1, <2>4, EnterCallMap DEF Stored, map_vars
  <2>5. "enter" \in linked => scratch'[t] # NULL \/ calls + 1 \in lost'
    BY <1>1, EnterCallMap, NullFacts DEF Stored
  <2>6. \A u \in Threads :
          thr'[u].pc = "kernel" /\ thr'[u].seen => scratch'[u] # NULL \/ thr'[u].call \in lost'
    <3>1. thr'[t].seen => "enter" \in linked
      BY <2>1, Zenon
    <3>2. thr'[t].seen => scratch'[t] # NULL \/ thr'[t].call \in lost'
      BY <2>1, <2>5, <3>1
    <3>3. ASSUME NEW u \in Threads, u # t, thr'[u].pc = "kernel", thr'[u].seen
          PROVE  scratch'[u] # NULL \/ thr'[u].call \in lost'
      BY <2>1, <2>2, <2>4, <3>3 DEF DueInv, OnlyThread
    <3>4. QED
      BY <3>2, <3>3
  <2>7. QED
    BY <2>3, <2>6 DEF DueInv
<1>2. ASSUME NEW t \in Threads, NEW c \in CPUs, NEW ret, ExitCall(t, c, ret)
      PROVE  DueInv'
  <2>1. /\ OnlyThread(t) /\ thr[t].pc = "kernel"
        /\ thr'[t].pc # "kernel"
        /\ \/ thr'[t].pc = "exit" /\ thr'[t].call = thr[t].call
           \/ "exit" \notin linked \/ scratch[t] = NULL \/ ~Reported(ret)
    BY <1>2, ExitCallDoes, UserState
  <2>2. UNCHANGED << sent, lost >>
    BY <1>2 DEF ExitCall
  <2>3. due' = IF "exit" \in linked /\ thr[t].seen /\ Reported(ret)
                 THEN due \cup {thr[t].call} ELSE due
    BY <1>2 DEF ExitCall
  <2>4. thr[t].call \in due' => \/ thr'[t].pc = "exit" /\ thr'[t].call = thr[t].call
                                \/ thr[t].call \in lost
    BY <2>1, <2>3 DEF DueInv, CallsInv
  <2>5. \A n \in due' : n \in sent' \cup lost' \/ \E u \in Threads : thr'[u].pc = "exit" /\ thr'[u].call = n
    BY <2>1, <2>2, <2>3, <2>4 DEF DueInv, OnlyThread
  <2>6. ASSUME NEW u \in Threads, u # t
        PROVE  scratch'[u] = scratch[u]
    BY <1>2, <2>6, PairPlaced DEF ExitCall, map_vars
  <2>7. \A u \in Threads :
          thr'[u].pc = "kernel" /\ thr'[u].seen => scratch'[u] # NULL \/ thr'[u].call \in lost'
    BY <2>1, <2>2, <2>6 DEF DueInv, OnlyThread
  <2>8. QED
    BY <2>5, <2>7 DEF DueInv
<1>3. ASSUME NEW t \in Threads, ExitReport(t)
      PROVE  DueInv'
  <2>1. OnlyThread(t) /\ thr[t].pc = "exit" /\ thr'[t].pc = "user" /\ UNCHANGED << scratch, due >>
    BY <1>3, ExitReportDoes, UserState DEF ExitReport, map_vars
  <2>2. sent \subseteq sent' /\ lost \subseteq lost' /\ thr[t].call \in sent' \cup lost'
    BY <1>3 DEF ExitReport
  <2>3. QED
    BY <2>1, <2>2 DEF DueInv, OnlyThread
<1>4. CASE Apart
  BY <1>4, ApartDoes DEF DueInv
<1>5. QED
  BY <1>1, <1>2, <1>3, <1>4, NextSteps

\* The ring: an exit handler appends the event of its call or nothing, the other
\* probes an event without a call; handle_event() takes the first one.
LEMMA ReportedEvent ==
    ASSUME TypeOK, CallsInv, NEW t \in Threads, ExitReport(t)
    PROVE  \/ UNCHANGED events
           \/ /\ Len(events) \in Nat /\ Len(events') = Len(events) + 1
              /\ events'[Len(events) + 1].call = thr[t].call
              /\ events'[Len(events) + 1].addr = args[thr[t].a]
              /\ \A k \in 1..Len(events) : events'[k] = events[k]
              /\ \A k \in 1..Len(events') : k \in 1..Len(events) \/ k = Len(events) + 1
              /\ thr[t].call \in sent'
<1> DEFINE e == [call |-> thr[t].call, addr |-> args[thr[t].a]]
<1>1. thr[t].call \in Nat \cup {NULL} /\ args[thr[t].a] \in Nat \cup {NULL}
  BY ExitReportDoes, ThreadFields DEF CallsInv, TypeOK
<1>2. e \in Events /\ e.call = thr[t].call /\ e.addr = args[thr[t].a]
  BY <1>1, EventFields
<1>3. CASE HasRoom /\ events' = Append(events, e) /\ thr[t].call \in sent'
  <2> HIDE DEF e
  <2>1. QED
    BY <1>2, <1>3, AppendEvent
<1>4. QED
  BY <1>3 DEF ExitReport

LEMMA OtherEventAppends ==
    ASSUME TypeOK, OtherEvent
    PROVE  \/ UNCHANGED events
           \/ \A k \in 1..Len(events') :
                \/ k \in 1..Len(events) /\ events'[k] = events[k]
                \/ events'[k].call = NULL /\ events'[k].addr = NULL
<1> DEFINE e == [call |-> NULL, addr |-> NULL]
<1>1. e \in Events /\ e.call = NULL /\ e.addr = NULL
  BY EventFields
<1>2. CASE HasRoom /\ events' = Append(events, e)
  <2> HIDE DEF e
  <2>1. QED
    BY <1>1, <1>2, AppendEvent
<1>3. QED
  BY <1>2 DEF OtherEvent

LEMMA ApartEvents ==
    ASSUME TypeOK, Apart
    PROVE  \A k \in 1..Len(events') :
             \/ \E j \in 1..Len(events) : events'[k] = events[j]
             \/ events'[k].call = NULL /\ events'[k].addr = NULL
<1>1. CASE OtherEvent
  BY <1>1, OtherEventAppends
<1>2. CASE handle_event
  BY <1>2, ReadEvent DEF handle_event
<1>3. CASE UNCHANGED events
  BY <1>3
<1>4. QED
  BY <1>1, <1>2, <1>3, LoaderDoes DEF Apart, vars

LEMMA EarlyStep ==
    ASSUME TypeOK, Placed, CallsInv, EarlyInv, [Next]_vars
    PROVE  EarlyInv'
<1>1. ASSUME NEW t \in Threads, NEW c \in CPUs, EnterCall(t, c)
      PROVE  EarlyInv'
  <2>1. /\ OnlyThread(t) /\ thr'[t].pc = "kernel"
        /\ thr'[t].seen = ("enter" \in linked)
    BY <1>1, EnterCallDoes
  <2>2. UNCHANGED << due, events, loader, linked >>
    BY <1>1 DEF EnterCall, loader_vars
  <2>3. loader = "attach_enter" => "enter" \notin linked
    BY DEF TypeOK
  <2>4. Early /\ "enter" \notin linked => loader = "attach_enter"
    BY DEF TypeOK, Early
  <2>5. "enter" \notin linked => scratch' = scratch
    BY <1>1, EnterCallMap DEF map_vars
  <2>6. ASSUME NEW u \in Threads, u # t
        PROVE  scratch'[u] = scratch[u] /\ thr'[u] = thr[u]
    BY <1>1, <2>1, <2>6, EnterCallMap DEF Stored, map_vars, OnlyThread
  <2>7. ~thr'[t].seen => "enter" \notin linked
    BY <2>1, Zenon
  <2>8. Early /\ ~thr'[t].seen => scratch'[t] = NULL
    BY <2>4, <2>5, <2>7 DEF EarlyInv
  <2>9. QED
    BY <2>1, <2>2, <2>3, <2>5, <2>6, <2>8 DEF EarlyInv, Early
<1>2. ASSUME NEW t \in Threads, NEW c \in CPUs, NEW ret, ExitCall(t, c, ret)
      PROVE  EarlyInv'
  <2>1. /\ OnlyThread(t) /\ thr[t].pc = "kernel" /\ thr'[t].pc # "kernel"
        /\ thr'[t].pc = "exit" => /\ thr'[t].call = thr[t].call /\ scratch[t] # NULL
                                  /\ "exit" \in linked /\ Reported(ret)
    BY <1>2, ExitCallDoes, UserState
  <2>2. UNCHANGED << events, loader, linked >>
    BY <1>2 DEF ExitCall, loader_vars
  <2>3. due \subseteq due' /\ ("exit" \in linked /\ thr[t].seen /\ Reported(ret) => thr[t].call \in due')
    BY <1>2 DEF ExitCall
  <2>4. Early /\ thr'[t].pc = "exit" => thr'[t].call \in due'
    BY <2>1, <2>3 DEF EarlyInv
  <2>5. ASSUME NEW u \in Threads, u # t
        PROVE  scratch'[u] = scratch[u] /\ thr'[u] = thr[u]
    BY <1>2, <2>1, <2>5, PairPlaced DEF ExitCall, map_vars, OnlyThread
  <2>6. scratch'[t] = scratch[t] \/ scratch'[t] = NULL
    BY <1>2, PairPlaced DEF ExitCall, map_vars
  <2>7. QED
    BY <2>1, <2>2, <2>3, <2>4, <2>5, <2>6 DEF EarlyInv, Early
<1>3. ASSUME NEW t \in Threads, ExitReport(t)
      PROVE  EarlyInv'
  <2>1. OnlyThread(t) /\ thr[t].pc = "exit" /\ thr'[t].pc = "user"
    BY <1>3, ExitReportDoes, UserState
  <2>2. UNCHANGED << scratch, due, loader >>
    BY <1>3 DEF ExitReport, map_vars, loader_vars
  <2>3. Early => \A k \in 1..Len(events') : events'[k].call # NULL => events'[k].call \in due
    BY <1>3, ReportedEvent, <2>1 DEF EarlyInv
  <2>4. QED
    BY <2>1, <2>2, <2>3 DEF EarlyInv, Early, OnlyThread
<1>4. CASE Apart
  <2>1. UNCHANGED << scratch, thr, due >> /\ (Early' => Early)
        /\ (loader' = "attach_enter" => loader = "attach_enter")
    BY <1>4, ApartDoes
  <2>2. Early => \A k \in 1..Len(events') : events'[k].call # NULL => events'[k].call \in due
    BY <1>4, ApartEvents DEF EarlyInv
  <2>3. QED
    BY <2>1, <2>2 DEF EarlyInv
<1>5. QED
  BY <1>1, <1>2, <1>3, <1>4, NextSteps

-----------------------------------------------------------------------------
(***************************************************************************)
(* What is printed.                                                        *)
(***************************************************************************)
LEMMA OnceStep ==
    ASSUME TypeOK, CallsInv, EarlyInv, OnceInv, [Next]_vars
    PROVE  OnceInv'
<1>1. ASSUME UNCHANGED << events, shown >>, due \subseteq due', sent \subseteq sent'
      PROVE  OnceInv'
  BY <1>1 DEF OnceInv
<1>2. ASSUME NEW t \in Threads, NEW c \in CPUs, EnterCall(t, c)
      PROVE  OnceInv'
  BY <1>1, <1>2 DEF EnterCall
<1>3. ASSUME NEW t \in Threads, NEW c \in CPUs, NEW ret, ExitCall(t, c, ret)
      PROVE  OnceInv'
  BY <1>1, <1>3 DEF ExitCall
<1>4. ASSUME NEW t \in Threads, ExitReport(t)
      PROVE  OnceInv'
  <2>1. UNCHANGED << shown, due >> /\ sent \subseteq sent'
    BY <1>4 DEF ExitReport
  <2>2. CASE UNCHANGED events
    BY <1>1, <2>1, <2>2
  <2>3. CASE ~UNCHANGED events
    <3>1. /\ Len(events) \in Nat /\ Len(events') = Len(events) + 1
          /\ events'[Len(events) + 1].call = thr[t].call
          /\ \A k \in 1..Len(events) : events'[k] = events[k]
          /\ thr[t].call \in sent'
      BY <1>4, <2>3, ReportedEvent
    <3>2. thr[t].call \notin sent
      BY <1>4 DEF ExitReport, CallsInv
    <3>3. \A k \in 1..Len(events') :
            \/ k \in 1..Len(events) /\ events'[k] = events[k]
            \/ k = Len(events) + 1 /\ events'[k].call = thr[t].call
      BY <3>1
    <3>4. \A k \in 1..Len(events') : events'[k].call # NULL => events'[k].call \in sent'
      BY <2>1, <3>1, <3>3 DEF OnceInv
    <3>5. \A j, k \in 1..Len(events') :
            events'[j].call # NULL /\ events'[j].call = events'[k].call => j = k
      BY <3>2, <3>3 DEF OnceInv
    <3>6. \A e \in shown, k \in 1..Len(events') : events'[k].call # e.call
      BY <3>2, <3>3 DEF OnceInv
    <3>7. QED
      BY <2>1, <3>4, <3>5, <3>6 DEF OnceInv
  <2>4. QED
    BY <2>2, <2>3
<1>5. CASE OtherEvent
  <2>1. UNCHANGED << shown, due, sent >>
    BY <1>5 DEF OtherEvent, log_vars
  <2>2. CASE UNCHANGED events
    BY <1>1, <2>1, <2>2
  <2>3. CASE ~UNCHANGED events
    <3>1. \A k \in 1..Len(events') :
            \/ k \in 1..Len(events) /\ events'[k] = events[k]
            \/ events'[k].call = NULL
      BY <1>5, <2>3, OtherEventAppends
    <3>2. QED
      BY <2>1, <3>1 DEF OnceInv
  <2>4. QED
    BY <2>2, <2>3
<1>6. CASE handle_event
  <2>1. UNCHANGED << due, sent >> /\ loader = "poll" /\ events # << >> /\ events' = Tail(events)
        /\ shown' = IF Head(events).call = NULL THEN shown ELSE shown \cup {Head(events)}
    BY <1>6 DEF handle_event
  <2>2. /\ Len(events) \in Nat /\ 1 \in 1..Len(events) /\ Head(events) = events[1]
        /\ \A k \in 1..Len(events') : events'[k] = events[k + 1] /\ k + 1 \in 1..Len(events) /\ k + 1 # 1
    BY <2>1, ReadEvent
  <2>3. \A k \in 1..Len(events') : events'[k].call # NULL => events'[k].call \in sent
    BY <2>2 DEF OnceInv
  <2>4. \A j, k \in 1..Len(events') :
          events'[j].call # NULL /\ events'[j].call = events'[k].call => j = k
    <3>1. ASSUME NEW j \in 1..Len(events'), NEW k \in 1..Len(events'),
                 events'[j].call # NULL, events'[j].call = events'[k].call
          PROVE  j + 1 = k + 1
      BY <2>2, <3>1 DEF OnceInv
    <3>2. QED
      BY <3>1
  <2>5. \A e \in shown' :
          \/ e \in shown
          \/ e = events[1] /\ e.call # NULL /\ e.call \in sent /\ e.call \in due
    BY <2>1, <2>2 DEF OnceInv, EarlyInv, Early
  <2>6. \A e \in shown' : e.call # NULL /\ e.call \in sent /\ e.call \in due
    BY <2>5 DEF OnceInv
  <2>7. \A e, f \in shown' : e.call = f.call => e = f
    BY <2>2, <2>5 DEF OnceInv
  <2>8. \A e \in shown', k \in 1..Len(events') : events'[k].call # e.call
    BY <2>2, <2>5 DEF OnceInv
  <2>9. QED
    BY <2>1, <2>3, <2>4, <2>6, <2>7, <2>8 DEF OnceInv
<1>7. CASE LoaderStep \/ UNCHANGED vars
  BY <1>1, <1>7, LoaderDoes DEF log_vars, vars
<1>8. QED
  BY <1>2, <1>3, <1>4, <1>5, <1>6, <1>7, NextSteps DEF Apart

\* A handler that runs keeps the others off its CPU, and its element with it.
LEMMA OwnEnter ==
    ASSUME TypeOK, Placed, CallsInv, OwnInv, NEW t \in Threads, NEW c \in CPUs, EnterCall(t, c)
    PROVE  OwnInv'
<1>1. /\ OnlyThread(t) /\ thr[t].pc = "user" /\ thr'[t].pc = "kernel" /\ thr'[t].call = calls + 1
      /\ thr'[t].seen = ("enter" \in linked)
  BY EnterCallDoes
<1>2. UNCHANGED << events, shown, loader >> /\ Available(c)
  BY DEF EnterCall, loader_vars
<1>3. CASE UNCHANGED map_vars /\ ("enter" \in linked => scratch[t] = NULL)
  <2>1. thr'[t].seen => scratch[t] = NULL
    BY <1>1, <1>3, Zenon
  <2>2. UNCHANGED << scratch, args, free, stolen >>
    BY <1>3 DEF map_vars
  <2>3. \A u \in Threads : u # t => thr'[u] = thr[u]
    BY <1>1 DEF OnlyThread
  <2>4. QED
    BY <1>1, <1>2, <2>1, <2>2, <2>3 DEF OwnInv, ShownIsOwn, Early
<1>4. ASSUME NEW x \in AllElems, Stored(t, c, x, calls + 1), ~stolen'
      PROVE  OwnInv'
  <2>1. ~stolen /\ \A d \in CPUs : d # c => free'[d] = free[d] /\ x \notin free[d]
    BY <1>4 DEF Stored
  <2>2. /\ \A u \in Threads : scratch[u] # x
        /\ scratch'[t] = x /\ \A u \in Threads : u # t => scratch'[u] = scratch[u]
        /\ args'[x] = calls + 1 /\ \A y \in AllElems : y # x => args'[y] = args[y]
    BY <1>4 DEF Stored
  <2>3. \A u \in Threads : u # t => thr'[u] = thr[u]
    BY <1>1 DEF OnlyThread
  <2>4. \A u \in Threads : thr'[u].pc = "exit" =>
          /\ u # t /\ thr'[u] = thr[u] /\ thr[u].cpu \in CPUs /\ thr[u].cpu # c
          /\ thr[u].a \in free[thr[u].cpu] /\ thr[u].a # x /\ thr[u].a \in AllElems
    BY <1>1, <1>2, <2>1, <2>3, ThreadFields DEF OwnInv, Available, CallsInv
  <2>5. \A u \in Threads : thr'[u].pc = "exit" => thr'[u].cpu \in CPUs /\ thr'[u].a \in free'[thr'[u].cpu]
    BY <2>1, <2>4
  <2>6. Early => \A u \in Threads : thr'[u].pc = "exit" => args'[thr'[u].a] = thr'[u].call
    BY <2>1, <2>2, <2>4 DEF OwnInv
  <2>7. Early => \A u \in Threads : thr'[u].pc = "kernel" /\ thr'[u].seen /\ scratch'[u] # NULL =>
                   args'[scratch'[u]] = thr'[u].call
    <3>1. args'[scratch'[t]] = thr'[t].call
      BY <1>1, <2>2
    <3>2. ASSUME Early, NEW u \in Threads, u # t, thr'[u].pc = "kernel", thr'[u].seen, scratch'[u] # NULL
          PROVE  args'[scratch'[u]] = thr'[u].call
      <4>1. scratch'[u] = scratch[u] /\ scratch[u] \in AllElems /\ scratch[u] # x /\ thr'[u] = thr[u]
        BY <2>2, <2>3, <3>2 DEF TypeOK
      <4>2. args[scratch[u]] = thr[u].call
        BY <2>1, <3>2, <4>1 DEF OwnInv
      <4>3. QED
        BY <2>2, <4>1, <4>2
    <3>3. QED
      BY <3>1, <3>2
  <2>8. QED
    BY <1>2, <2>1, <2>5, <2>6, <2>7 DEF OwnInv, ShownIsOwn, Early
<1>5. CASE stolen'
  BY <1>5 DEF OwnInv
<1>6. QED
  BY <1>3, <1>4, <1>5, EnterCallMap

LEMMA OwnExit ==
    ASSUME TypeOK, Placed, EarlyInv, OwnInv, NEW t \in Threads, NEW c \in CPUs, NEW ret,
           ExitCall(t, c, ret)
    PROVE  OwnInv'
<1>1. /\ OnlyThread(t) /\ thr[t].pc = "kernel" /\ thr'[t].pc # "kernel"
      /\ thr'[t].pc = "exit" => /\ thr'[t].call = thr[t].call /\ thr'[t].cpu = c
                                /\ thr'[t].a = scratch[t] /\ scratch[t] # NULL
  BY ExitCallDoes, UserState
<1>2. UNCHANGED << events, shown, loader >>
  BY DEF ExitCall, loader_vars
<1>3. /\ UNCHANGED << args, stolen >> /\ \A d \in CPUs : free[d] \subseteq free'[d]
      /\ \A u \in Threads : u # t => scratch'[u] = scratch[u]
  BY PairPlaced DEF ExitCall, map_vars
<1>4. thr'[t].pc = "exit" => scratch[t] \in free'[c]
  <2>1. CASE Pair(t, c, ret)
    BY <2>1, PairPlaced
  <2>2. CASE ~Pair(t, c, ret)
    BY <2>2, SetThread, UserState DEF ExitCall
  <2>3. QED
    BY <2>1, <2>2
<1>5. \A u \in Threads : u # t => thr'[u] = thr[u]
  BY <1>1 DEF OnlyThread
<1>6. Early /\ ~stolen /\ thr'[t].pc = "exit" => args[scratch[t]] = thr[t].call
  BY <1>1 DEF EarlyInv, OwnInv
<1>7. ASSUME ~stolen
      PROVE  OwnInv'
  <2>1. \A u \in Threads : thr'[u].pc = "exit" => thr'[u].cpu \in CPUs /\ thr'[u].a \in free'[thr'[u].cpu]
    BY <1>1, <1>3, <1>4, <1>5, <1>7 DEF OwnInv
  <2>2. Early => \A u \in Threads : thr'[u].pc = "exit" => args'[thr'[u].a] = thr'[u].call
    BY <1>1, <1>3, <1>5, <1>6, <1>7 DEF OwnInv
  <2>3. Early => \A u \in Threads : thr'[u].pc = "kernel" /\ thr'[u].seen /\ scratch'[u] # NULL =>
                   args'[scratch'[u]] = thr'[u].call
    BY <1>1, <1>3, <1>5, <1>7 DEF OwnInv
  <2>4. QED
    BY <1>2, <1>3, <1>7, <2>1, <2>2, <2>3 DEF OwnInv, ShownIsOwn, Early
<1>8. CASE stolen
  BY <1>3, <1>8 DEF OwnInv
<1>9. QED
  BY <1>7, <1>8

LEMMA OwnStep ==
    ASSUME TypeOK, Placed, CallsInv, EarlyInv, OwnInv, [Next]_vars
    PROVE  OwnInv'
<1>1. ASSUME NEW t \in Threads, ExitReport(t)
      PROVE  OwnInv'
  <2>1. OnlyThread(t) /\ thr[t].pc = "exit" /\ thr'[t].pc = "user"
    BY <1>1, ExitReportDoes, UserState
  <2>2. UNCHANGED << scratch, args, free, stolen, loader, shown >>
    BY <1>1 DEF ExitReport, map_vars, loader_vars
  <2>3. Early /\ ~stolen => \A k \in 1..Len(events') : events'[k].addr = events'[k].call
    BY <1>1, <2>1, ReportedEvent DEF OwnInv
  <2>4. \A u \in Threads : thr'[u].pc # "user" => thr'[u] = thr[u]
    BY <2>1 DEF OnlyThread
  <2>5. QED
    BY <2>2, <2>3, <2>4 DEF OwnInv, ShownIsOwn, Early
<1>2. CASE Apart
  <2>1. UNCHANGED << scratch, args, free, stolen, thr >> /\ (Early' => Early)
    BY <1>2, ApartDoes
  <2>2. Early /\ ~stolen => \A k \in 1..Len(events') : events'[k].addr = events'[k].call
    BY <1>2, ApartEvents DEF OwnInv
  <2>3. ~stolen => ShownIsOwn'
    <3>1. CASE handle_event
      <4>1. Early /\ Head(events) = events[1] /\ 1 \in 1..Len(events)
            /\ shown' \subseteq shown \cup {Head(events)}
        BY <3>1, ReadEvent DEF handle_event, Early
      <4>2. QED
        BY <4>1 DEF OwnInv, ShownIsOwn
    <3>2. CASE UNCHANGED shown
      BY <3>2 DEF OwnInv, ShownIsOwn
    <3>3. QED
      BY <1>2, <3>1, <3>2, LoaderDoes DEF Apart, OtherEvent, vars, log_vars
  <2>4. QED
    BY <2>1, <2>2, <2>3 DEF OwnInv
<1>3. QED
  BY <1>1, <1>2, OwnEnter, OwnExit, NextSteps

-----------------------------------------------------------------------------
(***************************************************************************)
(* The theorems.                                                           *)
(***************************************************************************)
LEMMA TracerInit == Init => TracerInv
<1> SUFFICES ASSUME Init PROVE TracerInv
  OBVIOUS
<1>1. /\ scratch = [t \in Threads |-> NULL] /\ args = [x \in AllElems |-> NULL]
      /\ free \in [CPUs -> SUBSET Elems] /\ extra = [c \in CPUs |-> c]
      /\ thr = [t \in Threads |-> User] /\ events = << >> /\ shown = {}
      /\ calls = 0 /\ others = 0 /\ unseen = {} /\ due = {} /\ sent = {} /\ lost = {}
      /\ loader = "attach_enter" /\ linked = {} /\ kind \in Kinds
  BY DEF Init
<1>2. stolen = FALSE
  BY DEF Init
<1>3. \A c, d \in CPUs : \A x \in free[c] : x \in free[d] => c = d
  <2> SUFFICES ASSUME NEW c \in CPUs, NEW d \in CPUs, NEW x \in free[c], x \in free[d]
               PROVE  c = d
    OBVIOUS
  <2> DEFINE S == {e \in CPUs : x \in free[e]}
  <2>1. x \in Elems
    BY <1>1
  <2>2. Cardinality(S) = 1
    BY <2>1 DEF Init
  <2>3. IsFiniteSet(S)
    BY NullFacts, FS_Subset
  <2>4. c \in S /\ d \in S
    OBVIOUS
  <2> HIDE DEF S
  <2>5. \E e : S = {e}
    BY <2>2, <2>3, FS_Singleton
  <2>6. QED
    BY <2>4, <2>5
<1>4. TypeOK
  <2>1. LoaderTypes
    BY <1>1 DEF LoaderTypes
  <2>2. MapTypes
    BY <1>1 DEF MapTypes, AllElems
  <2>3. EventTypes
    BY <1>1, NullFacts DEF EventTypes
  <2>4. LogTypes
    BY <1>1, NullFacts DEF LogTypes
  <2>5. thr \in [Threads -> ThreadStates]
    BY <1>1, UserState
  <2>6. QED
    BY <1>2, <2>1, <2>2, <2>3, <2>4, <2>5, TypeGroups, Zenon
<1>5. Placed
  BY <1>1, <1>3, TracerAssumption DEF Placed
<1>6. EntriesLive
  BY <1>1 DEF EntriesLive
<1>7. \A t \in Threads : thr[t].pc = "user"
  BY <1>1, UserState
<1>8. CallsInv
  BY <1>7 DEF CallsInv
<1>9. DueInv
  BY <1>1, <1>7 DEF DueInv
<1>10. \A k \in 1..Len(events) : FALSE
  BY <1>1
<1>11. EarlyInv
  BY <1>1, <1>7, <1>10 DEF EarlyInv
<1>12. OnceInv
  BY <1>1, <1>10 DEF OnceInv
<1>13. OwnInv
  BY <1>1, <1>7, <1>10 DEF OwnInv, ShownIsOwn
<1>14. QED
  BY <1>4, <1>5, <1>6, <1>8, <1>9, <1>11, <1>12, <1>13 DEF TracerInv

\* The types and the invariant above, through every interleaving of calls, handlers,
\* events and the loader's attaching, polling and detaching.
THEOREM TracerInvariant == Spec => []TracerInv
<1>1. TracerInv /\ [Next]_vars => TracerInv'
  BY TypeStep, EntriesStep, CallsStep, DueStep, EarlyStep, OnceStep, OwnStep DEF TracerInv
<1>2. QED
  BY <1>1, TracerInit, PTL DEF Spec

\* trace_connect_exit() and trace_accept_exit() delete the entry of every call they see
\* return: an entry of no call in progress is one whose return no tracepoint saw.
THEOREM EntriesDie == Spec => []NoDeadEntries
<1>1. TracerInv => NoDeadEntries
  BY DEF TracerInv, EntriesLive, NoDeadEntries
<1>2. QED
  BY <1>1, TracerInvariant, PTL

\* A successful call that both tracepoints saw is sent or given up for want of room, and
\* handle_event() prints only such calls, each at most once.
THEOREM ExactReports == Spec => []ReportsExact
<1>1. TracerInv => ReportsExact
  BY DEF TracerInv, DueInv, OnceInv, ReportsExact
<1>2. QED
  BY <1>1, TracerInvariant, PTL

\* The address printed for a call, read through a pointer into a deleted entry, is the
\* call's own as long as no CPU takes an element off another CPU's free list.
THEOREM OwnAddresses == Spec => []ShownIsOwnUnlessStolen
<1>1. TracerInv => ShownIsOwnUnlessStolen
  BY DEF TracerInv, OwnInv, ShownIsOwnUnlessStolen
<1>2. QED
  BY <1>1, TracerInvariant, PTL

=============================================================================
