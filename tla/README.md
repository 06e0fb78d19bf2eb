# A TLA+ model of ebpf-nftracer

ebpf-nftracer watches the network functions of a 5G core (free5GC, in
containers) with eBPF: uprobes on Go functions, syscall tracepoints filtered by
cgroup, and XDP programs at the AMF's N2 interface. This directory holds TLA+
modules for the parts that keep state or run concurrently, TLC configurations
that check them on small instances, and TLAPS proofs, for all values of the
constants, about the rate limiter (packet by packet, and access by access on
several CPUs), the loaders, the tracers, the function-level probes, the
watchdog and the reassembly of streams.

To run: `tlc -config MCAmfXdp.cfg MCAmfXdp` (module and configuration of
every run are in `PROJECT.json`), and `tlapm M.tla` for each of the eight modules
`*Proofs.tla`.

## 1. Inventory

| Component | State | Operations | Talks to |
|---|---|---|---|
| State-machine maps (`amf/sm_map.c`, tables in `amf/amf_comm.c`) | two pinned hash maps: nodes by name, edges by (from, label) | `sm_map_populate`, `sm_node_lookup`, `sm_transition_lookup` | written by the AMF loader, read by the XDP program; outlive the loader |
| XDP enforcement (`amf/amf_xdp.c`) | LRU map of rate entries, LRU map of UE states, three counters | `amf_xdp_enforce` per packet | reads the pinned edges; runs on every CPU at once |
| AMF loader (`amf/amf_loader.c`, `amf_comm.c`, `common.c`) | links, ring-buffer consumer, `stop`, `err` | find, load, populate, attach, poll, clean up | kernel, operator's signals, pinned maps |
| AMF tracer (`amf/amf_tracer.bpf.c`) | scratch maps keyed by thread, ring buffer | enter/exit handlers of connect and accept4, read, write, uprobes | loader's `handle_event` |
| State-machine use (`amf/test/sm_use_case.c`) | the current state of one UE | `run_demo` | edge table |
| XDP watchdog (`amf/test/test_xdp.c`, `main`) | ifindex, mode, state, `stop` | wait, load, attach, query, re-attach, detach | network interface, others who attach programs |
| Packet decoding (`amf/test/test_xdp.c`) | stream table with a buffer per stream, address cache, HPACK table | `handle_xdp_event`, `find_or_create_stream`, `drain_h2_frames` | XDP NGAP monitor's ring buffer |
| XDP NGAP monitor (`amf/xdp_ngap.c`) | ring buffer | header walk, event emission | packet decoding |
| Function-level loader (`amf/amf_func_load.bpf.c`, `amf/test/test_func_load.c`) | in-flight map keyed by thread, ring buffer, links, `stop` | NGAP, NAS, SBI and header probes, bounded JSON search, wait, attach, poll, detach | Go runtime of the AMF, kernel |
| Namespace tracer (`namespace_tracer*.c`) | cgroups seen, map of tracked cgroups, scratch maps, ring buffer | scan of /proc, syscall probes, poll | kernel, other processes |
| NRF loader and tracer (`nrf/`) | as AMF without the state machine | as AMF | |
| Other NF loaders (`smf/` `pcf/` `udm/` `ausf/` ...) | links, consumer, `stop` | as AMF, with unchecked attach results | the network function, which may restart |
| TLS wrappers (`ssl_wr/`), generated headers | none | | |

What is hard here, and hardly reached by the repository's tests (which run one
program, once, on one CPU):

- **several CPUs inside the XDP program**: `e->count++` is a load and a store, a
  window reset two stores, check-then-insert on first contact, and pointers
  into map elements used while the elements are replaced;
- **windows**: `>` against `>=`, the first message of a window, an interval
  that meets two windows, `now` older than the window (`__u64` wrap), LRU
  eviction of a live source;
- **publication**: the XDP program reads the pinned edges while the loader
  writes them one by one, dies half way, and is run again;
- **partial failure**: any of the ~25 calls of the loader's `main` fails after
  others have succeeded; a signal comes before, between or after the two
  `signal()` calls;
- **pairing of two halves of a syscall** while the two tracepoints are attached
  and detached one after the other under running threads, with a full scratch
  map and a full ring;
- **an interface that changes** between any two system calls of the watchdog;
- **long walks** over a table in which one endpoint is shared by several
  exchanges;
- **a Go scheduler under a map keyed by thread**: a goroutine enters a probed
  function on one thread and returns on another;
- **a /proc that changes while it is read**: name and cgroup of a pid come from
  two files, and the pid may change hands between them;
- **records that are not cleared** and elements read after they were deleted;
- **byte streams without sequence numbers**: packets missed, repeated, padded and
  cut, more streams than slots, frames longer than the buffer;
- **a network function that restarts** after it was looked up.

`PROJECT.json` lists each of these as a hazard at its line with the properties
that would catch it.

## 2. Modules

```
SmMap ──┬── AmfXdp ── MCAmfXdp            one packet, one step
        │      └───── AmfXdpProofs        theorems
        ├── AmfXdpSmp ── MCAmfXdpSmp      one memory access, one step
        │      └───── AmfXdpSmpProofs     theorems
        ├── SmPublish                     abstract: what map readers see
        │      ▲ refines
        ├── AmfLoader ── MCAmfLoader
        │      └───── AmfLoaderProofs     theorems
        └── SmWalk                        walks over the whole table
AmfTracer ── MCAmfTracer                  probes, ring buffer, consumer
   └───── AmfTracerProofs                 theorems
XdpWatchdog ─────────┐                    main() of test_xdp.c
H2Streams ───────────┴── TestXdpProofs    theorems about both parts
   └───── MCH2Streams                     capture, streams, HTTP/2 frames
FuncLoad ── MCFuncLoad                    function-level probes and loader
   └───── FuncLoadProofs                  theorems
NamespaceTracer ── MCNamespaceTracer      scan of /proc and socket probes
   └───── NamespaceTracerProofs           theorems
Loaders ── MCLoaders                      loaders of the other NFs
   └───── LoadersProofs                   theorems
```

**SmMap** has both tables of `amf_comm.c` in full, `NodeKey`/`EdgeKey` as
`sm_map_populate` builds them, the fixed-width copies `sm_key_set_name` and
`sm_key_set_label`, and the two lookups. A string is its TLA+ string; the copy
cuts what is longer than the field.

**AmfXdp** is `amf_xdp_enforce` for one packet at a time. A packet is a record
of what the program tests: how many headers lie within the frame, and the
tested field of each. `PassUnparsed`, `PassUncategorized` and `Enforce` are its
three ways through. `rate_limited` returns the new rate entry and the verdict;
the window test is the source's, with `__u64` subtraction (`Sub64`).
`PublishEdge` is the loader adding the next edge, `AgeRateEntry` and `AgeUeEntry`
evictions by the LRU maps, which may hit any entry at any time. History
variables (`passes`, `drops`, `advances`, ...) record what the program did.

**AmfXdpSmp** is the same program as the sequence of its single loads, stores
and map calls on several CPUs. The elements of all three maps are explicit: a
lookup returns an element, later loads and stores go to that element, also when
it has left the map, was evicted or is being filled for another key. A name of
32 bytes is copied in two parts (`Parts`), by the program and by the kernel, so
that a reader may meet half of one name and half of another; two parts are
enough for a name to be torn. All packets are InitialUEMessages, since the
others touch no shared state except an atomic counter. The loader's
`PopulateHead` and `PopulateTail` fill an element and then link it; it may run
twice, and then rewrites the keys of the first run in the spare element. `late`
and `overtaken` (history) mark a state copied while its source was refilled.

**SmPublish** is the promise of the pinned maps to their readers: entries
appear in table order, all nodes before the first edge, and what is visible
neither changes nor disappears; `AmfLoader` instantiates it with its own maps
(`Published == INSTANCE SmPublish WITH ...`). **AmfLoader** is `main` of `amf_loader.c` with
the functions it calls, one step per call or loop iteration, each with its
failure; `Signal`, `Kill` and `Start` are the environment. Everything a dead
process held is released by the kernel, except the pinned maps. The 22 attach
groups of `amf_functions.c` are attached and detached in order without regard
to the group, so they are one list of `UprobeCnt` targets.

**AmfTracer** has the threads of the AMF, a scratch map, the ring buffer and
the consumer. A behaviour follows one kind of call (`connect` or `accept4`,
whose scratch maps are separate). A handler is attached or not at the moment a
thread enters or leaves the kernel. The kernel's preallocated hash map is
modelled with its per-CPU free lists (external), because the exit handlers use
an element after deleting it. The uprobe handlers and the read/write
tracepoints only put an event in the ring (`OtherEvent`).

**SmWalk** is the loop of `run_demo` with any label at any time, over the
complete tables; the script of `demo_steps` is an assumption TLC evaluates.

**XdpWatchdog** is `main` of `test_xdp.c` with `attach_xdp` and
`wait_for_ifindex`, one step per system call, each with its failure, `bpf_xdp_detach` included,
against an interface that others delete, create, strip and occupy. A detach that
fails is ignored by the code in both places (`Undo`, `Shutdown`); `refused`
(history) remembers it.

**H2Streams** joins `xdp_prog` of `xdp_ngap.c`, the ring, and `handle_xdp_event`.
Hosts send the bytes of their streams in segments of any size; a packet may be
missed, sent again, padded by the link, or be longer than an event. Every byte
carries the stream it came from (history), so that a frame put together from two
streams shows. `drain_h2_frames` is a recursive function over offsets. Sizes are
scaled: a frame header is two bytes, its first byte the length. The NGAP branch
(`handle_sctp`) keeps its guards and puts an event of its own in the ring. The two
parts of `test_xdp.c`, this module and `XdpWatchdog`, share no state; their
specifications have names of their own (`StreamsSpec`, `StreamsTypeOK`), so that
`TestXdpProofs` can extend both.

**FuncLoad** has goroutines on threads (external: the scheduler starts, suspends
and resumes them on any idle thread), the pair of probes on `Header.Get` with the
map keyed by thread and a read of the key that may fail, the NGAP, NAS and SBI probes, and `main` of
`test_func_load.c` from waiting for the AMF to the last detach. A probe acts only
while attached, a return probe only for calls that entered while it was attached
(external: the kernel's return probes). `json_find_key`, `json_extract_str` and
`sbi_parse_ies` work on sequences of symbols, a key with quotes and colon being
one symbol. A body is a sequence of fields (`Field`), `Text` lays it out, the search
runs over the text, and `Expected` is the reference definition over the list of
fields. Values hold no quote and no key that is searched for: the comment at
`amf_func_load.bpf.c:626` says the search has "no nesting/escaping awareness".

**NamespaceTracer** reads /proc, if it can be opened, entry by entry and file by
file (`ReadComm`, `parse_cgroupv2_path`, `cgroup_id_from_path`) while processes
start, exec and exit under the same pids; `takers` (history) has the cgroups of
those that took a pid between the reads of its comm and of its cgroup. A
behaviour follows the connect, the accept4, or the data calls, which share no
map but the ring. A record is not cleared: a field that a handler does not set is
zero until the ring has wrapped, and afterwards any earlier value (`new_event`).
The handler follows the pointer of the entry it reads in the address space of the
process it runs in (`UserMemory`), so the pointer of another call may lead to
anything. `Printed` prints a port whatever the family, as the code does.

**Loaders** is one `main` for all remaining loaders, with two kinds of error
handling: `nrf_loader.c` checks every result, the others ignore those of
`attach_programs`. The attach lists have their real lengths, in groups. The
network function is found by its pid; `holder` is the process that has the pid
now, and every later use of the pid (its cgroup, each uprobe) means that process.
A process is an instance of the network function or any other program, in some
cgroup; a new instance may start in the old container. A uprobe fires for the
process it was made for, a tracepoint for every process, and its handler passes
those in the cgroup the NRF's loader wrote into its map, whichever they are.

Abstractions common to all: no texts, no logging; addresses and interfaces are
model values or small numbers; operators named "wrong variant" are the
plausible bugs the properties are tried against and are used by no
specification.

## 3. Runs

| Run | Property | What it says |
|---|---|---|
| `xdp` | `WindowLimit` | at most the limit passes since the start of the window |
| | `TwoWindowBound` | fewer than twice the limit pass within any interval of the window's length |
| | `DropJustified` | a drop means the limit was used up within the last window length, evictions or not |
| | `OneAdvancePerEntry` | one transition per life of a source's entry, whatever part of the table is published |
| | `TypeOK` | |
| `smp_races` | `EveryPacketCounted` | no counter update is lost |
| | `UeStateFromTable` | a source gets the state the table gives it; where the loader refilled the element during the copy, pieces of states of the table |
| | `QuietSourceNeverDropped` | races may lose messages from the count and never invent any, until an evicted element is reused |
| `smp_exceeded` | `DropMeansExceeded` | **violated**, see findings |
| `loader` | `NothingLeftAttached` | a run that ended holds no link and no consumer |
| | `TracingIsComplete` | polling means everything attached and both maps complete |
| | `ExitStatusTruthful` | exit status 0 exactly if nothing failed and a signal asked |
| | `PublishedSpec` | the loader implements SmPublish, across failures, kills and reruns |
| | `StopEnds` | a handled signal ends the run |
| `tracer` | `ShownIsOwnUnlessStolen` | the address printed is the call's own, as long as no CPU takes an element from another CPU's list |
| | `ReportsExact` | a successful call seen by both probes is sent or given up for want of room; only such calls are printed, and once |
| | `NoDeadEntries` | the scratch map does not fill with entries of calls that are over |
| | `SentIsShown` | what is sent is printed, or the loader stops polling |
| `fsm_walk` | `SessionNeedsRegistration` | no sequence of messages reaches a session past security, registration, subscription and policy |
| | `RegisteredWithoutFailure` | a registered UE met no failure but a rejected session |
| | `TypeOK` | every state reached is a node |
| `watchdog` | `NothingLeftBehind` | a run that returns leaves no program of its own, unless its detach was refused |
| | `LeftoverStands` | a program that a killed run left behind is neither replaced nor detached by later runs |
| | `SettlesOnTruth` | once nothing changes, its view is right and an empty interface has its program back |
| | `StopEnds` | a signal ends it, also while waiting |
| `watchdog_own` | `DetachesOnlyOwn` | **violated** |
| `streams` | `ReassemblyExact` | a stream seen in full is cut into exactly its frames, however it was packed and mixed with others |
| | `NoForeignBytes` | whatever was lost, no printed frame has bytes of another stream |
| `func_load` | `AuthzExactUnlessOrphaned` | unless a call is interrupted or straddles attach or detach, exactly the Authorization headers are reported |
| | `EachReportHasItsRequest` | a wrong report takes an orphaned call of its own: an orphan does its damage once |
| | `IesExact` | the bounded search finds what the reference definition says, and never another field's value |
| | `DeadAmfNoticed` | the AMF's exit ends the run, unless its pid is reused first |
| | `StopEnds` | a signal ends the run with everything detached |
| `ns_tracer` | `SeedCountExact` | the number announced is that of the cgroups in the map while the list of seen ones has room, and never less |
| | `TrackedIsNf` | a tracked cgroup has held a network function, or is that of a process which took a pid between its two reads; no other gets in |
| | `StableIsTraced` | calls of a network function older than the scan are all sent or given up for want of room |
| | `ShownIsOwn` | an address printed is read through the call's own entry or a later call's; what it and the byte count show then |
| `loaders` | `EventsOfTheFound` | a uprobe's event is of the instance looked up, a tracepoint's of its container, unless the pid passed on while `main` still used it; until which step that matters |
| | `FailureStaysInItsGroup` | a target that fails costs only those behind it in its group |
| | `ZeroMeansTraced` | status 0 of the NRF's loader means everything was attached and a signal came |
| | `CleanupComplete` | a loader that polled returns without a link, whatever was attached |
| | `StopEnds` | a handled signal ends the loader |

The modules without a run of it define `TypeOK` as well (`StreamsTypeOK` in
`H2Streams`), as documentation of the types; it holds in the same instances (add it to
the INVARIANTS). In `AmfLoader`, `AmfTracer`, `AmfXdpSmp`, `Loaders`, `XdpWatchdog` and
`H2Streams` it is proved, as a part of the inductive invariant; the proofs about
`FuncLoad` and `NamespaceTracer` have type invariants of their own (`PairTypes`;
`ScanTypes`, `ProcTypes`, `CallTypes`) for the variables they are about.

### Bounds

- `xdp`: two sources (symmetric), window of 2 ticks, limit 2, 5 packets, 6 clock
  values, two edges, three classes of packets (InitialUEMessage, a procedure without a
  label, truncated). Two windows fit in the clock, messages can fill them,
  go over the limit and fall on and next to each boundary, three of them can pass
  within an interval that meets two windows (the most `TwoWindowBound` allows), while
  publication, transition, repetition, eviction and a second transition happen. What a
  larger limit or window would add is proved, see 5.
- `smp_races`: two CPUs, two sources, limit 2, four packets, three clock values, one
  eviction. A source within the limit has two messages, on two CPUs that share its
  counter, or of which one resets the window of the other; the third rate element is
  what a replaced one can be reused for. The clock and the loader do not both move in
  one behaviour (`MCBound`), since they meet in nothing that is stored: while the loader
  writes two edges twice, the clock stands and there are three packets, enough for the
  spare element to be refilled while a CPU copies out of it, and a state element while
  another CPU reads it. Two CPUs suffice for each race listed as hazard. `smp_exceeded`
  has one source and no eviction.
- `loader`: the full tables, 3 uprobes, 2 tracepoints (more repeat the same
  loop body), 3 runs: a failed, a killed and a later complete one.
- `tracer`: two threads, two CPUs, two elements, a ring of two, three calls and
  one other event: a full map, a full ring, an empty free list and a replaced
  entry all occur.
- `fsm_walk`: all labels and the whole table; at most `MaxFlagged` misses,
  which change nothing else.
- `watchdog`: four changes by others, two failing calls, two runs: a refused detach
  at shutdown or in the undo of a failed start, and a run that meets the program
  another has left.
- `streams`: three streams for two slots, one of which begins with a frame no
  buffer holds; segments of 0 to 4 bytes, events and buffers of 5, a ring of two,
  five packets, one of them lost, repeated or empty: every cut of a frame over
  packets, a full table, a full buffer and a full ring occur. 2.3 million states.
- `func_load`: two goroutines on two threads, a map of one entry, a ring of one,
  three calls of `Header.Get` and one of another probe, one failing call of the
  loader; all six probes are in the attach list. After a failure there is a call less
  (`MCBound`). Bodies put keys on both sides of the scan window's end, values on both
  sides of the array's length, four and five blanks, a number, a key twice.
- `ns_tracer`: three pids in three resolvable cgroups (symmetric) and one
  that is not, a list of one seen cgroup and a map of two, two process changes, so that
  a pid can change hands. After the scan (`MCBound`) two callers make two calls between
  them, in two resolvable cgroups at most, with a scratch map of one entry and a ring of
  one that wraps after one record: an exit handler reads an entry reused by the other
  process, and a record holds what an earlier one left. 7.3 million states.
- `loaders`: all loaders, with their real attach lists, one instance of the
  network function, two failures for want of resources, a ring of one. For the NRF's
  loader, the one with tracepoints, also two instances and two reuses of the pid, each
  in the place of a failure (`MCBound`): the pid passes on at each step of `main`, to a
  new instance or to another program, in the old container or another. 2 million states.

Deadlock checking is off in all runs: the systems stop when their bounds are
used up or the last run has ended.

### Fairness

`AmfLoader` and `XdpWatchdog` assume weak fairness of `main` alone: the process
is not suspended for ever, and every call returns because `ring_buffer__poll`
has a timeout and the sleeps are finite. Nothing is assumed of signals,
interfaces, kills or the operator. `AmfTracer` assumes that a handler that has
started finishes (BPF programs always terminate) and that `ring_buffer__poll`
returns while there are events; nothing of threads making calls. `FuncLoad` and
`Loaders` assume weak fairness of `main` and of the end of a poll (`PollDone`,
`PollStop`), which has a timeout; nothing of the AMF, the scheduler, or the
network function. `AmfXdp`, `H2Streams`, `NamespaceTracer` and `SmWalk` state only
safety.

## 4. Findings

1. `smp_exceeded`: between the two stores of a window reset another CPU sees the
   new start with the old count and drops a message of a source within its limit.
2. `watchdog_own`: at shutdown `bpf_xdp_detach` removes whatever program is in the
   mode named, also one that replaced the watchdog's. The comment calls the
   call harmless in that case.

Observations without a run of their own, met while the models were written; the
properties above are worded so that they say what does hold:

- *XDP*: `amf/README.md:122` calls the limiter a "1s sliding-window" counter. It is a
  tumbling window: fewer than twice the limit (`TwoWindowBound`) is what holds of an
  interval of that length. Concurrent messages can be
  missing from the count (`amf_xdp.c:199-203`, 212). A second run of the loader can
  put a source in the state of another edge, or in a state put together from two names
  and in no table, because `edge->to` is copied byte by byte after
  the lookup (277 with 166-172); hence the exception in `UeStateFromTable`.
- *Tables*: (UE/gNB, Security Mode Complete) is an edge (`amf_comm.c:64`), and UE/gNB is
  where every UE starts, so a Complete nobody asked for matches, which
  `sm_use_case.c:121` says is caught. From UE/gNB a `setup response` and then a
  `setup success` lead to REGISTERED_CONNECTED past every step of the registration;
  `SessionNeedsRegistration` is about sessions and allows it.
- *Watchdog*: when `bpf_xdp_detach` fails at the end (`test_xdp.c:1040-1041`) the error
  is printed, the program stays attached, and `main` returns 0; the detach after a
  failed `bpf_obj_get_info_by_fd` (926) is not looked at at all.
- *Tracers*: the exit handlers read the scratch element after deleting it
  (`amf_tracer.bpf.c:858-865`, the same in `nrf/` and the namespace tracer); once
  a CPU has taken that element the event carries another call's address.
- *Streams*: an HTTP/2 frame longer than the buffer blocks its stream for good,
  where the comment at `test_xdp.c:344-347` speaks of truncation, and the client's
  connection preface reads as such a frame; when the table is full it is always
  the first slot that is taken, not the oldest (348-349); the padding of a short
  packet is appended as payload; an event holds 1480 bytes, less than a full
  packet of 1500. `procedure_code` in `xdp_ngap.c` takes in the byte of the PDU's
  choice.
- *Function-level probes*: a call under way while only the entry probe is
  attached, or moved to another thread, leaves its thread armed, and the next
  `Header.Get` there is reported as an Authorization header whatever its key. An
  `nfId` is cut to 31 characters. The attach list has 12 targets, comments say 20.
- *Namespace tracer*: containers started after the scan are never traced, and none is
  when /proc cannot be opened, which does not end the run. The scan
  opens `comm` and `cgroup` of a pid one after the other (`namespace_tracer.c:128`): if
  the pid changes hands in between, another program's cgroup is traced, where the comment
  at `namespace_tracer.bpf.c:44` speaks of those of network functions. An
  accept4() without an address shows the bytes of an earlier record once the ring
  has wrapped, and a call with an address that is neither IPv4 nor IPv6 an earlier
  record's port (`namespace_tracer.c:177-178`). A scratch element reused by another
  process yields a pointer of that process, which is followed in the address space
  of the current one (`namespace_tracer.bpf.c:174`).
- *Other loaders*: the pid found is used again for the cgroup and for each uprobe, with
  no check that it is still the same process; after that the filter is the container, so
  a restarted network function or any other process in it passes
  (`nrf_tracer.bpf.c:60-67`). Any signal that interrupts a poll, SIGSTOP and SIGCONT
  included, ends the unchecked loaders and the namespace tracer with status 0; the
  unchecked loaders poll with nothing attached; the symbol of `smf_release_all_upf` is
  written twice in a row, so it is never found; the table of nef has program and
  function names swapped. The loaders are modelled as they are meant where they do not
  compile as written: `find_nf_exe` is declared and defined nowhere;
  `fill_process_context()`, which the programs of smf, pcf, udm, ausf and the others but
  amf and nrf call, is defined in none of them, only in an old file of the template
  (`template/00_temp/nrf_tracer.bpf.c:18`); `smf_loader.c` uses an undeclared `struct
  nrf_tracer_bpf`; the detach calls of `udm_loader.c` pass an argument too many and the
  last does not parse.

## 5. Proofs

`AmfXdpProofs` proves, for every set of sources and packets, every window and
limit, every bound, and any part of the edge table published:

- `TypeCorrect`: `Spec => []TypeOK`;
- `RateInvariant`: `Spec => [](RateInv /\ TwoWindowBound)`;
- `WindowLimited`, `TwoWindows`: `WindowLimit` and `TwoWindowBound` always hold;
- `DropsJustified`: the action property `DropJustified`;
- `PacketsCounted`: `EveryPacketCounted` always holds;
- `OneAdvance`: `OneAdvancePerEntry` always holds.

None of the limits is inductive by itself: after a reset the count says nothing
about the messages passed before it. `RateInv` relates the log of passed
messages to the entry: the last `Held(e)` of them are those of the current
window, older ones lie before its start, and those a full window
further back lie more than a window length before it. The last clause is what
carries `TwoWindowBound` over a reset. Evicted sources keep only the part that
`DropJustified` needs. `OneAdvance` needs `EdgesFromTable` (the map holds nothing
but table entries) and one fact of the table.

Assumptions, all evaluated by TLC in `xdp`: `RateAssumption` (limit
at least one), `BoundsAssumption` (the clock stays below 2^64, as a nanosecond
clock does for 584 years), `PacketsAssumption`, `NullAssumption`, and
`InitialUeAssumption`, which says of `sm_edge_data` that the only edge labelled
InitialUEMessage goes from UE/gNB to REG_RECEIVED.

`AmfLoaderProofs` proves, for any number of uprobes, tracepoints and runs:

- `TypeCorrect`: `Spec => []TypeOK /\ []MapInv`;
- `LoaderPublishes`: `Spec => PublishedSpec`, the refinement of SmPublish. A step
  that writes an entry the map already has is a stuttering step, because
  `MapInv` says the map holds the table's value there; one that writes a new
  entry is the abstract step, because everything before the loop index is in
  the map already, whichever run put it there;
- `NothingIsLeft`, `TracingComplete`, `ExitStatus`: `NothingLeftAttached`,
  `TracingIsComplete` and `ExitStatusTruthful` always hold.

They need three strengthenings. `MapInv` gives the contents of the maps and, inside
the two loops, the part below the index (`TypeOK` needs it too: the keys written
are keys of the table only because the index is in range). `LinkInv` gives the
links by place: a prefix while attaching, nothing below the index while
detaching. `ErrInv` ties the error code to `failed`. Assumptions:
`LoaderAssumption` (the counts are natural numbers) and `TableAssumption` (the
tables are not empty and have no duplicate keys), which TLC evaluates on the real
tables in run `loader`.

`AmfXdpSmpProofs` proves, for any number of CPUs, sources, map elements, packets,
evictions and runs of the loader, with every load and store a step of its own:

- `SmpInvariant`: `Spec => []SmpInv`;
- `NoPacketUncounted`: `EveryPacketCounted` always holds;
- `StatesFromTable`: `UeStateFromTable` always holds;
- `QuietSources`: `QuietSourceNeverDropped` always holds.

That a quiet source is not dropped is a statement about lost updates: `e->count++` on
two CPUs loses one, and one must never appear from nowhere. The invariant says so of
the memory and of the values on their way to it. `Counted(s)` is the number of
messages of `s` that have arrived, less those whose CPU has not reached the counter;
`CountsBehind` says that no element of `s` is ahead of it, `StoresBehind` that a CPU
about to store is at most one ahead. Neither holds unless each element belongs to one
source (`OneOwner`), also after it was evicted while CPUs still point to it. All of
this, like the property itself, holds until an element that had left the map is put
into it again (`reused`): from then on a CPU may still count in an element that now
belongs to another source. `StateInv` is about names: `EdgesApart` and `EdgesHold` say
that every linked edge element holds one whole name, which only an element outside the
map may not; `PointersHold` and `CopiesHold` that a CPU about to copy, or half way,
has a pointer to such an element and the pieces of its name, unless the element was
refilled under it (`late`); `UeApart` that a state element belongs to one source or to
the one CPU filling it. Assumptions: `SmpAssumption`
(more rate elements than sources, a state element for each source and CPU, finitely
many CPUs, the clock below 2^64) and
`InitialUeAssumption`, a fact of the real table, both evaluated in `smp_races`.

`AmfTracerProofs` proves, for any number of threads, CPUs, elements, calls and any size
of the ring:

- `TracerInvariant`: `Spec => []TracerInv`;
- `EntriesDie`, `ExactReports`, `OwnAddresses`: `NoDeadEntries`, `ReportsExact` and
  `ShownIsOwnUnlessStolen` always hold.

`Placed` (no element is in two places: under a key, on a free list, kept for
replacement) and `EntriesLive` carry the map. `EarlyInv` is about the order in which
`main` does things: entries of calls nobody saw begin can only be left after the
enter tracepoint is detached, and the last event is read before that; without it
`ReportsExact` would not be inductive. `OnceInv` follows a call from the ring to the
output. `OwnInv` is the argument why reading an element after deleting it goes well
as long as nothing is stolen: the element is on the free list of the CPU the handler
runs on, and no other handler runs there. Assumption: `TracerAssumption`.

`TestXdpProofs` proves of the watchdog, for any number of runs, failing calls and
changes by others: `WatchdogInvariant` (`Spec => []WatchdogInv`), `NoProgramLeft`
(`NothingLeftBehind` always holds) and `LeftoversStand` (the action property
`LeftoverStands`). The strengthenings are `OwnInv`: while the program of this run is
attached and no detach was refused, `main` has the interface's index and the mode it was
attached in, believes `ATTACHED`, and is at none of the places that lead to the end
without a detach; and `LeftoverInv`: with the program of an earlier run attached, `main` is
still starting or has given up, so it never comes to a detach. Assumption:
`WatchdogAssumption` (the bounds are natural numbers).

Of the streams it proves, for any streams and frames, any cut of them into packets
and mix of the packets, any number of slots and of lost, repeated and padded packets,
and any sizes of header, event, buffer and ring:

- `FramesOwn`: `NoForeignBytes` always holds;
- `FramesExact`: `ReassemblyExact` always holds;
- `StreamsTypes`: `StreamsTypeOK` always holds.

Three invariants, each on top of the one before. `BytesInv` has the types, and says of
every payload, buffer and printed frame that its bytes are of its stream or filler;
that is `NoForeignBytes`, and needs of `drain_h2_frames` only that it cuts its input
into pieces (`DrainOwn`). `FlightInv` is about the ring: each event of a stream
nothing happened to carries the bytes that begin where the one before it ended, the
first where the handler is, the last where the host is. `InStepInv` says what
such a stream's buffer is between two events: the printed frames are the frames that
have ended in the bytes handled, and the buffer is the beginning of the next one. None
is inductive without those before it: the handler may only append in order
because the ring is in order. `DrainStep` is the heart: appending the next bytes to such
a buffer and draining it leads to such a buffer again, whether the bytes end no
frame, one, or several. Assumption: `StreamsAssumption` (a frame is as long as its
length field says; sizes are natural numbers, that of the header, of the table and of
a buffer at least one).

`LoadersProofs` proves, for each of the loaders with its real attach list and any number
of failures, restarts, reuses of the pid and events: `LoadersInvariant`, `FoundEvents`,
`FailuresStay`, `ZeroIsTraced` and `NothingAttachedAfterCleanup`
(`EventsOfTheFound`, `FailureStaysInItsGroup`, `ZeroMeansTraced` and
`CleanupComplete` always hold). `AttachInv` says, inside the loops, that a target
already visited has its link or one at or before it in its group has failed;
`CleanupInv` that the groups already visited by the cleanup, in that loader's own
order, have no link; `ErrInv` ties the NRF loader's `err` to what failed;
`FoundInv` that nothing happens in the name of a process before it is found, and that
whoever has the pid while `main` uses it is the one found or took it from then on
(`Bindable`), and before the cgroup was read if its cgroup is the one traced
(`Readable`); the uprobes made and the filter keep what was true then.
Assumptions: `LoadersAssumption`, `NFsAssumption` (the loaders modelled are those with
an attach list).

`NamespaceTracerProofs` proves, for any number of processes, cgroups and calls and any
capacity of the list, the maps and the ring: `NsInvariant`, `SeedCounts`,
`TrackedHeldNf`, `StableTraced` and `ShownOwn` (`SeedCountExact`, `TrackedIsNf`,
`StableIsTraced` and `ShownIsOwn` always hold). `SeenInv` relates the list of seen
cgroups to the map: they differ in one direction only when the map was full and in the
other only when the list is. `NfInv` says of the pid between its two reads that its
process is in a cgroup a network function was in, or is one of `takers`; `PassedInv` what
the scan has left behind, `EntryInv` and `NumbersInv` the calls.

`ShownOwn` has two parts. `ArgsInv` follows the entry of a call to the exit handler
that reads it after deleting it: it is the call's own, or that of a call that began
later. `RecordsInv` says of every record in the ring what is promised of the printed
one, whatever its fields held before and wherever a foreign pointer led, so that
consuming it adds nothing. The byte
count of a sendmsg() is a sum over its pieces: `SumsAdd` and `SumsGrow` show that
the sum of the first `IovMax` lengths is the whole sum when there are no more, and
never more than it. Assumptions: `NsAssumption` (pids are numbered in the order /proc
lists them, and there is at least one, the tracer's own; capacities and bounds are
natural numbers, messages sequences of them) and `NullAssumption`.

`FuncLoadProofs` proves, for any number of goroutines, threads, calls, map entries and
any scheduling: `FuncLoadInvariant`, `ReportsHaveRequests` and `AuthzExact`
(`EachReportHasItsRequest` and `AuthzExactUnlessOrphaned` always hold). `ArmedOnce`
says that the number of a call that armed a thread is in one place: an armed thread,
an event in the ring, or a printed one. `ArmedInv` says who is armed until the AMF
exits: a thread running the call that armed it, or one whose call was orphaned.

It also proves `BodiesParsed` (`IesExact` always holds), for any bodies and any sizes of
the scan window, the body and the value's array: what is printed of a body is what its
list of fields says. The invariant, `IesInv`, is short: what is printed is `Parsed` of
some body. The argument is that `Parsed` equals `Expected`. `TextIs` locates each
field's symbols in the text, from the sums of the lengths before it (`Pieces`,
`StopsAre`); `KeysBegin` shows that a searched key occurs only where a field of that
name begins, so the first match in the text is the first field of that name (`FindIs`),
or none if it begins outside the window; `ExtractIs` and `CopiedIs` that what is copied
from there on, over at most four blanks and up to the closing quote or the array's
length, is that field's value (`FieldHolds` puts the whole of it within the body
copied). Assumptions: `FuncLoadAssumption` (sizes are natural numbers, and the window
with an array's length behind it lies within the body copied, as 256, 32 and 1024 do),
`BodiesAssumption` (bodies are sequences of `Field`, see 2), `HeaderGetAssumption`.

Each inductive invariant was checked by TLC in the instance of its module's run
before it was proved.

Three of these proofs go by induction over sequences: the frames in a buffer, the
fields of a body, the pieces of a message. The induction theorems of the library
take an operator as a parameter, which the provers cannot instantiate. The modules
that need it prove instead, from `WFMin` and `NatLessThanWellFounded` of
`WellFoundedInduction`, that a set of natural numbers has a least element
(`LeastNat`); `Induct` is induction with a set in the place of the operator, and
`Iterated` (`SumsExist` in `NamespaceTracerProofs`) the existence of a function with given
recursive equations, from which the recursive functions of the models have theirs.

Only model-checked, and why:

- everything under fairness (`StopEnds`, `SettlesOnTruth`, `SentIsShown`,
  `DeadAmfNoticed`), which is out of the prover's reach;
- `SessionNeedsRegistration`, `RegisteredWithoutFailure` and `TypeOK` of `SmWalk`: they
  are statements about the one table of `amf_comm.c`, and hold of no other. Its state
  is finite, and TLC's run covers every walk; the count of misses is bounded there and
  nothing reads it. A proof would be the same enumeration, and the provers cannot
  compute the length of a string, on which the cut to a field's width depends.

## 6. Not modelled, and the plan

Not modelled for good:

- **generated headers**: `vmlinux.h` and the three `*.skel.h` are 165,770 of the
  repository's 175,219 lines of C (95%). They declare kernel types and hold the
  bytes of compiled programs; there is no behaviour in them to model. Of the
  hand-written lines about two fifths are mapped to a definition; most of the rest
  are struct declarations, probe bodies that differ in one name, and printing;
- **the TLS wrappers** of `ssl_wr/`, which call through and print;
- **texts**: messages, colours, time stamps, HPACK decoding, names of addresses, TCP
  flags, the bytes of NGAP and NAS payloads;
- `handle_tls` of `xdp_ngap.c`, which is called nowhere, and the stand-alone map tests
  `test_map_create.c` and `test_map_walk.c`, which are themselves tests of the tables;
- **whether a restart is noticed**: no loader but the function-level one looks for it.

The kernel, the Go scheduler, the hosts and other processes appear only as far as
the code relies on them, in definitions marked external.

Still to do:

- `AmfProbes`: the tables of `amf_functions.c` against the handlers of
  `amf_tracer.bpf.c` and the nodes of the state machine; which transitions a
  consumer of the probe events can reconstruct when the ring loses some.
