# DPI engine: specification, model checking and proofs

TLA+ models of the packet-inspection programs in this repository, with the TLC
configurations that check them and machine-checked proofs (TLAPS) about them.
Covered are both multi-threaded engines (`dpi_mt.cpp`, v2, and `dpi_engine.cpp`
with its queue, load balancers, worker, connection tracking and rules, v1) and the
single-threaded one (`main_working.cpp`) with the parser, the extractors, the
capture files and the table of applications that all three share.

## The system

### Programs

| program | source | structure |
|---|---|---|
| DPI engine v2 | `src/dpi_mt.cpp` | reader, load balancers, fast-path workers, output writer; five-tuple hashing; one file |
| DPI engine v1 | `src/main_dpi.cpp`, `dpi_engine`, `load_balancer`, `fast_path`, `connection_tracker`, `rule_manager`, `thread_safe_queue.h` | the same architecture with connection states, eviction, rule changes at run time and rule files |
| `dpi_engine` (CMake target) | `src/main_working.cpp` | one thread, one flow table, JSON report |
| `packet_analyzer` (CMake target) | `src/main.cpp` | prints packets |
| (no target) | `src/main_simple.cpp` | prints packets and server names |
| backend | `backend/main.py` | FastAPI: runs `dpi_engine` on an upload, or a classifier |

### Components, their state, operations and what makes them correct

- **TSQueue / ThreadSafeQueue** (`dpi_mt.cpp` 31-78, `thread_safe_queue.h`).
  State: a FIFO, `max_size_`, `shutdown_`, two condition variables.
  Operations: push (blocks when full, drops its item after shutdown), tryPush,
  pop, pop with timeout, shutdown. Correct when no waiter sleeps although it
  could go on, when shutdown wakes everyone, and when the bound is kept.
- **Reader** (`dpi_mt.cpp` 431-499, the main thread). State: position in the
  capture, counters. Parses a record, skips what is not IPv4 over TCP or UDP,
  pushes the rest to load balancer `hash % #LBs`.
- **LoadBalancer** (306-349). State: input queue, `running_`. Pops, pushes to
  worker `hash % #FPs` of its own workers. Correct when a flow always takes the
  same route and nothing overtakes on it.
- **FastPath** (191-301). State: input queue, flow table, `running_`. Pops,
  counts, classifies, judges, records, then drops or pushes to the output queue.
  Correct when a verdict depends on the flow's own packets only, and when a
  blocked flow stays blocked.
- **Rules, Stats** (110-186). Rules are filled by `main()` before `process()`
  starts and only read by the workers. Stats is written by all workers and read
  once they are joined. Correct when its counters agree.
- **Output writer** (414-429). State: the file. Must not leave before the last
  forwarded packet is written.
- **Shutdown** (501-510). Sleep 500 ms; stop and join the load balancers, then
  the workers, then the writer. Must come to an end and must lose nothing that
  was counted as forwarded.
- **v1 engine** (`dpi_engine.cpp`): the same stages, but `stop()` clears the
  `running_` flag the output thread watches *before* it stops the producers, the
  reader is a thread of its own, and an engine can process several files. Correct
  when flows keep their order, when `stop()` comes back, and when a report adds up.
- **v1 ConnectionTracker / FastPathProcessor**: per-worker table of connections
  with states NEW, ESTABLISHED, CLASSIFIED, BLOCKED, CLOSED; eviction at a limit;
  clean-up of stale and closed entries on every idle pop.
- **v1 RuleManager**: four rule sets under four locks; save and load.
- **v1 LoadBalancer / LBManager**: as in v2, with statistics.
- **Single-threaded engine** (`main_working.cpp` 98-283). State: the rules from
  the command line, one flow table, counters, the output file. Correct when it
  decides as v2 does, and when its output is a capture again.
- **PacketParser, PcapReader, SNI/Host/DNS extractors, sniToAppType**: pure or
  sequential; their hazards are lengths, byte order and the order of tests.
- **backend**: one request runs one engine process in a temporary directory.

What is hard to test here: the interleaving of the threads, all queues being
full at once, a thread stopped between two steps, a timeout at the moment an
item arrives, the fixed sleep racing the work, and a flow judged before its name
is known. `PROJECT.json` lists each hazard at its line with the properties that
cover it.

## Modules

| module | what it is | code |
|---|---|---|
| `FlowInspection` | pure operators: classify, judge, count one packet of one flow | `dpi_mt.cpp` 97-144, 228-300 |
| `Channel` | the bounded queue as an atomic value | `TSQueue` |
| `Pipeline` | `process()` with all its threads | `dpi_mt.cpp` 166-518 |
| `PacketFilter` | abstract: what `process()` promises, one flow table, no threads | |
| `ThreadSafeQueue` | the queue at the level of mutex and condition variables | `thread_safe_queue.h` |
| `AtomicQueue` | abstract: what callers of the queue rely on (`Channel` operators) | |
| `RuleManager` | the rules of v1, a step for every lock taken | `rule_manager.cpp` |
| `ConnectionTracker` | table of connections of one v1 worker | `connection_tracker.cpp` 13-162 |
| `FastPath` | one v1 worker with its tracker and the rules | `fast_path.cpp` 12-277 |
| `BlockMemory` | abstract: how long a v1 worker remembers what it has blocked | |
| `Engine` | `processFile` of v1 with all its threads, for several files | `dpi_engine.cpp` 14-329, `load_balancer.cpp` |
| `PcapFile` | pure operators: capture files read and written | `pcap_reader.cpp` |
| `PacketParser` | pure operators: which frames are packets, and where their payload is | `packet_parser.cpp` 17-190 |
| `SniExtractor` | pure operators: the server name of a ClientHello, the Host of a request | `sni_extractor.cpp` 11-203 |
| `AppNames` | the applications, and which of them a name belongs to | `types.cpp` 30-194 |
| `Sequential` | the single-threaded engine, on the four modules above | `main_working.cpp` 20-283 |
| `MCPipeline`, `MCThreadSafeQueue`, `MCRuleManager`, `MCFastPath`, `MCEngine`, `MCSequential` | instances for TLC | |
| `Induction` | induction over numbers and finite sets; what it shows of recursive functions and sums | |
| `PipelineProofs` | theorems about `Pipeline`; it implements `PacketFilter`, for all constants, and enforces the rules | |
| `PacketFilterProofs` | what every packet filter enforces and how it decides, for all constants | |
| `QueueProofs` | theorems about `ThreadSafeQueue`; its steps are those of `AtomicQueue` | |
| `RuleProofs` | theorems about `RuleManager` | |
| `FastPathProofs` | theorems about `FastPath`; it implements `BlockMemory`, for all constants | |
| `EngineProofs` | theorems about `Engine` | |
| `SequentialProofs` | theorems about `Sequential`; it implements `PacketFilter`, for all constants | |

The chain of refinements is: `ThreadSafeQueue` implements `AtomicQueue`, whose
steps are the `Channel` operators; `Pipeline` builds its threads from the same
operators; and `Pipeline` implements `PacketFilter`. On the v1 side `FastPath`
extends `ConnectionTracker` and `RuleManager` and implements `BlockMemory`;
`Engine` builds the threads around such workers from the `Channel` operators and
leaves open what a worker decides. `Sequential` implements the same `PacketFilter`
as `Pipeline`: that is the sense in which the two programs do the same thing.

### Pipeline and the code

A packet is its position in the capture. `name` is what the extractor for the
flow's port returns for that packet (or `nullopt`), `parsed` whether the parser
accepted the record. `HashOf`, `SniToAppType` and `Mentions` (substring search)
are parameters, so every theorem holds for any hash, any table of applications
and any matching.

Each thread has a program counter; one action is one call on a queue or one
access to a shared flag.

- Main thread: `ReadSkip`, `ReadPacket`, `Dispatch` (the blocking push of line
  495), `ReadEOF`, `WakeUp` (end of the sleep), then for each thread `Stop*`
  (`running_ = false`), `Shut*` (`shutdown()`), `Join*`.
- Load balancer: `LBLoop` (test of `running_`), `LBPop`, `LBPopNothing` (timeout
  or shutdown on an empty queue), `LBPush`.
- Worker: `FPLoop`, `FPTake`, `FPPopNothing`, `FPPush`. `FPTake` is one step
  from the pop to the counters: the flow table belongs to the worker, the rules
  do not change during `process()`, and the statistics are only read after the
  join, so nobody can see a state in between.
- Writer: `OutLoop` (`output_running || size() > 0`), `OutWrite`,
  `OutPopNothing`.

`verdict` and `drained` are history: what was decided of each packet, and
whether the queues were empty when the sleep ended. Byte counters, timestamps
and the text of the report are left out. The 64-bit counters are natural
numbers: a capture file cannot hold 2^64 packets.

### ThreadSafeQueue and the code

A call runs from taking the mutex to releasing it or to waiting, and again from
each wake-up. `Push` and `Pop` are one pass through the wait predicate, with the
rest of the call if it holds; `Timeout` is `wait_for` giving up, which evaluates
the predicate once more and takes an item that has just arrived; `Spurious` is a
spurious wake-up; `notify_one` may pick any waiter. Threads make at most
`CallsPerThread` calls and shutdown may happen at any time, or never.

### RuleManager and the code

`held.rules` is the union of the four hash sets, a rule being its kind and its
value; `held.patterns` is the vector `domain_patterns_`, kept as a sequence
because a pattern can stand in it twice. A critical section is one action.
`clearAll`, `saveRules`, `loadRules` and `shouldBlock` take several locks, so
they are a first action that fills `todo` (or starts a check) and then one
action for each lock: `ClearSection`, `SaveSection`, `LoadLine`, `CheckSection`.
One thread changes the rules, any number of threads check. `throughout` and
`ever` are history: the rules in force during all, and during some, of a check.

The file is a sequence of lines: `SaveRules` truncates it, a section is written
in whatever order the hash set has (`SetToSeqs`), and `LoadLine` does what one
turn of `loadRules`' loop does, with the blank line, the line that begins with a
bracket, the unknown application, the port cut to 16 bits and the exception out
of `std::stoi`. Parsing and printing of addresses, ports and names are
parameters that invert each other where the code's do.

### FastPath and the code

One action takes a packet from the pop to the verdict for a blocked connection
(`Receive`, first disjunct) or to the call of `shouldBlock` (second disjunct):
the tracker belongs to the worker, so nobody sees a state in between. Then each
section of the rules is an action (`CheckRules`), since the managing thread may
change rules in between, and `Judge` is the rest: `blockConnection`, the output
callback, the counters. `Idle` is a pop that comes back empty, with its
`cleanupStale`. The clock may pass between any two steps or stand still;
`IdleTimeout` is 300 s in the code. `Closes` and `AfterFlags` are
`updateTCPState` in the order of its tests. `verdicts` and `wasBlocked` are
history.

`BlockMemory` says what survives of all this for somebody who only sees packets
arrive, with their flags, and verdicts: the packets of a connection on hold are
dropped, and a hold ends only at a packet that closes the connection (`Closed`: RST,
or ACK with or after a FIN, over TCP), when the connection has been idle for too
long, or when it is the one idle for longest and its place is needed. Which packet
has arrived is part of its state (`pending`, then `verdicts`), so that an
implementation cannot claim a closing flag that was not there; `finished` are the
connections whose FIN has been seen.

### Engine and the code

Threads are numbered, and `q[t]`, `run[t]`, `pc[t]` and `has[t]` are the queue, the
`running_` flag, the position and the packet in hand of thread `t`. A packet is
known by its file, its number and the hash of its five-tuple. `Start` is
`processFile` up to the wait, `Stop` the end of both sleeps with line 89,
`Halt`/`Join` one `stop()` of a load balancer or worker each, in the order of
`stopAll`. The push of a load balancer or worker (`Push`) is an action of its own
because it blocks; `FPDrop` and `FPForward` are `handleOutput` on either side of
its test. The test of `running_` and the pop after it are one step; the module's
header says why nothing is lost by that. `EndOfFile` may come after any record:
captures of every length up to `MaxPackets` are covered, and so is a record the
reader cannot read.

`lost` and `drained` are history: a packet was pushed into a queue shut down, and
everything was at rest when the sleeps ended.

### Sequential and the code

A frame is a record of what its bytes say, with the number of bytes captured.
The header fields are values; the TLS payload is modelled byte by byte, because
what can go wrong there is arithmetic on lengths: `p.bytes` are its bytes that are
not zero, and `p.texts` the strings in it, so that a name is recognised only if it
is cut out at its own place and length. `Hello` builds the well-formed ClientHello
from its lengths: it is the reference the extractor is compared with.

`Handle` is the body of the loop up to the decision, `Write` the write of a
forwarded packet, `Skip` a record that is not TCP or UDP over IPv4. `Options` is
the loop over the arguments, where an option swallows the next argument even if it
is an option. Substring search, lower case and the parsing of an address are
parameters; the table of patterns is the one of `types.cpp`. A 32-bit field of a
capture file is its four bytes, so that byte order is real.

As an implementation of `PacketFilter` (`NameIn`, `FlowEntryOf`) two differences
to v2 come to light. v2 also looks for a server name in UDP datagrams to port 443,
and for a Host only in more than 10 bytes; and an *empty* name closes a flow's
classification for good in v2, while here it counts as none. The mapping gives the
filter the names this program finds, so both are implementations, on the names
each one finds.

## Runs

| run | instance | shows |
|---|---|---|
| `pipeline` | 2 load balancers x 2 workers, queues of 1, 3 captures, 3 sets of rules | types and bounds; no push into a queue shut down; the output is complete; the report agrees with itself; if the sleep was long enough everything was decided; `process()` returns; one worker per flow; order between reader and verdict, and between verdict and file; a block is final; verdicts are those of a single-threaded pass; nothing passes that the rules forbid; refinement of `PacketFilter` |
| `pipeline_drain` | as `pipeline` | **violated**: packets may be left undecided when the sleep ends |
| `thread_safe_queue` | 2 producers, 2 consumers, 1 slot, 2 calls each | no lost wake-up; shutdown releases everyone; refinement of `AtomicQueue` with its fairness |
| `rule_manager` | 1 checker, 7 rules, 2 files, 4 calls | answers stand for rules that were in force; a saved file gives the rules back |
| `rule_unblock` | as above, 3 calls | **violated**: one `unblockDomain` does not undo two `blockDomain` |
| `fast_path` | 3 packets of 3 connections, a table of 2, clock of 2 ticks, a rule change during any check | the worker's memory of blocks is `BlockMemory`, so that no packet without the closing flags ends a block; counters agree; `stop()` returns; nothing is forwarded that a steady rule matches |
| `fast_path_close` | as above | **violated**: a packet that closes a blocked connection is forwarded |
| `engine` | 2 load balancers x 2 workers, queues of 1, 3 packets, 2 files | types and bounds; flows keep one route and their order up to the file; no push into a queue shut down while the first file is processed, and nothing of the second reaches a worker; a drained engine loses nothing; `stop()` returns unless a worker is stuck on the output queue |
| `engine_balance` | 2 load balancers x 2 workers, 4 packets with the hashes 0 to 3, 1 file | **violated**: once packets of every hash have come out, every worker has been given some |
| `engine_stop` | 1 load balancer x 2 workers, 1 file | **violated**: `stop()` may wait for ever |
| `sequential` | every odd frame alone, all captures of 2 and many of 3 simple frames, byte-swapped and damaged files, 7 command lines | a flow keeps its first name; the output can be read again; every read of the extractor, those of the four lengths before the extensions included, is inside the packet; it finds the name of a complete hello; refinement of `PacketFilter` |
| `sequential_apps` | flows to known servers, an application blocked | **violated**: www.netflix.com passes `--block-app Netflix` |

Every property also fails in a mutant of the code: `PROJECT.json` names, for
each one, the definition changed and the variant put in its place; the variants
stand in the modules just before the definitions they replace.

**Bounds.** Captures have three or four records: enough for a flow that is
unnamed, then named, then only data, beside a second flow and a rejected
record. With queues of one slot every producer blocks in some behaviour,
and all at once in some. Two load balancers of two workers are the program's default and
the least for which the order of stopping and the route of a flow matter. All of
the run's properties but `Termination` are also proved for any numbers of either, any
capacity and any capture. Nothing in the properties
compares more than two threads, two queues or two packets, except the sums of
the report.

For the rules, four calls are enough to block two rules, save and load, or to
block a pattern twice, unblock it once and save; two of them fit inside one
check. For the worker, three connections on a table of two evict one, and three
packets are enough to block a connection, lose it or close it, and see it again.

For the v1 engine, two balancers of two workers are the least for which the two
remainders of one hash interfere, and the documented default. Three packets with
queues of one slot leave one in every stage, fill the output queue and block a
worker; two files are needed for the second to find the queues shut down. The
hashes 1 and 2 take different balancers. `engine_balance` takes the hashes 0 to 3 instead,
every pair of a balancer and a worker that a hash could be given: with a quotient
in place of the second remainder its property holds.

For the single-threaded engine, `MCSequential` takes each length field of a hello
to and past the end of the packet, one at a time, and cuts hellos at each header
boundary; session ids have 0, 32 and 255 bytes, cipher suites 0, 2, 4 and 300.
Captures of three records put a name behind two packets without one.

**Findings.** Line 501 of `dpi_mt.cpp` says "Wait for queues to drain"; line 502 sleeps for
500 ms. Threads leave `while (running_)` with packets still queued, so on a slow
machine or a large capture packets are neither forwarded nor dropped and the
report's total is larger than their sum. `DrainedDecidesAll` states what does
hold: if the queues were empty when the sleep ended, nothing was lost.

`unblockDomain` (`rule_manager.cpp` 121-124) erases the first copy of a pattern
only, and `blockDomain` and `loadRules` store a copy each time, so "Unblock a
domain" (`rule_manager.h` 69) may leave it blocked.

"If connection is already blocked, drop immediately" (`fast_path.cpp` 96) comes
after `updateTCPState`, which sets CLOSED over BLOCKED: the segment that closes a
blocked connection is inspected and judged like a new one, and what it is
classified as replaces the name the connection was blocked for.
`ImplementsMemory` states what does hold: only such a segment, idleness and eviction
end a block.

`load_balancer.h` 31-32 says of two balancers and four workers "LB0 handles FP0, FP1
(hash % 2 == 0 or 1)" and "LB1 handles FP2, FP3", as does the picture in
`main_dpi.cpp` 49-54. Both levels take a remainder of the same hash
(`load_balancer.cpp` 75, 132), so with two and two, the default, LB0 only feeds FP0
and LB1 only FP3 (`EveryWorkerServes`). `WorkersStayIdle` in `EngineProofs` says for
which numbers of threads this happens. v2 is the same (`dpi_mt.cpp` 343, 494).

`DPIEngine::stop` "stops all threads" (`dpi_engine.h` 79) clears `running_` first
(`dpi_engine.cpp` 89), which tells the output thread to leave as soon as its queue
is empty, while workers still forward. If more packets are on their way than the
output queue has room for, a worker blocks in `handleOutput` (303) and `stop()`
never returns from joining it. `StopReturnsUnlessStuck` says that this is the only
way to hang, `DrainedLosesNothing` that none of it happens if the sleeps were long
enough.

`sniToAppType` looks for `x.com` and `t.co` before `netflix` and `microsoft`
(`types.cpp` 110-131), so netflix.com and microsoft.com are Twitter/X for all three
engines and a rule for Netflix or Microsoft, both listed as supported
(`main_dpi.cpp` 37-39), does not apply to them. For the same reason `yt3.ggpht`
is never YouTube: `ggpht` is Google's.

Less than a contradiction, but worth knowing: the output of a byte-swapped capture cannot be read again
(`OutputReadsBack`), since the magic number is copied as it was read and all else
is written in native order (`pcap_reader.cpp` 40-43, also for v1 and v2); a second
`processFile` on one engine counts its packets and forwards none
(`OnlyOneFile`).

## Fairness and liveness

Weak fairness of each thread: the operating system schedules every runnable
thread again and again. A thread waiting in a push is enabled once there is room
(`CanPush`), and that such a wait really ends is what `thread_safe_queue` shows.
The timed pop never waits for ever. Nothing is assumed about how far the threads
get during the sleep. In `ThreadSafeQueue` a timeout is strongly fair, because
`wait_for` fixes its deadline when it is entered: waking in between does not
push it back. New calls, spurious wake-ups and the shutdown need not happen. In `FastPath`
only the worker is fair; packets, rule changes and `stop()` may never come, and
`popWithTimeout` makes sure that a worker without packets still turns round its
loop. In `Engine` the main thread, the reader and every other thread are weakly
fair, one by one; a popWithTimeout that comes back empty changes nothing and is
left out, so a thread with an empty queue has nothing to do until it is stopped.

The runs of `Engine` and `Sequential` do not check for deadlock. `engine_stop` is
about the state in which everyone waits for everyone, which TLC would report as a
deadlock in `engine` too (`Stuck`); there `StopReturnsUnlessStuck` shows that it is
the only one. `Sequential` is a program that ends.

## Proofs

Every invariant and every refinement checked by a passing run has a theorem, but
for the fairness in `ImplementsChannel`; liveness is model-checked only.

`PipelineProofs` proves the following for any positive number of
load balancers and workers, any capacity, any finite capture, any rules, hash, application
table and matching. The only assumptions are the ASSUMEs of `FlowInspection`,
`Channel` and `Pipeline`, which say that the parameters have their types, that
there are finitely many applications (the sum over `app_counts` is one of the
report's), and that there is at least one load balancer, one worker each, and one slot.

| theorem | property |
|---|---|
| `TypeCorrect` | `TypeOK` |
| `NoPacketDiscarded` | `NoDiscardingPush` |
| `OneWorkerPerFlow` | `FlowAffinity` |
| `NothingPassesABlock` | `BlockedStaysBlocked` |
| `OutputComplete` | `AllForwardedWritten` |
| `NothingLostUpstream` | `UpstreamInOrder` |
| `NothingLostDownstream` | `DownstreamInOrder` |
| `ReportIsConsistent` | `ReportAgrees` |
| `DrainedRunDecidesAll` | `DrainedDecidesAll` |
| `EngineIsFilter` | `ImplementsFilter` |
| `EngineEnforcesRules` | `RulesEnforced` |
| `EngineIgnoresSchedule` | `ScheduleIndependent` |

None of them but `TypeCorrect` is inductive. The invariants they rest on build on each
other:

1. `Held` (with `TypeOK`): a thread holds a packet exactly while its program
   counter is at the push.
2. `StopOrder`: how far the shutdown has come against which threads have left
   and which queues are down. A stage's queue is shut only in the phase in which
   every thread of the stage before has left; that a stage has left completely
   follows from stopping threads 0, 1, ... in turn. With `Held` it gives
   `NoPacketDiscarded`.
3. `UpstreamOrder`: every packet read and not yet decided is in exactly one
   place on the route of its flow, and along that route, from the worker's queue
   back to the reader, packets stand in capture order. The proof needs that a
   worker is fed by one load balancer only (`OneFeeder`), which is arithmetic on
   worker numbers (`WorkerNumbers`), and `StopOrder`, since a push into a queue
   that is down would lose the packet. `NothingLostUpstream` reads it as a
   statement about lists: put together, the places list a worker's undecided
   packets (`UpstreamLists`).
4. `FlowTables`: a worker keeps entries of its own flows only, a dropped packet
   has left its flow blocked, and packets of a flow are decided in capture order
   (`HeadIsFirst`: the head of a worker's queue is the first undecided packet of
   its flow, by 3). With `InspectKeepsBlocked` it gives `OneWorkerPerFlow` and
   `NothingPassesABlock`.
5. `ForwardedKept`: the packets counted as forwarded are exactly those with a
   worker, in the output queue or in the file. With 2, when `process()` returns
   the first two places are empty, which is `OutputComplete`.

6. `DownstreamOrder`: in the file and the output queue (`OnTheWay`) no packet
   stands twice, packets of one *worker* stand in capture order, and the one in a
   worker's hand comes after all of these. That is more than the refinement needs,
   which is order within a flow, and what `NothingLostDownstream` says, with 5.
   `EngineIsFilter` then takes each step of the engine to a step of the filter: `FPTake` to
   `Decide` of the packet at the head of the worker's queue (undecided and first
   of its flow by 3), `OutWrite` to `Emit` (forwarded, unwritten and next of its
   flow by 5 and 6), `JoinOut` to `Finish` (everything forwarded is written by
   5), every other step to a stutter. The table of flows of the filter is the
   union of the workers' tables, each flow read at its own worker. The filter
   states no fairness, so this theorem is the whole of `ImplementsFilter`.

7. `Counters`: the sums over load balancers, workers and applications are the
   numbers of packets handed over and decided. A step changes one summand by one
   (`SumCountsUp`) and adds one packet to one of these sets (`OneMore`), so sums
   and cardinalities grow together. With `NamesMapped` (a named entry has the
   application of its name, hence so has every name detected) and 5 it gives
   `ReportIsConsistent`.
8. `DrainedDecided`: if the queues were empty when the sleep ended, no packet
   waits from then on, because the reader is past its end and by 3 a waiting
   packet is in one of these queues or in a hand. With 7 it gives
   `DrainedRunDecidesAll`.

`EngineEnforcesRules` shows what the refinement buys: nothing in its argument mentions a
thread. `PacketFilterProofs` proves `RulesEnforced` of the abstract filter
(`FilterEnforcesRules`), and `PipelineProofs` carries it to the engine through the refinement
mapping. The invariant says that the decided packets of a flow come before its undecided
ones (`FlowsInTurn`), that a flow which is not DNS carries the name of its first decided
packet with a name, or has seen none (`FirstNames`), that every packet judged
`forwarded` fits the rules under that name (`ForwardedFits`), and that only such packets are
written (`WrittenForwarded`). `ForwardedFits` alone is not inductive: that a later packet
is judged by the first name, and not by its own, is `FirstNames`, and that no earlier packet
can still bring another name is `FlowsInTurn`.

`EngineIgnoresSchedule` goes the same way. `FilterIgnoresSchedule` says of every packet
filter that a verdict is that of one pass over the capture, which is a recursive
function of the packet number (`Pass`; `PassUnfolds` shows that it exists and obeys its
equation). The invariant is `FollowsPass`: each flow's entry is the one the pass has
after *some* packet, possibly another for each flow, up to which the flow is decided.
Between that packet and the flow's next one the pass leaves the entry alone
(`PassKeeps`), so that deciding the next one is the pass's own step.

`QueueProofs` proves the following for any finite sets of producers and
consumers, any positive bound on the queue and any number of calls
(`QueueAssumption`).

| theorem | property |
|---|---|
| `QueueTypeCorrect` | `TypeOK` |
| `NobodySleepsAfterShutdown` | `NoSleepAfterShutdown` |
| `NoLostProducerWakeup` | `NoStrandedProducer` |
| `NoLostConsumerWakeup` | `NoStrandedConsumer` |
| `QueueIsChannel` | `Atomic!Init` and `[][Atomic!Next]`, the safety part of `ImplementsChannel` |

They rest on `Waiting` (who sleeps where, and nobody once the queue is shut
down) and on a balance: a step that frees a slot while a producer sleeps wakes
one, so slots and awake producers grow together (`TakeBalance`), and an awake
producer leaves only by filling a slot, or by going to sleep when there is none
(`PushBalance`). Items and awake consumers are the mirror image
(`InsertBalance`, `PopBalance`). The two wake-up invariants are inductive given
`TypeOK` and `Waiting`. `QueueIsChannel` is a simulation step by step: a pass through
the wait predicate that ends a call is the channel's operation
(`PushImplements`, `PopImplements`), and waiting, waking up, timing out without an
item and waking up for nothing are stutters.

`RuleProofs` proves the following for any rules, any matching, any number of
checkers and any number of calls. `RuleAssumption` says that the parameters have
their types, that addresses and ports survive printing and parsing, and that
their printed forms and the names of applications are neither blank nor begin with a
bracket (`PlainTexts`), as is so of every string `ipToString`, `std::to_string` and
`appTypeToString` return.

| theorem | property |
|---|---|
| `RulesTypeCorrect` | `RulesTypeOK` |
| `SteadyRulesAlwaysApply` | `SteadyRulesApply` |
| `NoBlockIsPhantom` | `NoPhantomBlock` |
| `SavedRulesAlwaysComeBack` | `SavedRulesComeBack` |

The invariant is `ChecksSound`: of a check under way, the rules in force
throughout are in force now, no rule in force throughout matches in a section
the check has passed (`Ahead` names those it has not), and a reason given is a
rule it has seen. `HitsRule` says that a look into one section finds out exactly
whether a rule of that section matches, and `WitnessedSound` that a change of
the rules keeps the invariant for every check under way at once.

`SavedRulesAlwaysComeBack` has the invariant `SaveInv`: while `saveRules` is under way,
reading what is in the file so far gives the rules of the sections written so far
(`HoldsBack`), and what is left to do is the other sections, in order. Reading is a
fold over the lines, line by line as `loadRules` does it; `ReadOneMore` says that one
more line is one more step of it, by induction on line numbers, and `ReadOn` that a
run of lines is a run of steps. Of one section, `SectionBack` shows that its header and
the lines behind it give its rules whatever the order of the hash set, and
`PatternsBack` that the patterns come back in *their* order, with their copies.

`FastPathProofs` proves the following for any packets, any size of the table,
any time limit and any rules (`FastPathAssumption`, `TrackerAssumption`,
`RuleAssumption`).

| theorem | property |
|---|---|
| `FastPathTypeCorrect` | `TypeOK` |
| `CountersAlwaysAgree` | `CountersAgree` |
| `OnlyUnmatchedForwarded` | `ForwardsOnlyUnmatched` |
| `WorkerIsMemory` | `ImplementsMemory` |

The invariant `FastPathInv` adds to that of `RuleProofs`: the table is finite,
bounded and well typed (`TableOK`), so are the worker's own variables
(`WorkerOK`), the counters agree, and the packet in hand belongs to a connection
in the table that is not blocked, about which the check under way asks
(`Asking`). `Asking` is what carries `OnlyUnmatchedForwarded` over from the
rules to the worker, and it holds because nobody but the worker itself touches
its table between the question and the answer. `TrackTable` says what one packet
does to the table, whoever is evicted; the bounds of `CountersAgree` follow from
it (`TracksTable`, `TracksBlocked`), and so does the refinement, for which `Tracks`
also says that a block ends exactly if the flags close the connection (`ClosedBy`)
and what becomes of `fin_seen`: `Receive` is
`Arrive`, `Judge` is `Drop` or `Forward`, `Idle` is `Expire`, the clock's step is
`Passes`, and every other step a stutter.

`EngineProofs` proves the following for any numbers of load balancers and workers,
any hashes, any number of packets and files (`EngineAssumption`).

| theorem | property |
|---|---|
| `EngineTypeCorrect` | `TypeOK` |
| `OnlyOneFileProcessed` | `OnlyOneFile` |
| `WorkersStayIdle` | (`IdleWorkers`, why `EveryWorkerServes` fails) |
| `FlowsStayInOrder` | `FlowsInOrder` |
| `DrainedRunLosesNothing` | `DrainedLosesNothing` |

`OnlyOneFile` rests on the order of the shutdown: which threads have left, which
queues are down, as a function of `mainPc` and `stopping`, and for a later file
that every queue of a load balancer and worker is down from the start, where a
push changes nothing. `WorkersStayIdle` adds that a packet is with the balancer its
hash selects; the rest is arithmetic on remainders.

`FlowsStayInOrder` rests on `OrderInv`: a packet is only with the threads its hash
selects (`Routed`), each thread's hand and queue are sorted flow by flow (`Sorted`), a
later stage has the earlier packets (`Staged`), and the reader's next packet comes after
all of them (`Unread`), also at the turn from one file to the next. Packets of
other flows may overtake, and a dropped packet leaves a gap, so the order is a
relation between places (`AllBefore`), and a step of any thread is one of three: it
keeps fewer packets (`FewerKept`), moves one to the next stage (`MoveKept`), or none.

`DrainedRunLosesNothing` rests on `Counts`, a balance of sums over the stages: what was
read is with the reader, the load balancers, or routed; what was routed is with the
workers, or decided; what was sent is in the output queue, or in the file. A
step moves one from one summand to another (`CountsMove`, from `SumChanges`). `Resting`
says that if everything was at rest when `stop()` was called it stays so, and
that the output thread, which may leave at once, has then nothing left to write.

`SequentialProofs` proves the following for any captures, arguments, matching and
conversions. `SequentialAssumption` says that `Tuples` and `Names` cover what the
captures hold; `CaptureAssumption` that fields and payloads are bytes, and that a record that
can be read has as many bytes of frame as its length says; `HelloAssumption` that the
lengths of a ClientHello are numbers and a name of no bytes is empty.

| theorem | property |
|---|---|
| `SequentialTypeCorrect` | `TypeOK` |
| `FirstNameAlwaysStays` | `FirstNameStays` |
| `SequentialIsFilter` | `ImplementsFilter` |
| `OutputAlwaysReadsBack` | `OutputReadsBack` |
| `ReadsAlwaysStayInside` | `ReadsStayInside` |
| `HelloNameAlwaysFound` | `HelloNameFound` |

`FirstNameStays` is not inductive: which extractor may still run depends on the
class a flow has, so the invariant `Classes` says which classes a flow without a
name can have (`ClassFits`: what its port and protocol give). The
refinement needs besides which packets are decided (`Decided`), that a packet to
be written is the one just forwarded (`Pending`), and that the file holds all
forwarded packets before it (`WrittenUpTo`). `Handle` is `Decide`, `Write` is `Emit`, `Finish` is
`Finish`, `Open`, `OpenFails` and `Skip` are stutters.

`OutputReadsBack` needs that what was written had been read whole and has a header
(`OutInv`), hence a length the reader accepts. A field of a capture file is four
bytes; written and read in one order it is the same number (`WordReads`), and in two
orders the magic number is not, which gives the other direction.

`ReadsStayInside` and `HelloNameFound` are about the extractor alone, so what is
proved is that they hold of every frame. `ReadEnds` has every read under the tests
that come before it: of the four lengths in front of the extensions each locates the
next (`HelloPlaces`), and has a test of its own (`HasSessionId` to `HasExtensions`).
The walk over the extensions is a function
defined by recursion on the offset (`Loop`); it is one because an offset only grows
and ends at the end of the extensions (`LoopDefined`), and `LoopInside` is an
induction over the same measure. For `HelloNameFound` the ClientHello is laid out
byte by byte: no byte is given two values (`OctetsUnique`, from `NumbersApart`: any two
length fields lie apart, whatever the lengths between them), so each field reads
as it was written (`HelloNumbers`), the walk visits exactly the beginnings of the extensions up
to the server name's (`HelloVisited`), and cuts out the name (`HelloName`).

**Induction.** The library's induction theorems take an operator as a parameter, which
these provers cannot instantiate. `Induction` states them with a set in its place: a
set with 0 that is closed under + 1 has all of `Nat` (`InductiveSet`), one that has
every subset of a finite set whose proper subsets it has, has them all
(`SubsetInduction`). Both rest on the well-foundedness of inclusion between finite
sets (`WFMin`). From them follow that a function defined by recursion over an
initial part of the numbers exists and obeys its equation (`RecursiveFunction`), which
every CHOOSE behind a recursive definition needs, and what sums over finite sets do
(`SumUnfolds`, `SumCountsUp`, `SumChanges`), which no library theorem says of folds.

**Model-checked only.** Liveness (`Termination`, `ShutdownReleases`, `StopReturns`,
`StopReturnsUnlessStuck`) and the fairness part of `ImplementsChannel`: proving
them takes ENABLED of the fair actions, which the prover does not handle.

## Not modelled

- Allocation failure, file-system errors while writing, wrap-around of 64-bit
  counters; the text of the reports, `printStatus` and the JSON report.
- The DNS extractor (its result is an input of `FastPath`) and the QUIC extractor,
  which nothing calls; `extractExtensions` has no body.
- `main_simple.cpp` and `main.cpp`, which print what the modelled parser and
  extractor return, and the argument parsers of `main_dpi.cpp` and `dpi_mt.cpp`.
- `FPManager`'s and `LBManager`'s aggregated statistics and
  `GlobalConnectionTable`, which only read.
- `backend/main.py`: every request runs an engine process in a directory of its own;
  the one thing requests share is the lazily loaded classifier. The web page and the
  off-line machine-learning scripts keep no state worth a model.

## What could follow

`Engine` with `FastPath` workers instead of open decisions, which would carry
`WorkerIsMemory` and `OnlyUnmatchedForwarded` to the whole of v1; the DNS extractor;
and the liveness properties in proofs, once the prover has ENABLED.
