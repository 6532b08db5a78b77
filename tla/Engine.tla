------------------------------- MODULE Engine -------------------------------
(***************************************************************************)
(* DPIEngine of src/dpi_engine.cpp with its load balancers and fast-path   *)
(* workers (v1): processFile starts the threads, a reader thread feeds the *)
(* load balancers, and after two sleeps stop() takes everything down.  An  *)
(* engine can be given a second file.                                      *)
(*                                                                         *)
(* The threads that serve a queue are numbered: load balancers first, then *)
(* workers, then the output thread; q[t] is the queue of thread t (class   *)
(* ThreadSafeQueue) and run[t] its running_ flag, that of the output       *)
(* thread being DPIEngine::running_.  What a worker decides is left open:  *)
(* FastPath models it.  A thread's test of running_ and its popWithTimeout *)
(* are one step: when running_ is cleared nobody feeds the queue any more  *)
(* (the output queue apart, whose thread looks at both), so a pop that     *)
(* comes later than its test could have come with it.                      *)
(***************************************************************************)
EXTENDS Channel, Functions

CONSTANTS NumLBs, FpsPerLB,
          Hashes,          \* the values FiveTupleHash takes
          MaxPackets,      \* bound: packets of a file
          MaxFiles         \* bound: calls of processFile

ASSUME EngineAssumption ==
  /\ NumLBs \in Nat \ {0} /\ FpsPerLB \in Nat \ {0}
  /\ Hashes \subseteq Nat
  /\ MaxPackets \in Nat /\ MaxFiles \in Nat \ {0}

LBs == 0 .. NumLBs - 1
Workers == 0 .. NumLBs * FpsPerLB - 1
FPs == NumLBs .. NumLBs + NumLBs * FpsPerLB - 1
Out == NumLBs + NumLBs * FpsPerLB
Threads == LBs \cup FPs \cup {Out}

Job == [file : 1 .. MaxFiles, id : 1 .. MaxPackets, hash : Hashes]
NoJob == [file |-> 0, id |-> 0, hash |-> 0]
Header == [file |-> 0, id |-> 1, hash |-> 0]

VARIABLES
  file,        \* calls of processFile that opened their output file
  mainPc,      \* where the main thread is in processFile
  stopping,    \* the thread stop() is at
  readerPc, readerJob, nextId,
  q, run, pc, has,
  output,      \* the output file: its header, and packets
  total, forwarded, dropped,   \* stats_
  received,    \* packets_received_, packets_processed_
  sent,        \* packets_dispatched_, packets_forwarded_
  refused,     \* packets_dropped_ of a worker
  routed,      \* per_fp_counts_, by worker
  lost,        \* history: some packet was pushed into a queue shut down
  drained      \* history: everything was at rest when stop() was called

mainVars == <<file, mainPc, stopping>>
readerVars == <<readerPc, readerJob, nextId>>
counters == <<received, sent, refused, routed>>
stats == <<total, forwarded, dropped>>
vars == <<mainVars, readerVars, q, run, pc, has, output, stats, counters,
          lost, drained>>

Init ==
  /\ file = 0 /\ mainPc = "idle" /\ stopping = 0
  /\ readerPc = "off" /\ readerJob = NoJob /\ nextId = 0
  /\ q = [t \in Threads |-> NewQueue]
  /\ run = [t \in Threads |-> FALSE]
  /\ pc = [t \in Threads |-> "off"]
  /\ has = [t \in Threads |-> NoJob]
  /\ output = <<>>
  /\ total = 0 /\ forwarded = 0 /\ dropped = 0
  /\ received = [t \in LBs \cup FPs |-> 0]
  /\ sent = [t \in LBs \cup FPs |-> 0]
  /\ refused = [t \in FPs |-> 0]
  /\ routed = [w \in Workers |-> 0]
  /\ lost = FALSE /\ drained = FALSE
-----------------------------------------------------------------------------
(* LoadBalancer::selectFP, the index of a worker within the balancer's.    *)
SelectFP(hash) == hash % FpsPerLB

(* Variant: the load balancers take turns.                                 *)
LBInTurn(hash) == nextId % NumLBs

(* LBManager::getLBForPacket.                                              *)
LBForPacket(hash) == hash % NumLBs

(* The workers of load balancer l are fp_start .. fp_start + FpsPerLB - 1. *)
WorkerFor(l, hash) == l * FpsPerLB + SelectFP(hash)

Target(t, job) == IF t \in LBs THEN NumLBs + WorkerFor(t, job.hash) ELSE Out
-----------------------------------------------------------------------------
(* The main thread in processFile.                                         *)

(* The output file is opened (or the call returns false, and nothing has   *)
(* changed), start() starts every thread, and the reader is started.  No   *)
(* queue is reopened.                                                      *)
Start ==
  /\ mainPc \in {"idle", "done"} /\ file < MaxFiles
  /\ file' = file + 1 /\ mainPc' = "reading"
  /\ output' = <<>>
  /\ run' = [t \in Threads |-> TRUE]
  /\ pc' = [t \in Threads |-> "loop"]
  /\ readerPc' = "open" /\ nextId' = 0
  /\ UNCHANGED <<stopping, readerJob, q, has, stats, counters, lost, drained>>

AtRest == \A t \in LBs \cup FPs : IsEmpty(q[t]) /\ has[t] = NoJob

(* reader_thread_.join(), the two sleeps, and running_ = false.            *)
Stop ==
  /\ mainPc = "reading" /\ readerPc = "off"
  /\ mainPc' = "halt" /\ stopping' = 0
  /\ run' = [run EXCEPT ![Out] = FALSE]
  /\ drained' = AtRest
  /\ UNCHANGED <<file, readerVars, q, pc, has, output, stats, counters, lost>>

(* Variant: running_ = false is forgotten.                                 *)
HaltQueueOnly ==
  /\ mainPc = "halt"
  /\ q' = [q EXCEPT ![stopping] = ShutDown(@)]
  /\ mainPc' = "join"
  /\ UNCHANGED <<file, stopping, readerVars, run, pc, has, output, stats,
                 counters, lost, drained>>

(* stop() of a load balancer or worker: running_ = false and               *)
(* input_queue_.shutdown(), then the join.                                 *)
Halt ==
  /\ mainPc = "halt"
  /\ run' = [run EXCEPT ![stopping] = FALSE]
  /\ q' = [q EXCEPT ![stopping] = ShutDown(@)]
  /\ mainPc' = "join"
  /\ UNCHANGED <<file, stopping, readerVars, pc, has, output, stats,
                 counters, lost, drained>>

(* Variant: stop() does not wait for the threads it stops.                 *)
JoinNobody ==
  /\ mainPc = "join"
  /\ stopping' = stopping + 1
  /\ mainPc' = IF stopping + 1 = Out THEN "shutOut" ELSE "halt"
  /\ UNCHANGED <<file, readerVars, q, run, pc, has, output, stats, counters,
                 lost, drained>>

(* The load balancers first (they feed the workers), then the workers.     *)
Join ==
  /\ mainPc = "join" /\ pc[stopping] = "off"
  /\ stopping' = stopping + 1
  /\ mainPc' = IF stopping + 1 = Out THEN "shutOut" ELSE "halt"
  /\ UNCHANGED <<file, readerVars, q, run, pc, has, output, stats, counters,
                 lost, drained>>

ShutOutput ==
  /\ mainPc = "shutOut"
  /\ q' = [q EXCEPT ![Out] = ShutDown(@)]
  /\ mainPc' = "joinOut"
  /\ UNCHANGED <<file, stopping, readerVars, run, pc, has, output, stats,
                 counters, lost, drained>>

(* Afterwards the file is closed and processFile returns true.             *)
JoinOutput ==
  /\ mainPc = "joinOut" /\ pc[Out] = "off"
  /\ mainPc' = "done"
  /\ UNCHANGED <<file, stopping, readerVars, q, run, pc, has, output, stats,
                 counters, lost, drained>>

Main ==
  \/ Start \/ Stop \/ Halt \/ Join \/ ShutOutput \/ JoinOutput
-----------------------------------------------------------------------------
(* readerThreadFunc.  Records that do not parse, or are not TCP or UDP     *)
(* over IPv4, change nothing and are left out.                             *)

(* The input file cannot be opened: the thread returns, nothing is written.*)
ReaderFails ==
  /\ readerPc = "open"
  /\ readerPc' = "off"
  /\ UNCHANGED <<mainVars, readerJob, nextId, q, run, pc, has, output, stats,
                 counters, lost, drained>>

WriteHeader ==
  /\ readerPc = "open"
  /\ output' = Append(output, Header)
  /\ readerPc' = "read"
  /\ UNCHANGED <<mainVars, readerJob, nextId, q, run, pc, has, stats,
                 counters, lost, drained>>

(* createPacketJob and stats_.total_packets++.                             *)
Read ==
  /\ readerPc = "read" /\ nextId < MaxPackets
  /\ \E h \in Hashes :
       readerJob' = [file |-> file, id |-> nextId + 1, hash |-> h]
  /\ nextId' = nextId + 1
  /\ total' = total + 1
  /\ readerPc' = "push"
  /\ UNCHANGED <<mainVars, q, run, pc, has, output, forwarded, dropped,
                 counters, lost, drained>>

Dispatch ==
  LET l == LBForPacket(readerJob.hash) IN
  /\ readerPc = "push" /\ CanPush(q[l])
  /\ q' = [q EXCEPT ![l] = Pushed(@, readerJob)]
  /\ lost' = (lost \/ q[l].down)
  /\ readerJob' = NoJob /\ readerPc' = "read"
  /\ UNCHANGED <<mainVars, nextId, run, pc, has, output, stats, counters,
                 drained>>

EndOfFile ==
  /\ readerPc = "read"
  /\ readerPc' = "off"
  /\ UNCHANGED <<mainVars, readerJob, nextId, q, run, pc, has, output, stats,
                 counters, lost, drained>>

Reader == ReaderFails \/ WriteHeader \/ Read \/ Dispatch \/ EndOfFile
-----------------------------------------------------------------------------
(* The threads: while (running_) { popWithTimeout; ... }.                  *)

(* Variant: the output thread leaves like the others.                      *)
StaysWhileRunning(t) == run[t]

Stays(t) == run[t] \/ (t = Out /\ ~IsEmpty(q[t]))

Leave(t) ==
  /\ pc[t] = "loop" /\ ~Stays(t)
  /\ pc' = [pc EXCEPT ![t] = "off"]
  /\ UNCHANGED <<mainVars, readerVars, q, run, has, output, stats, counters,
                 lost, drained>>

NextJob(t) == Head(q[t].items)

Pops(t) ==
  /\ pc[t] = "loop" /\ Stays(t) /\ ~IsEmpty(q[t])
  /\ q' = [q EXCEPT ![t] = Popped(@)]

LBReceive(t) ==
  /\ t \in LBs /\ Pops(t)
  /\ has' = [has EXCEPT ![t] = NextJob(t)]
  /\ received' = [received EXCEPT ![t] = @ + 1]
  /\ pc' = [pc EXCEPT ![t] = "push"]
  /\ UNCHANGED <<mainVars, readerVars, run, output, stats, sent, refused,
                 routed, lost, drained>>

(* handleOutput with DROP.                                                 *)
FPDrop(t) ==
  /\ t \in FPs /\ Pops(t)
  /\ received' = [received EXCEPT ![t] = @ + 1]
  /\ dropped' = dropped + 1
  /\ refused' = [refused EXCEPT ![t] = @ + 1]
  /\ UNCHANGED <<mainVars, readerVars, run, pc, has, output, total, forwarded,
                 sent, routed, lost, drained>>

(* handleOutput otherwise, up to the push.                                 *)
FPForward(t) ==
  /\ t \in FPs /\ Pops(t)
  /\ has' = [has EXCEPT ![t] = NextJob(t)]
  /\ received' = [received EXCEPT ![t] = @ + 1]
  /\ forwarded' = forwarded + 1
  /\ pc' = [pc EXCEPT ![t] = "push"]
  /\ UNCHANGED <<mainVars, readerVars, run, output, total, dropped, sent,
                 refused, routed, lost, drained>>

(* The push of a load balancer or worker, and the counters after it.       *)
Push(t) ==
  LET to == Target(t, has[t]) IN
  /\ pc[t] = "push" /\ CanPush(q[to])
  /\ q' = [q EXCEPT ![to] = Pushed(@, has[t])]
  /\ lost' = (lost \/ q[to].down)
  /\ has' = [has EXCEPT ![t] = NoJob]
  /\ sent' = [sent EXCEPT ![t] = @ + 1]
  /\ routed' = IF t \in FPs THEN routed
               ELSE [routed EXCEPT ![WorkerFor(t, has[t].hash)] = @ + 1]
  /\ pc' = [pc EXCEPT ![t] = "loop"]
  /\ UNCHANGED <<mainVars, readerVars, run, output, stats, received, refused,
                 drained>>

(* writeOutputPacket.                                                      *)
Write ==
  /\ Pops(Out)
  /\ output' = Append(output, NextJob(Out))
  /\ UNCHANGED <<mainVars, readerVars, run, pc, has, stats, counters, lost,
                 drained>>

Thread(t) ==
  Leave(t) \/ LBReceive(t) \/ FPDrop(t) \/ FPForward(t) \/ Push(t)
    \/ (t = Out /\ Write)

Finished == mainPc = "done" /\ UNCHANGED vars

Next == Main \/ Reader \/ (\E t \in Threads : Thread(t)) \/ Finished

(* Every thread goes on being scheduled.                                   *)
Fairness ==
  WF_vars(Main) /\ WF_vars(Reader) /\ \A t \in Threads : WF_vars(Thread(t))

Spec == Init /\ [][Next]_vars /\ Fairness
-----------------------------------------------------------------------------
(* Properties.                                                             *)

(* Every variable has its type, and no queue outgrows max_size_.           *)
TypeOK ==
  /\ file \in 0 .. MaxFiles
  /\ mainPc \in {"idle", "reading", "halt", "join", "shutOut", "joinOut",
                 "done"}
  /\ stopping \in Threads
  /\ readerPc \in {"off", "open", "read", "push"}
  /\ readerJob \in Job \cup {NoJob} /\ nextId \in 0 .. MaxPackets
  /\ q \in [Threads -> Queue(Job)] /\ run \in [Threads -> BOOLEAN]
  /\ pc \in [Threads -> {"off", "loop", "push"}]
  /\ has \in [Threads -> Job \cup {NoJob}]
  /\ output \in Seq(Job \cup {Header})
  /\ total \in Nat /\ forwarded \in Nat /\ dropped \in Nat
  /\ received \in [LBs \cup FPs -> Nat] /\ sent \in [LBs \cup FPs -> Nat]
  /\ refused \in [FPs -> Nat] /\ routed \in [Workers -> Nat]
  /\ lost \in BOOLEAN /\ drained \in BOOLEAN
  /\ \A t \in Threads : Len(q[t].items) <= QueueCap

(* What thread t has and, if it is the output thread, has written, the     *)
(* oldest first; and how far it is from the reader.                        *)
Before(i, j) == i.file < j.file \/ (i.file = j.file /\ i.id < j.id)
At(t) == (IF t = Out THEN output
          ELSE IF has[t] = NoJob THEN <<>> ELSE <<has[t]>>) \o q[t].items
Stage(t) == IF t \in LBs THEN 1 ELSE IF t \in FPs THEN 2 ELSE 3

(* The packets of each flow in s, headers apart, are in the order in which *)
(* they came.                                                              *)
InOrder(s) ==
  \A m, n \in DOMAIN s :
    m < n /\ s[m] # Header /\ s[n] # Header /\ s[m].hash = s[n].hash
      => Before(s[m], s[n])

(* The packets of a flow are in one load balancer and one worker only, and *)
(* on the whole way to the file none comes twice or overtakes another (the *)
(* header comment of load_balancer.h: the same flow always goes to the     *)
(* same FP).                                                               *)
FlowsInOrder ==
  /\ \A t \in Threads : InOrder(At(t))
  /\ \A t, u \in Threads : Stage(t) > Stage(u) => InOrder(At(t) \o At(u))
  /\ \A t, u \in Threads : Stage(t) = Stage(u) /\ t # u =>
       \A m \in DOMAIN At(t), n \in DOMAIN At(u) :
         At(t)[m].hash # At(u)[n].hash

(* While the first file is processed no push finds its queue shut down, so *)
(* stop() takes the threads down in an order that discards nothing, and    *)
(* the header is the first thing in the output.  Of any later file nothing *)
(* reaches a worker: the queues stay shut down.                            *)
OnlyOneFile ==
  /\ file <= 1 => ~lost /\ (output # <<>> => Head(output) = Header)
  /\ \A t \in Threads :
       /\ has[t] # NoJob => has[t].file = 1
       /\ \A n \in 1 .. Len(q[t].items) : q[t].items[n].file = 1

(* If the sleeps were long enough for load balancers and workers to come   *)
(* to rest, the report adds up and every forwarded packet is in the file,  *)
(* although the output thread was told to leave first of all.              *)
DrainedLosesNothing ==
  mainPc = "done" /\ file = 1 /\ drained =>
    /\ total = forwarded + dropped
    /\ Len(output) = (IF output = <<>> THEN 0 ELSE 1) + forwarded
    /\ forwarded = SumFunctionOnSet(sent, FPs)
    /\ dropped = SumFunction(refused)
    /\ total = SumFunction(routed)

(* The output thread has left and a worker cannot get rid of its packet.   *)
Stuck ==
  /\ pc[Out] = "off" /\ ~CanPush(q[Out])
  /\ \E t \in FPs : pc[t] = "push"

Stopping == mainPc \in {"halt", "join", "shutOut", "joinOut"}

(* stop() comes back, or it waits for ever on a worker that waits for room *)
(* in an output queue nobody empties: nothing else can hold it up.         *)
StopReturnsUnlessStuck == Stopping ~> (mainPc = "done" \/ Stuck)

(* What load_balancer.h says of two load balancers and four workers: "LB0  *)
(* handles FP0, FP1 (hash % 2 == 0 or 1)", "LB1 handles FP2, FP3".  Once   *)
(* packets of every hash have come out, every worker has been given some.  *)
EveryWorkerServes ==
  Hashes \subseteq {output[n].hash : n \in {m \in DOMAIN output : output[m] # Header}}
    => \A w \in Workers : routed[w] > 0

(* What dpi_engine.h says of stop(): "stops all threads".                  *)
StopReturns == Stopping ~> mainPc = "done"
=============================================================================
