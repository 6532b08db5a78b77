------------------------------ MODULE Pipeline ------------------------------
(***************************************************************************)
(* DPIEngine of src/dpi_mt.cpp: one call of process().  The main thread    *)
(* reads the capture and hands each packet to a load balancer; each load   *)
(* balancer hands it to one of its own fast-path workers; a worker decides *)
(* and gives what it forwards to the output writer.  At the end of the     *)
(* capture the main thread sleeps and then stops the stages in order.      *)
(*                                                                         *)
(* Load balancers are 0 .. NumLBs-1; worker w belongs to load balancer     *)
(* w \div FpsPerLB.  A packet is known by its position in the capture.     *)
(***************************************************************************)
EXTENDS FlowInspection, Channel, SequencesExt

CONSTANTS
  NumLBs,      \* Config::num_lbs
  FpsPerLB,    \* Config::fps_per_lb
  HashOf(_),   \* FiveTupleHash
  Inputs,      \* the captures considered
  RuleSets     \* the rule sets main() may configure

ASSUME PipelineAssumption ==
  /\ NumLBs \in Nat \ {0}
  /\ FpsPerLB \in Nat \ {0}
  /\ \A t \in Tuples : HashOf(t) \in Nat
  /\ Inputs \subseteq Seq(Packet)
  /\ RuleSets \subseteq RuleSet
  /\ IsFiniteSet(AppTypes)

VARIABLES
  input, rules,                                   \* fixed during process()
  pos, mainPc, stopping,                          \* main thread
  lbQ, lbRunning, lbPc, lbPkt, dispatched,        \* load balancers
  fpQ, fpRunning, fpPc, fpPkt, flows, processed,  \* fast-path workers
  outQ, outRunning, outPc, written,               \* output writer
  total, forwarded, dropped, appCounts, detected, \* Stats
  verdict, drained                                \* history

givens   == <<input, rules>>
mainVars == <<pos, mainPc, stopping>>
lbVars   == <<lbRunning, lbPc, lbPkt, dispatched>>
fpVars   == <<fpRunning, fpPc, fpPkt, flows, processed>>
outVars  == <<outRunning, outPc, written>>
decided  == <<forwarded, dropped, appCounts, detected, verdict>>
vars == <<givens, mainVars, lbQ, lbVars, fpQ, fpVars, outQ, outVars,
          total, decided, drained>>
-----------------------------------------------------------------------------
LBs == 0 .. NumLBs - 1
FPs == 0 .. (NumLBs * FpsPerLB) - 1
Ids == 1 .. Len(input)
NoPkt == 0

FlowOf(i) == input[i].tuple

(* Routing: the reader picks the load balancer, the load balancer one of   *)
(* its own workers, both by the same hash.                                 *)
LBOf(t) == HashOf(t) % NumLBs

(* Variant: the load balancer serves its workers in turn.                  *)
WorkerInTurn(l, t) == (l * FpsPerLB) + (dispatched[l] % FpsPerLB)

WorkerOf(l, t) == (l * FpsPerLB) + (HashOf(t) % FpsPerLB)
FPOf(t) == WorkerOf(LBOf(t), t)

Owner(w) == w \div FpsPerLB

Init ==
  /\ input \in Inputs /\ rules \in RuleSets
  /\ pos = 0 /\ mainPc = "read" /\ stopping = 0
  /\ lbQ = [l \in LBs |-> NewQueue]
  /\ lbRunning = [l \in LBs |-> TRUE]
  /\ lbPc = [l \in LBs |-> "loop"]
  /\ lbPkt = [l \in LBs |-> NoPkt]
  /\ dispatched = [l \in LBs |-> 0]
  /\ fpQ = [w \in FPs |-> NewQueue]
  /\ fpRunning = [w \in FPs |-> TRUE]
  /\ fpPc = [w \in FPs |-> "loop"]
  /\ fpPkt = [w \in FPs |-> NoPkt]
  /\ flows = [w \in FPs |-> [t \in Tuples |-> NewFlow]]
  /\ processed = [w \in FPs |-> 0]
  /\ outQ = NewQueue /\ outRunning = TRUE /\ outPc = "loop"
  /\ written = <<>>
  /\ total = 0 /\ forwarded = 0 /\ dropped = 0
  /\ appCounts = [a \in AppTypes |-> 0]
  /\ detected = [n \in Names |-> "none"]
  /\ verdict = [i \in Ids |-> "none"]
  /\ drained = FALSE
-----------------------------------------------------------------------------
(* The main thread: the reading loop.                                      *)

(* A record PacketParser rejects, or that is not IPv4 over TCP or UDP.     *)
ReadSkip ==
  /\ mainPc = "read" /\ pos < Len(input) /\ ~input[pos + 1].parsed
  /\ pos' = pos + 1
  /\ UNCHANGED <<givens, mainPc, stopping, lbQ, lbVars, fpQ, fpVars, outQ,
                 outVars, total, decided, drained>>

ReadPacket ==
  /\ mainPc = "read" /\ pos < Len(input) /\ input[pos + 1].parsed
  /\ pos' = pos + 1
  /\ total' = total + 1
  /\ mainPc' = "dispatch"
  /\ UNCHANGED <<givens, stopping, lbQ, lbVars, fpQ, fpVars, outQ, outVars,
                 decided, drained>>

Dispatch ==
  LET l == LBOf(FlowOf(pos)) IN
  /\ mainPc = "dispatch" /\ CanPush(lbQ[l])
  /\ lbQ' = [lbQ EXCEPT ![l] = Pushed(@, pos)]
  /\ mainPc' = "read"
  /\ UNCHANGED <<givens, pos, stopping, lbVars, fpQ, fpVars, outQ, outVars,
                 total, decided, drained>>

ReadEOF ==
  /\ mainPc = "read" /\ pos = Len(input)
  /\ mainPc' = "sleep"
  /\ UNCHANGED <<givens, pos, stopping, lbQ, lbVars, fpQ, fpVars, outQ,
                 outVars, total, decided, drained>>

(* No packet is still on its way to a decision.                            *)
Quiescent ==
  /\ \A l \in LBs : IsEmpty(lbQ[l]) /\ lbPkt[l] = NoPkt
  /\ \A w \in FPs : IsEmpty(fpQ[w])

(* sleep_for(500 ms) ends whether or not the queues have drained.          *)
WakeUp ==
  /\ mainPc = "sleep"
  /\ mainPc' = "stopLB" /\ stopping' = 0
  /\ drained' = Quiescent
  /\ UNCHANGED <<givens, pos, lbQ, lbVars, fpQ, fpVars, outQ, outVars,
                 total, decided>>
-----------------------------------------------------------------------------
(* The main thread: LoadBalancer::stop, FastPath::stop for each thread in  *)
(* turn, then the writer.  A stop is three steps: running_ = false,        *)
(* input_queue_.shutdown(), thread_.join().                                *)

StopLB ==
  /\ mainPc = "stopLB"
  /\ lbRunning' = [lbRunning EXCEPT ![stopping] = FALSE]
  /\ mainPc' = "shutLB"
  /\ UNCHANGED <<givens, pos, stopping, lbQ, lbPc, lbPkt, dispatched, fpQ,
                 fpVars, outQ, outVars, total, decided, drained>>

ShutLB ==
  /\ mainPc = "shutLB"
  /\ lbQ' = [lbQ EXCEPT ![stopping] = ShutDown(@)]
  /\ mainPc' = "joinLB"
  /\ UNCHANGED <<givens, pos, stopping, lbVars, fpQ, fpVars, outQ, outVars,
                 total, decided, drained>>

(* Variant: stop() returns without waiting for the thread.                 *)
NotAwaited(pc) == TRUE

(* thread_.join() returns when the thread has left its loop.               *)
Joined(pc) == pc = "exit"

JoinLB ==
  /\ mainPc = "joinLB" /\ Joined(lbPc[stopping])
  /\ IF stopping + 1 \in LBs
     THEN mainPc' = "stopLB" /\ stopping' = stopping + 1
     ELSE mainPc' = "stopFP" /\ stopping' = 0
  /\ UNCHANGED <<givens, pos, lbQ, lbVars, fpQ, fpVars, outQ, outVars,
                 total, decided, drained>>

StopFP ==
  /\ mainPc = "stopFP"
  /\ fpRunning' = [fpRunning EXCEPT ![stopping] = FALSE]
  /\ mainPc' = "shutFP"
  /\ UNCHANGED <<givens, pos, stopping, lbQ, lbVars, fpQ, fpPc, fpPkt, flows,
                 processed, outQ, outVars, total, decided, drained>>

ShutFP ==
  /\ mainPc = "shutFP"
  /\ fpQ' = [fpQ EXCEPT ![stopping] = ShutDown(@)]
  /\ mainPc' = "joinFP"
  /\ UNCHANGED <<givens, pos, stopping, lbQ, lbVars, fpVars, outQ, outVars,
                 total, decided, drained>>

JoinFP ==
  /\ mainPc = "joinFP" /\ Joined(fpPc[stopping])
  /\ IF stopping + 1 \in FPs
     THEN mainPc' = "stopFP" /\ stopping' = stopping + 1
     ELSE mainPc' = "stopOut" /\ stopping' = 0
  /\ UNCHANGED <<givens, pos, lbQ, lbVars, fpQ, fpVars, outQ, outVars,
                 total, decided, drained>>

StopOut ==
  /\ mainPc = "stopOut"
  /\ outRunning' = FALSE
  /\ mainPc' = "shutOut"
  /\ UNCHANGED <<givens, pos, stopping, lbQ, lbVars, fpQ, fpVars, outQ, outPc,
                 written, total, decided, drained>>

ShutOut ==
  /\ mainPc = "shutOut"
  /\ outQ' = ShutDown(outQ)
  /\ mainPc' = "joinOut"
  /\ UNCHANGED <<givens, pos, stopping, lbQ, lbVars, fpQ, fpVars, outVars,
                 total, decided, drained>>

(* After the writer is joined, printReport() shows the counters.           *)
JoinOut ==
  /\ mainPc = "joinOut" /\ Joined(outPc)
  /\ mainPc' = "done"
  /\ UNCHANGED <<givens, pos, stopping, lbQ, lbVars, fpQ, fpVars, outQ,
                 outVars, total, decided, drained>>

Main ==
  \/ ReadSkip \/ ReadPacket \/ Dispatch \/ ReadEOF \/ WakeUp
  \/ StopLB \/ ShutLB \/ JoinLB
  \/ StopFP \/ ShutFP \/ JoinFP
  \/ StopOut \/ ShutOut \/ JoinOut
-----------------------------------------------------------------------------
(* A load balancer: while (running_) { pop; push to the worker }.          *)

LBLoop(l) ==
  /\ lbPc[l] = "loop"
  /\ lbPc' = [lbPc EXCEPT ![l] = IF lbRunning[l] THEN "pop" ELSE "exit"]
  /\ UNCHANGED <<givens, mainVars, lbQ, lbRunning, lbPkt, dispatched, fpQ,
                 fpVars, outQ, outVars, total, decided, drained>>

LBPop(l) ==
  /\ lbPc[l] = "pop" /\ ~IsEmpty(lbQ[l])
  /\ lbPkt' = [lbPkt EXCEPT ![l] = Head(lbQ[l].items)]
  /\ lbQ' = [lbQ EXCEPT ![l] = Popped(@)]
  /\ lbPc' = [lbPc EXCEPT ![l] = "push"]
  /\ UNCHANGED <<givens, mainVars, lbRunning, dispatched, fpQ, fpVars, outQ,
                 outVars, total, decided, drained>>

(* pop returns std::nullopt, by the timeout or by the shutdown.            *)
LBPopNothing(l) ==
  /\ lbPc[l] = "pop" /\ IsEmpty(lbQ[l])
  /\ lbPc' = [lbPc EXCEPT ![l] = "loop"]
  /\ UNCHANGED <<givens, mainVars, lbQ, lbRunning, lbPkt, dispatched, fpQ,
                 fpVars, outQ, outVars, total, decided, drained>>

LBPush(l) ==
  LET w == WorkerOf(l, FlowOf(lbPkt[l])) IN
  /\ lbPc[l] = "push" /\ CanPush(fpQ[w])
  /\ fpQ' = [fpQ EXCEPT ![w] = Pushed(@, lbPkt[l])]
  /\ dispatched' = [dispatched EXCEPT ![l] = @ + 1]
  /\ lbPkt' = [lbPkt EXCEPT ![l] = NoPkt]
  /\ lbPc' = [lbPc EXCEPT ![l] = "loop"]
  /\ UNCHANGED <<givens, mainVars, lbQ, lbRunning, fpVars, outQ, outVars,
                 total, decided, drained>>

LB(l) == LBLoop(l) \/ LBPop(l) \/ LBPopNothing(l) \/ LBPush(l)
-----------------------------------------------------------------------------
(* A fast-path worker: while (running_) { pop; inspect; forward or drop }. *)

FPLoop(w) ==
  /\ fpPc[w] = "loop"
  /\ fpPc' = [fpPc EXCEPT ![w] = IF fpRunning[w] THEN "pop" ELSE "exit"]
  /\ UNCHANGED <<givens, mainVars, lbQ, lbVars, fpQ, fpRunning, fpPkt, flows,
                 processed, outQ, outVars, total, decided, drained>>

(* Variant: a packet of a flow without a name is not counted.              *)
RecordNamed(app, sni) ==
  IF sni = "" THEN UNCHANGED <<appCounts, detected>>
  ELSE /\ appCounts' = [appCounts EXCEPT ![app] = @ + 1]
       /\ detected' = [detected EXCEPT ![sni] = app]

(* Stats::recordApp.                                                       *)
RecordApp(app, sni) ==
  /\ appCounts' = [appCounts EXCEPT ![app] = @ + 1]
  /\ detected' = IF sni = "" THEN detected
                 ELSE [detected EXCEPT ![sni] = app]

(* From the pop to the counters: flows_ belongs to the worker, and nobody  *)
(* reads the statistics before the worker is joined.                       *)
FPTake(w) ==
  LET i == Head(fpQ[w].items)
      t == FlowOf(i)
      flow == Inspect(rules, input[i], flows[w][t])
  IN
  /\ fpPc[w] = "pop" /\ ~IsEmpty(fpQ[w])
  /\ fpQ' = [fpQ EXCEPT ![w] = Popped(@)]
  /\ processed' = [processed EXCEPT ![w] = @ + 1]
  /\ flows' = [flows EXCEPT ![w][t] = flow]
  /\ RecordApp(flow.app_type, flow.sni)
  /\ IF flow.blocked
     THEN /\ dropped' = dropped + 1
          /\ verdict' = [verdict EXCEPT ![i] = "dropped"]
          /\ fpPc' = [fpPc EXCEPT ![w] = "loop"]
          /\ UNCHANGED <<forwarded, fpPkt>>
     ELSE /\ forwarded' = forwarded + 1
          /\ verdict' = [verdict EXCEPT ![i] = "forwarded"]
          /\ fpPkt' = [fpPkt EXCEPT ![w] = i]
          /\ fpPc' = [fpPc EXCEPT ![w] = "push"]
          /\ UNCHANGED dropped
  /\ UNCHANGED <<givens, mainVars, lbQ, lbVars, fpRunning, outQ, outVars,
                 total, drained>>

FPPopNothing(w) ==
  /\ fpPc[w] = "pop" /\ IsEmpty(fpQ[w])
  /\ fpPc' = [fpPc EXCEPT ![w] = "loop"]
  /\ UNCHANGED <<givens, mainVars, lbQ, lbVars, fpQ, fpRunning, fpPkt, flows,
                 processed, outQ, outVars, total, decided, drained>>

FPPush(w) ==
  /\ fpPc[w] = "push" /\ CanPush(outQ)
  /\ outQ' = Pushed(outQ, fpPkt[w])
  /\ fpPkt' = [fpPkt EXCEPT ![w] = NoPkt]
  /\ fpPc' = [fpPc EXCEPT ![w] = "loop"]
  /\ UNCHANGED <<givens, mainVars, lbQ, lbVars, fpQ, fpRunning, flows,
                 processed, outVars, total, decided, drained>>

FP(w) == FPLoop(w) \/ FPTake(w) \/ FPPopNothing(w) \/ FPPush(w)
-----------------------------------------------------------------------------
(* The output writer: while (output_running || size() > 0) { pop; write }. *)

(* Variant: the writer stops like the other threads.                       *)
WriterStaysWhileRunning == outRunning

WriterStays == outRunning \/ ~IsEmpty(outQ)

OutLoop ==
  /\ outPc = "loop"
  /\ outPc' = IF WriterStays THEN "pop" ELSE "exit"
  /\ UNCHANGED <<givens, mainVars, lbQ, lbVars, fpQ, fpVars, outQ, outRunning,
                 written, total, decided, drained>>

OutWrite ==
  /\ outPc = "pop" /\ ~IsEmpty(outQ)
  /\ written' = Append(written, Head(outQ.items))
  /\ outQ' = Popped(outQ)
  /\ outPc' = "loop"
  /\ UNCHANGED <<givens, mainVars, lbQ, lbVars, fpQ, fpVars, outRunning,
                 total, decided, drained>>

OutPopNothing ==
  /\ outPc = "pop" /\ IsEmpty(outQ)
  /\ outPc' = "loop"
  /\ UNCHANGED <<givens, mainVars, lbQ, lbVars, fpQ, fpVars, outQ, outRunning,
                 written, total, decided, drained>>

Out == OutLoop \/ OutWrite \/ OutPopNothing
-----------------------------------------------------------------------------
Finished == mainPc = "done" /\ UNCHANGED vars

Next ==
  \/ Main
  \/ \E l \in LBs : LB(l)
  \/ \E w \in FPs : FP(w)
  \/ Out
  \/ Finished

(* Each thread is scheduled again and again; nothing orders one thread     *)
(* against another, the sleeping main thread included.                     *)
Fairness ==
  /\ WF_vars(Main)
  /\ \A l \in LBs : WF_vars(LB(l))
  /\ \A w \in FPs : WF_vars(FP(w))
  /\ WF_vars(Out)

Spec == Init /\ [][Next]_vars /\ Fairness
-----------------------------------------------------------------------------
(* The engine as a packet filter: the flow table is the workers' tables    *)
(* put together, each flow's entry taken from its own worker.              *)
Filter == INSTANCE PacketFilter WITH
            flow <- [t \in Tuples |-> flows[FPOf(t)][t]],
            finished <- (mainPc = "done")

(* Threads, queues and shutdown change nothing but the order between flows *)
(* and how far each flow gets: every behaviour is one of PacketFilter.     *)
ImplementsFilter == Filter!Spec

(* The fate of a packet does not depend on how the threads interleave: it  *)
(* is that of a single-threaded pass over the capture.                     *)
ScheduleIndependent == Filter!ScheduleIndependent

(* No packet is written that comes from a blocked address, or whose flow   *)
(* has shown a first name that is blocked, itself or its application: not  *)
(* even if an earlier packet gave the flow the class of its port.          *)
RulesEnforced == Filter!RulesEnforced
-----------------------------------------------------------------------------
(* Properties.                                                             *)

MainPcs == {"read", "dispatch", "sleep", "stopLB", "shutLB", "joinLB",
            "stopFP", "shutFP", "joinFP", "stopOut", "shutOut", "joinOut",
            "done"}
WorkerPcs == {"loop", "pop", "push", "exit"}

(* Every variable has its type and no queue outgrows its max_size_.        *)
TypeOK ==
  /\ input \in Inputs /\ rules \in RuleSets
  /\ pos \in 0 .. Len(input) /\ mainPc \in MainPcs /\ stopping \in Nat
  /\ lbQ \in [LBs -> Queue(Ids)]
  /\ lbRunning \in [LBs -> BOOLEAN] /\ lbPc \in [LBs -> WorkerPcs]
  /\ lbPkt \in [LBs -> Ids \cup {NoPkt}] /\ dispatched \in [LBs -> Nat]
  /\ fpQ \in [FPs -> Queue(Ids)]
  /\ fpRunning \in [FPs -> BOOLEAN] /\ fpPc \in [FPs -> WorkerPcs]
  /\ fpPkt \in [FPs -> Ids \cup {NoPkt}] /\ processed \in [FPs -> Nat]
  /\ flows \in [FPs -> [Tuples -> FlowEntry]]
  /\ outQ \in Queue(Ids) /\ outRunning \in BOOLEAN
  /\ outPc \in {"loop", "pop", "exit"} /\ written \in Seq(Ids)
  /\ total \in Nat /\ forwarded \in Nat /\ dropped \in Nat
  /\ appCounts \in [AppTypes -> Nat]
  /\ detected \in [Names -> AppTypes \cup {"none"}]
  /\ verdict \in [Ids -> {"none", "forwarded", "dropped"}]
  /\ drained \in BOOLEAN
  /\ \A l \in LBs : Len(lbQ[l].items) <= QueueCap
  /\ \A w \in FPs : Len(fpQ[w].items) <= QueueCap
  /\ Len(outQ.items) <= QueueCap

(* TSQueue::push throws away what it is given once the queue is shut down. *)
(* The order in which process() stops the threads must keep every thread   *)
(* that still has a packet in hand from pushing into such a queue.         *)
NoDiscardingPush ==
  /\ mainPc = "dispatch" => ~lbQ[LBOf(FlowOf(pos))].down
  /\ \A l \in LBs :
       lbPc[l] = "push" => ~fpQ[WorkerOf(l, FlowOf(lbPkt[l]))].down
  /\ \A w \in FPs : fpPc[w] = "push" => ~outQ.down

(* A flow table has no lock and no peer: all packets of one five-tuple     *)
(* must be counted by one and the same worker.                             *)
FlowAffinity ==
  \A w \in FPs, t \in Tuples : flows[w][t].packets > 0 => w = FPOf(t)

(* The packets of worker w in the sequence s are those of the set S, each  *)
(* once and in the order of the capture.                                   *)
Lists(s, w, S) ==
  /\ {i \in ToSet(s) : FPOf(FlowOf(i)) = w} = S
  /\ \A m, n \in DOMAIN s : m < n /\ s[m] \in S /\ s[n] \in S => s[m] < s[n]

(* The route to worker w, the next packet to decide first.  Behind the     *)
(* queue of the worker it is shared with the owner's other workers.        *)
One(i) == IF i = NoPkt THEN <<>> ELSE <<i>>
AtReader == IF mainPc = "dispatch" THEN <<pos>> ELSE <<>>
Upstream(w) ==
  fpQ[w].items \o One(lbPkt[Owner(w)]) \o lbQ[Owner(w)].items \o AtReader

Undecided(w) ==
  {i \in 1 .. pos : /\ input[i].parsed /\ FPOf(FlowOf(i)) = w
                    /\ verdict[i] = "none"}

(* Between the reader and the decision no packet is lost, duplicated,      *)
(* misrouted or overtaken: what waits for a worker is exactly its          *)
(* undecided packets, in the order of the capture.                         *)
UpstreamInOrder ==
  \A w \in FPs :
    /\ Lists(Upstream(w), w, Undecided(w))
    /\ ToSet(fpQ[w].items) \subseteq Undecided(w)

Forwarded == {i \in Ids : verdict[i] = "forwarded"}

(* The way from worker w to the output file, the first one written first.  *)
Downstream(w) == written \o outQ.items \o One(fpPkt[w])

(* Between the decision and the output file no packet is lost, duplicated  *)
(* or overtaken by a packet of the same worker, so of the same flow.       *)
DownstreamInOrder ==
  \A w \in FPs :
    /\ Lists(Downstream(w), w, {i \in Forwarded : FPOf(FlowOf(i)) = w})
    /\ fpPkt[w] # NoPkt => FPOf(FlowOf(fpPkt[w])) = w

(* When process() returns, every packet counted as forwarded is in the     *)
(* output file: the writer may not leave before the last worker's last     *)
(* push, nor with packets still queued.                                    *)
AllForwardedWritten == mainPc = "done" => ToSet(written) = Forwarded

(* Once a packet of a flow was dropped, no later packet of it passes, on   *)
(* whichever worker and whenever it was decided.                           *)
BlockedStaysBlocked ==
  \A i, j \in Ids :
    i < j /\ FlowOf(i) = FlowOf(j) /\ verdict[i] = "dropped"
      => verdict[j] # "forwarded"

(* The counters printed by printReport() agree with each other and with    *)
(* the output, and a name was detected as the one application it maps to.  *)
ReportAgrees ==
  mainPc = "done" =>
    /\ forwarded = Len(written)
    /\ forwarded + dropped = SumFunction(processed)
    /\ forwarded + dropped = SumFunction(appCounts)
    /\ SumFunction(processed) <= SumFunction(dispatched)
    /\ SumFunction(dispatched) <= total
    /\ \A n \in Names : detected[n] \in {"none", SniToAppType(n)}

(* If the sleep was long enough for the queues to drain, every packet read *)
(* was forwarded or dropped.                                               *)
DrainedDecidesAll ==
  mainPc = "done" /\ drained => total = forwarded + dropped

(* What the comment "Wait for queues to drain" promises of the sleep.      *)
DrainLosesNothing == mainPc = "done" => total = forwarded + dropped

(* process() returns: no full queue, pop timeout or join keeps the threads *)
(* waiting for each other for ever.                                        *)
Termination == <>(mainPc = "done")
=============================================================================
