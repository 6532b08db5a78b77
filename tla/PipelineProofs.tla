--------------------------- MODULE PipelineProofs ---------------------------
(***************************************************************************)
(* Theorems about Pipeline, for any number of load balancers and workers,  *)
(* any queue capacity, capture and rule set: where packets can be, in what *)
(* order they are decided and written, what the report counts, and that    *)
(* the engine is a PacketFilter, so keeps what every filter keeps.         *)
(***************************************************************************)
EXTENDS Pipeline, SequenceTheorems, Induction, TLAPS

USE DEF NoPkt

(* Worker numbers l * FpsPerLB + r: each load balancer has FpsPerLB of     *)
(* them, and no two load balancers share one.                              *)
LEMMA WorkerNumbers ==
  ASSUME NEW n \in Nat, NEW f \in Nat, NEW l \in Nat, NEW r \in Nat,
         NEW m \in Nat, NEW s \in Nat, l < n, m < n, r < f, s < f
  PROVE  /\ (l * f) + r \in 0 .. (n * f) - 1
         /\ (l * f) + r = (m * f) + s => l = m
<1>1. ASSUME NEW x \in Nat, NEW y \in Nat, x < y
      PROVE  (x * f) + f <= y * f
  <2>1. x + 1 <= y
    BY <1>1
  <2>2. (x + 1) * f <= y * f
    BY <2>1
  <2>3. (x + 1) * f = (x * f) + f
    OBVIOUS
  <2>. QED
    BY <2>2, <2>3
<1>2. l * f \in Nat /\ m * f \in Nat /\ n * f \in Nat
  OBVIOUS
<1>3. (l * f) + r \in 0 .. (n * f) - 1
  BY <1>1, <1>2
<1>4. (l * f) + r = (m * f) + s => l = m
  BY <1>1, <1>2
<1>. QED
  BY <1>3, <1>4

(* Both hash steps stay inside the engine: the load balancer picked exists *)
(* and so does the worker it picks.                                        *)
LEMMA Routed ==
  ASSUME NEW t \in Tuples
  PROVE  /\ LBOf(t) \in LBs
         /\ \A l \in LBs : WorkerOf(l, t) \in FPs
         /\ FPOf(t) \in FPs
<1>1. NumLBs \in Nat \ {0} /\ FpsPerLB \in Nat \ {0} /\ HashOf(t) \in Nat
  BY PipelineAssumption
<1>2. LBOf(t) \in LBs
  BY <1>1 DEF LBOf, LBs
<1>3. HashOf(t) % FpsPerLB \in 0 .. FpsPerLB - 1
  BY <1>1
<1>4. \A l \in LBs : WorkerOf(l, t) \in FPs
  BY <1>1, <1>3, WorkerNumbers DEF WorkerOf, LBs, FPs
<1>. QED
  BY <1>2, <1>4 DEF FPOf

(* A worker is fed by one load balancer only.                              *)
LEMMA OneFeeder ==
  ASSUME NEW t \in Tuples, NEW u \in Tuples, FPOf(t) = FPOf(u)
  PROVE  LBOf(t) = LBOf(u)
<1>1. /\ NumLBs \in Nat \ {0} /\ FpsPerLB \in Nat \ {0}
      /\ HashOf(t) \in Nat /\ HashOf(u) \in Nat
  BY PipelineAssumption
<1>2. LBOf(t) \in 0 .. NumLBs - 1 /\ LBOf(u) \in 0 .. NumLBs - 1
  BY <1>1 DEF LBOf
<1>3. /\ HashOf(t) % FpsPerLB \in 0 .. FpsPerLB - 1
      /\ HashOf(u) % FpsPerLB \in 0 .. FpsPerLB - 1
  BY <1>1
<1>. QED
  BY <1>1, <1>2, <1>3, WorkerNumbers DEF FPOf, WorkerOf
-----------------------------------------------------------------------------
(* The pure operators keep the types of their arguments.                   *)
LEMMA ClassifiedType ==
  ASSUME NEW pkt \in Packet, NEW flow \in FlowEntry
  PROVE  Classified(pkt, Counted(flow)) \in FlowEntry
<1>. DEFINE counted == Counted(flow)
<1>1. counted \in FlowEntry
  BY DEF Counted, FlowEntry
<1>2. CASE counted.classified
  BY <1>1, <1>2 DEF Classified
<1>3. CASE ~counted.classified /\ ExtractedName(pkt) # NoName
  <2>1. pkt.name \in Names /\ SniToAppType(pkt.name) \in AppTypes
    BY <1>3, InspectionAssumption DEF ExtractedName, Packet
  <2>. QED
    BY <1>1, <1>3, <2>1 DEF Classified, ClassifyFlow, FlowEntry
<1>4. CASE ~counted.classified /\ ExtractedName(pkt) = NoName
  <2>1. PortFallback(pkt.tuple, counted.app_type) \in AppTypes
    BY <1>1, InspectionAssumption DEF PortFallback, FlowEntry
  <2>2. "DNS" \in AppTypes
    BY InspectionAssumption
  <2>. QED
    BY <1>1, <1>4, <2>1, <2>2 DEF Classified, ClassifyFlow, FlowEntry
<1>. QED
  BY <1>2, <1>3, <1>4

LEMMA InspectType ==
  ASSUME NEW rs \in RuleSet, NEW pkt \in Packet, NEW flow \in FlowEntry
  PROVE  Inspect(rs, pkt, flow) \in FlowEntry
BY ClassifiedType DEF Inspect, Judged, FlowEntry

LEMMA QueueTypes ==
  ASSUME NEW S, NEW q \in Queue(S), Len(q.items) <= QueueCap
  PROVE  /\ ShutDown(q) \in Queue(S) /\ Len(ShutDown(q).items) <= QueueCap
         /\ \A x \in S : CanPush(q) =>
              Pushed(q, x) \in Queue(S) /\ Len(Pushed(q, x).items) <= QueueCap
         /\ ~IsEmpty(q) =>
              /\ Popped(q) \in Queue(S) /\ Len(Popped(q).items) <= QueueCap
              /\ Head(q.items) \in S
<1>1. q.items \in Seq(S) /\ q.down \in BOOLEAN
  BY DEF Queue
<1>2. ShutDown(q) \in Queue(S) /\ Len(ShutDown(q).items) <= QueueCap
  BY DEF Queue, ShutDown
<1>3. ASSUME NEW x \in S, CanPush(q)
      PROVE  Pushed(q, x) \in Queue(S) /\ Len(Pushed(q, x).items) <= QueueCap
  <2>1. CASE q.down
    BY <2>1 DEF Pushed
  <2>2. CASE ~q.down
    <3>1. Append(q.items, x) \in Seq(S)
             /\ Len(Append(q.items, x)) = Len(q.items) + 1
      BY <1>1
    <3>2. Len(q.items) + 1 <= QueueCap
      BY <1>1, <1>3, <2>2, QueueCapAssumption DEF CanPush
    <3>3. Pushed(q, x) = [q EXCEPT !.items = Append(q.items, x)]
      BY <2>2 DEF Pushed
    <3>. QED
      BY <3>1, <3>2, <3>3 DEF Queue
  <2>. QED
    BY <2>1, <2>2
<1>4. ASSUME ~IsEmpty(q)
      PROVE  /\ Popped(q) \in Queue(S) /\ Len(Popped(q).items) <= QueueCap
             /\ Head(q.items) \in S
  <2>1. /\ Tail(q.items) \in Seq(S) /\ Head(q.items) \in S
        /\ Len(Tail(q.items)) = Len(q.items) - 1
    BY <1>1, <1>4 DEF IsEmpty
  <2>2. Len(q.items) \in Nat
    BY <1>1
  <2>. QED
    BY <2>1, <2>2, QueueCapAssumption DEF Queue, Popped
<1>. QED
  BY <1>2, <1>3, <1>4
-----------------------------------------------------------------------------
(* Who holds a packet: the reader while it dispatches, a load balancer or  *)
(* a worker while it pushes, and nobody else.                              *)
Held ==
  /\ mainPc = "dispatch" => pos \in Ids
  /\ \A l \in LBs : lbPc[l] = "push" <=> lbPkt[l] # NoPkt
  /\ \A w \in FPs : fpPc[w] = "push" <=> fpPkt[w] # NoPkt

LEMMA InputType ==
  ASSUME TypeOK
  PROVE  /\ input \in Seq(Packet) /\ Len(input) \in Nat
         /\ \A i \in Ids : input[i] \in Packet /\ FlowOf(i) \in Tuples
         /\ rules \in RuleSet
<1>1. input \in Seq(Packet) /\ rules \in RuleSet
  BY PipelineAssumption DEF TypeOK
<1>2. \A i \in 1 .. Len(input) : input[i] \in Packet
  BY <1>1
<1>. QED
  BY <1>1, <1>2 DEF Ids, Packet, FlowOf

LEMMA TypeInit == Init => TypeOK /\ Held
<1>. SUFFICES ASSUME Init PROVE TypeOK /\ Held
  OBVIOUS
<1>1. NewQueue \in Queue(Ids) /\ Len(NewQueue.items) = 0
  BY DEF NewQueue, Queue
<1>2. NewFlow \in FlowEntry
  BY InspectionAssumption DEF NewFlow, FlowEntry
<1>3. Len(input) \in Nat
  BY PipelineAssumption DEF Init
<1>4. TypeOK
  <2>. USE DEF Init
  <2>1. /\ input \in Inputs /\ rules \in RuleSets
        /\ pos \in 0 .. Len(input) /\ mainPc \in MainPcs /\ stopping \in Nat
    BY <1>3 DEF MainPcs
  <2>2. /\ lbQ \in [LBs -> Queue(Ids)]
        /\ lbRunning \in [LBs -> BOOLEAN] /\ lbPc \in [LBs -> WorkerPcs]
        /\ lbPkt \in [LBs -> Ids \cup {NoPkt}] /\ dispatched \in [LBs -> Nat]
        /\ \A l \in LBs : Len(lbQ[l].items) <= QueueCap
    BY <1>1, QueueCapAssumption DEF WorkerPcs
  <2>3. /\ fpQ \in [FPs -> Queue(Ids)]
        /\ fpRunning \in [FPs -> BOOLEAN] /\ fpPc \in [FPs -> WorkerPcs]
        /\ fpPkt \in [FPs -> Ids \cup {NoPkt}] /\ processed \in [FPs -> Nat]
        /\ \A w \in FPs : Len(fpQ[w].items) <= QueueCap
    BY <1>1, QueueCapAssumption DEF WorkerPcs
  <2>4. flows \in [FPs -> [Tuples -> FlowEntry]]
    BY <1>2
  <2>5. /\ outQ \in Queue(Ids) /\ outRunning \in BOOLEAN
        /\ outPc \in {"loop", "pop", "exit"} /\ written \in Seq(Ids)
        /\ Len(outQ.items) <= QueueCap
    BY <1>1, QueueCapAssumption
  <2>6. /\ total \in Nat /\ forwarded \in Nat /\ dropped \in Nat
        /\ appCounts \in [AppTypes -> Nat]
        /\ detected \in [Names -> AppTypes \cup {"none"}]
        /\ verdict \in [Ids -> {"none", "forwarded", "dropped"}]
        /\ drained \in BOOLEAN
    OBVIOUS
  <2>. QED
    BY <2>1, <2>2, <2>3, <2>4, <2>5, <2>6 DEF TypeOK
<1>5. Held
  BY DEF Init, Held
<1>. QED
  BY <1>4, <1>5

LEMMA TypeStep == TypeOK /\ Held /\ [Next]_vars => TypeOK' /\ Held'
<1>. SUFFICES ASSUME TypeOK, Held, [Next]_vars PROVE TypeOK' /\ Held'
  OBVIOUS
<1>. USE DEF TypeOK, Held, MainPcs, WorkerPcs,
             givens, mainVars, lbVars, fpVars, outVars, decided
<1>0. /\ Len(input) \in Nat /\ input' = input => Ids' = Ids
      /\ \A i \in Ids : input[i] \in Packet /\ FlowOf(i) \in Tuples
  BY InputType DEF Ids
<1>1. CASE ReadSkip
  BY <1>0, <1>1 DEF ReadSkip
<1>2. CASE ReadPacket
  BY <1>0, <1>2 DEF ReadPacket, Ids
<1>3. CASE Dispatch
  <2>. DEFINE l == LBOf(FlowOf(pos))
  <2>1. pos \in Ids /\ l \in LBs
    BY <1>0, <1>3, Routed DEF Dispatch
  <2>2. Pushed(lbQ[l], pos) \in Queue(Ids)
          /\ Len(Pushed(lbQ[l], pos).items) <= QueueCap
    BY <1>3, <2>1, QueueTypes DEF Dispatch
  <2>3. lbQ' = [lbQ EXCEPT ![l] = Pushed(lbQ[l], pos)]
    BY <1>3 DEF Dispatch
  <2>. HIDE DEF l
  <2>4. lbQ' \in [LBs -> Queue(Ids)]
          /\ \A m \in LBs : Len(lbQ'[m].items) <= QueueCap
    BY <2>1, <2>2, <2>3
  <2>. QED
    BY <1>0, <1>3, <2>4 DEF Dispatch
<1>4. CASE ReadEOF
  BY <1>0, <1>4 DEF ReadEOF
<1>5. CASE WakeUp
  BY <1>0, <1>5 DEF WakeUp, Quiescent
<1>6. CASE StopLB
  <2>1. TypeOK'
    <3>1. lbRunning' \in [LBs -> BOOLEAN]
      BY <1>6 DEF StopLB
    <3>. QED
      BY <1>0, <1>6, <3>1 DEF StopLB
  <2>2. Held'
    BY <1>0, <1>6 DEF StopLB
  <2>. QED
    BY <2>1, <2>2
<1>7. CASE ShutLB
  <2>1. lbQ' \in [LBs -> Queue(Ids)]
          /\ \A x \in LBs : Len(lbQ'[x].items) <= QueueCap
    BY <1>7, QueueTypes DEF ShutLB
  <2>. QED
    BY <1>0, <1>7, <2>1 DEF ShutLB
<1>8. CASE JoinLB
  BY <1>0, <1>8 DEF JoinLB, LBs
<1>9. CASE StopFP
  <2>1. TypeOK'
    <3>1. fpRunning' \in [FPs -> BOOLEAN]
      BY <1>9 DEF StopFP
    <3>. QED
      BY <1>0, <1>9, <3>1 DEF StopFP
  <2>2. Held'
    BY <1>0, <1>9 DEF StopFP
  <2>. QED
    BY <2>1, <2>2
<1>10. CASE ShutFP
  <2>1. fpQ' \in [FPs -> Queue(Ids)]
          /\ \A x \in FPs : Len(fpQ'[x].items) <= QueueCap
    BY <1>10, QueueTypes DEF ShutFP
  <2>. QED
    BY <1>0, <1>10, <2>1 DEF ShutFP
<1>11. CASE JoinFP
  BY <1>0, <1>11 DEF JoinFP, FPs
<1>12. CASE StopOut
  <2>1. TypeOK'
    <3>1. outRunning' \in BOOLEAN
      BY <1>12 DEF StopOut
    <3>. QED
      BY <1>0, <1>12, <3>1 DEF StopOut
  <2>2. Held'
    BY <1>0, <1>12 DEF StopOut
  <2>. QED
    BY <2>1, <2>2
<1>13. CASE ShutOut
  <2>1. outQ' \in Queue(Ids) /\ Len(outQ'.items) <= QueueCap
    BY <1>13, QueueTypes DEF ShutOut
  <2>. QED
    BY <1>0, <1>13, <2>1 DEF ShutOut
<1>14. CASE JoinOut
  BY <1>0, <1>14 DEF JoinOut
<1>15. ASSUME NEW l \in LBs, LBLoop(l) PROVE TypeOK' /\ Held'
  BY <1>0, <1>15 DEF LBLoop
<1>16. ASSUME NEW l \in LBs, LBPop(l) PROVE TypeOK' /\ Held'
  <2>1. /\ Popped(lbQ[l]) \in Queue(Ids) /\ Len(Popped(lbQ[l]).items) <= QueueCap
        /\ Head(lbQ[l].items) \in Ids
    BY <1>16, QueueTypes DEF LBPop
  <2>2. /\ lbQ' \in [LBs -> Queue(Ids)]
        /\ \A m \in LBs : Len(lbQ'[m].items) <= QueueCap
    BY <1>16, <2>1 DEF LBPop
  <2>3. Head(lbQ[l].items) # NoPkt
    BY <2>1 DEF Ids
  <2>. QED
    BY <1>0, <1>16, <2>1, <2>2, <2>3 DEF LBPop
<1>17. ASSUME NEW l \in LBs, LBPopNothing(l) PROVE TypeOK' /\ Held'
  BY <1>0, <1>17 DEF LBPopNothing
<1>18. ASSUME NEW l \in LBs, LBPush(l) PROVE TypeOK' /\ Held'
  <2>. DEFINE w == WorkerOf(l, FlowOf(lbPkt[l]))
  <2>1. lbPkt[l] \in Ids
    BY <1>18 DEF LBPush
  <2>2. w \in FPs =>
          /\ Pushed(fpQ[w], lbPkt[l]) \in Queue(Ids)
          /\ Len(Pushed(fpQ[w], lbPkt[l]).items) <= QueueCap
    BY <1>18, <2>1, QueueTypes DEF LBPush
  <2>3. fpQ' = [fpQ EXCEPT ![w] = Pushed(fpQ[w], lbPkt[l])]
    BY <1>18 DEF LBPush
  <2>. HIDE DEF w
  <2>4. fpQ' \in [FPs -> Queue(Ids)]
          /\ \A x \in FPs : Len(fpQ'[x].items) <= QueueCap
    BY <2>2, <2>3
  <2>. QED
    BY <1>0, <1>18, <2>4 DEF LBPush
<1>19. ASSUME NEW w \in FPs, FPLoop(w) PROVE TypeOK' /\ Held'
  BY <1>0, <1>19 DEF FPLoop
<1>20. ASSUME NEW w \in FPs, FPTake(w) PROVE TypeOK' /\ Held'
  <2>. DEFINE i == Head(fpQ[w].items)
              t == FlowOf(i)
              flow == Inspect(rules, input[i], flows[w][t])
  <2>1. /\ Popped(fpQ[w]) \in Queue(Ids) /\ Len(Popped(fpQ[w]).items) <= QueueCap
        /\ i \in Ids
    BY <1>20, QueueTypes DEF FPTake
  <2>2. /\ fpQ' \in [FPs -> Queue(Ids)]
        /\ \A x \in FPs : Len(fpQ'[x].items) <= QueueCap
    BY <1>20, <2>1 DEF FPTake
  <2>3. i # NoPkt
    BY <2>1 DEF Ids
  <2>4. flow \in FlowEntry
    BY <1>0, <2>1, InputType, InspectType
  <2>5. flows' = [flows EXCEPT ![w][t] = flow]
    BY <1>20 DEF FPTake
  <2>6. RecordApp(flow.app_type, flow.sni)
    BY <1>20 DEF FPTake
  <2>7. /\ processed' = [processed EXCEPT ![w] = @ + 1]
        /\ UNCHANGED <<givens, mainVars, lbQ, lbVars, fpRunning, outQ, outVars,
                       total, drained>>
    BY <1>20 DEF FPTake
  <2>8. \/ /\ dropped' = dropped + 1 /\ UNCHANGED <<forwarded, fpPkt>>
           /\ verdict' = [verdict EXCEPT ![i] = "dropped"]
           /\ fpPc' = [fpPc EXCEPT ![w] = "loop"]
        \/ /\ forwarded' = forwarded + 1 /\ UNCHANGED dropped
           /\ verdict' = [verdict EXCEPT ![i] = "forwarded"]
           /\ fpPkt' = [fpPkt EXCEPT ![w] = i]
           /\ fpPc' = [fpPc EXCEPT ![w] = "push"]
    BY <1>20 DEF FPTake
  <2>9. fpPc[w] = "pop"
    BY <1>20 DEF FPTake
  <2>. HIDE DEF i, t, flow
  <2>10. flows' \in [FPs -> [Tuples -> FlowEntry]]
    BY <2>4, <2>5
  <2>11. /\ appCounts \in [AppTypes -> Nat] /\ processed \in [FPs -> Nat]
         /\ detected \in [Names -> AppTypes \cup {"none"}]
         /\ fpPkt \in [FPs -> Ids \cup {NoPkt}] /\ fpPc \in [FPs -> WorkerPcs]
         /\ verdict \in [Ids -> {"none", "forwarded", "dropped"}]
         /\ forwarded \in Nat /\ dropped \in Nat
         /\ \A x \in FPs : fpPc[x] = "push" <=> fpPkt[x] # NoPkt
    OBVIOUS
  <2>12. /\ appCounts' \in [AppTypes -> Nat]
         /\ detected' \in [Names -> AppTypes \cup {"none"}]
    <3>. HIDE DEF TypeOK, Held
    <3>1. flow.app_type \in AppTypes /\ flow.sni \in Names
      BY <2>4 DEF FlowEntry
    <3>2. /\ appCounts' = [appCounts EXCEPT ![flow.app_type] = @ + 1]
          /\ \/ detected' = detected
             \/ detected' = [detected EXCEPT ![flow.sni] = flow.app_type]
      BY <2>6 DEF RecordApp
    <3>. QED
      BY <2>11, <3>1, <3>2
  <2>13. /\ forwarded' \in Nat /\ dropped' \in Nat
         /\ verdict' \in [Ids -> {"none", "forwarded", "dropped"}]
         /\ processed' \in [FPs -> Nat]
    <3>. HIDE DEF TypeOK, Held
    <3>1. forwarded' \in Nat /\ dropped' \in Nat
      BY <2>8, <2>11
    <3>2. verdict' \in [Ids -> {"none", "forwarded", "dropped"}]
      BY <2>1, <2>8, <2>11
    <3>3. processed' \in [FPs -> Nat]
      BY <2>7, <2>11
    <3>. QED
      BY <3>1, <3>2, <3>3
  <2>14. /\ fpPkt' \in [FPs -> Ids \cup {NoPkt}]
         /\ fpPc' \in [FPs -> WorkerPcs]
         /\ \A x \in FPs : fpPc'[x] = "push" <=> fpPkt'[x] # NoPkt
    <3>. HIDE DEF TypeOK, Held
    <3>. QED
      BY <2>1, <2>3, <2>8, <2>9, <2>11
  <2>. QED
    BY <1>0, <2>2, <2>7, <2>10, <2>12, <2>13, <2>14
<1>21. ASSUME NEW w \in FPs, FPPopNothing(w) PROVE TypeOK' /\ Held'
  BY <1>0, <1>21 DEF FPPopNothing
<1>22. ASSUME NEW w \in FPs, FPPush(w) PROVE TypeOK' /\ Held'
  <2>1. fpPkt[w] \in Ids
    BY <1>22 DEF FPPush
  <2>2. outQ' \in Queue(Ids) /\ Len(outQ'.items) <= QueueCap
    BY <1>22, <2>1, QueueTypes DEF FPPush
  <2>. QED
    BY <1>0, <1>22, <2>2 DEF FPPush
<1>23. CASE OutLoop
  BY <1>0, <1>23 DEF OutLoop
<1>24. CASE OutWrite
  <2>1. /\ outQ' \in Queue(Ids) /\ Len(outQ'.items) <= QueueCap
        /\ Head(outQ.items) \in Ids
    BY <1>24, QueueTypes DEF OutWrite
  <2>2. written' \in Seq(Ids)
    BY <1>24, <2>1 DEF OutWrite
  <2>. QED
    BY <1>0, <1>24, <2>1, <2>2 DEF OutWrite
<1>25. CASE OutPopNothing
  BY <1>0, <1>25 DEF OutPopNothing
<1>26. CASE UNCHANGED vars
  BY <1>0, <1>26 DEF vars
<1>. QED
  BY <1>1, <1>2, <1>3, <1>4, <1>5, <1>6, <1>7, <1>8, <1>9, <1>10, <1>11,
     <1>12, <1>13, <1>14, <1>15, <1>16, <1>17, <1>18, <1>19, <1>20, <1>21,
     <1>22, <1>23, <1>24, <1>25, <1>26
  DEF Next, Main, LB, FP, Out, Finished

(* Every variable of the engine keeps its type, and no queue its bound.    *)
THEOREM TypeCorrect == Spec => []TypeOK
<1>1. TypeOK /\ Held /\ [Next]_vars => TypeOK' /\ Held'
  BY TypeStep
<1>. QED
  BY <1>1, TypeInit, PTL DEF Spec
-----------------------------------------------------------------------------
(* The order in which process() takes the engine down.  A stage is shut    *)
(* only when the one before it has left its loop for good, and the writer  *)
(* leaves only an empty queue that nobody can fill again.                  *)
LBPhase == {"stopLB", "shutLB", "joinLB"}
FPPhase == {"stopFP", "shutFP", "joinFP"}
OutPhase == {"stopOut", "shutOut", "joinOut", "done"}

StopOrder ==
  /\ mainPc \in LBPhase =>
       stopping \in LBs /\ \A l \in LBs : l < stopping => lbPc[l] = "exit"
  /\ mainPc \in FPPhase =>
       stopping \in FPs /\ \A w \in FPs : w < stopping => fpPc[w] = "exit"
  /\ mainPc \in FPPhase \cup OutPhase => \A l \in LBs : lbPc[l] = "exit"
  /\ mainPc \in OutPhase => \A w \in FPs : fpPc[w] = "exit"
  /\ \A l \in LBs : lbQ[l].down => mainPc \in LBPhase \cup FPPhase \cup OutPhase
  /\ \A w \in FPs : fpQ[w].down => mainPc \in FPPhase \cup OutPhase
  /\ outQ.down => mainPc \in OutPhase
  /\ ~outRunning => mainPc \in OutPhase
  /\ outPc = "exit" => ~outRunning /\ IsEmpty(outQ)
  /\ mainPc = "done" => outPc = "exit"

(* Threads are numbered from 0 without a gap, so stopping them in turn     *)
(* stops them all.                                                         *)
LEMMA ThreadNumbers ==
  /\ 0 \in LBs /\ 0 \in FPs
  /\ \A l \in LBs : l + 1 \notin LBs => \A m \in LBs : m <= l
  /\ \A w \in FPs : w + 1 \notin FPs => \A x \in FPs : x <= w
<1>1. NumLBs \in Nat \ {0} /\ FpsPerLB \in Nat \ {0}
  BY PipelineAssumption
<1>2. (0 * FpsPerLB) + 0 \in 0 .. (NumLBs * FpsPerLB) - 1
  BY <1>1, WorkerNumbers
<1>3. NumLBs * FpsPerLB \in Nat
  BY <1>1
<1>. QED
  BY <1>1, <1>2, <1>3 DEF LBs, FPs

LEMMA StopOrderInit == Init => StopOrder
  BY DEF Init, StopOrder, LBPhase, FPPhase, OutPhase, NewQueue

LEMMA StopOrderStep ==
  TypeOK /\ Held /\ StopOrder /\ [Next]_vars => StopOrder'
<1>. SUFFICES ASSUME TypeOK, Held, StopOrder, [Next]_vars PROVE StopOrder'
  OBVIOUS
<1>. USE DEF StopOrder, LBPhase, FPPhase, OutPhase,
             givens, mainVars, lbVars, fpVars, outVars, decided
<1>0. /\ lbQ \in [LBs -> Queue(Ids)] /\ fpQ \in [FPs -> Queue(Ids)]
      /\ lbPc \in [LBs -> WorkerPcs] /\ fpPc \in [FPs -> WorkerPcs]
      /\ outQ \in Queue(Ids) /\ mainPc \in MainPcs
  BY DEF TypeOK
<1>1. CASE ReadSkip
  BY <1>0, <1>1 DEF ReadSkip
<1>2. CASE ReadPacket
  BY <1>0, <1>2 DEF ReadPacket
<1>3. CASE Dispatch
  BY <1>0, <1>3 DEF Dispatch, Pushed
<1>4. CASE ReadEOF
  BY <1>0, <1>4 DEF ReadEOF
<1>5. CASE WakeUp
  <2>1. \A l \in LBs : ~(l < 0)
    BY DEF LBs
  <2>. QED
    BY <1>0, <1>5, <2>1, ThreadNumbers DEF WakeUp
<1>6. CASE StopLB
  BY <1>0, <1>6 DEF StopLB
<1>7. CASE ShutLB
  BY <1>0, <1>7 DEF ShutLB, ShutDown
<1>8. CASE JoinLB
  <2>1. \A l \in LBs : l <= stopping => lbPc[l] = "exit"
    BY <1>8 DEF JoinLB, Joined, LBs
  <2>2. CASE stopping + 1 \in LBs
    <3>1. \A l \in LBs : l < stopping + 1 => l <= stopping
      BY <1>8 DEF JoinLB, LBs
    <3>. QED
      BY <1>0, <1>8, <2>1, <2>2, <3>1 DEF JoinLB
  <2>3. CASE stopping + 1 \notin LBs
    <3>1. \A l \in LBs : l <= stopping
      BY <1>8, <2>3, ThreadNumbers DEF JoinLB
    <3>2. \A w \in FPs : ~(w < 0)
      BY DEF FPs
    <3>. QED
      BY <1>0, <1>8, <2>1, <2>3, <3>1, <3>2, ThreadNumbers DEF JoinLB
  <2>. QED
    BY <2>2, <2>3
<1>9. CASE StopFP
  BY <1>0, <1>9 DEF StopFP
<1>10. CASE ShutFP
  BY <1>0, <1>10 DEF ShutFP, ShutDown
<1>11. CASE JoinFP
  <2>1. \A w \in FPs : w <= stopping => fpPc[w] = "exit"
    BY <1>11 DEF JoinFP, Joined, FPs
  <2>2. CASE stopping + 1 \in FPs
    <3>1. \A w \in FPs : w < stopping + 1 => w <= stopping
      BY <1>11 DEF JoinFP, FPs
    <3>. QED
      BY <1>0, <1>11, <2>1, <2>2, <3>1 DEF JoinFP
  <2>3. CASE stopping + 1 \notin FPs
    <3>1. \A w \in FPs : w <= stopping
      BY <1>11, <2>3, ThreadNumbers DEF JoinFP
    <3>. QED
      BY <1>0, <1>11, <2>1, <2>3, <3>1 DEF JoinFP
  <2>. QED
    BY <2>2, <2>3
<1>12. CASE StopOut
  BY <1>0, <1>12 DEF StopOut
<1>13. CASE ShutOut
  BY <1>0, <1>13 DEF ShutOut, ShutDown, IsEmpty
<1>14. CASE JoinOut
  BY <1>0, <1>14 DEF JoinOut, Joined
<1>15. ASSUME NEW l \in LBs, LBLoop(l) PROVE StopOrder'
  BY <1>0, <1>15 DEF LBLoop
<1>16. ASSUME NEW l \in LBs, LBPop(l) PROVE StopOrder'
  BY <1>0, <1>16 DEF LBPop, Popped
<1>17. ASSUME NEW l \in LBs, LBPopNothing(l) PROVE StopOrder'
  BY <1>0, <1>17 DEF LBPopNothing
<1>18. ASSUME NEW l \in LBs, LBPush(l) PROVE StopOrder'
  BY <1>0, <1>18 DEF LBPush, Pushed
<1>19. ASSUME NEW w \in FPs, FPLoop(w) PROVE StopOrder'
  BY <1>0, <1>19 DEF FPLoop
<1>20. ASSUME NEW w \in FPs, FPTake(w) PROVE StopOrder'
  BY <1>0, <1>20 DEF FPTake, Popped
<1>21. ASSUME NEW w \in FPs, FPPopNothing(w) PROVE StopOrder'
  BY <1>0, <1>21 DEF FPPopNothing
<1>22. ASSUME NEW w \in FPs, FPPush(w) PROVE StopOrder'
  BY <1>0, <1>22 DEF FPPush, Pushed
<1>23. CASE OutLoop
  BY <1>0, <1>23 DEF OutLoop, WriterStays
<1>24. CASE OutWrite
  BY <1>0, <1>24 DEF OutWrite, Popped
<1>25. CASE OutPopNothing
  BY <1>0, <1>25 DEF OutPopNothing
<1>26. CASE UNCHANGED vars
  BY <1>0, <1>26 DEF vars
<1>. QED
  BY <1>1, <1>2, <1>3, <1>4, <1>5, <1>6, <1>7, <1>8, <1>9, <1>10, <1>11, <1>12, <1>13, <1>14, <1>15, <1>16, <1>17, <1>18, <1>19, <1>20, <1>21, <1>22, <1>23, <1>24, <1>25, <1>26
  DEF Next, Main, LB, FP, Out, Finished

(* A thread that still has a packet in hand never pushes it into a queue   *)
(* that is shut down, where it would silently be thrown away.              *)
THEOREM NoPacketDiscarded == Spec => []NoDiscardingPush
<1>1. TypeOK /\ Held /\ StopOrder => NoDiscardingPush
  <2>. SUFFICES ASSUME TypeOK, Held, StopOrder PROVE NoDiscardingPush
    OBVIOUS
  <2>1. mainPc = "dispatch" => ~lbQ[LBOf(FlowOf(pos))].down
    BY InputType, Routed DEF Held, StopOrder, LBPhase, FPPhase, OutPhase
  <2>2. ASSUME NEW l \in LBs, lbPc[l] = "push"
        PROVE  ~fpQ[WorkerOf(l, FlowOf(lbPkt[l]))].down
    <3>1. FlowOf(lbPkt[l]) \in Tuples
      BY <2>2, InputType DEF TypeOK, Held
    <3>. QED
      BY <2>2, <3>1, Routed DEF StopOrder
  <2>3. \A w \in FPs : fpPc[w] = "push" => ~outQ.down
    BY DEF StopOrder
  <2>. QED
    BY <2>1, <2>2, <2>3 DEF NoDiscardingPush
<1>. QED
  BY <1>1, TypeInit, TypeStep, StopOrderInit, StopOrderStep, PTL DEF Spec
-----------------------------------------------------------------------------
(* Sequences of packet numbers in capture order.                           *)
Ascending(s) == \A m, n \in 1 .. Len(s) : m < n => s[m] < s[n]

LEMMA AppendElements ==
  ASSUME NEW S, NEW s \in Seq(S), NEW x \in S
  PROVE  ToSet(Append(s, x)) = ToSet(s) \cup {x}
<1>1. /\ Len(Append(s, x)) = Len(s) + 1 /\ Len(s) \in Nat
      /\ Append(s, x)[Len(s) + 1] = x
      /\ \A n \in 1 .. Len(s) : Append(s, x)[n] = s[n]
  OBVIOUS
<1>2. DOMAIN Append(s, x) = 1 .. Len(s) + 1 /\ DOMAIN s = 1 .. Len(s)
  OBVIOUS
<1>. QED
  BY <1>1, <1>2 DEF ToSet

LEMMA TailElements ==
  ASSUME NEW S, NEW s \in Seq(S), s # <<>>
  PROVE  ToSet(s) = {Head(s)} \cup ToSet(Tail(s))
<1>1. /\ Len(s) \in Nat \ {0} /\ Head(s) = s[1] /\ Len(Tail(s)) = Len(s) - 1
      /\ \A n \in 1 .. Len(s) - 1 : Tail(s)[n] = s[n + 1]
  OBVIOUS
<1>2. DOMAIN Tail(s) = 1 .. Len(s) - 1 /\ DOMAIN s = 1 .. Len(s)
  OBVIOUS
<1>3. \A n \in 2 .. Len(s) : n - 1 \in 1 .. Len(s) - 1 /\ s[n] = Tail(s)[n - 1]
  BY <1>1
<1>4. ToSet(s) \subseteq {Head(s)} \cup ToSet(Tail(s))
  <2>1. ASSUME NEW n \in 1 .. Len(s)
        PROVE  s[n] \in {Head(s)} \cup ToSet(Tail(s))
    <3>1. CASE n = 1
      BY <1>1, <3>1
    <3>2. CASE n # 1
      <4>1. n \in 2 .. Len(s)
        BY <1>1, <3>2
      <4>2. n - 1 \in DOMAIN Tail(s) /\ s[n] = Tail(s)[n - 1]
        BY <1>2, <1>3, <4>1
      <4>. QED
        BY <4>2 DEF ToSet
    <3>. QED
      BY <3>1, <3>2
  <2>. QED
    BY <1>2, <2>1 DEF ToSet
<1>5. {Head(s)} \cup ToSet(Tail(s)) \subseteq ToSet(s)
  <2>1. \A n \in 1 .. Len(s) - 1 : n + 1 \in 1 .. Len(s)
    BY <1>1
  <2>2. Head(s) \in ToSet(s)
    BY <1>1, <1>2 DEF ToSet
  <2>3. ASSUME NEW n \in 1 .. Len(s) - 1 PROVE Tail(s)[n] \in ToSet(s)
    <3>1. n + 1 \in DOMAIN s /\ Tail(s)[n] = s[n + 1]
      BY <1>1, <1>2, <2>1
    <3>. QED
      BY <3>1 DEF ToSet
  <2>4. \A y \in ToSet(Tail(s)) : \E n \in 1 .. Len(s) - 1 : y = Tail(s)[n]
    BY <1>2 DEF ToSet
  <2>. QED
    BY <2>2, <2>3, <2>4
<1>. QED
  BY <1>4, <1>5

LEMMA AscendingAppend ==
  ASSUME NEW s \in Seq(Nat), NEW x \in Nat, Ascending(s),
         \A y \in ToSet(s) : y < x
  PROVE  Ascending(Append(s, x))
<1>1. /\ Len(Append(s, x)) = Len(s) + 1 /\ Len(s) \in Nat
      /\ Append(s, x)[Len(s) + 1] = x
      /\ \A n \in 1 .. Len(s) : Append(s, x)[n] = s[n]
  OBVIOUS
<1>2. \A n \in 1 .. Len(s) : s[n] < x
  BY DEF ToSet
<1>. QED
  BY <1>1, <1>2 DEF Ascending

LEMMA AscendingTail ==
  ASSUME NEW s \in Seq(Nat), s # <<>>, Ascending(s)
  PROVE  Ascending(Tail(s)) /\ \A y \in ToSet(Tail(s)) : Head(s) < y
<1>1. /\ Len(s) \in Nat \ {0} /\ Head(s) = s[1] /\ Len(Tail(s)) = Len(s) - 1
      /\ \A n \in 1 .. Len(s) - 1 : Tail(s)[n] = s[n + 1]
  OBVIOUS
<1>2. DOMAIN Tail(s) = 1 .. Len(s) - 1
  OBVIOUS
<1>3. \A n \in 1 .. Len(s) - 1 : s[1] < s[n + 1]
  BY <1>1 DEF Ascending
<1>4. Ascending(Tail(s))
  BY <1>1 DEF Ascending
<1>. QED
  BY <1>1, <1>2, <1>3, <1>4 DEF ToSet
-----------------------------------------------------------------------------
(* The undecided packets: each waits in exactly one place on the route of  *)
(* its flow, and along that route, from the worker's queue back to the     *)
(* reader, they stand in capture order.                                    *)
Waits(i) == i \in 1 .. pos /\ input[i].parsed /\ verdict[i] = "none"
Dispatching(i) == mainPc = "dispatch" /\ i = pos
InLBQ(l) == ToSet(lbQ[l].items)
InFPQ(w) == ToSet(fpQ[w].items)

ReaderHolds == mainPc = "dispatch" => Waits(pos)

UnreadUndecided == \A i \in Ids : i > pos => verdict[i] = "none"

QueuesAscend ==
  /\ \A l \in LBs : Ascending(lbQ[l].items)
  /\ \A w \in FPs : Ascending(fpQ[w].items)

LBQueueOrder ==
  \A l \in LBs : \A i \in InLBQ(l) :
    /\ Waits(i) /\ LBOf(FlowOf(i)) = l /\ ~Dispatching(i)
    /\ lbPkt[l] # NoPkt => lbPkt[l] < i

LBHandOrder ==
  \A l \in LBs : lbPkt[l] # NoPkt =>
    /\ Waits(lbPkt[l]) /\ LBOf(FlowOf(lbPkt[l])) = l
    /\ ~Dispatching(lbPkt[l])

FPQueueOrder ==
  \A w \in FPs : \A i \in InFPQ(w) :
    /\ Waits(i) /\ FPOf(FlowOf(i)) = w /\ ~Dispatching(i)
    /\ lbPkt[LBOf(FlowOf(i))] # NoPkt => i < lbPkt[LBOf(FlowOf(i))]
    /\ \A j \in InLBQ(LBOf(FlowOf(i))) : i < j

NoneVanished ==
  \A i \in Ids : Waits(i) =>
    \/ Dispatching(i)
    \/ i \in InLBQ(LBOf(FlowOf(i)))
    \/ lbPkt[LBOf(FlowOf(i))] = i
    \/ i \in InFPQ(FPOf(FlowOf(i)))

UpstreamOrder ==
  /\ ReaderHolds /\ UnreadUndecided /\ QueuesAscend
  /\ LBQueueOrder /\ LBHandOrder /\ FPQueueOrder
  /\ NoneVanished

LEMMA UpstreamInit == Init => UpstreamOrder
<1>. SUFFICES ASSUME Init PROVE UpstreamOrder
  OBVIOUS
<1>1. /\ \A l \in LBs : lbQ[l].items = <<>> /\ lbPkt[l] = NoPkt
      /\ \A w \in FPs : fpQ[w].items = <<>>
      /\ pos = 0 /\ mainPc = "read" /\ \A i \in Ids : verdict[i] = "none"
  BY DEF Init, NewQueue
<1>2. Ascending(<<>>) /\ ToSet(<<>>) = {}
  BY DEF Ascending, ToSet
<1>. QED
  BY <1>1, <1>2
  DEF UpstreamOrder, ReaderHolds, UnreadUndecided, QueuesAscend, LBQueueOrder,
      LBHandOrder, FPQueueOrder, NoneVanished, InLBQ, InFPQ, Waits

(* What the proofs below need of the types.                                *)
LEMMA QueuedIds ==
  ASSUME TypeOK
  PROVE  /\ Len(input) \in Nat /\ pos \in 0 .. Len(input)
         /\ \A l \in LBs : /\ lbQ[l].items \in Seq(Ids)
                           /\ lbQ[l].items \in Seq(Nat) /\ InLBQ(l) \subseteq Ids
         /\ \A w \in FPs : /\ fpQ[w].items \in Seq(Ids)
                           /\ fpQ[w].items \in Seq(Nat) /\ InFPQ(w) \subseteq Ids
         /\ \A i \in Ids : /\ i \in Nat /\ FlowOf(i) \in Tuples
                           /\ LBOf(FlowOf(i)) \in LBs /\ FPOf(FlowOf(i)) \in FPs
<1>1. Len(input) \in Nat /\ \A i \in Ids : FlowOf(i) \in Tuples
  BY InputType
<1>2. /\ \A l \in LBs : lbQ[l].items \in Seq(Ids)
      /\ \A w \in FPs : fpQ[w].items \in Seq(Ids)
  BY DEF TypeOK, Queue
<1>3. Ids \subseteq Nat
  BY DEF Ids
<1>4. ASSUME NEW s \in Seq(Ids) PROVE s \in Seq(Nat) /\ ToSet(s) \subseteq Ids
  <2>1. \A n \in DOMAIN s : s[n] \in Ids
    OBVIOUS
  <2>2. s \in Seq(Nat)
    BY <1>3, SeqMonotonic
  <2>. QED
    BY <2>1, <2>2 DEF ToSet
<1>5. \A i \in Ids : /\ i \in Nat /\ FlowOf(i) \in Tuples
                     /\ LBOf(FlowOf(i)) \in LBs /\ FPOf(FlowOf(i)) \in FPs
  BY <1>1, <1>3, Routed
<1>6. pos \in 0 .. Len(input)
  BY DEF TypeOK
<1>. QED
  BY <1>1, <1>2, <1>4, <1>5, <1>6 DEF InLBQ, InFPQ

(* A step that moves no undecided packet.                                  *)
LEMMA UpstreamFrame ==
  ASSUME UpstreamOrder,
         UNCHANGED <<input, pos, verdict, lbPkt>>,
         \A l \in LBs : lbQ'[l].items = lbQ[l].items,
         \A w \in FPs : fpQ'[w].items = fpQ[w].items,
         mainPc' = "dispatch" <=> mainPc = "dispatch",
         TypeOK
  PROVE  UpstreamOrder'
<1>1. /\ \A l \in LBs : InLBQ(l)' = InLBQ(l)
      /\ \A w \in FPs : InFPQ(w)' = InFPQ(w)
      /\ \A i \in Ids : FlowOf(i)' = FlowOf(i)
      /\ \A i \in Ids : Waits(i)' <=> Waits(i)
      /\ \A i : Dispatching(i)' <=> Dispatching(i)
      /\ Ids' = Ids
  BY DEF InLBQ, InFPQ, FlowOf, Waits, Dispatching, Ids
<1>2. /\ \A l \in LBs : InLBQ(l) \subseteq Ids
      /\ \A w \in FPs : InFPQ(w) \subseteq Ids
      /\ \A i \in Ids : LBOf(FlowOf(i)) \in LBs /\ FPOf(FlowOf(i)) \in FPs
  BY QueuedIds
<1>3. ReaderHolds' /\ UnreadUndecided' /\ QueuesAscend'
  BY <1>1 DEF UpstreamOrder, ReaderHolds, UnreadUndecided, QueuesAscend, Waits
<1>4. LBQueueOrder'
  BY <1>1, <1>2 DEF UpstreamOrder, LBQueueOrder
<1>5. LBHandOrder'
  BY <1>1, <1>2 DEF UpstreamOrder, LBHandOrder, Waits, FlowOf, Dispatching
<1>6. FPQueueOrder'
  BY <1>1, <1>2 DEF UpstreamOrder, FPQueueOrder
<1>7. NoneVanished'
  BY <1>1, <1>2 DEF UpstreamOrder, NoneVanished
<1>. QED
  BY <1>3, <1>4, <1>5, <1>6, <1>7 DEF UpstreamOrder
LEMMA UpstreamReadSkip ==
  ASSUME TypeOK, UpstreamOrder, ReadSkip
  PROVE  UpstreamOrder'
<1>. USE DEF ReadSkip, givens
<1>1. /\ \A l \in LBs : InLBQ(l)' = InLBQ(l) /\ lbPkt'[l] = lbPkt[l]
      /\ \A w \in FPs : InFPQ(w)' = InFPQ(w)
      /\ \A i \in Ids : FlowOf(i)' = FlowOf(i)
      /\ \A i : ~Dispatching(i)' /\ ~Dispatching(i)
      /\ Ids' = Ids /\ verdict' = verdict /\ mainPc' = "read"
  BY DEF InLBQ, InFPQ, FlowOf, Dispatching, Ids, lbVars, decided
<1>2. \A i \in Ids : Waits(i)' <=> Waits(i)
  BY DEF Waits, decided, Ids, TypeOK
<1>3. /\ \A l \in LBs : InLBQ(l) \subseteq Ids
      /\ \A w \in FPs : InFPQ(w) \subseteq Ids
      /\ \A i \in Ids : LBOf(FlowOf(i)) \in LBs /\ FPOf(FlowOf(i)) \in FPs
  BY QueuedIds
<1>4. ReaderHolds' /\ UnreadUndecided' /\ QueuesAscend'
  BY <1>1, QueuedIds
  DEF UpstreamOrder, ReaderHolds, UnreadUndecided, QueuesAscend, Ids
<1>5. LBQueueOrder'
  BY <1>1, <1>2, <1>3 DEF UpstreamOrder, LBQueueOrder
<1>6. LBHandOrder'
  <2>1. \A l \in LBs : lbPkt[l] # NoPkt => lbPkt[l] \in Ids
    BY DEF TypeOK
  <2>. QED
    BY <1>1, <1>2, <2>1 DEF UpstreamOrder, LBHandOrder
<1>7. FPQueueOrder'
  BY <1>1, <1>2, <1>3 DEF UpstreamOrder, FPQueueOrder
<1>8. NoneVanished'
  BY <1>1, <1>2, <1>3 DEF UpstreamOrder, NoneVanished
<1>. QED
  BY <1>4, <1>5, <1>6, <1>7, <1>8 DEF UpstreamOrder

LEMMA UpstreamReadPacket ==
  ASSUME TypeOK, UpstreamOrder, ReadPacket
  PROVE  UpstreamOrder'
<1>. USE DEF ReadPacket, givens
<1>1. /\ \A l \in LBs : InLBQ(l)' = InLBQ(l) /\ lbPkt'[l] = lbPkt[l]
      /\ \A w \in FPs : InFPQ(w)' = InFPQ(w)
      /\ \A i \in Ids : FlowOf(i)' = FlowOf(i)
      /\ \A i : ~Dispatching(i)
      /\ \A i : Dispatching(i)' <=> i = pos + 1
      /\ Ids' = Ids /\ verdict' = verdict /\ pos' = pos + 1
  BY DEF InLBQ, InFPQ, FlowOf, Dispatching, Ids, lbVars, decided
<1>2. pos \in Nat /\ pos + 1 \in Ids /\ verdict[pos + 1] = "none"
  BY QueuedIds DEF UpstreamOrder, UnreadUndecided, Ids
<1>3. \A i \in Ids : Waits(i)' <=> Waits(i) \/ i = pos + 1
  BY <1>1, <1>2 DEF Waits, Ids
<1>4. \A i \in Ids : Waits(i) => i # pos + 1
  BY <1>2 DEF Waits
<1>5. /\ \A l \in LBs : InLBQ(l) \subseteq Ids
      /\ \A w \in FPs : InFPQ(w) \subseteq Ids
      /\ \A i \in Ids : LBOf(FlowOf(i)) \in LBs /\ FPOf(FlowOf(i)) \in FPs
  BY QueuedIds
<1>6. ReaderHolds' /\ UnreadUndecided' /\ QueuesAscend'
  BY <1>1, <1>2, <1>3
  DEF UpstreamOrder, ReaderHolds, UnreadUndecided, QueuesAscend, Ids
<1>7. LBQueueOrder'
  BY <1>1, <1>3, <1>4, <1>5 DEF UpstreamOrder, LBQueueOrder
<1>8. LBHandOrder'
  <2>1. \A l \in LBs : lbPkt[l] # NoPkt => lbPkt[l] \in Ids
    BY DEF TypeOK
  <2>. QED
    BY <1>1, <1>3, <1>4, <2>1 DEF UpstreamOrder, LBHandOrder
<1>9. FPQueueOrder'
  BY <1>1, <1>3, <1>4, <1>5 DEF UpstreamOrder, FPQueueOrder
<1>10. NoneVanished'
  BY <1>1, <1>3, <1>5 DEF UpstreamOrder, NoneVanished
<1>. QED
  BY <1>6, <1>7, <1>8, <1>9, <1>10 DEF UpstreamOrder

LEMMA UpstreamDispatch ==
  ASSUME TypeOK, StopOrder, UpstreamOrder, Dispatch
  PROVE  UpstreamOrder'
<1>1. pos \in Ids /\ Waits(pos) /\ mainPc = "dispatch"
  BY QueuedIds DEF Dispatch, UpstreamOrder, ReaderHolds, Waits, Ids
<1>2. PICK d \in LBs : d = LBOf(FlowOf(pos))
  BY <1>1, QueuedIds
<1>3. ~lbQ[d].down
  BY <1>1, <1>2 DEF StopOrder, LBPhase, FPPhase, OutPhase
<1>4. /\ lbQ'[d].items = Append(lbQ[d].items, pos)
      /\ \A l \in LBs : l # d => lbQ'[l] = lbQ[l]
  BY <1>2, <1>3 DEF Dispatch, Pushed, TypeOK, Queue
<1>5. /\ \A w \in FPs : InFPQ(w)' = InFPQ(w) /\ fpQ'[w] = fpQ[w]
      /\ \A i \in Ids : FlowOf(i)' = FlowOf(i)
      /\ \A i : ~Dispatching(i)' /\ (Dispatching(i) <=> i = pos)
      /\ \A i \in Ids : Waits(i)' <=> Waits(i)
      /\ Ids' = Ids /\ verdict' = verdict /\ lbPkt' = lbPkt /\ pos' = pos
      /\ mainPc' = "read"
  BY DEF Dispatch, givens, lbVars, decided, InFPQ, FlowOf, Dispatching, Waits, Ids
<1>6. InLBQ(d)' = InLBQ(d) \cup {pos}
        /\ \A l \in LBs : l # d => InLBQ(l)' = InLBQ(l)
  BY <1>1, <1>2, <1>4, QueuedIds, AppendElements DEF InLBQ
<1>7. /\ \A l \in LBs : InLBQ(l) \subseteq Ids
      /\ \A w \in FPs : InFPQ(w) \subseteq Ids
      /\ \A i \in Ids : /\ LBOf(FlowOf(i)) \in LBs /\ FPOf(FlowOf(i)) \in FPs
                        /\ i \in Nat
      /\ \A i \in Ids : Waits(i) /\ i # pos => i < pos
  BY <1>1, QueuedIds DEF Waits, Ids
<1>8. ReaderHolds' /\ UnreadUndecided'
  BY <1>5 DEF UpstreamOrder, ReaderHolds, UnreadUndecided
<1>9. QueuesAscend'
  <2>1. \A y \in InLBQ(d) : y < pos
    BY <1>2, <1>5, <1>7 DEF UpstreamOrder, LBQueueOrder
  <2>2. Ascending(lbQ'[d].items)
    BY <1>1, <1>2, <1>4, <1>7, <2>1, QueuedIds, AscendingAppend
    DEF UpstreamOrder, QueuesAscend, InLBQ
  <2>. QED
    BY <1>4, <1>5, <2>2 DEF UpstreamOrder, QueuesAscend
<1>10. LBQueueOrder'
  <2>1. lbPkt[d] # NoPkt => lbPkt[d] < pos
    BY <1>2, <1>5, <1>7 DEF UpstreamOrder, LBHandOrder, TypeOK
  <2>. QED
    BY <1>1, <1>2, <1>5, <1>6, <1>7, <2>1 DEF UpstreamOrder, LBQueueOrder
<1>11. LBHandOrder'
  <2>1. \A l \in LBs : lbPkt[l] # NoPkt => lbPkt[l] \in Ids
    BY DEF TypeOK
  <2>. QED
    BY <1>5, <2>1 DEF UpstreamOrder, LBHandOrder
<1>12. FPQueueOrder'
  <2>1. \A w \in FPs : \A i \in InFPQ(w) : i < pos
    BY <1>5, <1>7 DEF UpstreamOrder, FPQueueOrder
  <2>. QED
    BY <1>5, <1>6, <1>7, <2>1 DEF UpstreamOrder, FPQueueOrder
<1>13. NoneVanished'
  BY <1>2, <1>5, <1>6, <1>7 DEF UpstreamOrder, NoneVanished
<1>. QED
  BY <1>8, <1>9, <1>10, <1>11, <1>12, <1>13 DEF UpstreamOrder

LEMMA UpstreamLBPop ==
  ASSUME TypeOK, Held, UpstreamOrder, NEW l \in LBs, LBPop(l)
  PROVE  UpstreamOrder'
<1>1. /\ lbQ[l].items \in Seq(Nat) /\ lbQ[l].items # <<>>
      /\ lbPkt[l] = NoPkt
  BY QueuedIds DEF LBPop, IsEmpty, Held
<1>2. PICK i \in Ids : i = Head(lbQ[l].items)
  BY <1>1, QueuedIds, TailElements DEF InLBQ
<1>3. /\ lbQ'[l].items = Tail(lbQ[l].items)
      /\ \A m \in LBs : m # l => lbQ'[m] = lbQ[m]
      /\ lbPkt'[l] = i /\ \A m \in LBs : m # l => lbPkt'[m] = lbPkt[m]
  BY <1>2 DEF LBPop, Popped, TypeOK, Queue
<1>4. /\ \A w \in FPs : InFPQ(w)' = InFPQ(w) /\ fpQ'[w] = fpQ[w]
      /\ \A j \in Ids : FlowOf(j)' = FlowOf(j)
      /\ \A j : Dispatching(j)' <=> Dispatching(j)
      /\ \A j \in Ids : Waits(j)' <=> Waits(j)
      /\ Ids' = Ids /\ verdict' = verdict /\ pos' = pos /\ mainPc' = mainPc
      /\ input' = input
  BY DEF LBPop, givens, mainVars, decided, InFPQ, FlowOf, Dispatching, Waits, Ids
<1>5. /\ InLBQ(l) = {i} \cup InLBQ(l)'
      /\ \A m \in LBs : m # l => InLBQ(m)' = InLBQ(m)
  BY <1>1, <1>2, <1>3, TailElements DEF InLBQ
<1>6. Ascending(lbQ'[l].items) /\ \A j \in InLBQ(l)' : i < j
  BY <1>1, <1>2, <1>3, AscendingTail DEF UpstreamOrder, QueuesAscend, InLBQ
<1>7. /\ \A m \in LBs : InLBQ(m) \subseteq Ids
      /\ \A w \in FPs : InFPQ(w) \subseteq Ids
      /\ \A j \in Ids : LBOf(FlowOf(j)) \in LBs /\ FPOf(FlowOf(j)) \in FPs
  BY QueuedIds
<1>8. Waits(i) /\ LBOf(FlowOf(i)) = l /\ ~Dispatching(i)
  BY <1>5 DEF UpstreamOrder, LBQueueOrder
<1>9. ReaderHolds' /\ UnreadUndecided'
  BY <1>4 DEF UpstreamOrder, ReaderHolds, UnreadUndecided, Waits
<1>10. QueuesAscend'
  BY <1>3, <1>4, <1>6 DEF UpstreamOrder, QueuesAscend
<1>11. LBQueueOrder'
  BY <1>3, <1>4, <1>5, <1>6, <1>7 DEF UpstreamOrder, LBQueueOrder
<1>12. LBHandOrder'
  <2>1. \A m \in LBs : lbPkt[m] # NoPkt => lbPkt[m] \in Ids
    BY DEF TypeOK
  <2>. QED
    BY <1>3, <1>4, <1>8, <2>1 DEF UpstreamOrder, LBHandOrder
<1>13. FPQueueOrder'
  BY <1>3, <1>4, <1>5, <1>7, <1>8 DEF UpstreamOrder, FPQueueOrder
<1>14. NoneVanished'
  <2>1. ASSUME NEW j \in Ids, Waits(j)
        PROVE  \/ Dispatching(j)
               \/ j \in InLBQ(LBOf(FlowOf(j)))'
               \/ lbPkt'[LBOf(FlowOf(j))] = j
               \/ j \in InFPQ(FPOf(FlowOf(j)))
    <3>1. \/ Dispatching(j)
          \/ j \in InLBQ(LBOf(FlowOf(j)))
          \/ lbPkt[LBOf(FlowOf(j))] = j
          \/ j \in InFPQ(FPOf(FlowOf(j)))
      BY <2>1 DEF UpstreamOrder, NoneVanished
    <3>. QED
      BY <1>1, <1>3, <1>4, <1>5, <1>7, <3>1 DEF Ids
  <2>. QED
    BY <1>4, <1>7, <2>1 DEF NoneVanished
<1>. QED
  BY <1>9, <1>10, <1>11, <1>12, <1>13, <1>14 DEF UpstreamOrder

LEMMA UpstreamLBPush ==
  ASSUME TypeOK, Held, StopOrder, UpstreamOrder, NEW l \in LBs, LBPush(l)
  PROVE  UpstreamOrder'
<1>1. lbPkt[l] # NoPkt
  BY DEF LBPush, Held
<1>2. PICK i \in Ids : i = lbPkt[l]
  BY <1>1 DEF TypeOK
<1>3. Waits(i) /\ LBOf(FlowOf(i)) = l /\ ~Dispatching(i) /\ i # NoPkt
  BY <1>1, <1>2 DEF UpstreamOrder, LBHandOrder
<1>4. PICK w \in FPs : w = FPOf(FlowOf(i))
  BY QueuedIds
<1>5. w = WorkerOf(l, FlowOf(lbPkt[l]))
  BY <1>2, <1>3, <1>4 DEF FPOf
<1>6. ~fpQ[w].down
  BY DEF StopOrder, LBPush
<1>7. /\ fpQ'[w].items = Append(fpQ[w].items, i)
      /\ \A x \in FPs : x # w => fpQ'[x] = fpQ[x]
      /\ lbPkt'[l] = NoPkt /\ \A m \in LBs : m # l => lbPkt'[m] = lbPkt[m]
  BY <1>2, <1>5, <1>6 DEF LBPush, Pushed, TypeOK, Queue
<1>8. /\ \A m \in LBs : InLBQ(m)' = InLBQ(m) /\ lbQ'[m] = lbQ[m]
      /\ \A j \in Ids : FlowOf(j)' = FlowOf(j)
      /\ \A j : Dispatching(j)' <=> Dispatching(j)
      /\ \A j \in Ids : Waits(j)' <=> Waits(j)
      /\ Ids' = Ids /\ verdict' = verdict /\ pos' = pos /\ mainPc' = mainPc
      /\ input' = input
  BY DEF LBPush, givens, mainVars, decided, InLBQ, FlowOf, Dispatching, Waits, Ids
<1>9. InFPQ(w)' = InFPQ(w) \cup {i}
        /\ \A x \in FPs : x # w => InFPQ(x)' = InFPQ(x)
  BY <1>7, QueuedIds, AppendElements DEF InFPQ
<1>10. /\ \A m \in LBs : InLBQ(m) \subseteq Ids
       /\ \A x \in FPs : InFPQ(x) \subseteq Ids
       /\ \A j \in Ids : /\ LBOf(FlowOf(j)) \in LBs /\ FPOf(FlowOf(j)) \in FPs
                         /\ FlowOf(j) \in Tuples
  BY QueuedIds
<1>11. \A j \in InFPQ(w) : LBOf(FlowOf(j)) = l /\ j < i
  <2>1. \A j \in InFPQ(w) : FPOf(FlowOf(j)) = w
    BY DEF UpstreamOrder, FPQueueOrder
  <2>2. \A j \in InFPQ(w) : LBOf(FlowOf(j)) = l
    BY <1>3, <1>4, <1>10, <2>1, OneFeeder
  <2>. QED
    BY <1>1, <1>2, <2>2 DEF UpstreamOrder, FPQueueOrder
<1>12. \A j \in InLBQ(l) : i < j
  BY <1>1, <1>2 DEF UpstreamOrder, LBQueueOrder
<1>13. ReaderHolds' /\ UnreadUndecided'
  BY <1>8 DEF UpstreamOrder, ReaderHolds, UnreadUndecided, Waits
<1>14. QueuesAscend'
  <2>1. Ascending(fpQ'[w].items)
    <3>1. i \in Nat /\ fpQ[w].items \in Seq(Nat) /\ Ascending(fpQ[w].items)
      BY QueuedIds DEF UpstreamOrder, QueuesAscend
    <3>. QED
      BY <1>7, <1>11, <3>1, AscendingAppend DEF InFPQ
  <2>. QED
    BY <1>7, <1>8, <2>1 DEF UpstreamOrder, QueuesAscend
<1>15. LBQueueOrder'
  BY <1>7, <1>8, <1>10 DEF UpstreamOrder, LBQueueOrder
<1>16. LBHandOrder'
  <2>1. \A m \in LBs : lbPkt[m] # NoPkt => lbPkt[m] \in Ids
    BY DEF TypeOK
  <2>. QED
    BY <1>7, <1>8, <2>1 DEF UpstreamOrder, LBHandOrder
<1>17. FPQueueOrder'
  <2>1. ASSUME NEW x \in FPs, NEW j \in InFPQ(x)', j # i
        PROVE  j \in InFPQ(x) /\ j \in Ids
    BY <1>9, <1>10, <2>1
  <2>2. ASSUME NEW x \in FPs, NEW j \in InFPQ(x)'
        PROVE  /\ j \in Ids /\ Waits(j) /\ FPOf(FlowOf(j)) = x /\ ~Dispatching(j)
               /\ lbPkt'[LBOf(FlowOf(j))] # NoPkt => j < lbPkt'[LBOf(FlowOf(j))]
               /\ \A k \in InLBQ(LBOf(FlowOf(j))) : j < k
    <3>1. CASE j # i
      BY <1>7, <1>10, <2>1, <3>1 DEF UpstreamOrder, FPQueueOrder
    <3>2. CASE j = i
      <4>1. x = w
        BY <1>4, <1>9, <3>2 DEF UpstreamOrder, FPQueueOrder
      <4>. QED
        BY <1>3, <1>4, <1>7, <1>12, <3>2, <4>1
    <3>. QED
      BY <3>1, <3>2
  <2>. QED
    BY <1>8, <1>10, <2>2 DEF FPQueueOrder
<1>18. NoneVanished'
  <2>1. ASSUME NEW j \in Ids, Waits(j)
        PROVE  \/ Dispatching(j)
               \/ j \in InLBQ(LBOf(FlowOf(j)))
               \/ lbPkt'[LBOf(FlowOf(j))] = j
               \/ j \in InFPQ(FPOf(FlowOf(j)))'
    <3>1. \/ Dispatching(j)
          \/ j \in InLBQ(LBOf(FlowOf(j)))
          \/ lbPkt[LBOf(FlowOf(j))] = j
          \/ j \in InFPQ(FPOf(FlowOf(j)))
      BY <2>1 DEF UpstreamOrder, NoneVanished
    <3>2. CASE j = i
      BY <1>4, <1>8, <1>9, <3>2
    <3>3. CASE j # i
      BY <1>2, <1>7, <1>8, <1>9, <1>10, <3>1, <3>3
    <3>. QED
      BY <3>2, <3>3
  <2>. QED
    BY <1>8, <1>10, <2>1 DEF NoneVanished
<1>. QED
  BY <1>13, <1>14, <1>15, <1>16, <1>17, <1>18 DEF UpstreamOrder

LEMMA UpstreamFPTake ==
  ASSUME TypeOK, UpstreamOrder, NEW w \in FPs, FPTake(w)
  PROVE  UpstreamOrder'
<1>1. fpQ[w].items \in Seq(Nat) /\ fpQ[w].items # <<>>
  BY QueuedIds DEF FPTake, IsEmpty
<1>2. PICK i \in Ids : i = Head(fpQ[w].items)
  BY <1>1, QueuedIds, TailElements DEF InFPQ
<1>3. /\ fpQ'[w].items = Tail(fpQ[w].items)
      /\ \A x \in FPs : x # w => fpQ'[x] = fpQ[x]
  BY DEF FPTake, Popped, TypeOK, Queue
<1>4. /\ \A l \in LBs : InLBQ(l)' = InLBQ(l) /\ lbQ'[l] = lbQ[l]
      /\ \A j \in Ids : FlowOf(j)' = FlowOf(j)
      /\ \A j : Dispatching(j)' <=> Dispatching(j)
      /\ Ids' = Ids /\ pos' = pos /\ mainPc' = mainPc
      /\ input' = input /\ lbPkt' = lbPkt
  BY DEF FPTake, givens, mainVars, lbVars, InLBQ, FlowOf, Dispatching, Ids
<1>5. verdict'[i] # "none" /\ \A j \in Ids : j # i => verdict'[j] = verdict[j]
  BY <1>2 DEF FPTake, TypeOK
<1>6. /\ InFPQ(w) = {i} \cup InFPQ(w)'
      /\ \A x \in FPs : x # w => InFPQ(x)' = InFPQ(x)
  BY <1>1, <1>2, <1>3, TailElements DEF InFPQ
<1>7. Ascending(fpQ'[w].items) /\ \A j \in InFPQ(w)' : i < j
  BY <1>1, <1>2, <1>3, AscendingTail DEF UpstreamOrder, QueuesAscend, InFPQ
<1>8. /\ \A l \in LBs : InLBQ(l) \subseteq Ids
      /\ \A x \in FPs : InFPQ(x) \subseteq Ids
      /\ \A j \in Ids : /\ LBOf(FlowOf(j)) \in LBs /\ FPOf(FlowOf(j)) \in FPs
                        /\ j \in Nat
  BY QueuedIds
<1>9. Waits(i) /\ FPOf(FlowOf(i)) = w /\ ~Dispatching(i)
  BY <1>6 DEF UpstreamOrder, FPQueueOrder
<1>10. \A j \in Ids : Waits(j)' <=> Waits(j) /\ j # i
  BY <1>4, <1>5 DEF Waits
<1>11. /\ \A l \in LBs : i \notin InLBQ(l) /\ (lbPkt[l] # NoPkt => lbPkt[l] # i)
       /\ \A x \in FPs : i \notin InFPQ(x)'
  <2>1. /\ \A j \in InLBQ(LBOf(FlowOf(i))) : i < j
        /\ lbPkt[LBOf(FlowOf(i))] # NoPkt => i < lbPkt[LBOf(FlowOf(i))]
    BY <1>6 DEF UpstreamOrder, FPQueueOrder
  <2>2. \A l \in LBs : i \notin InLBQ(l)
    BY <1>8, <2>1 DEF UpstreamOrder, LBQueueOrder
  <2>3. \A l \in LBs : lbPkt[l] # NoPkt => lbPkt[l] # i
    BY <1>8, <2>1 DEF UpstreamOrder, LBHandOrder
  <2>4. \A x \in FPs : i \notin InFPQ(x)'
    BY <1>6, <1>7, <1>8, <1>9 DEF UpstreamOrder, FPQueueOrder
  <2>. QED
    BY <2>2, <2>3, <2>4
<1>12. ReaderHolds' /\ UnreadUndecided'
  <2>1. ReaderHolds'
    <3>1. mainPc = "dispatch" => Waits(pos) /\ pos \in Ids /\ pos # i
      BY <1>9, QueuedIds DEF UpstreamOrder, ReaderHolds, Dispatching, Waits, Ids
    <3>2. mainPc = "dispatch" => verdict'[pos] = "none"
      BY <1>5, <3>1 DEF Waits
    <3>3. CASE mainPc = "dispatch"
      <4>1. pos' \in 1 .. pos' /\ input'[pos'].parsed
        BY <1>4, <3>1, <3>3 DEF Waits
      <4>2. verdict'[pos'] = "none"
        BY <1>4, <3>2, <3>3
      <4>. QED
        BY <4>1, <4>2 DEF ReaderHolds, Waits
    <3>4. CASE mainPc # "dispatch"
      BY <1>4, <3>4 DEF ReaderHolds
    <3>. QED
      BY <3>3, <3>4
  <2>2. UnreadUndecided'
    <3>1. pos' = pos /\ Ids' = Ids
      BY <1>4
    <3>2. ~(i > pos)
      BY <1>8, <1>9 DEF Waits, TypeOK
    <3>. QED
      BY <1>5, <3>1, <3>2 DEF UpstreamOrder, UnreadUndecided
  <2>. QED
    BY <2>1, <2>2
<1>13. QueuesAscend'
  BY <1>3, <1>4, <1>7 DEF UpstreamOrder, QueuesAscend
<1>14. LBQueueOrder'
  BY <1>4, <1>8, <1>10, <1>11 DEF UpstreamOrder, LBQueueOrder
<1>15. LBHandOrder'
  <2>1. \A l \in LBs : lbPkt[l] # NoPkt => lbPkt[l] \in Ids
    BY DEF TypeOK
  <2>. QED
    BY <1>4, <1>10, <1>11, <2>1 DEF UpstreamOrder, LBHandOrder
<1>16. FPQueueOrder'
  <2>1. \A x \in FPs : InFPQ(x)' \subseteq InFPQ(x)
    BY <1>6
  <2>. QED
    BY <1>4, <1>8, <1>10, <1>11, <2>1 DEF UpstreamOrder, FPQueueOrder
<1>17. NoneVanished'
  BY <1>4, <1>6, <1>8, <1>10 DEF UpstreamOrder, NoneVanished
<1>. QED
  BY <1>12, <1>13, <1>14, <1>15, <1>16, <1>17 DEF UpstreamOrder

LEMMA UpstreamStep ==
  TypeOK /\ Held /\ StopOrder /\ UpstreamOrder /\ [Next]_vars => UpstreamOrder'
<1>. SUFFICES ASSUME TypeOK, Held, StopOrder, UpstreamOrder, [Next]_vars
              PROVE  UpstreamOrder'
  OBVIOUS
<1>. USE DEF givens, mainVars, lbVars, fpVars, outVars, decided
<1>1. CASE ReadSkip
  BY <1>1, UpstreamReadSkip
<1>2. CASE ReadPacket
  BY <1>2, UpstreamReadPacket
<1>3. CASE Dispatch
  BY <1>3, UpstreamDispatch
<1>4. CASE ReadEOF \/ WakeUp \/ StopLB \/ JoinLB \/ StopFP \/ JoinFP
             \/ StopOut \/ ShutOut \/ JoinOut
  BY <1>4, UpstreamFrame
  DEF ReadEOF, WakeUp, StopLB, JoinLB, StopFP, JoinFP, StopOut, ShutOut, JoinOut
<1>5. CASE ShutLB
  BY <1>5, UpstreamFrame DEF ShutLB, ShutDown, TypeOK, Queue
<1>6. CASE ShutFP
  BY <1>6, UpstreamFrame DEF ShutFP, ShutDown, TypeOK, Queue
<1>7. ASSUME NEW l \in LBs, LB(l) PROVE UpstreamOrder'
  <2>1. CASE LBPop(l)
    BY <2>1, UpstreamLBPop
  <2>2. CASE LBPush(l)
    BY <2>2, UpstreamLBPush
  <2>3. CASE LBLoop(l) \/ LBPopNothing(l)
    BY <2>3, UpstreamFrame DEF LBLoop, LBPopNothing
  <2>. QED
    BY <1>7, <2>1, <2>2, <2>3 DEF LB
<1>8. ASSUME NEW w \in FPs, FP(w) PROVE UpstreamOrder'
  <2>1. CASE FPTake(w)
    BY <2>1, UpstreamFPTake
  <2>2. CASE FPLoop(w) \/ FPPopNothing(w) \/ FPPush(w)
    BY <2>2, UpstreamFrame DEF FPLoop, FPPopNothing, FPPush
  <2>. QED
    BY <1>8, <2>1, <2>2 DEF FP
<1>9. CASE Out
  BY <1>9, UpstreamFrame DEF Out, OutLoop, OutWrite, OutPopNothing
<1>10. CASE UNCHANGED vars
  BY <1>10, UpstreamFrame DEF vars
<1>. QED
  BY <1>1, <1>2, <1>3, <1>4, <1>5, <1>6, <1>7, <1>8, <1>9, <1>10
  DEF Next, Main, Finished
-----------------------------------------------------------------------------
(* The verdicts and the flow tables.  A worker keeps the entry of every    *)
(* flow it owns and of no other; a dropped packet has left its flow        *)
(* blocked; and the packets of a worker are decided in capture order.      *)
DroppedBlocks ==
  \A i \in Ids : verdict[i] = "dropped" =>
    flows[FPOf(FlowOf(i))][FlowOf(i)].blocked

DecidedInOrder ==
  \A i, j \in Ids :
    i < j /\ FPOf(FlowOf(i)) = FPOf(FlowOf(j)) /\ Waits(i)
      => verdict[j] = "none"

FlowTables ==
  FlowAffinity /\ DroppedBlocks /\ DecidedInOrder /\ BlockedStaysBlocked

(* A worker never clears the blocked flag of a flow.                       *)
LEMMA InspectKeepsBlocked ==
  ASSUME NEW rs \in RuleSet, NEW pkt \in Packet, NEW flow \in FlowEntry,
         flow.blocked
  PROVE  Inspect(rs, pkt, flow).blocked
<1>1. Counted(flow) \in FlowEntry /\ Counted(flow).blocked
  BY DEF Counted, FlowEntry
<1>2. Classified(pkt, Counted(flow)).blocked
  BY <1>1 DEF Classified, ClassifyFlow, FlowEntry
<1>3. Classified(pkt, Counted(flow)) \in FlowEntry
  BY ClassifiedType
<1>4. ASSUME NEW c \in FlowEntry, c.blocked
      PROVE  Judged(rs, pkt, c).blocked
  <2>. DEFINE b == IsBlocked(rs, pkt.tuple.src_ip, c.app_type, c.sni)
              j == [c EXCEPT !.blocked = @ \/ b]
  <2>1. j = Judged(rs, pkt, c)
    BY DEF Judged
  <2>2. c.blocked \/ b
    BY <1>4
  <2>3. j.blocked = (c.blocked \/ b)
    BY DEF FlowEntry
  <2>. HIDE DEF b, j
  <2>. QED
    BY <2>1, <2>2, <2>3
<1>. QED
  BY <1>2, <1>3, <1>4 DEF Inspect

LEMMA FlowTablesInit == Init => FlowTables
<1>. SUFFICES ASSUME Init PROVE FlowTables
  OBVIOUS
<1>1. \A w \in FPs, t \in Tuples : flows[w][t].packets = 0
  BY DEF Init, NewFlow
<1>2. \A i \in Ids : verdict[i] = "none"
  BY DEF Init
<1>. QED
  BY <1>1, <1>2 DEF FlowTables, FlowAffinity, DroppedBlocks, DecidedInOrder,
                    BlockedStaysBlocked

(* The next packet of a worker is the first undecided one it will get.     *)
LEMMA HeadIsFirst ==
  ASSUME TypeOK, UpstreamOrder, NEW w \in FPs, ~IsEmpty(fpQ[w]),
         NEW i \in Ids, Waits(i),
         FPOf(FlowOf(i)) = FPOf(FlowOf(Head(fpQ[w].items)))
  PROVE  /\ Head(fpQ[w].items) \in Ids /\ Waits(Head(fpQ[w].items))
         /\ FPOf(FlowOf(Head(fpQ[w].items))) = w
         /\ ~(i < Head(fpQ[w].items))
<1>. DEFINE h == Head(fpQ[w].items)
<1>1. fpQ[w].items \in Seq(Nat) /\ fpQ[w].items # <<>>
  BY QueuedIds DEF IsEmpty
<1>2. InFPQ(w) = {h} \cup ToSet(Tail(fpQ[w].items)) /\ InFPQ(w) \subseteq Ids
  BY <1>1, TailElements, QueuedIds DEF InFPQ
<1>3. \A y \in ToSet(Tail(fpQ[w].items)) : h < y
  BY <1>1, AscendingTail DEF UpstreamOrder, QueuesAscend
<1>4. /\ h \in Ids /\ Waits(h) /\ FPOf(FlowOf(h)) = w /\ ~Dispatching(h)
      /\ lbPkt[LBOf(FlowOf(h))] # NoPkt => h < lbPkt[LBOf(FlowOf(h))]
      /\ \A j \in InLBQ(LBOf(FlowOf(h))) : h < j
  BY <1>2 DEF UpstreamOrder, FPQueueOrder
<1>5. h \in Nat /\ i \in Nat /\ i # 0
  BY <1>4, QueuedIds DEF Ids
<1>6. \/ Dispatching(i)
      \/ i \in InLBQ(LBOf(FlowOf(h)))
      \/ lbPkt[LBOf(FlowOf(h))] = i
      \/ i \in InFPQ(w)
  <2>1. FPOf(FlowOf(i)) = w /\ LBOf(FlowOf(i)) = LBOf(FlowOf(h))
    BY <1>4, OneFeeder, QueuedIds
  <2>. QED
    BY <2>1 DEF UpstreamOrder, NoneVanished
<1>7. Dispatching(i) => ~(i < h)
  BY <1>4, <1>5 DEF Dispatching, Waits, TypeOK
<1>8. i \in InFPQ(w) => ~(i < h)
  BY <1>2, <1>3, <1>5
<1>9. i \in InLBQ(LBOf(FlowOf(h))) \/ lbPkt[LBOf(FlowOf(h))] = i => ~(i < h)
  BY <1>4, <1>5
<1>. QED
  BY <1>4, <1>6, <1>7, <1>8, <1>9

LEMMA FlowTablesFrame ==
  ASSUME FlowTables, UNCHANGED <<input, verdict, flows>>,
         \A i \in Ids : Waits(i)' => Waits(i)
  PROVE  FlowTables'
<1>1. Ids' = Ids /\ \A i \in Ids : FlowOf(i)' = FlowOf(i)
  BY DEF Ids, FlowOf
<1>2. FlowAffinity' /\ DroppedBlocks' /\ BlockedStaysBlocked'
  BY <1>1 DEF FlowTables, FlowAffinity, DroppedBlocks, BlockedStaysBlocked
<1>3. DecidedInOrder'
  BY <1>1 DEF FlowTables, DecidedInOrder
<1>. QED
  BY <1>2, <1>3 DEF FlowTables

LEMMA FlowTablesRead ==
  ASSUME TypeOK, UpstreamOrder, FlowTables, ReadSkip \/ ReadPacket
  PROVE  FlowTables'
<1>1. /\ UNCHANGED <<input, verdict, flows>> /\ pos' = pos + 1 /\ pos \in Nat
      /\ Ids' = Ids
  BY DEF ReadSkip, ReadPacket, givens, decided, fpVars, TypeOK, Ids
<1>2. \A i \in Ids : FlowOf(i)' = FlowOf(i) /\ i \in Nat
  BY <1>1 DEF FlowOf, Ids
<1>3. FlowAffinity' /\ DroppedBlocks' /\ BlockedStaysBlocked'
  BY <1>1, <1>2 DEF FlowTables, FlowAffinity, DroppedBlocks, BlockedStaysBlocked
<1>4. ASSUME NEW i \in Ids, NEW j \in Ids,
             i < j, FPOf(FlowOf(i)) = FPOf(FlowOf(j)), Waits(i)'
      PROVE  verdict[j] = "none"
  <2>1. Waits(i) \/ i = pos + 1
    BY <1>1, <1>2, <1>4 DEF Waits
  <2>2. CASE Waits(i)
    BY <1>4, <2>2 DEF FlowTables, DecidedInOrder
  <2>3. CASE i = pos + 1
    BY <1>1, <1>2, <1>4, <2>3 DEF UpstreamOrder, UnreadUndecided
  <2>. QED
    BY <2>1, <2>2, <2>3
<1>5. DecidedInOrder'
  BY <1>1, <1>2, <1>4 DEF DecidedInOrder
<1>. QED
  BY <1>3, <1>5 DEF FlowTables

LEMMA FlowTablesTake ==
  ASSUME TypeOK, UpstreamOrder, FlowTables, NEW w \in FPs, FPTake(w)
  PROVE  FlowTables'
<1>. DEFINE h == Head(fpQ[w].items)
            t == FlowOf(h)
            flow == Inspect(rules, input[h], flows[w][t])
<1>1. ~IsEmpty(fpQ[w])
  BY DEF FPTake
<1>2. h \in Ids /\ Waits(h) /\ FPOf(t) = w
  <2>1. PICK i \in Ids : i = h /\ Waits(i)
    <3>1. fpQ[w].items \in Seq(Nat) /\ fpQ[w].items # <<>>
      BY <1>1, QueuedIds DEF IsEmpty
    <3>2. h \in InFPQ(w)
      BY <3>1, TailElements DEF InFPQ
    <3>. QED
      BY <3>2, QueuedIds DEF UpstreamOrder, FPQueueOrder
  <2>. QED
    BY <1>1, <2>1, HeadIsFirst
<1>3. \A i \in Ids : Waits(i) /\ FPOf(FlowOf(i)) = w => ~(i < h)
  BY <1>1, <1>2, HeadIsFirst
<1>4. /\ flows' = [flows EXCEPT ![w][t] = flow]
      /\ verdict' = [verdict EXCEPT
                       ![h] = IF flow.blocked THEN "dropped" ELSE "forwarded"]
      /\ UNCHANGED <<input, pos>>
  BY DEF FPTake, givens, mainVars
<1>5. /\ flows \in [FPs -> [Tuples -> FlowEntry]]
      /\ verdict \in [Ids -> {"none", "forwarded", "dropped"}]
      /\ t \in Tuples /\ input[h] \in Packet /\ rules \in RuleSet
  BY <1>2, InputType DEF TypeOK
<1>6. flows[w][t].blocked => flow.blocked
  BY <1>5, InspectKeepsBlocked
<1>. HIDE DEF h, t, flow
<1>7. /\ flows'[w][t] = flow
      /\ \A x \in FPs, u \in Tuples :
           x # w \/ u # t => flows'[x][u] = flows[x][u]
      /\ verdict'[h] = IF flow.blocked THEN "dropped" ELSE "forwarded"
      /\ \A i \in Ids : i # h => verdict'[i] = verdict[i]
  BY <1>2, <1>4, <1>5
<1>8. /\ Ids' = Ids /\ FlowOf(h) = t
      /\ \A i \in Ids : /\ FlowOf(i)' = FlowOf(i) /\ FlowOf(i) \in Tuples
                        /\ FPOf(FlowOf(i)) \in FPs
      /\ \A i \in Ids : Waits(i)' => Waits(i) /\ i # h
  <2>1. Ids' = Ids /\ \A i \in Ids : FlowOf(i)' = FlowOf(i)
    BY <1>4 DEF Ids, FlowOf
  <2>2. \A i \in Ids : Waits(i)' => Waits(i) /\ i # h
    BY <1>4, <1>7 DEF Waits
  <2>. QED
    BY <2>1, <2>2, QueuedIds DEF t
<1>9. FlowAffinity'
  BY <1>2, <1>7, <1>8 DEF FlowTables, FlowAffinity
<1>10. DroppedBlocks'
  <2>1. ASSUME NEW i \in Ids, verdict'[i] = "dropped"
        PROVE  flows'[FPOf(FlowOf(i))][FlowOf(i)].blocked
    <3>1. CASE FlowOf(i) = t /\ i = h
      BY <1>2, <1>7, <2>1, <3>1
    <3>2. CASE FlowOf(i) = t /\ i # h
      BY <1>2, <1>6, <1>7, <2>1, <3>2 DEF FlowTables, DroppedBlocks
    <3>3. CASE FlowOf(i) # t
      <4>1. i # h /\ verdict[i] = "dropped"
        BY <1>7, <1>8, <2>1, <3>3
      <4>2. flows[FPOf(FlowOf(i))][FlowOf(i)].blocked
        BY <4>1 DEF FlowTables, DroppedBlocks
      <4>. QED
        BY <1>7, <1>8, <3>3, <4>2
    <3>. QED
      BY <3>1, <3>2, <3>3
  <2>. QED
    BY <1>8, <2>1 DEF DroppedBlocks
<1>11. DecidedInOrder'
  <2>1. ASSUME NEW i \in Ids, NEW j \in Ids,
               i < j, FPOf(FlowOf(i)) = FPOf(FlowOf(j)), Waits(i)'
        PROVE  verdict'[j] = "none"
    <3>1. Waits(i) /\ i # h
      BY <1>8, <2>1
    <3>2. j # h
      BY <1>2, <1>3, <1>8, <2>1, <3>1
    <3>. QED
      BY <1>7, <2>1, <3>1, <3>2 DEF FlowTables, DecidedInOrder
  <2>. QED
    BY <1>8, <2>1 DEF DecidedInOrder
<1>12. BlockedStaysBlocked'
  <2>1. ASSUME NEW i \in Ids, NEW j \in Ids, i < j, FlowOf(i) = FlowOf(j),
               verdict'[i] = "dropped"
        PROVE  verdict'[j] # "forwarded"
    <3>1. CASE i = h
      <4>1. verdict[j] = "none" /\ j # h
        BY <1>2, <2>1, <3>1 DEF FlowTables, DecidedInOrder, Ids
      <4>. QED
        BY <1>7, <4>1
    <3>2. CASE j = h /\ i # h
      BY <1>2, <1>6, <1>7, <1>8, <2>1, <3>2 DEF FlowTables, DroppedBlocks
    <3>3. CASE i # h /\ j # h
      BY <1>7, <2>1, <3>3 DEF FlowTables, BlockedStaysBlocked
    <3>. QED
      BY <3>1, <3>2, <3>3
  <2>. QED
    BY <1>8, <2>1 DEF BlockedStaysBlocked
<1>. QED
  BY <1>9, <1>10, <1>11, <1>12 DEF FlowTables

LEMMA FlowTablesStep ==
  TypeOK /\ UpstreamOrder /\ FlowTables /\ [Next]_vars => FlowTables'
<1>. SUFFICES ASSUME TypeOK, UpstreamOrder, FlowTables, [Next]_vars
              PROVE  FlowTables'
  OBVIOUS
<1>1. CASE ReadSkip \/ ReadPacket
  BY <1>1, FlowTablesRead
<1>2. CASE \E w \in FPs : FPTake(w)
  BY <1>2, FlowTablesTake
<1>3. CASE UNCHANGED <<input, pos, verdict, flows>>
  <2>1. \A i \in Ids : Waits(i)' => Waits(i)
    BY <1>3 DEF Waits
  <2>. QED
    BY <1>3, <2>1, FlowTablesFrame
<1>4. Next => ReadSkip \/ ReadPacket \/ (\E w \in FPs : FPTake(w))
                \/ UNCHANGED <<input, pos, verdict, flows>>
  <2>. USE DEF givens, mainVars, fpVars, decided, vars
  <2>1. Main => ReadSkip \/ ReadPacket \/ UNCHANGED <<input, pos, verdict, flows>>
    BY DEF Main, Dispatch, ReadEOF, WakeUp, StopLB, ShutLB, JoinLB,
           StopFP, ShutFP, JoinFP, StopOut, ShutOut, JoinOut
  <2>2. \A l \in LBs : LB(l) => UNCHANGED <<input, pos, verdict, flows>>
    BY DEF LB, LBLoop, LBPop, LBPopNothing, LBPush
  <2>3. \A w \in FPs :
          FP(w) => FPTake(w) \/ UNCHANGED <<input, pos, verdict, flows>>
    BY DEF FP, FPLoop, FPPopNothing, FPPush
  <2>4. Out \/ Finished => UNCHANGED <<input, pos, verdict, flows>>
    BY DEF Out, OutLoop, OutWrite, OutPopNothing, Finished
  <2>. QED
    BY <2>1, <2>2, <2>3, <2>4 DEF Next
<1>. QED
  BY <1>1, <1>2, <1>3, <1>4 DEF vars, givens, mainVars, fpVars, decided

(* All packets of a five-tuple are counted by one worker, so that no flow  *)
(* table is ever read or written by two threads.                           *)
THEOREM OneWorkerPerFlow == Spec => []FlowAffinity
<1>1. FlowTables => FlowAffinity
  BY DEF FlowTables
<1>. QED
  BY <1>1, TypeInit, TypeStep, StopOrderInit, StopOrderStep, UpstreamInit,
     UpstreamStep, FlowTablesInit, FlowTablesStep, PTL DEF Spec

(* No packet of a flow is forwarded once an earlier packet of the flow has *)
(* been dropped, however the threads are scheduled and stopped.            *)
THEOREM NothingPassesABlock == Spec => []BlockedStaysBlocked
<1>1. FlowTables => BlockedStaysBlocked
  BY DEF FlowTables
<1>. QED
  BY <1>1, TypeInit, TypeStep, StopOrderInit, StopOrderStep, UpstreamInit,
     UpstreamStep, FlowTablesInit, FlowTablesStep, PTL DEF Spec
-----------------------------------------------------------------------------
(* A packet counted as forwarded is with its worker, in the output queue   *)
(* or in the output file; and what is there was counted as forwarded.      *)
PassedOn(i) ==
  \/ i \in ToSet(written)
  \/ i \in ToSet(outQ.items)
  \/ \E w \in FPs : fpPkt[w] = i

ForwardedKept == \A i \in Ids : verdict[i] = "forwarded" <=> PassedOn(i)

LEMMA ForwardedKeptInit == Init => ForwardedKept
<1>. SUFFICES ASSUME Init PROVE ForwardedKept
  OBVIOUS
<1>1. /\ written = <<>> /\ outQ.items = <<>> /\ \A w \in FPs : fpPkt[w] = NoPkt
      /\ \A i \in Ids : verdict[i] = "none" /\ i # NoPkt
  BY DEF Init, NewQueue, Ids
<1>2. ToSet(<<>>) = {}
  BY DEF ToSet
<1>. QED
  BY <1>1, <1>2 DEF ForwardedKept, PassedOn

LEMMA ForwardedKeptFrame ==
  ASSUME ForwardedKept, UNCHANGED <<input, verdict, fpPkt, written>>,
         outQ'.items = outQ.items
  PROVE  ForwardedKept'
<1>1. Ids' = Ids /\ \A i \in Ids : PassedOn(i)' <=> PassedOn(i)
  BY DEF Ids, PassedOn
<1>. QED
  BY <1>1 DEF ForwardedKept

LEMMA ForwardedKeptTake ==
  ASSUME TypeOK, Held, UpstreamOrder, ForwardedKept, NEW w \in FPs, FPTake(w)
  PROVE  ForwardedKept'
<1>. DEFINE h == Head(fpQ[w].items)
            b == Inspect(rules, input[h], flows[w][FlowOf(h)]).blocked
<1>1. h \in Ids /\ verdict[h] = "none"
  <2>1. fpQ[w].items \in Seq(Nat) /\ fpQ[w].items # <<>>
    BY QueuedIds DEF FPTake, IsEmpty
  <2>2. h \in InFPQ(w)
    BY <2>1, TailElements DEF InFPQ
  <2>. QED
    BY <2>2, QueuedIds DEF UpstreamOrder, FPQueueOrder, Waits
<1>2. fpPkt[w] = NoPkt /\ h # NoPkt
  <2>1. fpPkt[w] = NoPkt
    BY DEF Held, FPTake
  <2>. HIDE DEF h
  <2>2. h # NoPkt
    <3>1. Ids = 1 .. Len(input)
      BY DEF Ids
    <3>. QED
      BY <1>1, <3>1 DEF NoPkt
  <2>. QED
    BY <2>1, <2>2
<1>3. /\ verdict' = [verdict EXCEPT ![h] = IF b THEN "dropped" ELSE "forwarded"]
      /\ fpPkt' = IF b THEN fpPkt ELSE [fpPkt EXCEPT ![w] = h]
      /\ UNCHANGED <<input, outQ, written>>
  BY DEF FPTake, givens, outVars
<1>4. /\ verdict \in [Ids -> {"none", "forwarded", "dropped"}]
      /\ fpPkt \in [FPs -> Ids \cup {NoPkt}]
  BY DEF TypeOK
<1>. HIDE DEF h, b
<1>5. Ids' = Ids
  BY <1>3 DEF Ids
<1>6. ~PassedOn(h)
  BY <1>1 DEF ForwardedKept
<1>7. \A i \in Ids : PassedOn(i)' <=> PassedOn(i) \/ (~b /\ i = h)
  <2>1. CASE b
    BY <1>3, <2>1 DEF PassedOn
  <2>2. CASE ~b
    <3>1. \A i \in Ids :
            (\E x \in FPs : fpPkt'[x] = i) <=> (\E x \in FPs : fpPkt[x] = i) \/ i = h
      BY <1>2, <1>3, <1>4, <2>2 DEF Ids
    <3>. QED
      BY <1>3, <2>2, <3>1 DEF PassedOn
  <2>. QED
    BY <2>1, <2>2
<1>8. \A i \in Ids : verdict'[i] = "forwarded" <=>
                       (i # h /\ verdict[i] = "forwarded") \/ (~b /\ i = h)
  BY <1>1, <1>3, <1>4
<1>. QED
  BY <1>5, <1>6, <1>7, <1>8 DEF ForwardedKept

LEMMA ForwardedKeptPush ==
  ASSUME TypeOK, Held, StopOrder, ForwardedKept, NEW w \in FPs, FPPush(w)
  PROVE  ForwardedKept'
<1>1. fpPkt[w] \in Ids /\ ~outQ.down
  BY DEF FPPush, TypeOK, Held, StopOrder
<1>2. outQ'.items = Append(outQ.items, fpPkt[w])
  BY <1>1 DEF FPPush, Pushed, TypeOK, Queue
<1>3. ToSet(outQ'.items) = ToSet(outQ.items) \cup {fpPkt[w]}
  BY <1>1, <1>2, AppendElements DEF TypeOK, Queue
<1>4. /\ fpPkt' = [fpPkt EXCEPT ![w] = NoPkt] /\ fpPkt \in [FPs -> Ids \cup {NoPkt}]
      /\ UNCHANGED <<input, verdict, written>>
  BY DEF FPPush, givens, decided, outVars, TypeOK
<1>5. Ids' = Ids /\ NoPkt \notin Ids
  BY <1>4 DEF Ids
<1>6. \A i \in Ids : PassedOn(i)' <=> PassedOn(i)
  BY <1>1, <1>3, <1>4, <1>5 DEF PassedOn
<1>. QED
  BY <1>4, <1>5, <1>6 DEF ForwardedKept

LEMMA ForwardedKeptWrite ==
  ASSUME TypeOK, ForwardedKept, OutWrite
  PROVE  ForwardedKept'
<1>1. outQ.items \in Seq(Ids) /\ outQ.items # <<>> /\ written \in Seq(Ids)
  BY DEF OutWrite, IsEmpty, TypeOK, Queue
<1>2. /\ outQ'.items = Tail(outQ.items)
      /\ written' = Append(written, Head(outQ.items))
      /\ UNCHANGED <<input, verdict, fpPkt>>
  BY DEF OutWrite, Popped, givens, decided, fpVars, TypeOK, Queue
<1>3. ToSet(outQ.items) = {Head(outQ.items)} \cup ToSet(outQ'.items)
  BY <1>1, <1>2, TailElements
<1>4. ToSet(written') = ToSet(written) \cup {Head(outQ.items)}
  BY <1>1, <1>2, AppendElements
<1>5. Ids' = Ids /\ \A i \in Ids : PassedOn(i)' <=> PassedOn(i)
  BY <1>2, <1>3, <1>4 DEF PassedOn, Ids
<1>. QED
  BY <1>2, <1>5 DEF ForwardedKept

LEMMA ForwardedKeptStep ==
  TypeOK /\ Held /\ StopOrder /\ UpstreamOrder /\ ForwardedKept /\ [Next]_vars
    => ForwardedKept'
<1>. SUFFICES ASSUME TypeOK, Held, StopOrder, UpstreamOrder, ForwardedKept,
                     [Next]_vars
              PROVE  ForwardedKept'
  OBVIOUS
<1>. USE DEF givens, decided, fpVars, outVars
<1>1. CASE Main
  <2>1. UNCHANGED <<input, verdict, fpPkt, written>> /\ outQ'.items = outQ.items
    BY <1>1 DEF Main, ReadSkip, ReadPacket, Dispatch, ReadEOF, WakeUp, StopLB,
       ShutLB, JoinLB, StopFP, ShutFP, JoinFP, StopOut, ShutOut, JoinOut,
       ShutDown, TypeOK, Queue
  <2>. QED
    BY <2>1, ForwardedKeptFrame
<1>2. ASSUME NEW l \in LBs, LB(l) PROVE ForwardedKept'
  BY <1>2, ForwardedKeptFrame DEF LB, LBLoop, LBPop, LBPopNothing, LBPush
<1>3. ASSUME NEW w \in FPs, FP(w) PROVE ForwardedKept'
  <2>1. CASE FPTake(w)
    BY <2>1, ForwardedKeptTake
  <2>2. CASE FPPush(w)
    BY <2>2, ForwardedKeptPush
  <2>3. CASE FPLoop(w) \/ FPPopNothing(w)
    BY <2>3, ForwardedKeptFrame DEF FPLoop, FPPopNothing
  <2>. QED
    BY <1>3, <2>1, <2>2, <2>3 DEF FP
<1>4. CASE Out
  <2>1. CASE OutWrite
    BY <2>1, ForwardedKeptWrite
  <2>2. CASE OutLoop \/ OutPopNothing
    BY <2>2, ForwardedKeptFrame DEF OutLoop, OutPopNothing
  <2>. QED
    BY <1>4, <2>1, <2>2 DEF Out
<1>5. CASE UNCHANGED vars
  BY <1>5, ForwardedKeptFrame DEF vars
<1>. QED
  BY <1>1, <1>2, <1>3, <1>4, <1>5 DEF Next, Finished

LEMMA WrittenIsForwarded ==
  TypeOK /\ Held /\ StopOrder /\ ForwardedKept => AllForwardedWritten
<1>. SUFFICES ASSUME TypeOK, Held, StopOrder, ForwardedKept, mainPc = "done"
              PROVE  ToSet(written) = Forwarded
  BY DEF AllForwardedWritten
<1>1. outQ.items = <<>> /\ \A w \in FPs : fpPkt[w] = NoPkt
  BY DEF StopOrder, OutPhase, IsEmpty, Held
<1>2. ToSet(<<>>) = {} /\ \A i \in Ids : i # NoPkt
  BY DEF ToSet, Ids
<1>3. \A i \in Ids : verdict[i] = "forwarded" <=> i \in ToSet(written)
  BY <1>1, <1>2 DEF ForwardedKept, PassedOn
<1>4. ToSet(written) \subseteq Ids
  BY DEF TypeOK, ToSet
<1>. QED
  BY <1>3, <1>4 DEF Forwarded

(* When process() returns, the output file holds every packet counted as   *)
(* forwarded and no other.                                                 *)
THEOREM OutputComplete == Spec => []AllForwardedWritten
BY WrittenIsForwarded, TypeInit, TypeStep, StopOrderInit, StopOrderStep,
   UpstreamInit, UpstreamStep, ForwardedKeptInit, ForwardedKeptStep,
   PTL DEF Spec
-----------------------------------------------------------------------------
(* The forwarded packets.  What the writer has written and what waits for  *)
(* it make one sequence: no packet stands in it twice, and the packets of  *)
(* one worker stand in capture order.                                      *)
WorkerOrder(s) ==
  \A m, n \in 1 .. Len(s) : m < n =>
    /\ s[m] # s[n]
    /\ FPOf(FlowOf(s[m])) = FPOf(FlowOf(s[n])) => s[m] < s[n]

OnTheWay == written \o outQ.items

FPHandOrder ==
  \A w \in FPs : fpPkt[w] # NoPkt =>
    /\ FPOf(FlowOf(fpPkt[w])) = w
    /\ \A i \in ToSet(OnTheWay) :
         i # fpPkt[w] /\ (FPOf(FlowOf(i)) = w => i < fpPkt[w])

DownstreamOrder == FPHandOrder /\ WorkerOrder(OnTheWay)

LEMMA ConcatElements ==
  ASSUME NEW S, NEW s \in Seq(S), NEW t \in Seq(S)
  PROVE  /\ s \o t \in Seq(S) /\ Len(s \o t) = Len(s) + Len(t)
         /\ \A n \in 1 .. Len(s) : (s \o t)[n] = s[n]
         /\ \A n \in 1 .. Len(t) : (s \o t)[Len(s) + n] = t[n]
         /\ ToSet(s \o t) = ToSet(s) \cup ToSet(t)
<1>1. /\ s \o t \in Seq(S) /\ Len(s \o t) = Len(s) + Len(t)
      /\ Len(s) \in Nat /\ Len(t) \in Nat
      /\ \A n \in 1 .. Len(s) : (s \o t)[n] = s[n]
  OBVIOUS
<1>2. \A n \in 1 .. Len(t) : (s \o t)[Len(s) + n] = t[n]
  BY <1>1
<1>3. /\ DOMAIN s = 1 .. Len(s) /\ DOMAIN t = 1 .. Len(t)
      /\ DOMAIN (s \o t) = 1 .. Len(s) + Len(t)
  OBVIOUS
<1>4. ASSUME NEW n \in 1 .. Len(s) + Len(t)
      PROVE  (s \o t)[n] \in ToSet(s) \cup ToSet(t)
  <2>1. CASE n <= Len(s)
    BY <1>1, <1>3, <2>1 DEF ToSet
  <2>2. CASE n > Len(s)
    <3>1. n - Len(s) \in 1 .. Len(t) /\ n = Len(s) + (n - Len(s))
      BY <1>1, <2>2
    <3>2. (s \o t)[n] = t[n - Len(s)]
      BY <1>2, <3>1
    <3>. QED
      BY <1>3, <3>1, <3>2 DEF ToSet
  <2>. QED
    BY <1>1, <2>1, <2>2
<1>5. ToSet(s) \subseteq ToSet(s \o t) /\ ToSet(t) \subseteq ToSet(s \o t)
  <2>1. \A n \in 1 .. Len(s) : n \in 1 .. Len(s) + Len(t)
    BY <1>1
  <2>2. \A n \in 1 .. Len(t) : Len(s) + n \in 1 .. Len(s) + Len(t)
    BY <1>1
  <2>. QED
    BY <1>1, <1>2, <1>3, <2>1, <2>2 DEF ToSet
<1>6. ToSet(s \o t) \subseteq ToSet(s) \cup ToSet(t)
  BY <1>3, <1>4 DEF ToSet
<1>. QED
  BY <1>1, <1>2, <1>5, <1>6

(* Taking the head of a queue to the end of a sequence does not change     *)
(* what they make together.                                                *)
LEMMA MoveHead ==
  ASSUME NEW S, NEW s \in Seq(S), NEW t \in Seq(S), t # <<>>
  PROVE  Append(s, Head(t)) \o Tail(t) = s \o t
OBVIOUS

LEMMA AppendToConcat ==
  ASSUME NEW S, NEW s \in Seq(S), NEW t \in Seq(S), NEW x \in S
  PROVE  s \o Append(t, x) = Append(s \o t, x)
OBVIOUS

LEMMA OnTheWayElements ==
  ASSUME TypeOK
  PROVE  /\ OnTheWay \in Seq(Ids) /\ ToSet(OnTheWay) \subseteq Ids
         /\ ToSet(OnTheWay) = ToSet(written) \cup ToSet(outQ.items)
<1>1. written \in Seq(Ids) /\ outQ.items \in Seq(Ids)
  BY DEF TypeOK, Queue
<1>2. /\ OnTheWay \in Seq(Ids)
      /\ ToSet(OnTheWay) = ToSet(written) \cup ToSet(outQ.items)
  BY <1>1, ConcatElements DEF OnTheWay
<1>3. ToSet(OnTheWay) \subseteq Ids
  <2>1. ASSUME NEW s \in Seq(Ids) PROVE ToSet(s) \subseteq Ids
    BY DEF ToSet
  <2>. QED
    BY <1>2, <2>1
<1>. QED
  BY <1>2, <1>3

LEMMA WorkerOrderAppend ==
  ASSUME NEW s \in Seq(Ids), NEW x \in Ids, WorkerOrder(s),
         \A y \in ToSet(s) :
           y # x /\ (FPOf(FlowOf(y)) = FPOf(FlowOf(x)) => y < x)
  PROVE  WorkerOrder(Append(s, x))
<1>1. /\ Len(Append(s, x)) = Len(s) + 1 /\ Len(s) \in Nat
      /\ Append(s, x)[Len(s) + 1] = x
      /\ \A n \in 1 .. Len(s) : Append(s, x)[n] = s[n]
  OBVIOUS
<1>2. \A n \in 1 .. Len(s) :
        s[n] # x /\ (FPOf(FlowOf(s[n])) = FPOf(FlowOf(x)) => s[n] < x)
  BY DEF ToSet
<1>. QED
  BY <1>1, <1>2 DEF WorkerOrder

(* The head of a queue behind the sequence s: s does not hold it, and      *)
(* those behind it are later packets of the flow.                          *)
LEMMA HeadOfQueue ==
  ASSUME NEW s \in Seq(Ids), NEW t \in Seq(Ids), t # <<>>, WorkerOrder(s \o t)
  PROVE  /\ Head(t) \notin ToSet(s)
         /\ \A y \in ToSet(Tail(t)) : FlowOf(Head(t)) = FlowOf(y) => Head(t) < y
<1>1. /\ Len(s) \in Nat /\ Len(t) \in Nat \ {0} /\ Head(t) = t[1]
      /\ Len(Tail(t)) = Len(t) - 1
      /\ \A n \in 1 .. Len(t) - 1 : Tail(t)[n] = t[n + 1]
      /\ DOMAIN s = 1 .. Len(s) /\ DOMAIN Tail(t) = 1 .. Len(t) - 1
  OBVIOUS
<1>2. /\ Len(s \o t) = Len(s) + Len(t)
      /\ \A n \in 1 .. Len(s) : (s \o t)[n] = s[n]
      /\ \A n \in 1 .. Len(t) : (s \o t)[Len(s) + n] = t[n]
  BY ConcatElements
<1>3. (s \o t)[Len(s) + 1] = Head(t) /\ Len(s) + 1 \in 1 .. Len(s) + Len(t)
  BY <1>1, <1>2
<1>4. ASSUME NEW n \in 1 .. Len(s) PROVE s[n] # Head(t)
  <2>1. n \in 1 .. Len(s) + Len(t) /\ n < Len(s) + 1
    BY <1>1
  <2>. QED
    BY <1>2, <1>3, <2>1 DEF WorkerOrder
<1>5. ASSUME NEW n \in 1 .. Len(t) - 1, FlowOf(Head(t)) = FlowOf(Tail(t)[n])
      PROVE  Head(t) < Tail(t)[n]
  <2>1. /\ n + 1 \in 1 .. Len(t) /\ Len(s) + (n + 1) \in 1 .. Len(s) + Len(t)
        /\ Len(s) + 1 < Len(s) + (n + 1)
    BY <1>1
  <2>2. (s \o t)[Len(s) + (n + 1)] = Tail(t)[n]
    BY <1>1, <1>2, <2>1
  <2>. QED
    <3>. DEFINE v == s \o t
                a == Len(s) + 1
                b == Len(s) + (n + 1)
    <3>1. a \in 1 .. Len(v) /\ b \in 1 .. Len(v) /\ a < b
      BY <1>2, <1>3, <2>1
    <3>2. v[a] = Head(t) /\ v[b] = Tail(t)[n]
      BY <1>3, <2>2
    <3>3. WorkerOrder(v)
      OBVIOUS
    <3>. HIDE DEF v, a, b
    <3>4. FPOf(FlowOf(v[a])) = FPOf(FlowOf(v[b])) => v[a] < v[b]
      BY <3>1, <3>3 DEF WorkerOrder
    <3>5. FPOf(FlowOf(Head(t))) = FPOf(FlowOf(Tail(t)[n]))
      BY <1>5
    <3>. QED
      BY <3>2, <3>4, <3>5
<1>. QED
  BY <1>1, <1>4, <1>5 DEF ToSet

LEMMA DownstreamInit == Init => DownstreamOrder
<1>. SUFFICES ASSUME Init PROVE DownstreamOrder
  OBVIOUS
<1>1. /\ outQ.items = <<>> /\ written = <<>>
      /\ \A w \in FPs : fpPkt[w] = NoPkt
  BY DEF Init, NewQueue
<1>2. OnTheWay = <<>> /\ WorkerOrder(<<>>)
  BY <1>1 DEF OnTheWay, WorkerOrder
<1>. QED
  BY <1>1, <1>2 DEF DownstreamOrder, FPHandOrder

LEMMA DownstreamFrame ==
  ASSUME TypeOK, DownstreamOrder, UNCHANGED <<input, fpPkt>>,
         OnTheWay' = OnTheWay
  PROVE  DownstreamOrder'
<1>1. \A i : FlowOf(i)' = FlowOf(i)
  BY DEF FlowOf
<1>2. WorkerOrder(OnTheWay)'
  BY <1>1 DEF DownstreamOrder, WorkerOrder
<1>3. FPHandOrder'
  BY <1>1 DEF DownstreamOrder, FPHandOrder, FlowOf
<1>. QED
  BY <1>2, <1>3 DEF DownstreamOrder

(* The packet a worker has just decided to forward is the latest of that   *)
(* worker so far, and stands nowhere downstream yet.                       *)
LEMMA DownstreamTake ==
  ASSUME TypeOK, Held, UpstreamOrder, FlowTables, ForwardedKept,
         DownstreamOrder, NEW w \in FPs, FPTake(w)
  PROVE  DownstreamOrder'
<1>. DEFINE h == Head(fpQ[w].items)
            b == Inspect(rules, input[h], flows[w][FlowOf(h)]).blocked
<1>1. h \in Ids /\ Waits(h) /\ FPOf(FlowOf(h)) = w /\ verdict[h] = "none"
  <2>1. fpQ[w].items \in Seq(Nat) /\ fpQ[w].items # <<>>
    BY QueuedIds DEF FPTake, IsEmpty
  <2>2. h \in InFPQ(w)
    BY <2>1, TailElements DEF InFPQ
  <2>. QED
    BY <2>2, QueuedIds DEF UpstreamOrder, FPQueueOrder, Waits
<1>2. /\ fpPkt' = IF b THEN fpPkt ELSE [fpPkt EXCEPT ![w] = h]
      /\ UNCHANGED <<input, outQ, written>>
  BY DEF FPTake, givens, outVars
<1>3. fpPkt \in [FPs -> Ids \cup {NoPkt}] /\ ToSet(OnTheWay) \subseteq Ids
  BY OnTheWayElements DEF TypeOK
<1>. HIDE DEF h, b
<1>4. ~PassedOn(h)
  BY <1>1 DEF ForwardedKept
<1>5. h \notin ToSet(OnTheWay)
  BY <1>4, OnTheWayElements DEF PassedOn
<1>6. ASSUME NEW i \in ToSet(OnTheWay), FPOf(FlowOf(i)) = w PROVE i < h
  <2>1. i \in Ids /\ verdict[i] = "forwarded"
    BY <1>3, OnTheWayElements DEF ForwardedKept, PassedOn
  <2>2. ~(h < i)
    BY <1>1, <1>6, <2>1 DEF FlowTables, DecidedInOrder
  <2>. QED
    BY <1>1, <1>5, <2>1, <2>2 DEF Ids
<1>7. OnTheWay' = OnTheWay /\ \A i : FlowOf(i)' = FlowOf(i)
  BY <1>2 DEF OnTheWay, FlowOf
<1>8. WorkerOrder(OnTheWay)'
  BY <1>7 DEF DownstreamOrder, WorkerOrder
<1>9. ASSUME NEW x \in FPs, fpPkt'[x] # NoPkt
      PROVE  /\ FPOf(FlowOf(fpPkt'[x])) = x
             /\ \A i \in ToSet(OnTheWay) :
                  i # fpPkt'[x] /\ (FPOf(FlowOf(i)) = x => i < fpPkt'[x])
  <2>1. CASE ~b /\ x = w
    BY <1>1, <1>2, <1>3, <1>5, <1>6, <2>1
  <2>2. CASE b \/ x # w
    <3>1. fpPkt'[x] = fpPkt[x]
      BY <1>2, <1>3, <2>2
    <3>. QED
      BY <1>9, <3>1 DEF DownstreamOrder, FPHandOrder
  <2>. QED
    BY <2>1, <2>2
<1>10. FPHandOrder'
  BY <1>2, <1>7, <1>9 DEF FPHandOrder, FlowOf
<1>. QED
  BY <1>8, <1>10 DEF DownstreamOrder

LEMMA DownstreamPush ==
  ASSUME TypeOK, Held, StopOrder, DownstreamOrder, NEW w \in FPs, FPPush(w)
  PROVE  DownstreamOrder'
<1>1. fpPkt[w] \in Ids /\ ~outQ.down /\ fpPkt[w] # NoPkt
  BY DEF FPPush, TypeOK, Held, StopOrder
<1>2. /\ outQ.items \in Seq(Ids) /\ written \in Seq(Ids)
      /\ fpPkt \in [FPs -> Ids \cup {NoPkt}]
  BY DEF TypeOK, Queue
<1>3. /\ outQ'.items = Append(outQ.items, fpPkt[w])
      /\ fpPkt' = [fpPkt EXCEPT ![w] = NoPkt]
      /\ UNCHANGED <<input, written>>
  BY <1>1 DEF FPPush, Pushed, TypeOK, Queue, givens, outVars
<1>4. OnTheWay' = Append(OnTheWay, fpPkt[w]) /\ OnTheWay \in Seq(Ids)
  BY <1>1, <1>2, <1>3, AppendToConcat, OnTheWayElements DEF OnTheWay
<1>5. ToSet(OnTheWay') = ToSet(OnTheWay) \cup {fpPkt[w]}
  BY <1>1, <1>4, AppendElements
<1>6. \A i : FlowOf(i)' = FlowOf(i)
  BY <1>3 DEF FlowOf
<1>7. /\ FPOf(FlowOf(fpPkt[w])) = w
      /\ \A i \in ToSet(OnTheWay) :
           i # fpPkt[w] /\ (FPOf(FlowOf(i)) = w => i < fpPkt[w])
  BY <1>1 DEF DownstreamOrder, FPHandOrder
<1>8. WorkerOrder(OnTheWay)'
  <2>1. WorkerOrder(Append(OnTheWay, fpPkt[w]))
    BY <1>1, <1>4, <1>7, WorkerOrderAppend DEF DownstreamOrder
  <2>. QED
    BY <1>4, <1>6, <2>1 DEF WorkerOrder
<1>9. ASSUME NEW x \in FPs, fpPkt'[x] # NoPkt
      PROVE  /\ FPOf(FlowOf(fpPkt'[x])) = x
             /\ \A i \in ToSet(OnTheWay') :
                  i # fpPkt'[x] /\ (FPOf(FlowOf(i)) = x => i < fpPkt'[x])
  <2>1. x # w /\ fpPkt'[x] = fpPkt[x] /\ fpPkt[x] # NoPkt
    BY <1>2, <1>3, <1>9
  <2>2. /\ FPOf(FlowOf(fpPkt[x])) = x
        /\ \A i \in ToSet(OnTheWay) :
             i # fpPkt[x] /\ (FPOf(FlowOf(i)) = x => i < fpPkt[x])
    BY <2>1 DEF DownstreamOrder, FPHandOrder
  <2>3. fpPkt[w] # fpPkt[x]
    BY <1>7, <2>1, <2>2
  <2>. QED
    BY <1>5, <1>7, <2>1, <2>2, <2>3
<1>10. FPHandOrder'
  BY <1>3, <1>6, <1>9 DEF FPHandOrder, FlowOf
<1>. QED
  BY <1>8, <1>10 DEF DownstreamOrder

LEMMA DownstreamWrite ==
  ASSUME TypeOK, DownstreamOrder, OutWrite
  PROVE  DownstreamOrder'
<1>1. /\ outQ.items \in Seq(Ids) /\ outQ.items # <<>> /\ written \in Seq(Ids)
      /\ outQ'.items = Tail(outQ.items)
      /\ written' = Append(written, Head(outQ.items))
      /\ UNCHANGED <<input, fpPkt>>
  BY DEF OutWrite, IsEmpty, Popped, givens, fpVars, TypeOK, Queue
<1>2. OnTheWay' = OnTheWay
  BY <1>1, MoveHead DEF OnTheWay
<1>. QED
  BY <1>1, <1>2, DownstreamFrame

LEMMA DownstreamStep ==
  TypeOK /\ Held /\ StopOrder /\ UpstreamOrder /\ FlowTables /\ ForwardedKept
    /\ DownstreamOrder /\ [Next]_vars => DownstreamOrder'
<1>. SUFFICES ASSUME TypeOK, Held, StopOrder, UpstreamOrder, FlowTables,
                     ForwardedKept, DownstreamOrder, [Next]_vars
              PROVE  DownstreamOrder'
  OBVIOUS
<1>. USE DEF givens, fpVars, outVars, OnTheWay
<1>1. CASE Main
  <2>1. UNCHANGED <<input, fpPkt, written>> /\ outQ'.items = outQ.items
    BY <1>1 DEF Main, ReadSkip, ReadPacket, Dispatch, ReadEOF, WakeUp, StopLB,
       ShutLB, JoinLB, StopFP, ShutFP, JoinFP, StopOut, ShutOut, JoinOut,
       ShutDown, TypeOK, Queue
  <2>. QED
    BY <2>1, DownstreamFrame
<1>2. ASSUME NEW l \in LBs, LB(l) PROVE DownstreamOrder'
  BY <1>2, DownstreamFrame DEF LB, LBLoop, LBPop, LBPopNothing, LBPush
<1>3. ASSUME NEW w \in FPs, FP(w) PROVE DownstreamOrder'
  <2>1. CASE FPTake(w)
    BY <2>1, DownstreamTake
  <2>2. CASE FPPush(w)
    BY <2>2, DownstreamPush
  <2>3. CASE FPLoop(w) \/ FPPopNothing(w)
    BY <2>3, DownstreamFrame DEF FPLoop, FPPopNothing
  <2>. QED
    BY <1>3, <2>1, <2>2, <2>3 DEF FP
<1>4. CASE Out
  <2>1. CASE OutWrite
    BY <2>1, DownstreamWrite
  <2>2. CASE OutLoop \/ OutPopNothing
    BY <2>2, DownstreamFrame DEF OutLoop, OutPopNothing
  <2>. QED
    BY <1>4, <2>1, <2>2 DEF Out
<1>5. CASE UNCHANGED vars
  BY <1>5, DownstreamFrame DEF vars
<1>. QED
  BY <1>1, <1>2, <1>3, <1>4, <1>5 DEF Next, Finished
-----------------------------------------------------------------------------
(* The two order properties, which Lists states of whole sequences, follow *)
(* from the invariants above place by place.                               *)
Ascends(s, S) ==
  \A m, n \in 1 .. Len(s) : m < n /\ s[m] \in S /\ s[n] \in S => s[m] < s[n]

LEMMA AscendsConcat ==
  ASSUME NEW S \in SUBSET Nat, NEW s \in Seq(Ids), NEW t \in Seq(Ids),
         Ascends(s, S), Ascends(t, S),
         \A x \in ToSet(s) \cap S, y \in ToSet(t) \cap S : x < y
  PROVE  Ascends(s \o t, S)
<1>1. /\ Len(s) \in Nat /\ Len(t) \in Nat /\ Len(s \o t) = Len(s) + Len(t)
      /\ \A n \in 1 .. Len(s) : (s \o t)[n] = s[n]
      /\ \A n \in 1 .. Len(t) : (s \o t)[Len(s) + n] = t[n]
  BY ConcatElements
<1>2. ASSUME NEW m \in 1 .. Len(s \o t), NEW n \in 1 .. Len(s \o t), m < n,
             (s \o t)[m] \in S, (s \o t)[n] \in S
      PROVE  (s \o t)[m] < (s \o t)[n]
  <2>1. CASE n <= Len(s)
    <3>1. m \in 1 .. Len(s) /\ n \in 1 .. Len(s)
      BY <1>1, <1>2, <2>1
    <3>. QED
      BY <1>1, <1>2, <3>1 DEF Ascends
  <2>2. CASE m <= Len(s) /\ n > Len(s)
    <3>1. m \in 1 .. Len(s) /\ n - Len(s) \in 1 .. Len(t)
          /\ Len(s) + (n - Len(s)) = n
      BY <1>1, <1>2, <2>2
    <3>2. (s \o t)[m] = s[m] /\ (s \o t)[n] = t[n - Len(s)]
      BY <1>1, <3>1
    <3>3. s[m] \in ToSet(s) /\ t[n - Len(s)] \in ToSet(t)
      BY <3>1 DEF ToSet
    <3>. QED
      BY <1>2, <3>2, <3>3
  <2>3. CASE m > Len(s)
    <3>1. /\ m - Len(s) \in 1 .. Len(t) /\ n - Len(s) \in 1 .. Len(t)
          /\ m - Len(s) < n - Len(s)
          /\ Len(s) + (m - Len(s)) = m /\ Len(s) + (n - Len(s)) = n
      BY <1>1, <1>2, <2>3
    <3>2. (s \o t)[m] = t[m - Len(s)] /\ (s \o t)[n] = t[n - Len(s)]
      BY <1>1, <3>1
    <3>. QED
      BY <1>2, <3>1, <3>2 DEF Ascends
  <2>. QED
    BY <1>1, <1>2, <2>1, <2>2, <2>3
<1>. QED
  BY <1>2 DEF Ascends

(* A hand holds nothing or one packet.                                     *)
LEMMA OneElements ==
  ASSUME NEW i \in Ids \cup {NoPkt}
  PROVE  /\ One(i) \in Seq(Ids)
         /\ ToSet(One(i)) = IF i = NoPkt THEN {} ELSE {i}
         /\ \A S : Ascends(One(i), S)
<1>1. CASE i = NoPkt
  BY <1>1 DEF One, ToSet, Ascends
<1>2. CASE i # NoPkt
  <2>1. i \in Ids /\ One(i) = <<i>>
    BY <1>2 DEF One
  <2>2. Len(<<i>>) = 1 /\ <<i>>[1] = i /\ DOMAIN <<i>> = {1}
    OBVIOUS
  <2>. QED
    BY <1>2, <2>1, <2>2 DEF ToSet, Ascends
<1>. QED
  BY <1>1, <1>2

(* The load balancer that feeds a worker is its owner.                     *)
LEMMA OwnerOfWorker ==
  ASSUME NEW t \in Tuples
  PROVE  Owner(FPOf(t)) = LBOf(t)
<1>1. /\ NumLBs \in Nat \ {0} /\ FpsPerLB \in Nat \ {0} /\ HashOf(t) \in Nat
  BY PipelineAssumption
<1>2. LBOf(t) \in Nat /\ HashOf(t) % FpsPerLB \in 0 .. FpsPerLB - 1
  BY <1>1 DEF LBOf
<1>3. ASSUME NEW l \in Nat, NEW r \in Nat, NEW f \in Nat \ {0}, r < f
      PROVE  ((l * f) + r) \div f = l
  BY <1>3
<1>4. FPOf(t) = (LBOf(t) * FpsPerLB) + (HashOf(t) % FpsPerLB)
  BY DEF FPOf, WorkerOf
<1>5. ((LBOf(t) * FpsPerLB) + (HashOf(t) % FpsPerLB)) \div FpsPerLB = LBOf(t)
  <2>1. /\ HashOf(t) % FpsPerLB \in Nat /\ HashOf(t) % FpsPerLB < FpsPerLB
        /\ FpsPerLB \in Nat \ {0} /\ LBOf(t) \in Nat
    BY <1>1, <1>2
  <2>. QED
    BY <1>3, <2>1
<1>. QED
  BY <1>4, <1>5 DEF Owner

LEMMA UpstreamLists ==
  TypeOK /\ Held /\ UpstreamOrder => UpstreamInOrder
<1>. SUFFICES ASSUME TypeOK, Held, UpstreamOrder, NEW w \in FPs
              PROVE  /\ Lists(Upstream(w), w, Undecided(w))
                     /\ ToSet(fpQ[w].items) \subseteq Undecided(w)
  BY DEF UpstreamInOrder
<1>. DEFINE l == Owner(w)
            S == Undecided(w)
<1>1. S \subseteq Ids /\ S \subseteq Nat
      /\ \A i \in S : Waits(i) /\ FPOf(FlowOf(i)) = w /\ LBOf(FlowOf(i)) = l
  <2>1. S \subseteq Ids /\ S \subseteq Nat
    BY QueuedIds DEF Undecided, Ids
  <2>. QED
    BY <2>1, QueuedIds, OwnerOfWorker DEF Undecided, Waits
<1>2. l \in LBs
  BY PipelineAssumption DEF Owner, LBs, FPs
<1>3. /\ fpQ[w].items \in Seq(Ids) /\ lbQ[l].items \in Seq(Ids)
      /\ lbPkt[l] \in Ids \cup {NoPkt} /\ AtReader \in Seq(Ids)
      /\ ToSet(AtReader) = {i \in Ids : Dispatching(i)}
      /\ Ascends(AtReader, S)
  <2>1. fpQ[w].items \in Seq(Ids) /\ lbQ[l].items \in Seq(Ids)
        /\ lbPkt[l] \in Ids \cup {NoPkt}
    BY <1>2 DEF TypeOK, Queue
  <2>2. CASE mainPc = "dispatch"
    <3>1. pos \in Ids /\ AtReader = One(pos) /\ pos # NoPkt
      BY <2>2 DEF Held, AtReader, One, Ids
    <3>. QED
      BY <2>1, <2>2, <3>1, OneElements DEF Dispatching
  <2>3. CASE mainPc # "dispatch"
    <3>1. AtReader = One(NoPkt)
      BY <2>3 DEF AtReader, One
    <3>. QED
      BY <2>1, <2>3, <3>1, OneElements DEF Dispatching
  <2>. QED
    BY <2>2, <2>3
<1>. HIDE DEF l
<1>4. \A i \in InFPQ(w) : i \in S
  BY DEF UpstreamOrder, FPQueueOrder, Waits, Undecided
<1>5. Ascends(fpQ[w].items, S) /\ Ascends(lbQ[l].items, S)
  BY <1>2 DEF UpstreamOrder, QueuesAscend, Ascending, Ascends
<1>. DEFINE a == fpQ[w].items \o One(lbPkt[l])
            b == a \o lbQ[l].items
<1>6. a \in Seq(Ids) /\ ToSet(a) = InFPQ(w) \cup ToSet(One(lbPkt[l])) /\ Ascends(a, S)
  <2>1. \A x \in InFPQ(w) \cap S, y \in ToSet(One(lbPkt[l])) \cap S : x < y
    BY <1>1, <1>3, OneElements DEF UpstreamOrder, FPQueueOrder
  <2>2. One(lbPkt[l]) \in Seq(Ids) /\ Ascends(One(lbPkt[l]), S)
    BY <1>3, OneElements
  <2>3. Ascends(a, S)
    BY <1>1, <1>3, <1>5, <2>1, <2>2, AscendsConcat DEF InFPQ
  <2>. QED
    BY <1>3, <2>2, <2>3, ConcatElements DEF InFPQ
<1>. HIDE DEF a
<1>7. b \in Seq(Ids) /\ ToSet(b) = ToSet(a) \cup InLBQ(l) /\ Ascends(b, S)
  <2>1. \A x \in ToSet(a) \cap S, y \in InLBQ(l) \cap S : x < y
    <3>1. \A x \in InFPQ(w), y \in InLBQ(l) : x \in S => x < y
      BY <1>1 DEF UpstreamOrder, FPQueueOrder
    <3>2. \A x \in ToSet(One(lbPkt[l])), y \in InLBQ(l) : x < y
      BY <1>2, <1>3, OneElements DEF UpstreamOrder, LBQueueOrder
    <3>. QED
      BY <1>6, <3>1, <3>2
  <2>2. Ascends(b, S)
    BY <1>1, <1>3, <1>5, <1>6, <2>1, AscendsConcat DEF InLBQ
  <2>. QED
    BY <1>3, <1>6, <2>2, ConcatElements DEF InLBQ
<1>. HIDE DEF b
<1>8. Upstream(w) = b \o AtReader
  BY DEF Upstream, a, b, l
<1>9. \A x \in ToSet(b) : Waits(x) /\ ~Dispatching(x)
  <2>1. /\ \A x \in InFPQ(w) : Waits(x) /\ ~Dispatching(x)
        /\ \A x \in InLBQ(l) : Waits(x) /\ ~Dispatching(x)
    BY <1>2 DEF UpstreamOrder, FPQueueOrder, LBQueueOrder
  <2>2. \A x \in ToSet(One(lbPkt[l])) : Waits(x) /\ ~Dispatching(x)
    BY <1>2, <1>3, OneElements DEF UpstreamOrder, LBHandOrder
  <2>. QED
    BY <1>6, <1>7, <2>1, <2>2
<1>10. /\ Upstream(w) \in Seq(Ids)
      /\ ToSet(Upstream(w)) = ToSet(b) \cup {i \in Ids : Dispatching(i)}
      /\ Ascends(Upstream(w), S)
  <2>1. \A x \in ToSet(b) \cap S, y \in {i \in Ids : Dispatching(i)} \cap S : x < y
    <3>1. \A x \in ToSet(b) : ~Dispatching(x)
      BY <1>9
    <3>2. \A x \in S : x <= pos /\ x \in Nat /\ pos \in Nat
      BY QueuedIds DEF Undecided
    <3>. QED
      BY <3>1, <3>2 DEF Dispatching
  <2>. QED
    BY <1>1, <1>3, <1>7, <1>8, <2>1, ConcatElements, AscendsConcat
<1>11. {i \in ToSet(Upstream(w)) : FPOf(FlowOf(i)) = w} = S
  <2>1. ASSUME NEW i \in ToSet(Upstream(w)), FPOf(FlowOf(i)) = w PROVE i \in S
    <3>1. Waits(i)
      BY <1>10, <1>9 DEF UpstreamOrder, ReaderHolds, Dispatching
    <3>. QED
      BY <2>1, <3>1 DEF Waits, Undecided
  <2>2. ASSUME NEW i \in S PROVE i \in ToSet(Upstream(w)) /\ FPOf(FlowOf(i)) = w
    <3>1. /\ i \in Ids /\ FPOf(FlowOf(i)) = w /\ i # NoPkt
          /\ \/ Dispatching(i) \/ i \in InLBQ(l) \/ lbPkt[l] = i \/ i \in InFPQ(w)
      BY <1>1 DEF UpstreamOrder, NoneVanished, Ids
    <3>. QED
      BY <1>3, <1>6, <1>7, <1>10, <3>1, OneElements
  <2>. HIDE DEF S
  <2>. QED
    BY <2>1, <2>2
<1>12. DOMAIN Upstream(w) = 1 .. Len(Upstream(w))
  BY <1>10
<1>. QED
  BY <1>4, <1>10, <1>11, <1>12 DEF Lists, Ascends, InFPQ

(* At every moment the packets on their way to a worker are its undecided  *)
(* ones, each once and in capture order.                                   *)
THEOREM NothingLostUpstream == Spec => []UpstreamInOrder
BY UpstreamLists, TypeInit, TypeStep, StopOrderInit, StopOrderStep,
   UpstreamInit, UpstreamStep, PTL DEF Spec

LEMMA DownstreamLists ==
  TypeOK /\ Held /\ ForwardedKept /\ DownstreamOrder => DownstreamInOrder
<1>. SUFFICES ASSUME TypeOK, Held, ForwardedKept, DownstreamOrder, NEW w \in FPs
              PROVE  /\ Lists(Downstream(w), w,
                              {i \in Forwarded : FPOf(FlowOf(i)) = w})
                     /\ fpPkt[w] # NoPkt => FPOf(FlowOf(fpPkt[w])) = w
  BY DEF DownstreamInOrder
<1>. DEFINE S == {i \in Forwarded : FPOf(FlowOf(i)) = w}
<1>1. S \subseteq Ids /\ S \subseteq Nat
  BY DEF Forwarded, Ids
<1>2. OnTheWay \in Seq(Ids) /\ fpPkt[w] \in Ids \cup {NoPkt}
      /\ Downstream(w) = OnTheWay \o One(fpPkt[w])
  BY OnTheWayElements DEF TypeOK, Downstream, OnTheWay
<1>3. Ascends(OnTheWay, S)
  BY DEF DownstreamOrder, WorkerOrder, Ascends
<1>4. /\ Downstream(w) \in Seq(Ids)
      /\ ToSet(Downstream(w)) = ToSet(OnTheWay) \cup ToSet(One(fpPkt[w]))
      /\ Ascends(Downstream(w), S)
  <2>1. \A x \in ToSet(OnTheWay) \cap S, y \in ToSet(One(fpPkt[w])) \cap S : x < y
    BY <1>2, OneElements DEF DownstreamOrder, FPHandOrder
  <2>. HIDE DEF S
  <2>2. One(fpPkt[w]) \in Seq(Ids) /\ Ascends(One(fpPkt[w]), S)
    BY <1>2, OneElements
  <2>3. Ascends(OnTheWay \o One(fpPkt[w]), S)
    BY <1>1, <1>2, <1>3, <2>1, <2>2, AscendsConcat
  <2>. QED
    BY <1>2, <2>2, <2>3, ConcatElements
<1>5. {i \in ToSet(Downstream(w)) : FPOf(FlowOf(i)) = w} = S
  <2>1. ASSUME NEW i \in Ids, FPOf(FlowOf(i)) = w
        PROVE  i \in ToSet(Downstream(w)) <=> verdict[i] = "forwarded"
    <3>1. \A x \in FPs : fpPkt[x] = i => x = w
      BY <2>1 DEF DownstreamOrder, FPHandOrder, Ids
    <3>2. verdict[i] = "forwarded" <=> i \in ToSet(OnTheWay) \/ fpPkt[w] = i
      BY <3>1, OnTheWayElements DEF ForwardedKept, PassedOn
    <3>. QED
      BY <1>2, <1>4, <3>2, OneElements DEF Ids
  <2>2. ToSet(Downstream(w)) \subseteq Ids
    BY <1>2, <1>4, OnTheWayElements, OneElements
  <2>. QED
    BY <2>1, <2>2 DEF Forwarded
<1>6. DOMAIN Downstream(w) = 1 .. Len(Downstream(w))
  BY <1>4
<1>. QED
  BY <1>4, <1>5, <1>6 DEF Lists, Ascends, DownstreamOrder, FPHandOrder

(* At every moment the packets between a worker and the file are those it  *)
(* has forwarded, each once and in capture order.                          *)
THEOREM NothingLostDownstream == Spec => []DownstreamInOrder
BY DownstreamLists, TypeInit, TypeStep, StopOrderInit, StopOrderStep,
   UpstreamInit, UpstreamStep, FlowTablesInit, FlowTablesStep,
   ForwardedKeptInit, ForwardedKeptStep, DownstreamInit, DownstreamStep,
   PTL DEF Spec
-----------------------------------------------------------------------------
(* Every counter of the report counts a set of packets: those read, those  *)
(* a load balancer has handed over, those forwarded and those dropped.     *)
Read == {i \in 1 .. pos : input[i].parsed}
HandedOver == {i \in Ids : verdict[i] # "none" \/ \E w \in FPs : i \in InFPQ(w)}
Dropped == {i \in Ids : verdict[i] = "dropped"}

CountsRead == total = Cardinality(Read)
CountsHanded == SumFunction(dispatched) = Cardinality(HandedOver)
CountsDecided ==
  /\ forwarded = Cardinality(Forwarded) /\ dropped = Cardinality(Dropped)
  /\ SumFunction(processed) = forwarded + dropped
  /\ SumFunction(appCounts) = forwarded + dropped

DecidedRead == \A i \in Ids : verdict[i] # "none" => i \in Read

Counters == CountsRead /\ CountsHanded /\ CountsDecided /\ DecidedRead

LEMMA FiniteThreads ==
  IsFiniteSet(LBs) /\ IsFiniteSet(FPs) /\ IsFiniteSet(AppTypes)
<1>1. NumLBs \in Nat /\ FpsPerLB \in Nat
  BY PipelineAssumption
<1>2. NumLBs - 1 \in Int /\ (NumLBs * FpsPerLB) - 1 \in Int
  BY <1>1
<1>3. IsFiniteSet(LBs) /\ IsFiniteSet(FPs)
  BY <1>2, FS_Interval DEF LBs, FPs
<1>. QED
  BY <1>3, PipelineAssumption

LEMMA FiniteIds ==
  ASSUME TypeOK
  PROVE  \A S \in SUBSET Ids : IsFiniteSet(S) /\ Cardinality(S) \in Nat
<1>1. IsFiniteSet(Ids)
  BY InputType, FS_Interval DEF Ids
<1>. QED
  BY <1>1, FS_Subset, FS_CardinalityType

(* A set of packets that gains one gains one in number.                    *)
LEMMA OneMore ==
  ASSUME TypeOK, NEW S \in SUBSET Ids, NEW i \in Ids, i \notin S
  PROVE  Cardinality(S \cup {i}) = Cardinality(S) + 1
BY FiniteIds, FS_AddElement

LEMMA CountersInit == Init => Counters
<1>. SUFFICES ASSUME Init PROVE Counters
  OBVIOUS
<1>1. Read = {} /\ HandedOver = {} /\ Forwarded = {} /\ Dropped = {}
  <2>1. \A w \in FPs : InFPQ(w) = {}
    BY DEF Init, NewQueue, InFPQ, ToSet
  <2>2. \A i \in Ids : verdict[i] = "none"
    BY DEF Init
  <2>. QED
    BY <2>1, <2>2 DEF Init, Read, HandedOver, Forwarded, Dropped
<1>2. Cardinality({}) = 0
  BY FS_EmptySet
<1>3. /\ dispatched = [l \in LBs |-> 0] /\ processed = [w \in FPs |-> 0]
      /\ appCounts = [a \in AppTypes |-> 0]
      /\ total = 0 /\ forwarded = 0 /\ dropped = 0
  BY DEF Init
<1>4. /\ SumFunction(dispatched) = 0 /\ SumFunction(processed) = 0
      /\ SumFunction(appCounts) = 0
  BY <1>3, FiniteThreads, SumOfZeros
<1>5. \A i \in Ids : verdict[i] = "none"
  BY DEF Init
<1>. QED
  BY <1>1, <1>2, <1>3, <1>4, <1>5
  DEF Counters, CountsRead, CountsHanded, CountsDecided, DecidedRead

LEMMA CountersFrame ==
  ASSUME Counters,
         UNCHANGED <<input, pos, verdict, dispatched, processed, total,
                     forwarded, dropped, appCounts>>,
         \A w \in FPs : fpQ'[w].items = fpQ[w].items
  PROVE  Counters'
<1>1. /\ Ids' = Ids /\ Read' = Read /\ Forwarded' = Forwarded
      /\ Dropped' = Dropped
  BY DEF Ids, Read, Forwarded, Dropped
<1>2. HandedOver' = HandedOver
  BY <1>1 DEF HandedOver, InFPQ
<1>. QED
  BY <1>1, <1>2
  DEF Counters, CountsRead, CountsHanded, CountsDecided, DecidedRead

LEMMA CountersRead ==
  ASSUME TypeOK, Counters, ReadSkip \/ ReadPacket
  PROVE  Counters'
<1>1. /\ pos' = pos + 1 /\ pos + 1 \in Ids /\ pos \in Nat
      /\ UNCHANGED <<input, verdict, dispatched, processed, forwarded,
                     dropped, appCounts, fpQ>>
  BY InputType DEF ReadSkip, ReadPacket, givens, decided, lbVars, fpVars, TypeOK, Ids
<1>2. /\ Ids' = Ids /\ Forwarded' = Forwarded /\ Dropped' = Dropped
      /\ HandedOver' = HandedOver
  BY <1>1 DEF Ids, Forwarded, Dropped, HandedOver, InFPQ
<1>3. Read' = IF input[pos + 1].parsed THEN Read \cup {pos + 1} ELSE Read
  BY <1>1 DEF Read
<1>4. Read \in SUBSET Ids /\ pos + 1 \notin Read
  BY <1>1, InputType DEF Read, Ids, TypeOK
<1>5. CountsRead'
  <2>1. CASE ReadSkip
    BY <1>3, <2>1 DEF ReadSkip, Counters, CountsRead
  <2>2. CASE ReadPacket
    BY <1>1, <1>3, <1>4, <2>2, OneMore DEF ReadPacket, Counters, CountsRead
  <2>. QED
    BY <2>1, <2>2
<1>. QED
  BY <1>1, <1>2, <1>3, <1>5
  DEF Counters, CountsHanded, CountsDecided, DecidedRead

LEMMA CountersLBPush ==
  ASSUME TypeOK, Held, StopOrder, UpstreamOrder, Counters,
         NEW l \in LBs, LBPush(l)
  PROVE  Counters'
<1>1. PICK i \in Ids : i = lbPkt[l]
  BY DEF LBPush, Held, TypeOK
<1>2. Waits(i) /\ LBOf(FlowOf(i)) = l /\ i # NoPkt
  BY <1>1 DEF UpstreamOrder, LBHandOrder, LBPush, Held
<1>3. PICK w \in FPs : w = FPOf(FlowOf(i))
  BY QueuedIds
<1>4. w = WorkerOf(l, FlowOf(lbPkt[l]))
  BY <1>1, <1>2, <1>3 DEF FPOf
<1>5. ~fpQ[w].down
  BY DEF StopOrder, LBPush
<1>6. /\ fpQ'[w].items = Append(fpQ[w].items, i)
      /\ \A x \in FPs : x # w => fpQ'[x] = fpQ[x]
  BY <1>1, <1>4, <1>5 DEF LBPush, Pushed, TypeOK, Queue
<1>7. InFPQ(w)' = InFPQ(w) \cup {i}
        /\ \A x \in FPs : x # w => InFPQ(x)' = InFPQ(x)
  BY <1>6, QueuedIds, AppendElements DEF InFPQ
<1>8. /\ dispatched' = [dispatched EXCEPT ![l] = @ + 1]
      /\ UNCHANGED <<input, pos, verdict, processed, total, forwarded,
                     dropped, appCounts>>
  BY DEF LBPush, givens, mainVars, fpVars, decided
<1>9. /\ Ids' = Ids /\ Read' = Read /\ Forwarded' = Forwarded
      /\ Dropped' = Dropped
  BY <1>8 DEF Ids, Read, Forwarded, Dropped
<1>10. HandedOver' = HandedOver \cup {i}
  BY <1>7, <1>8, <1>9 DEF HandedOver
<1>11. i \notin HandedOver
  <2>1. verdict[i] = "none"
    BY <1>2 DEF Waits
  <2>2. ASSUME NEW x \in FPs, i \in InFPQ(x) PROVE FALSE
    BY <1>1, <1>2, <2>2, QueuedIds DEF UpstreamOrder, FPQueueOrder
  <2>. QED
    BY <2>1, <2>2 DEF HandedOver
<1>12. HandedOver \in SUBSET Ids
  BY DEF HandedOver
<1>13. SumFunction(dispatched') = SumFunction(dispatched) + 1
  BY <1>8, FiniteThreads, SumCountsUp DEF TypeOK
<1>14. CountsHanded'
  BY <1>10, <1>11, <1>12, <1>13, OneMore DEF Counters, CountsHanded
<1>. QED
  BY <1>8, <1>9, <1>14 DEF Counters, CountsRead, CountsDecided, DecidedRead

LEMMA CountersTake ==
  ASSUME TypeOK, UpstreamOrder, Counters, NEW w \in FPs, FPTake(w)
  PROVE  Counters'
<1>1. fpQ[w].items \in Seq(Nat) /\ fpQ[w].items # <<>>
  BY QueuedIds DEF FPTake, IsEmpty
<1>2. PICK i \in Ids : i = Head(fpQ[w].items)
  BY <1>1, QueuedIds, TailElements DEF InFPQ
<1>3. /\ fpQ'[w].items = Tail(fpQ[w].items)
      /\ \A x \in FPs : x # w => fpQ'[x] = fpQ[x]
  BY DEF FPTake, Popped, TypeOK, Queue
<1>4. /\ InFPQ(w) = {i} \cup InFPQ(w)'
      /\ \A x \in FPs : x # w => InFPQ(x)' = InFPQ(x)
  BY <1>1, <1>2, <1>3, TailElements DEF InFPQ
<1>5. verdict[i] = "none" /\ i \in Read
  BY <1>4 DEF UpstreamOrder, FPQueueOrder, Waits, Read
<1>. DEFINE entry == Inspect(rules, input[i], flows[w][FlowOf(i)])
<1>6. entry.app_type \in AppTypes /\ entry.blocked \in BOOLEAN
  <2>1. input[i] \in Packet /\ flows[w][FlowOf(i)] \in FlowEntry /\ rules \in RuleSet
    BY InputType DEF TypeOK
  <2>2. entry \in FlowEntry
    BY <2>1, InspectType
  <2>. QED
    BY <2>2 DEF FlowEntry
<1>7. /\ processed' = [processed EXCEPT ![w] = @ + 1]
      /\ appCounts' = [appCounts EXCEPT ![entry.app_type] = @ + 1]
      /\ UNCHANGED <<input, pos, dispatched, total>>
  BY <1>2 DEF FPTake, RecordApp, givens, mainVars, lbVars
<1>8. \/ /\ verdict' = [verdict EXCEPT ![i] = "dropped"]
         /\ dropped' = dropped + 1 /\ forwarded' = forwarded
      \/ /\ verdict' = [verdict EXCEPT ![i] = "forwarded"]
         /\ forwarded' = forwarded + 1 /\ dropped' = dropped
  BY <1>2, <1>6 DEF FPTake
<1>. HIDE DEF entry
<1>9. /\ verdict'[i] \in {"forwarded", "dropped"}
      /\ \A j \in Ids : j # i => verdict'[j] = verdict[j]
  BY <1>8 DEF TypeOK
<1>10. Ids' = Ids /\ Read' = Read
  BY <1>7 DEF Ids, Read
<1>11. SumFunction(processed') = SumFunction(processed) + 1
  BY <1>7, FiniteThreads, SumCountsUp DEF TypeOK
<1>12. SumFunction(appCounts') = SumFunction(appCounts) + 1
  BY <1>6, <1>7, FiniteThreads, SumCountsUp DEF TypeOK
<1>13. /\ Forwarded \in SUBSET Ids /\ i \notin Forwarded
       /\ Dropped \in SUBSET Ids /\ i \notin Dropped
  BY <1>5 DEF Forwarded, Dropped
<1>14. CountsDecided'
  <2>. USE DEF Counters, CountsDecided
  <2>1. forwarded \in Nat /\ dropped \in Nat
    BY DEF TypeOK
  <2>2. /\ Cardinality(Forwarded \cup {i}) = forwarded + 1
        /\ Cardinality(Dropped \cup {i}) = dropped + 1
    BY <1>13, OneMore
  <2>3. CASE /\ verdict' = [verdict EXCEPT ![i] = "dropped"]
             /\ dropped' = dropped + 1 /\ forwarded' = forwarded
    <3>1. Forwarded' = Forwarded /\ Dropped' = Dropped \cup {i}
      BY <1>5, <1>10, <2>3 DEF Forwarded, Dropped, TypeOK
    <3>. QED
      BY <1>11, <1>12, <2>3, <2>1, <2>2, <3>1
  <2>4. CASE /\ verdict' = [verdict EXCEPT ![i] = "forwarded"]
             /\ forwarded' = forwarded + 1 /\ dropped' = dropped
    <3>1. Forwarded' = Forwarded \cup {i} /\ Dropped' = Dropped
      BY <1>5, <1>10, <2>4 DEF Forwarded, Dropped, TypeOK
    <3>. QED
      BY <1>11, <1>12, <2>4, <2>1, <2>2, <3>1
  <2>. QED
    BY <1>8, <2>3, <2>4
<1>15. HandedOver' = HandedOver
  BY <1>4, <1>9, <1>10 DEF HandedOver
<1>16. CountsRead' /\ CountsHanded' /\ DecidedRead'
  BY <1>5, <1>7, <1>9, <1>10, <1>15
  DEF Counters, CountsRead, CountsHanded, DecidedRead
<1>. QED
  BY <1>14, <1>16 DEF Counters

LEMMA CountersStep ==
  TypeOK /\ Held /\ StopOrder /\ UpstreamOrder /\ Counters /\ [Next]_vars
    => Counters'
<1>. SUFFICES ASSUME TypeOK, Held, StopOrder, UpstreamOrder, Counters,
                     [Next]_vars
              PROVE  Counters'
  OBVIOUS
<1>. USE DEF givens, mainVars, lbVars, fpVars, outVars, decided
<1>1. CASE ReadSkip \/ ReadPacket
  BY <1>1, CountersRead
<1>2. CASE Dispatch \/ ReadEOF \/ WakeUp \/ StopLB \/ ShutLB \/ JoinLB
             \/ StopFP \/ JoinFP \/ StopOut \/ ShutOut \/ JoinOut
  BY <1>2, CountersFrame
  DEF Dispatch, ReadEOF, WakeUp, StopLB, ShutLB, JoinLB, StopFP, JoinFP,
      StopOut, ShutOut, JoinOut
<1>3. CASE ShutFP
  BY <1>3, CountersFrame DEF ShutFP, ShutDown, TypeOK, Queue
<1>4. ASSUME NEW l \in LBs, LB(l) PROVE Counters'
  <2>1. CASE LBPush(l)
    BY <2>1, CountersLBPush
  <2>2. CASE LBLoop(l) \/ LBPop(l) \/ LBPopNothing(l)
    BY <2>2, CountersFrame DEF LBLoop, LBPop, LBPopNothing
  <2>. QED
    BY <1>4, <2>1, <2>2 DEF LB
<1>5. ASSUME NEW w \in FPs, FP(w) PROVE Counters'
  <2>1. CASE FPTake(w)
    BY <2>1, CountersTake
  <2>2. CASE FPLoop(w) \/ FPPopNothing(w) \/ FPPush(w)
    BY <2>2, CountersFrame DEF FPLoop, FPPopNothing, FPPush
  <2>. QED
    BY <1>5, <2>1, <2>2 DEF FP
<1>6. CASE Out
  BY <1>6, CountersFrame DEF Out, OutLoop, OutWrite, OutPopNothing
<1>7. CASE UNCHANGED vars
  BY <1>7, CountersFrame DEF vars
<1>. QED
  BY <1>1, <1>2, <1>3, <1>4, <1>5, <1>6, <1>7 DEF Next, Main, Finished
-----------------------------------------------------------------------------
(* A flow entry has a name only once it is classified by that name, so the *)
(* report maps every name to the application of that name.                 *)
EntryNamed(entry) ==
  entry.sni # "" => entry.classified /\ entry.app_type = SniToAppType(entry.sni)

NamesMapped ==
  /\ \A w \in FPs, t \in Tuples : EntryNamed(flows[w][t])
  /\ \A n \in Names : detected[n] \in {"none", SniToAppType(n)}

LEMMA InspectNames ==
  ASSUME NEW rs \in RuleSet, NEW pkt \in Packet, NEW flow \in FlowEntry,
         EntryNamed(flow)
  PROVE  EntryNamed(Inspect(rs, pkt, flow))
<1>. DEFINE counted == Counted(flow)
            classed == Classified(pkt, counted)
<1>1. counted \in FlowEntry /\ EntryNamed(counted)
  <2>1. counted \in FlowEntry
    BY DEF Counted, FlowEntry
  <2>2. /\ counted.sni = flow.sni /\ counted.app_type = flow.app_type
        /\ counted.classified = flow.classified
    BY DEF Counted, FlowEntry
  <2>. HIDE DEF counted
  <2>. QED
    BY <2>1, <2>2 DEF EntryNamed
<1>2. classed \in FlowEntry
  BY ClassifiedType
<1>. HIDE DEF counted
<1>3. EntryNamed(classed)
  <2>1. CASE counted.classified
    BY <1>1, <2>1 DEF Classified
  <2>2. CASE ~counted.classified
    <3>1. classed = ClassifyFlow(pkt, counted) /\ counted.sni = ""
      BY <1>1, <2>2 DEF Classified, EntryNamed
    <3>. HIDE DEF classed
    <3>. QED
      BY <1>1, <3>1 DEF ClassifyFlow, EntryNamed, FlowEntry
  <2>. QED
    BY <2>1, <2>2
<1>4. Inspect(rs, pkt, flow) = Judged(rs, pkt, classed)
  BY DEF Inspect, counted
<1>. HIDE DEF classed
<1>5. LET j == Judged(rs, pkt, classed)
      IN  /\ j.sni = classed.sni /\ j.app_type = classed.app_type
          /\ j.classified = classed.classified
  BY <1>2 DEF Judged, FlowEntry
<1>. QED
  BY <1>3, <1>4, <1>5 DEF EntryNamed

LEMMA NamesMappedInit == Init => NamesMapped
<1>. SUFFICES ASSUME Init PROVE NamesMapped
  OBVIOUS
<1>1. \A w \in FPs, t \in Tuples : flows[w][t].sni = ""
  BY DEF Init, NewFlow
<1>2. \A n \in Names : detected[n] = "none"
  BY DEF Init
<1>. QED
  BY <1>1, <1>2 DEF NamesMapped, EntryNamed

LEMMA NamesMappedTake ==
  ASSUME TypeOK, UpstreamOrder, NamesMapped, NEW w \in FPs, FPTake(w)
  PROVE  NamesMapped'
<1>1. fpQ[w].items \in Seq(Nat) /\ fpQ[w].items # <<>>
  BY QueuedIds DEF FPTake, IsEmpty
<1>2. PICK i \in Ids : i = Head(fpQ[w].items)
  BY <1>1, QueuedIds, TailElements DEF InFPQ
<1>3. PICK t \in Tuples : t = FlowOf(i)
  BY QueuedIds
<1>4. PICK entry : entry = Inspect(rules, input[i], flows[w][t])
  OBVIOUS
<1>5. entry \in FlowEntry /\ EntryNamed(entry)
  <2>1. input[i] \in Packet /\ flows[w][t] \in FlowEntry /\ rules \in RuleSet
    BY InputType DEF TypeOK
  <2>2. EntryNamed(flows[w][t])
    BY DEF NamesMapped
  <2>. QED
    BY <1>4, <2>1, <2>2, InspectType, InspectNames
<1>6. /\ flows' = [flows EXCEPT ![w][t] = entry]
      /\ detected' = IF entry.sni = "" THEN detected
                     ELSE [detected EXCEPT ![entry.sni] = entry.app_type]
  BY <1>2, <1>3, <1>4 DEF FPTake, RecordApp
<1>7. /\ flows \in [FPs -> [Tuples -> FlowEntry]]
      /\ detected \in [Names -> AppTypes \cup {"none"}]
  BY DEF TypeOK
<1>8. \A x \in FPs, u \in Tuples : EntryNamed(flows'[x][u])
  <2>1. \A x \in FPs, u \in Tuples :
          flows'[x][u] = IF x = w /\ u = t THEN entry ELSE flows[x][u]
    BY <1>6, <1>7
  <2>. QED
    BY <1>5, <2>1 DEF NamesMapped
<1>9. \A n \in Names : detected'[n] \in {"none", SniToAppType(n)}
  <2>1. CASE entry.sni = ""
    BY <1>6, <2>1 DEF NamesMapped
  <2>2. CASE entry.sni # ""
    <3>1. entry.app_type = SniToAppType(entry.sni) /\ entry.sni \in Names
      BY <1>5, <2>2 DEF EntryNamed, FlowEntry
    <3>2. \A n \in Names :
            detected'[n] = IF n = entry.sni THEN entry.app_type ELSE detected[n]
      BY <1>6, <1>7, <2>2, <3>1
    <3>. QED
      BY <3>1, <3>2 DEF NamesMapped
  <2>. QED
    BY <2>1, <2>2
<1>. QED
  BY <1>8, <1>9 DEF NamesMapped, EntryNamed

LEMMA NamesMappedStep ==
  TypeOK /\ UpstreamOrder /\ NamesMapped /\ [Next]_vars => NamesMapped'
<1>. SUFFICES ASSUME TypeOK, UpstreamOrder, NamesMapped, [Next]_vars
              PROVE  NamesMapped'
  OBVIOUS
<1>. USE DEF givens, mainVars, lbVars, fpVars, outVars, decided
<1>1. ASSUME UNCHANGED <<flows, detected>> PROVE NamesMapped'
  BY <1>1 DEF NamesMapped, EntryNamed
<1>2. ASSUME NEW w \in FPs, FP(w) PROVE NamesMapped'
  BY <1>1, <1>2, NamesMappedTake DEF FP, FPLoop, FPPopNothing, FPPush
<1>3. CASE Main
  BY <1>1, <1>3 DEF Main, ReadSkip, ReadPacket, Dispatch, ReadEOF, WakeUp,
     StopLB, ShutLB, JoinLB, StopFP, ShutFP, JoinFP, StopOut, ShutOut, JoinOut
<1>4. CASE (\E l \in LBs : LB(l)) \/ Out \/ UNCHANGED vars
  BY <1>1, <1>4 DEF LB, LBLoop, LBPop, LBPopNothing, LBPush, Out, OutLoop,
                    OutWrite, OutPopNothing, vars
<1>. QED
  BY <1>2, <1>3, <1>4 DEF Next, Finished

(* If the queues had drained when the main thread woke up, nothing waits   *)
(* any more and nothing is read any more.                                  *)
DrainedDecided ==
  drained => /\ mainPc \notin {"read", "dispatch", "sleep"}
             /\ \A i \in Ids : ~Waits(i)

LEMMA DrainedWakeUp ==
  ASSUME TypeOK, UpstreamOrder, WakeUp
  PROVE  DrainedDecided'
<1>1. /\ mainPc = "sleep" /\ mainPc' = "stopLB" /\ drained' = Quiescent
      /\ UNCHANGED <<input, pos, verdict>>
  BY DEF WakeUp, givens, decided
<1>2. ASSUME Quiescent, NEW i \in Ids PROVE ~Waits(i)
  <2>1. /\ LBOf(FlowOf(i)) \in LBs /\ FPOf(FlowOf(i)) \in FPs /\ i # NoPkt
    BY QueuedIds DEF Ids
  <2>2. /\ i \notin InLBQ(LBOf(FlowOf(i))) /\ lbPkt[LBOf(FlowOf(i))] # i
        /\ i \notin InFPQ(FPOf(FlowOf(i)))
    BY <1>2, <2>1 DEF Quiescent, IsEmpty, InLBQ, InFPQ, ToSet
  <2>. QED
    BY <1>1, <2>2 DEF UpstreamOrder, NoneVanished, Dispatching
<1>3. Ids' = Ids /\ \A i \in Ids : Waits(i)' <=> Waits(i)
  BY <1>1 DEF Ids, Waits
<1>. QED
  BY <1>1, <1>2, <1>3 DEF DrainedDecided

LEMMA DrainedFrame ==
  ASSUME DrainedDecided, mainPc \notin {"read", "dispatch", "sleep"},
         mainPc' \notin {"read", "dispatch", "sleep"},
         UNCHANGED <<input, pos, drained>>,
         \A i \in Ids : verdict[i] # "none" => verdict'[i] # "none"
  PROVE  DrainedDecided'
<1>1. Ids' = Ids /\ \A i \in Ids : Waits(i)' => Waits(i)
  BY DEF Ids, Waits
<1>. QED
  BY <1>1 DEF DrainedDecided

LEMMA DrainedStep ==
  TypeOK /\ UpstreamOrder /\ DrainedDecided /\ [Next]_vars => DrainedDecided'
<1>. SUFFICES ASSUME TypeOK, UpstreamOrder, DrainedDecided, [Next]_vars
              PROVE  DrainedDecided'
  OBVIOUS
<1>. USE DEF givens, mainVars, decided
<1>1. CASE WakeUp
  BY <1>1, DrainedWakeUp
<1>2. CASE ReadSkip \/ ReadPacket \/ Dispatch \/ ReadEOF
  <2>1. ~drained /\ drained' = drained
    BY <1>2 DEF DrainedDecided, ReadSkip, ReadPacket, Dispatch, ReadEOF, TypeOK
  <2>. QED
    BY <2>1 DEF DrainedDecided
<1>3. CASE StopLB \/ ShutLB \/ JoinLB \/ StopFP \/ ShutFP \/ JoinFP
             \/ StopOut \/ ShutOut \/ JoinOut
  BY <1>3, DrainedFrame
  DEF StopLB, ShutLB, JoinLB, StopFP, ShutFP, JoinFP, StopOut, ShutOut, JoinOut
<1>4. ASSUME mainPc' = mainPc, drained' = drained, UNCHANGED <<input, pos>>,
             \A i \in Ids : verdict[i] # "none" => verdict'[i] # "none"
      PROVE  DrainedDecided'
  <2>1. CASE drained
    BY <1>4, <2>1, DrainedFrame DEF DrainedDecided
  <2>2. CASE ~drained
    BY <1>4, <2>2 DEF DrainedDecided
  <2>. QED
    BY <2>1, <2>2 DEF TypeOK
<1>5. ASSUME NEW w \in FPs, FPTake(w) PROVE DrainedDecided'
  <2>1. /\ mainPc' = mainPc /\ drained' = drained /\ UNCHANGED <<input, pos>>
        /\ \E i, v : v # "none" /\ verdict' = [verdict EXCEPT ![i] = v]
    BY <1>5 DEF FPTake
  <2>2. verdict \in [Ids -> {"none", "forwarded", "dropped"}]
    BY DEF TypeOK
  <2>. QED
    BY <1>4, <2>1, <2>2
<1>6. ASSUME NEW w \in FPs, FP(w) PROVE DrainedDecided'
  BY <1>4, <1>5, <1>6 DEF FP, FPLoop, FPPopNothing, FPPush
<1>7. CASE (\E l \in LBs : LB(l)) \/ Out \/ UNCHANGED vars
  BY <1>4, <1>7 DEF LB, LBLoop, LBPop, LBPopNothing, LBPush, Out, OutLoop,
                    OutWrite, OutPopNothing, vars
<1>. QED
  BY <1>1, <1>2, <1>3, <1>6, <1>7 DEF Next, Main, Finished

(* No packet stands twice in the output, so its length counts a set.       *)
LEMMA WrittenOnce ==
  ASSUME TypeOK, DownstreamOrder
  PROVE  Len(written) = Cardinality(ToSet(written))
<1>1. written \in Seq(Ids) /\ outQ.items \in Seq(Ids)
  BY DEF TypeOK, Queue
<1>2. Len(written) \in Nat /\ DOMAIN written = 1 .. Len(written)
  BY <1>1
<1>3. ASSUME NEW m \in 1 .. Len(written), NEW n \in 1 .. Len(written), m < n
      PROVE  written[m] # written[n]
  <2>1. /\ OnTheWay[m] = written[m] /\ OnTheWay[n] = written[n]
        /\ Len(OnTheWay) = Len(written) + Len(outQ.items)
    BY <1>1, ConcatElements DEF OnTheWay
  <2>2. m \in 1 .. Len(OnTheWay) /\ n \in 1 .. Len(OnTheWay)
    BY <1>1, <1>2, <2>1
  <2>. QED
    BY <1>3, <2>1, <2>2 DEF DownstreamOrder, WorkerOrder
<1>4. written \in Bijection(1 .. Len(written), ToSet(written))
  <2>1. written \in [1 .. Len(written) -> ToSet(written)]
    BY <1>1, <1>2 DEF ToSet
  <2>2. \A m, n \in 1 .. Len(written) : written[m] = written[n] => m = n
    BY <1>3, <1>2
  <2>3. \A x \in ToSet(written) : \E n \in 1 .. Len(written) : written[n] = x
    BY <1>2 DEF ToSet
  <2>. QED
    BY <2>1, <2>2, <2>3 DEF Bijection, Injection, Surjection, IsInjective
<1>5. /\ IsFiniteSet(1 .. Len(written))
      /\ Cardinality(1 .. Len(written)) = Len(written)
  <2>1. 1 \in Int /\ Len(written) \in Int
    BY <1>2
  <2>2. Cardinality(1 .. Len(written)) =
          IF 1 > Len(written) THEN 0 ELSE Len(written) - 1 + 1
    BY <2>1, FS_Interval
  <2>. QED
    BY <1>2, <2>1, <2>2, FS_Interval
<1>. QED
  BY <1>4, <1>5, FS_Bijection DEF ExistsBijection

(* A packet is forwarded or dropped, never both.                           *)
LEMMA DecidedNumber ==
  ASSUME TypeOK
  PROVE  Cardinality(Forwarded \cup Dropped) =
           Cardinality(Forwarded) + Cardinality(Dropped)
<1>1. IsFiniteSet(Forwarded) /\ IsFiniteSet(Dropped)
  BY FiniteIds DEF Forwarded, Dropped
<1>2. Forwarded \cap Dropped = {}
  BY DEF Forwarded, Dropped
<1>3. Cardinality(Forwarded \cup Dropped) =
        Cardinality(Forwarded) + Cardinality(Dropped)
          - Cardinality(Forwarded \cap Dropped)
  BY <1>1, FS_Union
<1>4. /\ Cardinality(Forwarded \cap Dropped) = 0
      /\ Cardinality(Forwarded) \in Nat /\ Cardinality(Dropped) \in Nat
  BY <1>1, <1>2, FS_EmptySet, FS_CardinalityType
<1>. QED
  BY <1>3, <1>4

(* At the end the report agrees with itself and with the output file.      *)
THEOREM ReportIsConsistent == Spec => []ReportAgrees
<1>1. TypeOK /\ Held /\ StopOrder /\ UpstreamOrder /\ ForwardedKept
        /\ DownstreamOrder /\ Counters /\ NamesMapped => ReportAgrees
  <2>. SUFFICES ASSUME TypeOK, Held, StopOrder, UpstreamOrder, ForwardedKept,
                       DownstreamOrder, Counters, NamesMapped, mainPc = "done"
                PROVE  /\ forwarded = Len(written)
                       /\ forwarded + dropped = SumFunction(processed)
                       /\ forwarded + dropped = SumFunction(appCounts)
                       /\ SumFunction(processed) <= SumFunction(dispatched)
                       /\ SumFunction(dispatched) <= total
                       /\ \A n \in Names : detected[n] \in {"none", SniToAppType(n)}
    BY DEF ReportAgrees
  <2>1. forwarded = Len(written)
    <3>1. ToSet(written) = Forwarded
      BY WrittenIsForwarded DEF AllForwardedWritten
    <3>. QED
      BY <3>1, WrittenOnce DEF Counters, CountsDecided
  <2>2. Forwarded \cup Dropped \subseteq HandedOver
    BY DEF Forwarded, Dropped, HandedOver
  <2>3. HandedOver \subseteq Read
    BY DEF HandedOver, Counters, DecidedRead, UpstreamOrder, FPQueueOrder,
           Waits, Read
  <2>4. Read \subseteq Ids /\ HandedOver \subseteq Ids
    BY InputType DEF Read, HandedOver, Ids, TypeOK
  <2>5. IsFiniteSet(Read) /\ IsFiniteSet(HandedOver)
    BY <2>4, FiniteIds
  <2>6. Cardinality(HandedOver) <= Cardinality(Read)
    BY <2>3, <2>5, FS_Subset
  <2>7. Cardinality(Forwarded \cup Dropped) <= Cardinality(HandedOver)
    BY <2>2, <2>5, FS_Subset
  <2>8. Cardinality(Forwarded \cup Dropped) = forwarded + dropped
    BY DecidedNumber DEF Counters, CountsDecided
  <2>. QED
    BY <2>1, <2>6, <2>7, <2>8
    DEF Counters, CountsRead, CountsHanded, CountsDecided, NamesMapped
<1>. QED
  BY <1>1, TypeInit, TypeStep, StopOrderInit, StopOrderStep, UpstreamInit,
     UpstreamStep, FlowTablesInit, FlowTablesStep, ForwardedKeptInit,
     ForwardedKeptStep, DownstreamInit, DownstreamStep, CountersInit,
     CountersStep, NamesMappedInit, NamesMappedStep, PTL DEF Spec

(* A run whose queues drained during the sleep has decided every packet it *)
(* has read.                                                               *)
THEOREM DrainedRunDecidesAll == Spec => []DrainedDecidesAll
<1>1. Init => DrainedDecided
  BY DEF Init, DrainedDecided
<1>2. TypeOK /\ Counters /\ DrainedDecided => DrainedDecidesAll
  <2>. SUFFICES ASSUME TypeOK, Counters, DrainedDecided, drained
                PROVE  total = forwarded + dropped
    BY DEF DrainedDecidesAll
  <2>1. Read = Forwarded \cup Dropped
    <3>1. Read \subseteq Ids
      BY InputType DEF Read, Ids, TypeOK
    <3>2. \A i \in Read : verdict[i] # "none"
      BY <3>1 DEF DrainedDecided, Read, Waits
    <3>3. \A i \in Ids : verdict[i] \in {"none", "forwarded", "dropped"}
      BY DEF TypeOK
    <3>. QED
      BY <3>1, <3>2, <3>3 DEF Forwarded, Dropped, Counters, DecidedRead
  <2>. QED
    BY <2>1, DecidedNumber DEF Counters, CountsRead, CountsDecided
<1>. QED
  BY <1>1, <1>2, TypeInit, TypeStep, StopOrderInit, StopOrderStep,
     UpstreamInit, UpstreamStep, CountersInit, CountersStep, DrainedStep,
     PTL DEF Spec
-----------------------------------------------------------------------------
(* The refinement.  PacketFilter's flow table, its Inspect and its Written *)
(* in terms of the engine.                                                 *)
FlowTable == [t \in Tuples |-> flows[FPOf(t)][t]]

LEMMA SameOperators ==
  /\ Filter!NewFlow = NewFlow
  /\ \A rs, pkt, entry : Filter!Inspect(rs, pkt, entry) = Inspect(rs, pkt, entry)
<1>1. Filter!NewFlow = NewFlow
  BY DEF Filter!NewFlow, NewFlow
<1>2. ASSUME NEW rs, NEW pkt, NEW entry
      PROVE  Filter!Inspect(rs, pkt, entry) = Inspect(rs, pkt, entry)
  BY DEF Filter!Inspect, Filter!Judged, Filter!IsBlocked, Filter!Classified,
         Filter!ClassifyFlow, Filter!ExtractedName, Filter!IsDNS,
         Filter!PortFallback, Filter!Counted,
         Inspect, Judged, IsBlocked, Classified, ClassifyFlow, ExtractedName,
         IsDNS, PortFallback, Counted
<1>. QED
  BY <1>1, <1>2

LEMMA WrittenIsOutput ==
  ASSUME TypeOK
  PROVE  Filter!Written = ToSet(written)
<1>1. DOMAIN written = 1 .. Len(written)
  BY DEF TypeOK
<1>. QED
  BY <1>1 DEF Filter!Written, ToSet

LEMMA FilterInit == Init => Filter!Init
<1>. SUFFICES ASSUME Init PROVE Filter!Init
  OBVIOUS
<1>1. FlowTable = [t \in Tuples |-> Filter!NewFlow]
  <2>1. \A t \in Tuples : flows[FPOf(t)][t] = NewFlow
    BY Routed DEF Init
  <2>. QED
    BY <2>1, SameOperators DEF FlowTable
<1>2. mainPc # "done"
  BY DEF Init
<1>. QED
  BY <1>1, <1>2 DEF Init, Filter!Init, Filter!Ids, Ids, FlowTable

LEMMA FilterStutters ==
  ASSUME UNCHANGED <<input, rules, verdict, flows, written>>,
         mainPc' = "done" <=> mainPc = "done"
  PROVE  UNCHANGED Filter!vars
BY DEF Filter!vars

LEMMA FilterDecides ==
  ASSUME TypeOK, Held, StopOrder, UpstreamOrder, NEW w \in FPs, FPTake(w)
  PROVE  \E i \in Filter!Ids : Filter!Decide(i)
<1>. DEFINE h == Head(fpQ[w].items)
            t == FlowOf(h)
            entry == Inspect(rules, input[h], flows[w][t])
<1>1. ~IsEmpty(fpQ[w]) /\ mainPc # "done"
  BY DEF FPTake, StopOrder, OutPhase
<1>2. h \in Ids /\ Waits(h) /\ FPOf(t) = w
  <2>1. PICK i \in Ids : i = h /\ Waits(i)
    <3>1. fpQ[w].items \in Seq(Nat) /\ fpQ[w].items # <<>>
      BY <1>1, QueuedIds DEF IsEmpty
    <3>2. h \in InFPQ(w)
      BY <3>1, TailElements DEF InFPQ
    <3>. QED
      BY <3>2, QueuedIds DEF UpstreamOrder, FPQueueOrder
  <2>. QED
    BY <1>1, <2>1, HeadIsFirst
<1>3. \A i \in Ids : Waits(i) /\ FPOf(FlowOf(i)) = w => ~(i < h)
  BY <1>1, <1>2, HeadIsFirst
<1>4. /\ flows' = [flows EXCEPT ![w][t] = entry]
      /\ verdict' = [verdict EXCEPT
                       ![h] = IF entry.blocked THEN "dropped" ELSE "forwarded"]
      /\ UNCHANGED <<input, rules, written, mainPc>>
  BY DEF FPTake, givens, mainVars, outVars
<1>5. flows \in [FPs -> [Tuples -> FlowEntry]] /\ t \in Tuples
  BY <1>2, InputType DEF TypeOK
<1>6. FlowTable[t] = flows[w][t]
  BY <1>2, <1>5 DEF FlowTable
<1>7. FlowTable' = [FlowTable EXCEPT ![t] = entry]
  <2>. HIDE DEF entry
  <2>1. \A u \in Tuples :
          flows'[FPOf(u)][u] = IF u = t THEN entry ELSE flows[FPOf(u)][u]
    BY <1>2, <1>4, <1>5, Routed
  <2>. QED
    BY <1>5, <2>1 DEF FlowTable
<1>8. Filter!ItsTurn(h)
  <2>1. ASSUME NEW j \in 1 .. h - 1, FlowOf(h) = FlowOf(j), input[j].parsed
        PROVE  verdict[j] # "none"
    <3>1. j \in Ids /\ j < h /\ j \in 1 .. pos
      BY <1>2 DEF Ids, Waits, TypeOK
    <3>. QED
      BY <1>2, <1>3, <2>1, <3>1 DEF Waits
  <2>. QED
    BY <2>1 DEF Filter!ItsTurn, Filter!SameFlow, FlowOf
<1>9. ASSUME NEW i \in Ids, i = h PROVE Filter!Decide(i)
  BY <1>1, <1>2, <1>4, <1>6, <1>7, <1>8, <1>9, SameOperators
  DEF Filter!Decide, Waits, FlowOf, FlowTable
<1>10. PICK i \in Ids : i = h
  BY <1>2
<1>11. Filter!Decide(i)
  BY <1>9, <1>10
<1>. QED
  BY <1>11 DEF Filter!Ids, Ids

LEMMA FilterEmits ==
  ASSUME TypeOK, Held, StopOrder, ForwardedKept, DownstreamOrder, OutWrite
  PROVE  \E i \in Filter!Ids : Filter!Emit(i)
<1>. DEFINE h == Head(outQ.items)
<1>1. outQ.items \in Seq(Ids) /\ outQ.items # <<>> /\ h \in Ids
  BY DEF OutWrite, IsEmpty, TypeOK, Queue
<1>2. /\ written' = Append(written, h) /\ mainPc # "done"
      /\ UNCHANGED <<input, rules, flows, verdict, mainPc>>
  BY DEF OutWrite, StopOrder, givens, mainVars, fpVars, decided
<1>3. ToSet(outQ.items) = {h} \cup ToSet(Tail(outQ.items))
  BY <1>1, TailElements
<1>4. verdict[h] = "forwarded"
  BY <1>1, <1>3 DEF ForwardedKept, PassedOn
<1>5. /\ h \notin ToSet(written)
      /\ \A y \in ToSet(Tail(outQ.items)) : FlowOf(h) = FlowOf(y) => h < y
  BY <1>1, HeadOfQueue DEF DownstreamOrder, OnTheWay, TypeOK
<1>6. \A w \in FPs : fpPkt[w] # NoPkt =>
        (FlowOf(h) = FlowOf(fpPkt[w]) => h < fpPkt[w])
  BY <1>3, OnTheWayElements DEF DownstreamOrder, FPHandOrder
<1>7. ASSUME NEW j \in 1 .. h - 1, FlowOf(h) = FlowOf(j), verdict[j] = "forwarded"
      PROVE  j \in ToSet(written)
  <2>1. j \in Ids /\ j < h /\ j \in Nat /\ h \in Nat /\ j # NoPkt
    BY <1>1 DEF Ids, TypeOK
  <2>2. \/ j \in ToSet(written) \/ j \in ToSet(outQ.items)
        \/ \E w \in FPs : fpPkt[w] = j
    BY <1>7, <2>1 DEF ForwardedKept, PassedOn
  <2>3. j \notin ToSet(outQ.items)
    BY <1>3, <1>5, <1>7, <2>1
  <2>4. ~ \E w \in FPs : fpPkt[w] = j
    BY <1>6, <1>7, <2>1
  <2>. QED
    BY <2>2, <2>3, <2>4
<1>8. Filter!Emit(h)
  BY <1>2, <1>4, <1>5, <1>7, WrittenIsOutput
  DEF Filter!Emit, Filter!SameFlow, FlowOf
<1>. QED
  BY <1>1, <1>8 DEF Filter!Ids, Ids

LEMMA FilterFinishes ==
  ASSUME TypeOK, Held, StopOrder, ForwardedKept, JoinOut
  PROVE  Filter!Finish
<1>1. outPc = "exit" /\ mainPc = "joinOut" /\ mainPc' = "done"
  BY DEF JoinOut, Joined
<1>2. outQ.items = <<>> /\ \A w \in FPs : fpPkt[w] = NoPkt
  BY <1>1 DEF StopOrder, OutPhase, IsEmpty, Held
<1>3. ToSet(<<>>) = {} /\ \A i \in Ids : i # NoPkt
  BY DEF ToSet, Ids
<1>4. \A i \in Ids : verdict[i] = "forwarded" => i \in Filter!Written
  BY <1>2, <1>3, WrittenIsOutput DEF ForwardedKept, PassedOn
<1>5. UNCHANGED <<input, rules, flows, verdict, written>>
  BY DEF JoinOut, givens, fpVars, decided, outVars
<1>. QED
  BY <1>1, <1>4, <1>5 DEF Filter!Finish, Filter!Ids, Ids

LEMMA FilterStep ==
  TypeOK /\ Held /\ StopOrder /\ UpstreamOrder /\ ForwardedKept
    /\ DownstreamOrder /\ [Next]_vars => [Filter!Next]_Filter!vars
<1>. SUFFICES ASSUME TypeOK, Held, StopOrder, UpstreamOrder, ForwardedKept,
                     DownstreamOrder, [Next]_vars
              PROVE  [Filter!Next]_Filter!vars
  OBVIOUS
<1>. USE DEF givens, mainVars, lbVars, fpVars, outVars, decided
<1>1. CASE JoinOut
  BY <1>1, FilterFinishes DEF Filter!Next
<1>2. CASE ReadSkip \/ ReadPacket \/ Dispatch \/ ReadEOF \/ WakeUp
             \/ StopLB \/ ShutLB \/ JoinLB \/ StopFP \/ ShutFP \/ JoinFP
             \/ StopOut \/ ShutOut
  BY <1>2, FilterStutters
  DEF ReadSkip, ReadPacket, Dispatch, ReadEOF, WakeUp, StopLB, ShutLB, JoinLB,
      StopFP, ShutFP, JoinFP, StopOut, ShutOut
<1>3. ASSUME NEW l \in LBs, LB(l) PROVE [Filter!Next]_Filter!vars
  BY <1>3, FilterStutters DEF LB, LBLoop, LBPop, LBPopNothing, LBPush
<1>4. ASSUME NEW w \in FPs, FP(w) PROVE [Filter!Next]_Filter!vars
  <2>1. CASE FPTake(w)
    BY <2>1, FilterDecides DEF Filter!Next
  <2>2. CASE FPLoop(w) \/ FPPopNothing(w) \/ FPPush(w)
    BY <2>2, FilterStutters DEF FPLoop, FPPopNothing, FPPush
  <2>. QED
    BY <1>4, <2>1, <2>2 DEF FP
<1>5. CASE OutWrite
  BY <1>5, FilterEmits DEF Filter!Next
<1>6. CASE OutLoop \/ OutPopNothing
  BY <1>6, FilterStutters DEF OutLoop, OutPopNothing
<1>7. CASE UNCHANGED vars
  BY <1>7, FilterStutters DEF vars
<1>. QED
  BY <1>1, <1>2, <1>3, <1>4, <1>5, <1>6, <1>7 DEF Next, Main, Out, Finished

(* Threads, queues and the shutdown change nothing but the order between   *)
(* flows and how far each flow gets: process() is a packet filter.         *)
THEOREM EngineIsFilter == Spec => ImplementsFilter
BY TypeInit, TypeStep, StopOrderInit, StopOrderStep, UpstreamInit,
   UpstreamStep, FlowTablesInit, FlowTablesStep, ForwardedKeptInit,
   ForwardedKeptStep, DownstreamInit, DownstreamStep, FilterInit, FilterStep,
   PTL DEF Spec, ImplementsFilter, Filter!Spec

-----------------------------------------------------------------------------
(* What every packet filter does, the engine does.                         *)
Rules == INSTANCE PacketFilterProofs WITH
           flow <- [t \in Tuples |-> flows[FPOf(t)][t]],
           finished <- (mainPc = "done")

LEMMA SameFilter ==
  /\ Filter!Init <=> Rules!Init
  /\ [Filter!Next]_Filter!vars <=> [Rules!Next]_Rules!vars
  /\ Filter!RulesEnforced <=> Rules!RulesEnforced
<1>1. Filter!NewFlow = Rules!NewFlow /\ Filter!Ids = Rules!Ids
  BY DEF Filter!NewFlow, Rules!NewFlow, Filter!Ids, Rules!Ids
<1>2. \A rs, pkt, entry :
        Filter!Inspect(rs, pkt, entry) = Rules!Inspect(rs, pkt, entry)
  BY DEF Filter!Inspect, Rules!Inspect, Filter!Judged, Rules!Judged,
         Filter!IsBlocked, Rules!IsBlocked, Filter!Classified,
         Rules!Classified, Filter!ClassifyFlow, Rules!ClassifyFlow,
         Filter!ExtractedName, Rules!ExtractedName, Filter!IsDNS,
         Rules!IsDNS, Filter!PortFallback, Rules!PortFallback,
         Filter!Counted, Rules!Counted
<1>3. Filter!Init <=> Rules!Init
  BY <1>1 DEF Filter!Init, Rules!Init
<1>4. Filter!Written = Rules!Written
  BY DEF Filter!Written, Rules!Written
<1>5. \A i : Filter!Decide(i) <=> Rules!Decide(i)
  BY <1>2 DEF Filter!Decide, Rules!Decide, Filter!ItsTurn, Rules!ItsTurn,
              Filter!SameFlow, Rules!SameFlow
<1>6. \A i : Filter!Emit(i) <=> Rules!Emit(i)
  BY <1>4 DEF Filter!Emit, Rules!Emit, Filter!SameFlow, Rules!SameFlow
<1>7. Filter!Finish <=> Rules!Finish
  BY <1>1, <1>4 DEF Filter!Finish, Rules!Finish
<1>8. Filter!vars = Rules!vars /\ (UNCHANGED Filter!vars <=> UNCHANGED Rules!vars)
  BY DEF Filter!vars, Rules!vars
<1>9. Filter!RulesEnforced <=> Rules!RulesEnforced
  BY <1>4 DEF Filter!RulesEnforced, Rules!RulesEnforced, Filter!SameFlow,
      Rules!SameFlow, Filter!ExtractedName, Rules!ExtractedName,
      Filter!IsDNS, Rules!IsDNS, Filter!IsBlocked, Rules!IsBlocked
<1>. QED
  BY <1>1, <1>3, <1>5, <1>6, <1>7, <1>8, <1>9 DEF Filter!Next, Rules!Next

(* However the threads interleave, nothing is written that the rules       *)
(* forbid: no packet from a blocked address, and none of a flow whose      *)
(* first name is blocked, itself or its application.                       *)
THEOREM EngineEnforcesRules == Spec => []RulesEnforced
<1>1. Inputs \subseteq Seq(Rules!Packet) /\ FiveTuple = Rules!FiveTuple
  BY PipelineAssumption DEF Packet, Rules!Packet, FiveTuple, Rules!FiveTuple
<1>2. Rules!Spec => []Rules!RulesEnforced
  BY <1>1, InspectionAssumption, Rules!FilterEnforcesRules
<1>3. Spec => Filter!Spec
  BY EngineIsFilter DEF ImplementsFilter
<1>. QED
  BY <1>2, <1>3, SameFilter, PTL DEF Filter!Spec, Rules!Spec, RulesEnforced

LEMMA SameSchedule == Filter!ScheduleIndependent <=> Rules!ScheduleIndependent
<1>1. Filter!Ids = Rules!Ids
  BY DEF Filter!Ids, Rules!Ids
<1>2. Filter!Sequential(input, rules) = Rules!Sequential(input, rules)
  BY DEF Filter!Sequential, Rules!Sequential, Filter!NewFlow, Rules!NewFlow,
         Filter!Inspect, Rules!Inspect, Filter!Judged, Rules!Judged,
         Filter!IsBlocked, Rules!IsBlocked, Filter!Classified,
         Rules!Classified, Filter!ClassifyFlow, Rules!ClassifyFlow,
         Filter!ExtractedName, Rules!ExtractedName, Filter!IsDNS,
         Rules!IsDNS, Filter!PortFallback, Rules!PortFallback,
         Filter!Counted, Rules!Counted
<1>. QED
  BY <1>1, <1>2 DEF Filter!ScheduleIndependent, Rules!ScheduleIndependent

(* However the threads interleave, and wherever they are stopped, a packet *)
(* that is decided has the verdict of a single-threaded pass.              *)
THEOREM EngineIgnoresSchedule == Spec => []ScheduleIndependent
<1>1. Inputs \subseteq Seq(Rules!Packet) /\ FiveTuple = Rules!FiveTuple
  BY PipelineAssumption DEF Packet, Rules!Packet, FiveTuple, Rules!FiveTuple
<1>2. Rules!Spec => []Rules!ScheduleIndependent
  BY <1>1, InspectionAssumption, Rules!FilterIgnoresSchedule
<1>3. Spec => Filter!Spec
  BY EngineIsFilter DEF ImplementsFilter
<1>. QED
  BY <1>2, <1>3, SameFilter, SameSchedule,
     PTL DEF Filter!Spec, Rules!Spec, ScheduleIndependent
=============================================================================
