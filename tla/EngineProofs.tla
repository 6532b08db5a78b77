---------------------------- MODULE EngineProofs ----------------------------
(***************************************************************************)
(* Theorems about Engine, for any number of load balancers and workers,    *)
(* any queue capacity, and any number of packets and files.                *)
(***************************************************************************)
EXTENDS Engine, Induction, TLAPS

(* Worker numbers l * f + r: n load balancers of f workers each.           *)
LEMMA NumbersOfWorkers ==
  ASSUME NEW n \in Nat, NEW f \in Nat, NEW l \in Nat, NEW r \in Nat,
         l < n, r < f
  PROVE  (l * f) + r \in 0 .. (n * f) - 1
<1>1. (l + 1) * f <= n * f
  OBVIOUS
<1>2. (l + 1) * f = (l * f) + f
  OBVIOUS
<1>3. l * f \in Nat /\ n * f \in Nat
  OBVIOUS
<1>. QED
  BY <1>1, <1>2, <1>3

(* A remainder is determined by its quotient.                              *)
LEMMA Remainder ==
  ASSUME NEW d \in Nat \ {0}, NEW a \in Nat, NEW k \in Nat, NEW s \in 0 .. d - 1,
         a = (d * k) + s
  PROVE  a % d = s
OBVIOUS

LEMMA Division ==
  ASSUME NEW d \in Nat \ {0}, NEW a \in Nat
  PROVE  /\ a \div d \in Nat /\ a % d \in 0 .. d - 1
         /\ a = (d * (a \div d)) + (a % d)
OBVIOUS

(* A remainder by a multiple of d has the same remainder by d.             *)
LEMMA RemainderTwice ==
  ASSUME NEW d \in Nat \ {0}, NEW m \in Nat \ {0}, NEW h \in Nat, m % d = 0
  PROVE  (h % m) % d = h % d
<1>. DEFINE k == m \div d
            a == h \div m
            r == h % m
            j == r \div d
            s == r % d
<1>1. k \in Nat /\ m = d * k
  BY Division
<1>2. a \in Nat /\ r \in Nat /\ h = (m * a) + r
  BY Division
<1>3. j \in Nat /\ s \in 0 .. d - 1 /\ r = (d * j) + s
  BY <1>2, Division
<1>. HIDE DEF k, a, r, j, s
<1>4. m * a = d * (k * a) /\ k * a \in Nat
  BY <1>1, <1>2
<1>5. d * ((k * a) + j) = (d * (k * a)) + (d * j) /\ (k * a) + j \in Nat
  BY <1>3, <1>4
<1>6. h = (d * ((k * a) + j)) + s
  BY <1>2, <1>3, <1>4, <1>5
<1>7. h % d = s
  BY <1>3, <1>5, <1>6, Remainder
<1>. QED
  BY <1>7 DEF s, r

(* Thread numbers: load balancers, workers, the output thread.             *)
LEMMA Numbers ==
  /\ NumLBs \in Nat \ {0} /\ FpsPerLB \in Nat \ {0}
  /\ NumLBs * FpsPerLB \in Nat \ {0}
  /\ Out \in Nat \ {0} /\ Out \in Threads /\ Threads = 0 .. Out /\ LBs \cup FPs = 0 .. Out - 1
  /\ \A t \in LBs : t < Out /\ \A u \in FPs : t < u
  /\ \A t \in FPs : t < Out
<1>1. NumLBs \in Nat \ {0} /\ FpsPerLB \in Nat \ {0}
  BY EngineAssumption
<1>2. NumLBs * FpsPerLB \in Nat \ {0}
  BY <1>1
<1>. QED
  BY <1>1, <1>2 DEF Out, Threads, LBs, FPs

(* Every packet has a load balancer, and a worker of that load balancer.   *)
LEMMA Targets ==
  ASSUME NEW h \in Hashes
  PROVE  /\ LBForPacket(h) \in LBs
         /\ \A l \in LBs : /\ WorkerFor(l, h) \in Workers
                           /\ NumLBs + WorkerFor(l, h) \in FPs
<1>1. NumLBs \in Nat \ {0} /\ FpsPerLB \in Nat \ {0} /\ h \in Nat
  BY EngineAssumption
<1>2. LBForPacket(h) \in LBs
  BY <1>1 DEF LBForPacket, LBs
<1>3. SelectFP(h) \in 0 .. FpsPerLB - 1
  BY <1>1 DEF SelectFP
<1>4. \A l \in LBs : (l * FpsPerLB) + SelectFP(h) \in 0 .. (NumLBs * FpsPerLB) - 1
  BY <1>1, <1>3, NumbersOfWorkers DEF LBs
<1>5. NumLBs * FpsPerLB \in Nat
  BY <1>1
<1>. QED
  BY <1>1, <1>2, <1>4, <1>5 DEF WorkerFor, Workers, FPs

LEMMA QueueCalls ==
  ASSUME NEW S, NEW c \in Queue(S), Len(c.items) <= QueueCap
  PROVE  /\ ShutDown(c) \in Queue(S) /\ Len(ShutDown(c).items) <= QueueCap
         /\ \A x \in S : CanPush(c) =>
              Pushed(c, x) \in Queue(S) /\ Len(Pushed(c, x).items) <= QueueCap
         /\ ~IsEmpty(c) =>
              /\ Popped(c) \in Queue(S) /\ Len(Popped(c).items) <= QueueCap
              /\ Head(c.items) \in S
<1>1. c.items \in Seq(S) /\ c.down \in BOOLEAN
  BY DEF Queue
<1>2. ShutDown(c) \in Queue(S) /\ Len(ShutDown(c).items) <= QueueCap
  BY DEF Queue, ShutDown
<1>3. ASSUME NEW x \in S, CanPush(c)
      PROVE  Pushed(c, x) \in Queue(S) /\ Len(Pushed(c, x).items) <= QueueCap
  <2>1. CASE c.down
    BY <2>1 DEF Pushed
  <2>2. CASE ~c.down
    <3>1. Append(c.items, x) \in Seq(S)
             /\ Len(Append(c.items, x)) = Len(c.items) + 1
      BY <1>1
    <3>2. Len(c.items) + 1 <= QueueCap
      BY <1>1, <1>3, <2>2, QueueCapAssumption DEF CanPush
    <3>3. Pushed(c, x) = [c EXCEPT !.items = Append(c.items, x)]
      BY <2>2 DEF Pushed
    <3>. QED
      BY <3>1, <3>2, <3>3 DEF Queue
  <2>. QED
    BY <2>1, <2>2
<1>4. ASSUME ~IsEmpty(c)
      PROVE  /\ Popped(c) \in Queue(S) /\ Len(Popped(c).items) <= QueueCap
             /\ Head(c.items) \in S
  <2>1. /\ Tail(c.items) \in Seq(S) /\ Head(c.items) \in S
        /\ Len(Tail(c.items)) = Len(c.items) - 1
    BY <1>1, <1>4 DEF IsEmpty
  <2>2. Len(c.items) \in Nat
    BY <1>1
  <2>. QED
    BY <2>1, <2>2, QueueCapAssumption DEF Queue, Popped
<1>. QED
  BY <1>2, <1>3, <1>4
-----------------------------------------------------------------------------
(* Who holds a packet: the reader and a thread while they push.            *)
Hands ==
  /\ readerPc = "push" => readerJob \in Job
  /\ readerPc # "push" => readerJob = NoJob
  /\ \A t \in Threads :
       /\ pc[t] = "push" => t # Out /\ has[t] \in Job
       /\ pc[t] # "push" => has[t] = NoJob

(* Where the main thread is says whether the reader runs, and which thread *)
(* stop() is at.                                                           *)
Phases ==
  /\ mainPc # "reading" => readerPc = "off"
  /\ mainPc = "idle" => file = 0
  /\ mainPc # "idle" => file >= 1
  /\ mainPc \in {"halt", "join"} => stopping < Out
  /\ mainPc \in {"idle", "done"} => \A t \in Threads : pc[t] = "off"

(* A thread that stop() has joined is gone.                                *)
Stopped(t) ==
  \/ t # Out /\ mainPc \in {"shutOut", "joinOut", "done"}
  \/ t # Out /\ mainPc \in {"halt", "join"} /\ t < stopping
  \/ t = Out /\ mainPc = "done"

Joined == \A t \in Threads : Stopped(t) => pc[t] = "off"

TInv == TypeOK /\ Hands /\ Phases /\ Joined

LEMMA InitTInv == Init => TInv
<1>. SUFFICES ASSUME Init PROVE TInv
  OBVIOUS
<1>1. NewQueue \in Queue(Job) /\ Len(NewQueue.items) <= QueueCap
  BY QueueCapAssumption DEF NewQueue, Queue
<1>2. /\ q \in [Threads -> Queue(Job)] /\ \A t \in Threads : Len(q[t].items) <= QueueCap
      /\ pc \in [Threads -> {"off", "loop", "push"}] /\ run \in [Threads -> BOOLEAN]
      /\ has \in [Threads -> Job \cup {NoJob}]
  BY <1>1 DEF Init
<1>3. /\ received \in [LBs \cup FPs -> Nat] /\ sent \in [LBs \cup FPs -> Nat]
      /\ refused \in [FPs -> Nat] /\ routed \in [Workers -> Nat]
  BY DEF Init
<1>4. /\ file \in 0 .. MaxFiles /\ nextId \in 0 .. MaxPackets /\ stopping \in Threads
      /\ total \in Nat /\ forwarded \in Nat /\ dropped \in Nat
  BY EngineAssumption, Numbers DEF Init
<1>5. output \in Seq(Job \cup {Header})
  BY DEF Init
<1>6. TypeOK
  BY <1>2, <1>3, <1>4, <1>5, SMTT(30) DEF Init, TypeOK
<1>7. Hands /\ Phases /\ Joined
  BY Numbers DEF Init, Hands, Phases, Joined, Stopped
<1>. QED
  BY <1>6, <1>7 DEF TInv

(* What a push or a pop of one queue does to the type of all of them.      *)
LEMMA OneQueue ==
  ASSUME TypeOK, NEW t \in Threads, NEW c \in Queue(Job), Len(c.items) <= QueueCap,
         q' = [q EXCEPT ![t] = c]
  PROVE  /\ q' \in [Threads -> Queue(Job)]
         /\ \A u \in Threads : Len(q'[u].items) <= QueueCap
BY DEF TypeOK

LEMMA NextTInv == TInv /\ [Next]_vars => TInv'
<1>. SUFFICES ASSUME TInv, [Next]_vars PROVE TInv'
  OBVIOUS
<1>. USE DEF TInv
<1>1. ASSUME Start PROVE TInv'
  <2>1. TypeOK'
    BY <1>1, EngineAssumption DEF Start, TypeOK, stats, counters
  <2>2. Hands'
    BY <1>1 DEF Start, Hands, Phases
  <2>3. Phases' /\ Joined'
    BY <1>1 DEF Start, Phases, Joined, Stopped, TypeOK
  <2>. QED
    BY <2>1, <2>2, <2>3
<1>2. ASSUME Stop PROVE TInv'
  <2>1. drained' \in BOOLEAN
    BY <1>2 DEF Stop, AtRest
  <2>2. stopping' \in Threads /\ run' \in [Threads -> BOOLEAN]
    BY <1>2, Numbers DEF Stop, TypeOK
  <2>3. TypeOK'
    BY <1>2, <2>1, <2>2 DEF Stop, TypeOK, readerVars, stats, counters
  <2>4. Hands' /\ Phases' /\ Joined'
    BY <1>2, Numbers DEF Stop, Hands, Phases, Joined, Stopped, TypeOK, readerVars
  <2>. QED
    BY <2>3, <2>4
<1>3. ASSUME Halt PROVE TInv'
  <2>1. stopping \in Threads
    BY DEF TypeOK
  <2>2. /\ ShutDown(q[stopping]) \in Queue(Job)
        /\ Len(ShutDown(q[stopping]).items) <= QueueCap
    BY <2>1, QueueCalls DEF TypeOK
  <2>3. /\ q' \in [Threads -> Queue(Job)]
        /\ \A u \in Threads : Len(q'[u].items) <= QueueCap
    BY <1>3, <2>1, <2>2, OneQueue DEF Halt
  <2>4. run' \in [Threads -> BOOLEAN]
    BY <1>3 DEF Halt, TypeOK
  <2>5. TypeOK'
    BY <1>3, <2>3, <2>4 DEF Halt, TypeOK, readerVars, stats, counters
  <2>6. Hands' /\ Phases' /\ Joined'
    BY <1>3 DEF Halt, Hands, Phases, Joined, Stopped, readerVars
  <2>. QED
    BY <2>5, <2>6
<1>4. ASSUME Join PROVE TInv'
  <2>1. stopping \in 0 .. Out - 1 /\ stopping' = stopping + 1
    BY <1>4, Numbers DEF Join, Phases, TypeOK
  <2>2. stopping' \in Threads
    BY <2>1, Numbers
  <2>3. TypeOK'
    BY <1>4, <2>2 DEF Join, TypeOK, readerVars, stats, counters
  <2>4. Hands'
    BY <1>4 DEF Join, Hands, readerVars
  <2>5. Phases'
    BY <1>4, <2>1, Numbers DEF Join, Phases, readerVars
  <2>6. Joined'
    BY <1>4, <2>1, Numbers DEF Join, Joined, Stopped
  <2>. QED
    BY <2>3, <2>4, <2>5, <2>6
<1>5. ASSUME ShutOutput PROVE TInv'
  <2>1. /\ ShutDown(q[Out]) \in Queue(Job)
        /\ Len(ShutDown(q[Out]).items) <= QueueCap
    BY Numbers, QueueCalls DEF TypeOK
  <2>2. /\ q' \in [Threads -> Queue(Job)]
        /\ \A u \in Threads : Len(q'[u].items) <= QueueCap
    BY <1>5, <2>1, OneQueue, Numbers DEF ShutOutput
  <2>3. TypeOK'
    BY <1>5, <2>2 DEF ShutOutput, TypeOK, readerVars, stats, counters
  <2>4. Hands' /\ Phases' /\ Joined'
    BY <1>5 DEF ShutOutput, Hands, Phases, Joined, Stopped, readerVars
  <2>. QED
    BY <2>3, <2>4
<1>6. ASSUME JoinOutput PROVE TInv'
  <2>1. TypeOK'
    BY <1>6 DEF JoinOutput, TypeOK, readerVars, stats, counters
  <2>2. Hands'
    BY <1>6 DEF JoinOutput, Hands, readerVars
  <2>3. Phases' /\ Joined'
    BY <1>6 DEF JoinOutput, Phases, Joined, Stopped, readerVars
  <2>. QED
    BY <2>1, <2>2, <2>3
<1>7. ASSUME ReaderFails \/ WriteHeader \/ EndOfFile PROVE TInv'
  <2>1. Append(output, Header) \in Seq(Job \cup {Header})
    BY DEF TypeOK
  <2>2. output' \in Seq(Job \cup {Header})
    BY <1>7, <2>1 DEF ReaderFails, WriteHeader, EndOfFile, TypeOK
  <2>3. TypeOK'
    BY <1>7, <2>2 DEF ReaderFails, WriteHeader, EndOfFile, TypeOK, mainVars,
                     stats, counters
  <2>4. Hands' /\ Phases' /\ Joined'
    BY <1>7 DEF ReaderFails, WriteHeader, EndOfFile, Hands, Phases, Joined,
                Stopped, mainVars
  <2>. QED
    BY <2>3, <2>4
<1>8. ASSUME Read PROVE TInv'
  <2>1. file \in 1 .. MaxFiles
    BY <1>8, EngineAssumption DEF Read, Phases, TypeOK
  <2>2. nextId + 1 \in 1 .. MaxPackets
    BY <1>8, EngineAssumption DEF Read, TypeOK
  <2>3. readerJob' \in Job
    BY <1>8, <2>1, <2>2 DEF Read, Job
  <2>4. TypeOK'
    BY <1>8, <2>2, <2>3 DEF Read, TypeOK, mainVars, counters
  <2>5. Hands' /\ Phases' /\ Joined'
    BY <1>8, <2>3 DEF Read, Hands, Phases, Joined, Stopped, mainVars
  <2>. QED
    BY <2>4, <2>5
<1>9. ASSUME Dispatch PROVE TInv'
  <2>1. readerJob \in Job
    BY <1>9 DEF Dispatch, Hands
  <2>2. PICK l : l = LBForPacket(readerJob.hash)
    OBVIOUS
  <2>3. l \in Threads
    BY <2>1, <2>2, Targets DEF Job, Threads
  <2>4. /\ Pushed(q[l], readerJob) \in Queue(Job)
        /\ Len(Pushed(q[l], readerJob).items) <= QueueCap
    BY <1>9, <2>1, <2>2, <2>3, QueueCalls DEF Dispatch, TypeOK
  <2>5. /\ q' \in [Threads -> Queue(Job)]
        /\ \A u \in Threads : Len(q'[u].items) <= QueueCap
    BY <1>9, <2>2, <2>3, <2>4, OneQueue DEF Dispatch
  <2>6. lost' \in BOOLEAN
    BY <1>9 DEF Dispatch
  <2>7. TypeOK'
    BY <1>9, <2>5, <2>6 DEF Dispatch, TypeOK, mainVars, stats, counters
  <2>8. Hands' /\ Phases' /\ Joined'
    BY <1>9 DEF Dispatch, Hands, Phases, Joined, Stopped, mainVars
  <2>. QED
    BY <2>7, <2>8
<1>10. ASSUME NEW t \in Threads, Leave(t) PROVE TInv'
  <2>1. TypeOK'
    BY <1>10 DEF Leave, TypeOK, mainVars, readerVars, stats, counters
  <2>2. Hands' /\ Phases' /\ Joined'
    BY <1>10 DEF Leave, TypeOK, Hands, Phases, Joined, Stopped, mainVars, readerVars
  <2>. QED
    BY <2>1, <2>2
<1>11. ASSUME NEW t \in Threads, Pops(t)
       PROVE  /\ NextJob(t) \in Job /\ q' \in [Threads -> Queue(Job)]
              /\ \A u \in Threads : Len(q'[u].items) <= QueueCap
  <2>1. /\ Popped(q[t]) \in Queue(Job) /\ Len(Popped(q[t]).items) <= QueueCap
        /\ Head(q[t].items) \in Job
    BY <1>11, QueueCalls DEF Pops, TypeOK
  <2>. QED
    BY <1>11, <2>1, OneQueue DEF Pops, NextJob
<1>12. ASSUME NEW t \in Threads, LBReceive(t) PROVE TInv'
  <2>1. t # Out /\ pc[t] = "loop"
    BY <1>12, Numbers DEF LBReceive, Pops
  <2>2. has' \in [Threads -> Job \cup {NoJob}]
    BY <1>11, <1>12 DEF LBReceive, TypeOK
  <2>3. received' \in [LBs \cup FPs -> Nat]
    BY <1>12 DEF LBReceive, TypeOK
  <2>4. TypeOK'
    BY <1>11, <1>12, <2>2, <2>3 DEF LBReceive, TypeOK, mainVars, readerVars, stats
  <2>5. Hands'
    BY <1>11, <1>12, <2>1 DEF LBReceive, Hands, TypeOK, readerVars
  <2>6. Phases' /\ Joined'
    BY <1>12, <2>1 DEF LBReceive, Phases, Joined, Stopped, TypeOK, mainVars,
                       readerVars
  <2>. QED
    BY <2>4, <2>5, <2>6
<1>13. ASSUME NEW t \in Threads, FPDrop(t) PROVE TInv'
  <2>1. received' \in [LBs \cup FPs -> Nat] /\ refused' \in [FPs -> Nat]
    BY <1>13 DEF FPDrop, TypeOK
  <2>2. dropped' \in Nat
    BY <1>13 DEF FPDrop, TypeOK
  <2>3. TypeOK'
    BY <1>11, <1>13, <2>1, <2>2 DEF FPDrop, TypeOK, mainVars, readerVars
  <2>4. Hands' /\ Phases' /\ Joined'
    BY <1>13 DEF FPDrop, Hands, Phases, Joined, Stopped, mainVars, readerVars
  <2>. QED
    BY <2>3, <2>4
<1>14. ASSUME NEW t \in Threads, FPForward(t) PROVE TInv'
  <2>1. t # Out /\ pc[t] = "loop"
    BY <1>14, Numbers DEF FPForward, Pops
  <2>2. has' \in [Threads -> Job \cup {NoJob}]
    BY <1>11, <1>14 DEF FPForward, TypeOK
  <2>3. received' \in [LBs \cup FPs -> Nat] /\ forwarded' \in Nat
    BY <1>14 DEF FPForward, TypeOK
  <2>4. TypeOK'
    BY <1>11, <1>14, <2>2, <2>3 DEF FPForward, TypeOK, mainVars, readerVars
  <2>5. Hands'
    BY <1>11, <1>14, <2>1 DEF FPForward, Hands, TypeOK, readerVars
  <2>6. Phases' /\ Joined'
    BY <1>14, <2>1 DEF FPForward, Phases, Joined, Stopped, TypeOK, mainVars,
                       readerVars
  <2>. QED
    BY <2>4, <2>5, <2>6
<1>15. ASSUME NEW t \in Threads, Push(t) PROVE TInv'
  <2>1. pc[t] = "push" /\ t # Out /\ has[t] \in Job /\ t \in LBs \cup FPs
    BY <1>15 DEF Push, Hands, Threads
  <2>2. PICK to : to = Target(t, has[t])
    OBVIOUS
  <2>3. to \in Threads
    BY <2>1, <2>2, Targets DEF Job, Target, Threads
  <2>4. /\ Pushed(q[to], has[t]) \in Queue(Job)
        /\ Len(Pushed(q[to], has[t]).items) <= QueueCap
    BY <1>15, <2>1, <2>2, <2>3, QueueCalls DEF Push, TypeOK
  <2>5. /\ q' \in [Threads -> Queue(Job)]
        /\ \A u \in Threads : Len(q'[u].items) <= QueueCap
    BY <1>15, <2>2, <2>3, <2>4, OneQueue DEF Push
  <2>6. lost' \in BOOLEAN
    BY <1>15 DEF Push
  <2>7. routed' \in [Workers -> Nat] /\ sent' \in [LBs \cup FPs -> Nat]
    <3>1. sent' \in [LBs \cup FPs -> Nat]
      BY <1>15, <2>1 DEF Push, TypeOK
    <3>2. routed \in [Workers -> Nat]
      BY DEF TypeOK
    <3>3. PICK w : w = WorkerFor(t, has[t].hash)
      OBVIOUS
    <3>4. t \in FPs \/ w \in Workers
      BY <2>1, <3>3, Targets DEF Job
    <3>5. routed' = routed \/ (w \in Workers /\ routed' = [routed EXCEPT ![w] = @ + 1])
      BY <1>15, <3>3, <3>4 DEF Push
    <3>. QED
      BY <3>1, <3>2, <3>5
  <2>8. TypeOK'
    BY <1>15, <2>5, <2>6, <2>7 DEF Push, TypeOK, mainVars, readerVars, stats
  <2>9. Hands' /\ Phases' /\ Joined'
    BY <1>15, <2>1 DEF Push, Hands, Phases, Joined, Stopped, TypeOK, mainVars,
                       readerVars
  <2>. QED
    BY <2>8, <2>9
<1>16. ASSUME Write PROVE TInv'
  <2>1. NextJob(Out) \in Job
    BY <1>11, <1>16, Numbers DEF Write
  <2>2. output' \in Seq(Job \cup {Header})
    BY <1>16, <2>1 DEF Write, TypeOK
  <2>3. TypeOK'
    BY <1>11, <1>16, <2>2, Numbers DEF Write, TypeOK, mainVars, readerVars, stats,
                                       counters
  <2>4. Hands' /\ Phases' /\ Joined'
    BY <1>16 DEF Write, Hands, Phases, Joined, Stopped, mainVars, readerVars
  <2>. QED
    BY <2>3, <2>4
<1>17. ASSUME UNCHANGED vars PROVE TInv'
  <2>1. TypeOK'
    BY <1>17 DEF vars, TypeOK, mainVars, readerVars, stats, counters
  <2>2. Hands' /\ Phases' /\ Joined'
    BY <1>17 DEF vars, Hands, Phases, Joined, Stopped, mainVars, readerVars
  <2>. QED
    BY <2>1, <2>2
<1>. QED
  BY <1>1, <1>2, <1>3, <1>4, <1>5, <1>6, <1>7, <1>8, <1>9, <1>10, <1>12, <1>13,
     <1>14, <1>15, <1>16, <1>17 DEF Next, Main, Reader, Thread, Finished

LEMMA AlwaysTInv == Spec => []TInv
BY InitTInv, NextTInv, PTL DEF Spec

(* Every variable keeps its type: in particular no queue outgrows its      *)
(* bound, and the two hashes always lead to a thread that exists.          *)
THEOREM EngineTypeCorrect == Spec => []TypeOK
BY AlwaysTInv, PTL DEF TInv
-----------------------------------------------------------------------------
(* The threads whose queue stop() has shut down.                           *)
Closing(t) ==
  \/ t # Out /\ mainPc \in {"shutOut", "joinOut", "done"}
  \/ t # Out /\ mainPc \in {"halt", "join"} /\ t < stopping
  \/ mainPc = "join" /\ t = stopping
  \/ t = Out /\ mainPc \in {"joinOut", "done"}

(* Queues are shut down in stop()'s order, and never opened again.         *)
Shut ==
  /\ \A t \in Threads : Closing(t) => q[t].down
  /\ \A t \in Threads : q[t].down => file >= 2 \/ Closing(t)
  /\ file >= 2 => \A t \in Threads : q[t].down

FirstJobs == {j \in Job : j.file = 1}

(* What is in the engine belongs to the first file.                        *)
FirstOnly ==
  /\ \A t \in Threads : has[t] \in FirstJobs \cup {NoJob}
  /\ \A t \in Threads : q[t] \in Queue(FirstJobs)

(* While there is one file, nothing is lost and the header comes first:    *)
(* until it is written there is nothing to write.                          *)
HeaderFirst ==
  file <= 1 =>
    /\ ~lost
    /\ readerJob # NoJob => readerJob \in FirstJobs
    /\ output # <<>> => Head(output) = Header
    /\ mainPc = "idle" => output = <<>>
    /\ readerPc = "open" => output = <<>>
    /\ output = <<>> =>
         /\ readerPc \in {"off", "open"}
         /\ \A t \in Threads : pc[t] # "push" /\ q[t].items = <<>>

OInv == TInv /\ Shut /\ FirstOnly /\ HeaderFirst

LEMMA InitOInv == Init => OInv
<1>. SUFFICES ASSUME Init PROVE OInv
  OBVIOUS
<1>1. TInv
  BY InitTInv
<1>2. Shut
  BY DEF Init, Shut, Closing, NewQueue
<1>3. FirstOnly
  BY DEF Init, FirstOnly, NewQueue, Queue
<1>4. HeaderFirst
  BY DEF Init, HeaderFirst, NewQueue
<1>. QED
  BY <1>1, <1>2, <1>3, <1>4 DEF OInv

LEMMA DownStays ==
  ASSUME NEW S, NEW c \in Queue(S), NEW x
  PROVE  /\ ShutDown(c).down /\ ShutDown(c).items = c.items
         /\ Popped(c).down = c.down
         /\ Pushed(c, x).down = c.down
         /\ c.down => Pushed(c, x) = c
BY DEF Queue, ShutDown, Popped, Pushed

(* A push of thread t finds the queue it aims at open, while there is one  *)
(* file: stop() has not come to t, and the target comes later.             *)
LEMMA TargetOpen ==
  ASSUME OInv, file <= 1, NEW t \in Threads, pc[t] = "push"
  PROVE  ~q[Target(t, has[t])].down
<1>. USE DEF OInv, TInv
<1>1. t # Out /\ has[t] \in Job /\ t \in LBs \cup FPs
  BY DEF Hands, Threads
<1>2. ~Stopped(t) /\ mainPc # "idle"
  BY DEF Joined, Phases
<1>3. PICK to : to = Target(t, has[t])
  OBVIOUS
<1>4. to \in Threads /\ t < to
  BY <1>1, <1>3, Targets, Numbers DEF Job, Target, Threads
<1>5. t \in Nat /\ to \in Nat /\ stopping \in Nat /\ Out \in Nat /\ to <= Out
  BY <1>4, Numbers DEF TypeOK
<1>6. ~Closing(to)
  BY <1>1, <1>2, <1>4, <1>5 DEF Closing, Stopped, Phases
<1>. QED
  BY <1>3, <1>4, <1>6 DEF Shut, TypeOK

LEMMA NextOInv == OInv /\ [Next]_vars => OInv'
<1>. SUFFICES ASSUME OInv, [Next]_vars PROVE OInv'
  OBVIOUS
<1>. USE DEF OInv
<1>0. TInv /\ TInv'
  BY NextTInv
<1>a. /\ file \in Nat /\ stopping \in Nat /\ Out \in Nat \ {0} /\ Out \in Threads
      /\ Threads = 0 .. Out
  BY <1>0, EngineAssumption, Numbers DEF TInv, TypeOK
<1>b. /\ q \in [Threads -> Queue(Job)] /\ has \in [Threads -> Job \cup {NoJob}]
      /\ \A t \in Threads : q[t] \in Queue(FirstJobs) /\ Len(q[t].items) <= QueueCap
  BY <1>0 DEF TInv, TypeOK, FirstOnly
<1>c. \A j \in FirstJobs : j \in Job /\ j # NoJob
  BY DEF FirstJobs, NoJob
<1>1. ASSUME Start PROVE OInv'
  <2>1. (Shut /\ FirstOnly)'
    BY <1>0, <1>1, <1>a DEF Start, Shut, Closing, FirstOnly, TInv, Phases
  <2>2. HeaderFirst'
    <3>1. CASE mainPc = "idle"
      BY <1>0, <1>1, <3>1 DEF Start, HeaderFirst, TInv, Phases, Hands
    <3>2. CASE mainPc = "done"
      BY <1>0, <1>1, <1>a, <3>2 DEF Start, HeaderFirst, TInv, Phases
    <3>. QED
      BY <1>1, <3>1, <3>2 DEF Start
  <2>. QED
    BY <1>0, <2>1, <2>2
<1>2. ASSUME Stop PROVE OInv'
  <2>1. Shut'
    BY <1>2, <1>a DEF Stop, Shut, Closing, readerVars
  <2>2. FirstOnly' /\ HeaderFirst'
    BY <1>2 DEF Stop, FirstOnly, HeaderFirst, readerVars
  <2>. QED
    BY <1>0, <2>1, <2>2
<1>3. ASSUME NEW t \in Threads, q' = [q EXCEPT ![t] = ShutDown(@)]
      PROVE  /\ \A u \in Threads : /\ q'[u].items = q[u].items
                                   /\ q'[u] \in Queue(FirstJobs)
                                   /\ u # t => q'[u].down = q[u].down
             /\ q'[t].down
  <2>1. ShutDown(q[t]) \in Queue(FirstJobs)
    BY <1>b, QueueCalls
  <2>. QED
    BY <1>3, <1>b, <2>1, DownStays
<1>4. ASSUME Halt PROVE OInv'
  <2>1. stopping \in Threads /\ stopping < Out
    BY <1>0, <1>4 DEF Halt, TInv, TypeOK, Phases
  <2>2. Shut'
    <3>1. q' = [q EXCEPT ![stopping] = ShutDown(@)]
      BY <1>4 DEF Halt
    <3>2. q'[stopping].down
      BY <1>3, <2>1, <3>1
    <3>3. \A u \in Threads : u # stopping => q'[u].down = q[u].down
      BY <1>3, <2>1, <3>1
    <3>4. \A u \in Threads : Closing(u)' <=> Closing(u) \/ u = stopping
      BY <1>4, <1>a, <2>1 DEF Halt, Closing
    <3>5. \A u \in Threads : Closing(u)' => q'[u].down
      BY <3>2, <3>3, <3>4 DEF Shut
    <3>6. \A u \in Threads : q'[u].down => file >= 2 \/ Closing(u)'
      BY <3>3, <3>4 DEF Shut
    <3>7. file >= 2 => \A u \in Threads : q'[u].down
      BY <3>2, <3>3 DEF Shut
    <3>. QED
      BY <1>4, <3>5, <3>6, <3>7 DEF Halt, Shut
  <2>3. FirstOnly'
    BY <1>3, <1>4, <2>1 DEF Halt, FirstOnly
  <2>4. HeaderFirst'
    BY <1>3, <1>4, <2>1 DEF Halt, HeaderFirst, readerVars
  <2>. QED
    BY <1>0, <2>2, <2>3, <2>4
<1>5. ASSUME Join PROVE OInv'
  <2>1. stopping < Out /\ stopping' = stopping + 1
    BY <1>0, <1>5 DEF Join, TInv, Phases
  <2>2. Shut'
    BY <1>5, <1>a, <2>1 DEF Join, Shut, Closing
  <2>3. FirstOnly' /\ HeaderFirst'
    BY <1>5 DEF Join, FirstOnly, HeaderFirst, readerVars
  <2>. QED
    BY <1>0, <2>2, <2>3
<1>6. ASSUME ShutOutput PROVE OInv'
  <2>1. Shut'
    BY <1>3, <1>6, <1>a DEF ShutOutput, Shut, Closing
  <2>2. FirstOnly'
    BY <1>3, <1>6, <1>a DEF ShutOutput, FirstOnly
  <2>3. HeaderFirst'
    BY <1>3, <1>6, <1>a DEF ShutOutput, HeaderFirst, readerVars
  <2>. QED
    BY <1>0, <2>1, <2>2, <2>3
<1>7. ASSUME JoinOutput PROVE OInv'
  <2>1. Shut'
    BY <1>7, <1>a DEF JoinOutput, Shut, Closing
  <2>2. FirstOnly' /\ HeaderFirst'
    BY <1>7 DEF JoinOutput, FirstOnly, HeaderFirst, readerVars
  <2>. QED
    BY <1>0, <2>1, <2>2
<1>8. ASSUME ReaderFails \/ EndOfFile PROVE OInv'
  <2>1. Shut' /\ FirstOnly'
    BY <1>8 DEF ReaderFails, EndOfFile, Shut, Closing, FirstOnly, mainVars
  <2>2. HeaderFirst'
    BY <1>8 DEF ReaderFails, EndOfFile, HeaderFirst, mainVars
  <2>. QED
    BY <1>0, <2>1, <2>2
<1>9. ASSUME WriteHeader PROVE OInv'
  <2>1. Shut' /\ FirstOnly'
    BY <1>9 DEF WriteHeader, Shut, Closing, FirstOnly, mainVars
  <2>2. output \in Seq(Job \cup {Header}) /\ output' = Append(output, Header)
    BY <1>0, <1>9 DEF WriteHeader, TInv, TypeOK
  <2>3. output' # <<>>
    BY <2>2
  <2>4. output = <<>> => Head(output') = Header
    BY <2>2
  <2>5. mainPc = "reading"
    BY <1>0, <1>9 DEF WriteHeader, TInv, Phases
  <2>6. HeaderFirst'
    BY <1>9, <2>3, <2>4, <2>5 DEF WriteHeader, HeaderFirst, mainVars
  <2>. QED
    BY <1>0, <2>1, <2>6
<1>10. ASSUME Read PROVE OInv'
  <2>1. Shut' /\ FirstOnly'
    BY <1>10 DEF Read, Shut, Closing, FirstOnly, mainVars
  <2>2. readerJob' \in Job /\ file >= 1 /\ readerJob'.file = file
    BY <1>0, <1>10 DEF Read, TInv, Phases, Hands
  <2>3. file <= 1 => readerJob' \in FirstJobs
    BY <1>a, <2>2 DEF FirstJobs
  <2>4. HeaderFirst'
    BY <1>10, <2>3 DEF Read, HeaderFirst, mainVars
  <2>. QED
    BY <1>0, <2>1, <2>4
<1>11. ASSUME NEW t \in Threads, NEW job \in Job, CanPush(q[t]),
              file <= 1 => job \in FirstJobs,
              q' = [q EXCEPT ![t] = Pushed(@, job)]
       PROVE  \A u \in Threads : q'[u] \in Queue(FirstJobs) /\ q'[u].down = q[u].down
  <2>1. q[t].down \/ job \in FirstJobs
    BY <1>11, <1>a DEF Shut
  <2>2. Pushed(q[t], job) \in Queue(FirstJobs)
    <3>1. CASE q[t].down
      BY <1>b, <3>1 DEF Pushed
    <3>2. CASE job \in FirstJobs
      BY <1>11, <1>b, <3>2, QueueCalls
    <3>. QED
      BY <2>1, <3>1, <3>2
  <2>. QED
    BY <1>11, <1>b, <2>2, DownStays
<1>12. ASSUME Dispatch PROVE OInv'
  <2>1. readerJob \in Job /\ readerJob # NoJob
    BY <1>0, <1>12 DEF Dispatch, TInv, Hands, Job, NoJob
  <2>2. PICK l : l = LBForPacket(readerJob.hash)
    OBVIOUS
  <2>3. l \in Threads
    BY <2>1, <2>2, Targets DEF Job, Threads
  <2>4. \A u \in Threads : q'[u] \in Queue(FirstJobs) /\ q'[u].down = q[u].down
    BY <1>11, <1>12, <2>1, <2>2, <2>3 DEF Dispatch, HeaderFirst
  <2>5. Shut' /\ FirstOnly'
    BY <1>12, <2>4 DEF Dispatch, Shut, Closing, FirstOnly, mainVars
  <2>6. mainPc = "reading"
    BY <1>0, <1>12 DEF Dispatch, TInv, Phases
  <2>7. file <= 1 => ~lost'
    <3>1. ~Closing(l)
      BY <2>6 DEF Closing
    <3>2. file <= 1 => ~q[l].down
      BY <1>a, <2>3, <3>1 DEF Shut
    <3>. QED
      BY <1>12, <2>2, <3>2 DEF Dispatch, HeaderFirst
  <2>8. file <= 1 => output # <<>>
    BY <1>12 DEF Dispatch, HeaderFirst
  <2>9. HeaderFirst'
    BY <1>12, <2>6, <2>7, <2>8 DEF Dispatch, HeaderFirst, mainVars
  <2>. QED
    BY <1>0, <2>5, <2>9
<1>13. ASSUME NEW t \in Threads, Leave(t) PROVE OInv'
  <2>1. Shut' /\ FirstOnly'
    BY <1>13 DEF Leave, Shut, Closing, FirstOnly, mainVars
  <2>2. \A u \in Threads : pc'[u] = "push" => pc[u] = "push"
    BY <1>0, <1>13 DEF Leave, TInv, TypeOK
  <2>3. HeaderFirst'
    BY <1>13, <2>2 DEF Leave, HeaderFirst, mainVars, readerVars
  <2>. QED
    BY <1>0, <2>1, <2>3
<1>14. ASSUME NEW t \in Threads, Pops(t)
       PROVE  /\ \A u \in Threads : /\ q'[u] \in Queue(FirstJobs)
                                    /\ q'[u].down = q[u].down
              /\ NextJob(t) \in FirstJobs
              /\ file <= 1 => output # <<>>
  <2>1. Popped(q[t]) \in Queue(FirstJobs) /\ Head(q[t].items) \in FirstJobs
    BY <1>14, <1>b, QueueCalls DEF Pops
  <2>2. q[t].items # <<>>
    BY <1>14 DEF Pops, IsEmpty
  <2>. QED
    BY <1>14, <1>b, <2>1, <2>2, DownStays DEF Pops, NextJob, HeaderFirst
<1>15. ASSUME NEW t \in Threads, LBReceive(t) \/ FPDrop(t) \/ FPForward(t)
       PROVE  OInv'
  <2>1. Pops(t) /\ (has' = has \/ has' = [has EXCEPT ![t] = NextJob(t)])
    BY <1>15 DEF LBReceive, FPDrop, FPForward
  <2>2. Shut'
    BY <1>14, <1>15, <2>1 DEF LBReceive, FPDrop, FPForward, Shut, Closing, mainVars
  <2>3. FirstOnly'
    BY <1>14, <1>b, <2>1 DEF FirstOnly
  <2>4. HeaderFirst'
    BY <1>14, <1>15, <2>1 DEF LBReceive, FPDrop, FPForward, HeaderFirst, mainVars,
                              readerVars
  <2>. QED
    BY <1>0, <2>2, <2>3, <2>4
<1>16. ASSUME NEW t \in Threads, Push(t) PROVE OInv'
  <2>1. pc[t] = "push" /\ has[t] \in Job /\ t \in LBs \cup FPs
    BY <1>0, <1>16 DEF Push, TInv, Hands, Threads
  <2>2. PICK to : to = Target(t, has[t])
    OBVIOUS
  <2>3. to \in Threads
    BY <2>1, <2>2, Targets DEF Job, Target, Threads
  <2>4. has[t] \in FirstJobs
    BY <2>1 DEF FirstOnly, Job, NoJob
  <2>5. \A u \in Threads : q'[u] \in Queue(FirstJobs) /\ q'[u].down = q[u].down
    BY <1>11, <1>16, <2>1, <2>2, <2>3, <2>4 DEF Push
  <2>6. Shut'
    BY <1>16, <2>5 DEF Push, Shut, Closing, mainVars
  <2>7. FirstOnly'
    BY <1>16, <1>b, <2>5 DEF Push, FirstOnly
  <2>8. file <= 1 => output # <<>> /\ ~q[to].down
    BY <2>1, <2>2, TargetOpen DEF HeaderFirst
  <2>9. HeaderFirst'
    BY <1>16, <2>2, <2>8 DEF Push, HeaderFirst, mainVars, readerVars
  <2>. QED
    BY <1>0, <2>6, <2>7, <2>9
<1>17. ASSUME Write PROVE OInv'
  <2>1. Pops(Out)
    BY <1>17 DEF Write
  <2>2. Shut' /\ FirstOnly'
    BY <1>14, <1>17, <1>a, <2>1 DEF Write, Shut, Closing, FirstOnly, mainVars
  <2>3. /\ output \in Seq(Job \cup {Header}) /\ NextJob(Out) \in Job \cup {Header}
        /\ output' = Append(output, NextJob(Out))
    BY <1>0, <1>14, <1>17, <1>a, <1>c, <2>1 DEF Write, TInv, TypeOK
  <2>4. output' # <<>>
    BY <2>3
  <2>5. output # <<>> => Head(output') = Head(output)
    BY <2>3
  <2>6. HeaderFirst'
    BY <1>14, <1>17, <1>a, <2>1, <2>4, <2>5 DEF Write, HeaderFirst, mainVars,
                                                readerVars
  <2>. QED
    BY <1>0, <2>2, <2>6
<1>18. ASSUME UNCHANGED vars PROVE OInv'
  BY <1>0, <1>18 DEF vars, Shut, Closing, FirstOnly, HeaderFirst, mainVars, readerVars
<1>. QED
  BY <1>1, <1>2, <1>4, <1>5, <1>6, <1>7, <1>8, <1>9, <1>10, <1>12, <1>13, <1>15,
     <1>16, <1>17, <1>18 DEF Next, Main, Reader, Thread, Finished

LEMMA AlwaysOInv == Spec => []OInv
BY InitOInv, NextOInv, PTL DEF Spec

(* stop() takes the threads down in an order that loses no packet of the   *)
(* first file and keeps the header in front; and the queues it has shut    *)
(* keep every packet of a later file out, with any number of threads.      *)
THEOREM OnlyOneFileProcessed == Spec => []OnlyOneFile
<1>1. ASSUME OInv PROVE OnlyOneFile
  <2>1. \A t \in Threads : has[t] # NoJob => has[t].file = 1
    BY <1>1 DEF OInv, FirstOnly, FirstJobs
  <2>2. \A t \in Threads : \A n \in 1 .. Len(q[t].items) : q[t].items[n].file = 1
    <3>1. ASSUME NEW t \in Threads, NEW n \in 1 .. Len(q[t].items)
          PROVE  q[t].items[n].file = 1
      <4>1. q[t].items \in Seq(FirstJobs)
        BY <1>1 DEF OInv, FirstOnly, Queue
      <4>2. q[t].items[n] \in FirstJobs
        BY <4>1
      <4>. QED
        BY <4>2 DEF FirstJobs
    <3>. QED
      BY <3>1
  <2>. QED
    BY <1>1, <2>1, <2>2 DEF OnlyOneFile, OInv, HeaderFirst
<1>. QED
  BY <1>1, AlwaysOInv, PTL
-----------------------------------------------------------------------------
(* A load balancer only ever has packets whose hash leads to it.           *)
JobsOf(l) == {j \in Job : LBForPacket(j.hash) = l}

Balanced ==
  \A l \in LBs : has[l] \in JobsOf(l) \cup {NoJob} /\ q[l] \in Queue(JobsOf(l))

(* What becomes of the claim EveryWorkerServes, since both levels take a   *)
(* remainder of the same hash: worker i of load balancer l gets packets    *)
(* only if l and i agree modulo every common divisor of the two numbers.   *)
(* With 2 and 2, as with 3 and 3, a balancer feeds one worker and the      *)
(* others stay idle.                                                       *)
IdleWorkers ==
  \A w \in Workers : routed[w] > 0 =>
    \A d \in 1 .. NumLBs :
      NumLBs % d = 0 /\ FpsPerLB % d = 0
        => (w \div FpsPerLB) % d = (w % FpsPerLB) % d

RInv == TInv /\ Balanced /\ IdleWorkers

(* The worker a load balancer picks for its packet has the same remainder  *)
(* as the balancer by every divisor that both numbers have.                *)
LEMMA SameRemainder ==
  ASSUME NEW l \in LBs, NEW h \in Hashes, LBForPacket(h) = l,
         NEW d \in Nat \ {0}, NumLBs % d = 0, FpsPerLB % d = 0,
         NEW w, w = WorkerFor(l, h)
  PROVE  (w \div FpsPerLB) % d = (w % FpsPerLB) % d
<1>1. NumLBs \in Nat \ {0} /\ FpsPerLB \in Nat \ {0} /\ h \in Nat /\ l \in Nat
  BY EngineAssumption DEF LBs
<1>2. l % d = h % d
  BY <1>1, RemainderTwice DEF LBForPacket
<1>3. PICK r \in 0 .. FpsPerLB - 1 : r = SelectFP(h)
  BY <1>1 DEF SelectFP
<1>4. r % d = h % d
  BY <1>1, <1>3, RemainderTwice DEF SelectFP
<1>5. w = (FpsPerLB * l) + r /\ w \in Nat
  BY <1>1, <1>3 DEF WorkerFor
<1>6. w % FpsPerLB = r
  BY <1>1, <1>5, Remainder
<1>7. w \div FpsPerLB = l
  <2>. DEFINE k == w \div FpsPerLB
  <2>1. k \in Nat /\ w = (FpsPerLB * k) + r
    BY <1>1, <1>5, <1>6, Division
  <2>. HIDE DEF k
  <2>2. FpsPerLB * k = FpsPerLB * l
    BY <1>1, <1>3, <1>5, <2>1
  <2>3. k = l
    BY <1>1, <2>1, <2>2
  <2>. QED
    BY <2>3 DEF k
<1>. QED
  BY <1>2, <1>4, <1>6, <1>7

LEMMA InitRInv == Init => RInv
<1>. SUFFICES ASSUME Init PROVE RInv
  OBVIOUS
<1>1. LBs \subseteq Threads
  BY DEF Threads
<1>2. Balanced
  BY <1>1 DEF Init, Balanced, NewQueue, Queue
<1>3. IdleWorkers
  BY DEF Init, IdleWorkers
<1>. QED
  BY <1>2, <1>3, InitTInv DEF RInv

LEMMA NextRInv == RInv /\ [Next]_vars => RInv'
<1>. SUFFICES ASSUME RInv, [Next]_vars PROVE RInv'
  OBVIOUS
<1>. USE DEF RInv
<1>1. TInv /\ TInv'
  BY NextTInv
<1>2. /\ q \in [Threads -> Queue(Job)] /\ has \in [Threads -> Job \cup {NoJob}]
      /\ \A t \in Threads : Len(q[t].items) <= QueueCap
      /\ LBs \subseteq Threads
  BY <1>1 DEF TInv, TypeOK, Threads
<1>3. ASSUME UNCHANGED <<q, has>> PROVE Balanced'
  BY <1>3 DEF Balanced
<1>4. ASSUME UNCHANGED routed PROVE IdleWorkers'
  BY <1>4 DEF IdleWorkers
<1>5. ASSUME NEW t \in Threads, q' = [q EXCEPT ![t] = ShutDown(@)], UNCHANGED has
      PROVE  Balanced'
  <2>1. t \in LBs => ShutDown(q[t]) \in Queue(JobsOf(t))
    BY <1>2, QueueCalls DEF Balanced
  <2>. QED
    BY <1>2, <1>5, <2>1 DEF Balanced
<1>6. ASSUME Halt \/ ShutOutput PROVE RInv'
  <2>1. stopping \in Threads /\ Out \in Threads
    BY <1>1, Numbers DEF TInv, TypeOK
  <2>2. Balanced'
    BY <1>5, <1>6, <2>1 DEF Halt, ShutOutput
  <2>3. IdleWorkers'
    BY <1>4, <1>6 DEF Halt, ShutOutput, counters
  <2>. QED
    BY <1>1, <2>2, <2>3
<1>7. ASSUME Start \/ Stop \/ Join \/ JoinOutput \/ ReaderFails \/ WriteHeader
               \/ Read \/ EndOfFile \/ (\E t \in Threads : Leave(t))
      PROVE  RInv'
  <2>1. UNCHANGED <<q, has>> /\ UNCHANGED routed
    BY <1>7 DEF Start, Stop, Join, JoinOutput, ReaderFails, WriteHeader, Read,
                EndOfFile, Leave, counters
  <2>. QED
    BY <1>1, <1>3, <1>4, <2>1
<1>8. ASSUME Dispatch PROVE RInv'
  <2>1. readerJob \in Job
    BY <1>1, <1>8 DEF Dispatch, TInv, Hands
  <2>2. PICK l : l = LBForPacket(readerJob.hash)
    OBVIOUS
  <2>3. l \in LBs /\ l \in Threads /\ readerJob \in JobsOf(l)
    BY <1>2, <2>1, <2>2, Targets DEF Job, JobsOf
  <2>4. Pushed(q[l], readerJob) \in Queue(JobsOf(l))
    BY <1>2, <1>8, <2>2, <2>3, QueueCalls DEF Dispatch, Balanced
  <2>5. Balanced'
    BY <1>2, <1>8, <2>2, <2>4 DEF Dispatch, Balanced
  <2>6. IdleWorkers'
    BY <1>4, <1>8 DEF Dispatch, counters
  <2>. QED
    BY <1>1, <2>5, <2>6
<1>9. ASSUME NEW t \in Threads, Pops(t),
             has' = has \/ has' = [has EXCEPT ![t] = NextJob(t)]
      PROVE  Balanced'
  <2>1. t \in LBs => /\ Popped(q[t]) \in Queue(JobsOf(t))
                     /\ NextJob(t) \in JobsOf(t)
    BY <1>2, <1>9, QueueCalls DEF Pops, NextJob, Balanced
  <2>. QED
    BY <1>2, <1>9, <2>1 DEF Pops, Balanced
<1>10. ASSUME NEW t \in Threads, LBReceive(t) \/ FPDrop(t) \/ FPForward(t)
       PROVE  RInv'
  <2>1. Balanced'
    BY <1>9, <1>10 DEF LBReceive, FPDrop, FPForward
  <2>2. IdleWorkers'
    BY <1>4, <1>10 DEF LBReceive, FPDrop, FPForward
  <2>. QED
    BY <1>1, <2>1, <2>2
<1>11. ASSUME Write PROVE RInv'
  <2>1. Out \in Threads
    BY Numbers
  <2>2. Balanced'
    BY <1>9, <1>11, <2>1 DEF Write
  <2>3. IdleWorkers'
    BY <1>4, <1>11 DEF Write, counters
  <2>. QED
    BY <1>1, <2>2, <2>3
<1>12. ASSUME NEW t \in Threads, Push(t) PROVE RInv'
  <2>1. has[t] \in Job /\ t \in LBs \cup FPs
    BY <1>1, <1>12 DEF Push, TInv, Hands, Threads
  <2>2. PICK to : to = Target(t, has[t])
    OBVIOUS
  <2>3. to \in Threads /\ to \notin LBs
    BY <2>1, <2>2, Targets, Numbers DEF Job, Target, Threads, LBs, FPs
  <2>4. Balanced'
    BY <1>2, <1>12, <2>2, <2>3 DEF Push, Balanced
  <2>5. CASE t \in FPs
    BY <1>1, <1>4, <1>12, <2>4, <2>5 DEF Push
  <2>6. CASE t \in LBs
    <3>1. t \notin FPs
      BY <2>6, Numbers DEF LBs, FPs
    <3>2. PICK v : v = WorkerFor(t, has[t].hash)
      OBVIOUS
    <3>3. has[t].hash \in Hashes /\ LBForPacket(has[t].hash) = t
      <4>1. has[t] # NoJob
        BY <2>1 DEF Job, NoJob
      <4>2. has[t] \in JobsOf(t)
        BY <2>6, <4>1 DEF Balanced
      <4>. QED
        BY <2>1, <4>2 DEF JobsOf, Job
    <3>4. ASSUME NEW d \in 1 .. NumLBs, NumLBs % d = 0, FpsPerLB % d = 0
          PROVE  (v \div FpsPerLB) % d = (v % FpsPerLB) % d
      <4>1. d \in Nat \ {0}
        BY EngineAssumption
      <4>. QED
        BY <2>6, <3>2, <3>3, <3>4, <4>1, SameRemainder
    <3>5. routed' = [routed EXCEPT ![v] = @ + 1]
      BY <1>12, <3>1, <3>2 DEF Push
    <3>6. \A w \in Workers : w # v => routed'[w] = routed[w]
      <4>1. routed \in [Workers -> Nat]
        BY <1>1 DEF TInv, TypeOK
      <4>. QED
        BY <3>5, <4>1
    <3>7. \A w \in Workers : w = v \/ (routed'[w] > 0 => routed[w] > 0)
      BY <3>6
    <3>8. ASSUME NEW w \in Workers, routed'[w] > 0,
                 NEW d \in 1 .. NumLBs, NumLBs % d = 0, FpsPerLB % d = 0
          PROVE  (w \div FpsPerLB) % d = (w % FpsPerLB) % d
      <4>1. CASE w = v
        BY <3>4, <3>8, <4>1
      <4>2. CASE w # v
        BY <3>7, <3>8, <4>2 DEF IdleWorkers
      <4>. QED
        BY <4>1, <4>2
    <3>9. IdleWorkers'
      BY <3>8 DEF IdleWorkers
    <3>. QED
      BY <1>1, <2>4, <3>9
  <2>. QED
    BY <2>1, <2>5, <2>6
<1>13. ASSUME UNCHANGED vars PROVE RInv'
  BY <1>1, <1>3, <1>4, <1>13 DEF vars, counters
<1>. QED
  BY <1>6, <1>7, <1>8, <1>10, <1>11, <1>12, <1>13 DEF Next, Main, Reader, Thread,
     Finished

(* For any numbers of load balancers and workers: a worker whose number    *)
(* and balancer differ by a common divisor of the two is never used, so of *)
(* n balancers with n workers each, each feeds one.                        *)
THEOREM WorkersStayIdle == Spec => []IdleWorkers
<1>1. RInv => IdleWorkers
  BY DEF RInv
<1>. QED
  BY <1>1, InitRInv, NextRInv, PTL DEF Spec
-----------------------------------------------------------------------------
(* The packets in s, headers apart; those of one sequence before those of  *)
(* another, flow by flow.                                                  *)
Packets(s) == {s[n] : n \in DOMAIN s} \ {Header}
AllBefore(S, T) == \A x \in S, y \in T : x.hash = y.hash => Before(x, y)

LEMMA ConcatOrder ==
  ASSUME NEW S, NEW a \in Seq(S), NEW b \in Seq(S)
  PROVE  /\ Packets(a \o b) = Packets(a) \cup Packets(b)
         /\ InOrder(a \o b) <=>
              InOrder(a) /\ InOrder(b) /\ AllBefore(Packets(a), Packets(b))
<1>. DEFINE c == a \o b
            k == Len(a)
<1>1. /\ k \in Nat /\ Len(b) \in Nat
      /\ DOMAIN a = 1 .. k /\ DOMAIN b = 1 .. Len(b) /\ DOMAIN c = 1 .. k + Len(b)
      /\ \A n \in 1 .. k : c[n] = a[n]
  OBVIOUS
<1>2. \A n \in 1 .. Len(b) : k + n \in 1 .. k + Len(b) /\ c[k + n] = b[n]
  BY <1>1
<1>3. \A n \in DOMAIN c : n \in DOMAIN a \/ \E i \in DOMAIN b : n = k + i
  <2>1. ASSUME NEW n \in 1 .. k + Len(b), n > k
        PROVE  \E i \in 1 .. Len(b) : n = k + i
    <3>1. n - k \in 1 .. Len(b) /\ n = k + (n - k)
      BY <1>1, <2>1
    <3>. QED
      BY <3>1
  <2>2. \A n \in 1 .. k + Len(b) : ~(n > k) => n \in 1 .. k
    BY <1>1
  <2>. HIDE DEF c, k
  <2>. QED
    BY <1>1, <2>1, <2>2
<1>4. /\ \A n \in DOMAIN a : n \in DOMAIN c /\ c[n] = a[n]
      /\ \A n \in DOMAIN b : k + n \in DOMAIN c /\ c[k + n] = b[n]
  BY <1>1, <1>2
<1>5. /\ \A i \in DOMAIN a : i \in Nat /\ \A j \in DOMAIN b : i < k + j
      /\ \A i, j \in DOMAIN b : i \in Nat /\ (k + i < k + j <=> i < j)
      /\ \A i, j \in DOMAIN a : ~(k + j < i)
      /\ \A i \in DOMAIN a, j \in DOMAIN b : ~(k + j < i)
  BY <1>1
<1>. HIDE DEF c, k
<1>6. Packets(c) = Packets(a) \cup Packets(b)
  <2>1. Packets(c) \subseteq Packets(a) \cup Packets(b)
    BY <1>3, <1>4 DEF Packets
  <2>2. Packets(a) \subseteq Packets(c) /\ Packets(b) \subseteq Packets(c)
    BY <1>4 DEF Packets
  <2>. QED
    BY <2>1, <2>2
<1>7. ASSUME InOrder(c)
      PROVE  InOrder(a) /\ InOrder(b) /\ AllBefore(Packets(a), Packets(b))
  <2>1. InOrder(a)
    BY <1>4, <1>7 DEF InOrder
  <2>2. ASSUME NEW m \in DOMAIN b, NEW n \in DOMAIN b, m < n, b[m] # Header,
               b[n] # Header, b[m].hash = b[n].hash
        PROVE  Before(b[m], b[n])
    <3>1. k + m < k + n
      BY <1>5, <2>2
    <3>. QED
      BY <1>4, <1>7, <2>2, <3>1 DEF InOrder
  <2>3. ASSUME NEW x \in Packets(a), NEW y \in Packets(b), x.hash = y.hash
        PROVE  Before(x, y)
    <3>1. PICK i \in DOMAIN a, j \in DOMAIN b : x = a[i] /\ y = b[j]
      BY DEF Packets
    <3>2. i < k + j /\ x # Header /\ y # Header
      BY <1>5 DEF Packets
    <3>3. c[i] = x /\ c[k + j] = y /\ i \in DOMAIN c /\ k + j \in DOMAIN c
      BY <1>4, <3>1
    <3>. QED
      BY <1>7, <2>3, <3>2, <3>3 DEF InOrder
  <2>. QED
    BY <2>1, <2>2, <2>3 DEF InOrder, AllBefore
<1>8. ASSUME InOrder(a), InOrder(b), AllBefore(Packets(a), Packets(b))
      PROVE  InOrder(c)
  <2>. SUFFICES ASSUME NEW m \in DOMAIN c, NEW n \in DOMAIN c, m < n, c[m] # Header,
                       c[n] # Header, c[m].hash = c[n].hash
                PROVE  Before(c[m], c[n])
    BY DEF InOrder
  <2>1. CASE m \in DOMAIN a /\ n \in DOMAIN a
    BY <1>4, <1>8, <2>1 DEF InOrder
  <2>2. ASSUME m \in DOMAIN a, NEW j \in DOMAIN b, n = k + j
        PROVE  Before(c[m], c[n])
    <3>1. c[m] \in Packets(a) /\ c[n] \in Packets(b)
      BY <1>4, <2>2 DEF Packets
    <3>. QED
      BY <1>8, <3>1 DEF AllBefore
  <2>3. ASSUME NEW i \in DOMAIN b, m = k + i, NEW j \in DOMAIN b, n = k + j
        PROVE  Before(c[m], c[n])
    <3>1. i < j /\ c[m] = b[i] /\ c[n] = b[j]
      BY <1>4, <1>5, <2>3
    <3>. QED
      BY <1>8, <3>1 DEF InOrder
  <2>4. ~(n \in DOMAIN a /\ \E i \in DOMAIN b : m = k + i)
    BY <1>5
  <2>. QED
    BY <1>3, <2>1, <2>2, <2>3, <2>4
<1>. QED
  BY <1>6, <1>7, <1>8 DEF c

LEMMA OnePacket ==
  ASSUME NEW x
  PROVE  InOrder(<<x>>) /\ Packets(<<x>>) = {x} \ {Header}
<1>1. DOMAIN <<x>> = {1} /\ <<x>>[1] = x
  OBVIOUS
<1>. QED
  BY <1>1 DEF InOrder, Packets

LEMMA NoPackets == InOrder(<<>>) /\ Packets(<<>>) = {}
<1>1. DOMAIN <<>> = {}
  OBVIOUS
<1>. QED
  BY <1>1 DEF InOrder, Packets

LEMMA PacketTypes ==
  ASSUME NEW s \in Seq(Job \cup {Header})
  PROVE  Packets(s) \subseteq Job
BY DEF Packets

-----------------------------------------------------------------------------
(* What thread t has in hand, or has written: At(t) is this and its queue. *)
Front(t) == IF t = Out THEN output
            ELSE IF has[t] = NoJob THEN <<>> ELSE <<has[t]>>

(* The thread a packet passes at each stage follows from its hash.         *)
OnRoute(t, x) ==
  /\ t \in LBs => t = LBForPacket(x.hash)
  /\ t \in FPs => t = NumLBs + WorkerFor(LBForPacket(x.hash), x.hash)

(* The packet that comes next from the reader, or one no later than it.    *)
Upcoming == IF readerPc = "push" THEN readerJob
            ELSE [file |-> file, id |-> nextId + 1, hash |-> 0]

Routed == \A t \in Threads : \A x \in Packets(At(t)) : OnRoute(t, x)
Sorted == \A t \in Threads : InOrder(At(t))
Staged == \A t, u \in Threads :
            Stage(t) > Stage(u) => AllBefore(Packets(At(t)), Packets(At(u)))
Unread == /\ \A t \in Threads : \A x \in Packets(At(t)) : Before(x, Upcoming)
          /\ readerPc = "push" => readerJob.file = file /\ readerJob.id = nextId

OrderInv == Routed /\ Sorted /\ Staged /\ Unread

LEMMA AtTypes ==
  ASSUME TypeOK, NEW t \in Threads
  PROVE  /\ Front(t) \in Seq(Job \cup {Header}) /\ q[t].items \in Seq(Job)
         /\ q[t].items \in Seq(Job \cup {Header})
         /\ At(t) = Front(t) \o q[t].items /\ At(t) \in Seq(Job \cup {Header})
         /\ Packets(At(t)) \subseteq Job
<1>1. q[t].items \in Seq(Job) /\ output \in Seq(Job \cup {Header})
        /\ has[t] \in Job \cup {NoJob}
  BY DEF TypeOK, Queue
<1>2. q[t].items \in Seq(Job \cup {Header})
  BY <1>1
<1>3. Front(t) \in Seq(Job \cup {Header})
  <2>1. <<>> \in Seq(Job \cup {Header})
    OBVIOUS
  <2>2. has[t] # NoJob => <<has[t]>> \in Seq(Job \cup {Header})
    BY <1>1
  <2>. QED
    BY <1>1, <2>1, <2>2 DEF Front
<1>4. At(t) = Front(t) \o q[t].items
  BY DEF At, Front
<1>5. At(t) \in Seq(Job \cup {Header})
  BY <1>2, <1>3, <1>4
<1>. QED
  BY <1>1, <1>2, <1>3, <1>4, <1>5, PacketTypes

LEMMA JobNumbers ==
  ASSUME NEW x \in Job
  PROVE  x.file \in Nat /\ x.id \in Nat /\ x.hash \in Hashes /\ x # Header
           /\ x # NoJob
BY EngineAssumption DEF Job, Header, NoJob

LEMMA Stages ==
  /\ \A t \in LBs : Stage(t) = 1
  /\ \A t \in FPs : Stage(t) = 2
  /\ Stage(Out) = 3
<1>1. \A t \in FPs : t \notin LBs
  BY Numbers
<1>2. Out \notin LBs /\ Out \notin FPs
  BY Numbers
<1>. QED
  BY <1>1, <1>2 DEF Stage

(* At one stage, two packets of one flow are at the same thread.           *)
LEMMA OneRoute ==
  ASSUME NEW t \in Threads, NEW u \in Threads, Stage(t) = Stage(u),
         NEW x, NEW y, x.hash = y.hash, OnRoute(t, x), OnRoute(u, y)
  PROVE  t = u
BY Stages DEF Threads, OnRoute

(* A step that takes packets away, and moves none.                         *)
LEMMA FewerKept ==
  ASSUME OrderInv, TypeOK,
         \A t \in Threads : InOrder(At(t)') /\ Packets(At(t)') \subseteq Packets(At(t)),
         \A x \in Job : Before(x, Upcoming) => Before(x, Upcoming'),
         readerPc' = "push" => readerJob'.file = file' /\ readerJob'.id = nextId'
  PROVE  OrderInv'
<1>1. \A t \in Threads : Packets(At(t)) \subseteq Job
  BY AtTypes
<1>2. Routed'
  BY DEF OrderInv, Routed
<1>3. Sorted'
  BY DEF Sorted
<1>4. Staged'
  BY DEF OrderInv, Staged, AllBefore
<1>5. Unread'
  BY <1>1 DEF OrderInv, Unread
<1>. QED
  BY <1>2, <1>3, <1>4, <1>5 DEF OrderInv

(* A step that brings packet x to thread d, from behind everything there.  *)
LEMMA MoveKept ==
  ASSUME OrderInv, TypeOK, NEW x \in Job, NEW d \in Threads,
         At(d)' = At(d) \o <<x>>, OnRoute(d, x),
         \A t \in Threads : t # d =>
           InOrder(At(t)') /\ Packets(At(t)') \subseteq Packets(At(t)),
         \A t \in Threads : Stage(t) >= Stage(d) =>
           AllBefore(Packets(At(t)), {x}),
         \A t \in Threads : Stage(d) > Stage(t) =>
           AllBefore({x}, Packets(At(t)')),
         Before(x, Upcoming'),
         \A y \in Job : Before(y, Upcoming) => Before(y, Upcoming'),
         readerPc' = "push" => readerJob'.file = file' /\ readerJob'.id = nextId'
  PROVE  OrderInv'
<1>1. \A t \in Threads : Packets(At(t)) \subseteq Job /\ Stage(t) \in Nat
  BY AtTypes, Stages DEF Stage
<1>2. At(d) \in Seq(Job \cup {Header}) /\ <<x>> \in Seq(Job \cup {Header})
  BY AtTypes
<1>3. x # Header /\ Packets(<<x>>) = {x} /\ InOrder(<<x>>)
  BY JobNumbers, OnePacket
<1>4. Packets(At(d)') = Packets(At(d)) \cup {x}
  <2>1. Packets(At(d) \o <<x>>) = Packets(At(d)) \cup Packets(<<x>>)
    BY <1>2, ConcatOrder, ZenonT(40)
  <2>. QED
    BY <1>3, <2>1
<1>5. InOrder(At(d)')
  <2>1. AllBefore(Packets(At(d)), {x})
    <3>1. Stage(d) >= Stage(d)
      BY <1>1
    <3>. QED
      BY <3>1
  <2>2. InOrder(At(d))
    BY DEF OrderInv, Sorted
  <2>3. InOrder(At(d) \o <<x>>) <=>
          /\ InOrder(At(d)) /\ InOrder(<<x>>)
          /\ AllBefore(Packets(At(d)), Packets(<<x>>))
    BY <1>2, ConcatOrder
  <2>. QED
    BY <1>3, <2>1, <2>2, <2>3
<1>6. Routed'
  BY <1>4 DEF OrderInv, Routed
<1>7. Sorted'
  BY <1>5 DEF Sorted
<1>8. ASSUME NEW t \in Threads, NEW u \in Threads, Stage(t) > Stage(u)
      PROVE  AllBefore(Packets(At(t)'), Packets(At(u)'))
  <2>1. AllBefore(Packets(At(t)), Packets(At(u)))
    BY <1>8 DEF OrderInv, Staged
  <2>2. CASE t = d
    <3>1. u # d
      BY <1>1, <1>8, <2>2
    <3>2. AllBefore({x}, Packets(At(u)')) /\ Packets(At(u)') \subseteq Packets(At(u))
      BY <1>8, <2>2, <3>1
    <3>. QED
      BY <1>4, <2>1, <2>2, <3>2 DEF AllBefore
  <2>3. CASE u = d
    <3>1. t # d /\ Stage(t) >= Stage(d)
      BY <1>1, <1>8, <2>3
    <3>2. AllBefore(Packets(At(t)), {x}) /\ Packets(At(t)') \subseteq Packets(At(t))
      BY <3>1
    <3>. QED
      BY <1>4, <2>1, <2>3, <3>2 DEF AllBefore
  <2>4. CASE t # d /\ u # d
    BY <2>1, <2>4 DEF AllBefore
  <2>. QED
    BY <2>2, <2>3, <2>4
<1>9. Staged'
  BY <1>8 DEF Staged
<1>10. Unread'
  BY <1>1, <1>4 DEF OrderInv, Unread
<1>. QED
  BY <1>6, <1>7, <1>9, <1>10 DEF OrderInv

(* What the head of a queue is to the rest, and to what is in front of it. *)
LEMMA HeadAndTail ==
  ASSUME NEW S, NEW s \in Seq(S), s # <<>>
  PROVE  /\ Head(s) \in S /\ Tail(s) \in Seq(S) /\ <<Head(s)>> \in Seq(S)
         /\ s = <<Head(s)>> \o Tail(s)
         /\ \A f \in Seq(S) : Append(f, Head(s)) \o Tail(s) = f \o s
OBVIOUS

LEMMA TailOrder ==
  ASSUME NEW S, NEW s \in Seq(S), s # <<>>
  PROVE  /\ Packets(Tail(s)) \subseteq Packets(s)
         /\ InOrder(s) =>
              InOrder(Tail(s)) /\ AllBefore({Head(s)} \ {Header}, Packets(Tail(s)))
<1>1. Tail(s) \in Seq(S) /\ <<Head(s)>> \in Seq(S) /\ s = <<Head(s)>> \o Tail(s)
  BY HeadAndTail
<1>2. Packets(s) = Packets(<<Head(s)>>) \cup Packets(Tail(s))
  <2>1. Packets(<<Head(s)>> \o Tail(s)) = Packets(<<Head(s)>>) \cup Packets(Tail(s))
    BY <1>1, ConcatOrder
  <2>. QED
    BY <1>1, <2>1
<1>3. InOrder(s) => InOrder(Tail(s)) /\ AllBefore(Packets(<<Head(s)>>), Packets(Tail(s)))
  <2>1. InOrder(<<Head(s)>> \o Tail(s)) =>
          InOrder(Tail(s)) /\ AllBefore(Packets(<<Head(s)>>), Packets(Tail(s)))
    BY <1>1, ConcatOrder
  <2>. QED
    BY <1>1, <2>1
<1>. QED
  BY <1>2, <1>3, OnePacket

LEMMA SameAt ==
  ASSUME UNCHANGED <<output, has>>, \A t \in Threads : q'[t].items = q[t].items
  PROVE  \A t \in Threads : At(t)' = At(t)
BY DEF At

LEMMA SameKept ==
  ASSUME OrderInv, TypeOK, \A t \in Threads : At(t)' = At(t),
         \A x \in Job : Before(x, Upcoming) => Before(x, Upcoming'),
         readerPc' = "push" => readerJob'.file = file' /\ readerJob'.id = nextId'
  PROVE  OrderInv'
<1>1. \A t \in Threads : InOrder(At(t)') /\ Packets(At(t)') \subseteq Packets(At(t))
  BY DEF OrderInv, Sorted
<1>. QED
  BY <1>1, FewerKept

(* The front of a thread's queue, with its queue: what one of them keeps.  *)
LEMMA PartOrder ==
  ASSUME TypeOK, OrderInv, NEW t \in Threads
  PROVE  /\ InOrder(q[t].items) /\ Packets(q[t].items) \subseteq Packets(At(t))
         /\ InOrder(Front(t)) /\ Packets(Front(t)) \subseteq Packets(At(t))
         /\ AllBefore(Packets(Front(t)), Packets(q[t].items))
<1>1. /\ Front(t) \in Seq(Job \cup {Header}) /\ q[t].items \in Seq(Job \cup {Header})
      /\ At(t) = Front(t) \o q[t].items
  BY AtTypes
<1>2. InOrder(Front(t) \o q[t].items)
  BY <1>1 DEF OrderInv, Sorted
<1>3. Packets(Front(t) \o q[t].items) = Packets(Front(t)) \cup Packets(q[t].items)
  BY <1>1, ConcatOrder
<1>4. InOrder(Front(t)) /\ InOrder(q[t].items)
        /\ AllBefore(Packets(Front(t)), Packets(q[t].items))
  BY <1>1, <1>2, ConcatOrder
<1>. QED
  BY <1>1, <1>3, <1>4

LEMMA SeqUnits ==
  ASSUME NEW S, NEW s \in Seq(S)
  PROVE  <<>> \o s = s
OBVIOUS

LEMMA StartKeepsOrder == TInv /\ OrderInv /\ Start => OrderInv'
<1>. SUFFICES ASSUME TInv, OrderInv, Start PROVE OrderInv'
  OBVIOUS
<1>0. TypeOK /\ readerPc = "off"
  BY DEF TInv, Phases, Start
<1>1. \A t \in Threads : t # Out => At(t)' = At(t)
  BY DEF Start, At
<1>2. At(Out)' = q[Out].items /\ Out \in Threads
  <2>1. q[Out].items \in Seq(Job) /\ Out \in Threads
    BY <1>0, AtTypes, Numbers
  <2>2. At(Out)' = <<>> \o q[Out].items
    BY DEF Start, At
  <2>. QED
    BY <2>1, <2>2, SeqUnits
<1>3. ASSUME NEW t \in Threads
      PROVE  InOrder(At(t)') /\ Packets(At(t)') \subseteq Packets(At(t))
  <2>1. CASE t = Out
    BY <1>0, <1>2, <2>1, PartOrder
  <2>2. CASE t # Out
    BY <1>1, <2>2 DEF OrderInv, Sorted
  <2>. QED
    BY <2>1, <2>2
<1>4. ASSUME NEW x \in Job, Before(x, Upcoming) PROVE Before(x, Upcoming')
  <2>1. file \in Nat /\ nextId \in Nat
    BY <1>0, EngineAssumption DEF TypeOK
  <2>2. Upcoming = [file |-> file, id |-> nextId + 1, hash |-> 0]
    BY <1>0 DEF Upcoming
  <2>3. Upcoming' = [file |-> file + 1, id |-> 1, hash |-> 0]
    BY DEF Start, Upcoming
  <2>. QED
    BY <1>4, <2>1, <2>2, <2>3, JobNumbers DEF Before
<1>5. readerPc' # "push"
  BY DEF Start
<1>. QED
  BY <1>0, <1>3, <1>4, <1>5, FewerKept

LEMMA QuietKeepsOrder ==
  ASSUME TInv, OrderInv,
         \/ Stop \/ Halt \/ Join \/ ShutOutput \/ JoinOutput
         \/ ReaderFails \/ EndOfFile
         \/ \E t \in Threads : Leave(t)
         \/ UNCHANGED vars
  PROVE  OrderInv'
<1>0. TypeOK
  BY DEF TInv
<1>1. UNCHANGED <<output, has, file, nextId, readerJob>>
  BY DEF Stop, Halt, Join, ShutOutput, JoinOutput, ReaderFails, EndOfFile, Leave,
         vars, mainVars, readerVars
<1>2. readerPc' = readerPc \/ (readerPc # "push" /\ readerPc' # "push")
  BY DEF Stop, Halt, Join, ShutOutput, JoinOutput, ReaderFails, EndOfFile, Leave,
         vars, mainVars, readerVars
<1>3. \A t \in Threads : q'[t].items = q[t].items
  <2>1. CASE Halt \/ ShutOutput
    <3>1. PICK d \in Threads : q' = [q EXCEPT ![d] = ShutDown(@)]
      BY <1>0, <2>1, Numbers DEF Halt, ShutOutput, TypeOK
    <3>. QED
      BY <1>0, <3>1 DEF TypeOK, Queue, ShutDown
  <2>2. CASE UNCHANGED q
    BY <2>2
  <2>. QED
    BY <2>1, <2>2 DEF Stop, Join, JoinOutput, ReaderFails, EndOfFile, Leave, vars
<1>4. \A t \in Threads : At(t)' = At(t)
  BY <1>1, <1>3, SameAt
<1>5. Upcoming' = Upcoming
  BY <1>1, <1>2 DEF Upcoming
<1>6. readerPc' = "push" => readerJob'.file = file' /\ readerJob'.id = nextId'
  BY <1>1, <1>2 DEF OrderInv, Unread
<1>. QED
  BY <1>0, <1>4, <1>5, <1>6, SameKept

LEMMA HeaderKeepsOrder == TInv /\ OrderInv /\ WriteHeader => OrderInv'
<1>. SUFFICES ASSUME TInv, OrderInv, WriteHeader PROVE OrderInv'
  OBVIOUS
<1>. DEFINE R == Job \cup {Header}
            new == Append(output, Header)
<1>0. TypeOK /\ Out \in Threads /\ Front(Out) = output
  BY Numbers DEF TInv, Front
<1>1. output \in Seq(R) /\ q[Out].items \in Seq(R) /\ <<Header>> \in Seq(R)
        /\ new = output \o <<Header>> /\ new \in Seq(R)
  BY <1>0, AtTypes DEF TypeOK
<1>2. /\ InOrder(output) /\ Packets(output) \subseteq Packets(At(Out))
      /\ InOrder(q[Out].items) /\ Packets(q[Out].items) \subseteq Packets(At(Out))
      /\ AllBefore(Packets(output), Packets(q[Out].items))
  BY <1>0, PartOrder
<1>. HIDE DEF R
<1>3. Packets(<<Header>>) = {} /\ InOrder(<<Header>>)
  BY OnePacket
<1>4. Packets(new) = Packets(output) \cup Packets(<<Header>>)
        /\ (InOrder(new) <=> InOrder(output) /\ InOrder(<<Header>>)
                               /\ AllBefore(Packets(output), Packets(<<Header>>)))
  BY <1>1, ConcatOrder, ZenonT(40)
<1>5. Packets(new) = Packets(output) /\ InOrder(new)
  BY <1>2, <1>3, <1>4 DEF AllBefore
<1>. HIDE DEF new
<1>6. Packets(new \o q[Out].items) = Packets(new) \cup Packets(q[Out].items)
        /\ (InOrder(new \o q[Out].items) <=> InOrder(new) /\ InOrder(q[Out].items)
               /\ AllBefore(Packets(new), Packets(q[Out].items)))
  BY <1>1, ConcatOrder, ZenonT(40)
<1>7. At(Out)' = new \o q[Out].items
  BY DEF At, WriteHeader, new
<1>8. InOrder(At(Out)') /\ Packets(At(Out)') \subseteq Packets(At(Out))
  BY <1>2, <1>5, <1>6, <1>7
<1>9. \A t \in Threads : t # Out => At(t)' = At(t)
  BY DEF At, WriteHeader
<1>10. \A t \in Threads : InOrder(At(t)') /\ Packets(At(t)') \subseteq Packets(At(t))
  <2>1. ASSUME NEW t \in Threads
        PROVE  InOrder(At(t)') /\ Packets(At(t)') \subseteq Packets(At(t))
    <3>1. CASE t = Out
      BY <1>8, <3>1
    <3>2. CASE t # Out
      BY <1>9, <3>2 DEF OrderInv, Sorted
    <3>. QED
      BY <3>1, <3>2
  <2>. QED
    BY <2>1
<1>11. Upcoming' = Upcoming /\ readerPc' # "push"
  BY DEF WriteHeader, Upcoming, mainVars
<1>. QED
  BY <1>0, <1>10, <1>11, FewerKept

LEMMA ReadKeepsOrder == TInv /\ OrderInv /\ Read => OrderInv'
<1>. SUFFICES ASSUME TInv, OrderInv, Read PROVE OrderInv'
  OBVIOUS
<1>0. TypeOK /\ file \in Nat /\ nextId \in Nat
  BY EngineAssumption DEF TInv, TypeOK
<1>1. \A t \in Threads : At(t)' = At(t)
  BY SameAt DEF Read
<1>2. readerPc' = "push" /\ readerJob'.file = file' /\ readerJob'.id = nextId'
        /\ file' = file /\ nextId' = nextId + 1
  BY DEF Read, mainVars
<1>3. Upcoming.file = file /\ Upcoming.id = nextId + 1
        /\ Upcoming'.file = file /\ Upcoming'.id = nextId + 1
  <2>1. readerPc # "push"
    BY DEF Read
  <2>. QED
    BY <1>2, <2>1 DEF Upcoming
<1>4. \A x : Before(x, Upcoming) => Before(x, Upcoming')
  BY <1>3 DEF Before
<1>. QED
  BY <1>0, <1>1, <1>2, <1>4, SameKept

LEMMA DispatchKeepsOrder == TInv /\ OrderInv /\ Dispatch => OrderInv'
<1>. SUFFICES ASSUME TInv, OrderInv, Dispatch PROVE OrderInv'
  OBVIOUS
<1>0. TypeOK /\ file \in Nat /\ nextId \in Nat /\ readerPc = "push"
  BY EngineAssumption DEF TInv, TypeOK, Dispatch
<1>1. PICK x : x = readerJob
  OBVIOUS
<1>2. x \in Job /\ x.file = file /\ x.id = nextId
  BY <1>0, <1>1 DEF TInv, Hands, OrderInv, Unread
<1>3. Upcoming = x /\ Upcoming' = [file |-> file, id |-> nextId + 1, hash |-> 0]
        /\ readerPc' # "push"
  BY <1>0, <1>1 DEF Upcoming, Dispatch, mainVars
<1>4. \A y \in Job : Before(y, Upcoming) => Before(y, Upcoming')
  BY <1>0, <1>2, <1>3, JobNumbers DEF Before
<1>5. Before(x, Upcoming')
  BY <1>0, <1>2, <1>3 DEF Before
<1>6. PICK d : d = LBForPacket(x.hash)
  OBVIOUS
<1>7. d \in LBs /\ d \in Threads /\ d # Out
  BY <1>2, <1>6, JobNumbers, Targets, Numbers DEF Threads
<1>8. /\ q' = [q EXCEPT ![d] = Pushed(@, x)] /\ UNCHANGED <<output, has>>
      /\ q \in [Threads -> Queue(Job)]
  BY <1>0, <1>1, <1>6 DEF Dispatch, TypeOK
<1>9. \A t \in Threads : t # d => At(t)' = At(t)
  BY <1>8 DEF At
<1>10. CASE q[d].down
  <2>1. \A t \in Threads : q'[t].items = q[t].items
    BY <1>8, <1>10 DEF Pushed
  <2>2. \A t \in Threads : At(t)' = At(t)
    BY <1>8, <2>1, SameAt
  <2>. QED
    BY <1>0, <1>3, <1>4, <2>2, SameKept
<1>11. CASE ~q[d].down
  <2>1. q'[d].items = Append(q[d].items, x)
    BY <1>7, <1>8, <1>11 DEF Pushed, Queue
  <2>2. At(d)' = At(d) \o <<x>>
    <3>1. Front(d)' = Front(d) /\ At(d)' = Front(d)' \o q'[d].items
      BY <1>8 DEF Front, At
    <3>2. PICK f \in Seq(Job \cup {Header}) : f = Front(d)
      BY <1>0, <1>7, AtTypes
    <3>3. PICK s \in Seq(Job \cup {Header}) : s = q[d].items
      BY <1>0, <1>7, AtTypes
    <3>4. f \o Append(s, x) = (f \o s) \o <<x>>
      BY <1>2
    <3>5. At(d) = f \o s
      BY <1>0, <1>7, <3>2, <3>3, AtTypes
    <3>. QED
      BY <2>1, <3>1, <3>2, <3>3, <3>4, <3>5
  <2>3. OnRoute(d, x)
    BY <1>6, <1>7, Numbers DEF OnRoute
  <2>4. \A t \in Threads : t # d =>
          InOrder(At(t)') /\ Packets(At(t)') \subseteq Packets(At(t))
    BY <1>9 DEF OrderInv, Sorted
  <2>5. \A t \in Threads : AllBefore(Packets(At(t)), {x})
    BY <1>3 DEF OrderInv, Unread, AllBefore
  <2>6. \A t \in Threads : ~(Stage(d) > Stage(t))
    BY <1>7, Stages DEF Stage
  <2>. QED
    BY <1>0, <1>2, <1>3, <1>4, <1>5, <1>7, <2>2, <2>3, <2>4, <2>5, <2>6, MoveKept
<1>. QED
  BY <1>10, <1>11

LEMMA PopAt ==
  ASSUME TypeOK, NEW t \in Threads, Pops(t)
  PROVE  /\ q[t].items \in Seq(Job \cup {Header}) /\ q[t].items # <<>>
         /\ NextJob(t) = Head(q[t].items) /\ NextJob(t) \in Job
         /\ q'[t].items = Tail(q[t].items)
         /\ \A u \in Threads : u # t => q'[u] = q[u]
<1>1. q[t].items \in Seq(Job) /\ q[t].items # <<>> /\ q \in [Threads -> Queue(Job)]
  BY AtTypes DEF Pops, IsEmpty, TypeOK
<1>2. Head(q[t].items) \in Job /\ q[t].items \in Seq(Job \cup {Header})
  BY <1>1
<1>3. q' = [q EXCEPT ![t] = Popped(@)]
  BY DEF Pops
<1>4. q'[t].items = Tail(q[t].items)
  BY <1>1, <1>3 DEF Popped, Queue
<1>. QED
  BY <1>1, <1>2, <1>3, <1>4 DEF NextJob

LEMMA PopsKeepOrder ==
  ASSUME TInv, OrderInv, NEW t \in Threads,
         LBReceive(t) \/ FPDrop(t) \/ FPForward(t) \/ (t = Out /\ Write)
  PROVE  OrderInv'
<1>. DEFINE s == q[t].items
<1>0. /\ TypeOK /\ Pops(t) /\ pc[t] = "loop" /\ has[t] = NoJob
      /\ has \in [Threads -> Job \cup {NoJob}]
  BY DEF TInv, TypeOK, Hands, LBReceive, FPDrop, FPForward, Write, Pops
<1>1. /\ s \in Seq(Job \cup {Header}) /\ s # <<>> /\ NextJob(t) = Head(s)
      /\ NextJob(t) \in Job /\ q'[t].items = Tail(s)
      /\ \A u \in Threads : u # t => q'[u] = q[u]
  BY <1>0, PopAt
<1>2. /\ UNCHANGED Upcoming
      /\ readerPc' = "push" => readerJob'.file = file' /\ readerJob'.id = nextId'
  <2>1. UNCHANGED <<readerPc, readerJob, file, nextId>>
    BY DEF LBReceive, FPDrop, FPForward, Write, mainVars, readerVars
  <2>. QED
    BY <2>1 DEF Upcoming, OrderInv, Unread
<1>3. \A u \in Threads : u # t => At(u)' = At(u)
  <2>1. UNCHANGED output \/ t = Out
    BY DEF LBReceive, FPDrop, FPForward
  <2>2. UNCHANGED has \/ has' = [has EXCEPT ![t] = NextJob(t)]
    BY DEF LBReceive, FPDrop, FPForward, Write
  <2>3. \A u \in Threads : u # t => has'[u] = has[u]
    BY <1>0, <2>2
  <2>. QED
    BY <1>1, <2>1, <2>3 DEF At
<1>4. CASE t # Out
  <2>1. At(t) = s
    <3>1. At(t) = <<>> \o s
      BY <1>0, <1>4 DEF At
    <3>. QED
      BY <1>1, <3>1, SeqUnits
  <2>2. CASE LBReceive(t) \/ FPForward(t)
    <3>1. has'[t] = Head(s) /\ Head(s) # NoJob
      BY <1>0, <1>1, <2>2, JobNumbers DEF LBReceive, FPForward
    <3>2. At(t)' = <<Head(s)>> \o Tail(s)
      BY <1>1, <1>4, <3>1 DEF At
    <3>3. At(t)' = At(t)
      BY <1>1, <2>1, <3>2, HeadAndTail
    <3>4. \A u \in Threads : At(u)' = At(u)
      BY <1>3, <3>3
    <3>. QED
      BY <1>0, <1>2, <3>4, SameKept
  <2>3. CASE FPDrop(t)
    <3>1. At(t)' = Tail(s)
      <4>1. Tail(s) \in Seq(Job \cup {Header})
        BY <1>1, HeadAndTail
      <4>2. At(t)' = <<>> \o Tail(s)
        BY <1>0, <1>1, <1>4, <2>3 DEF At, FPDrop
      <4>. QED
        BY <4>1, <4>2, SeqUnits
    <3>2. InOrder(At(t)') /\ Packets(At(t)') \subseteq Packets(At(t))
      <4>1. InOrder(s)
        BY <2>1 DEF OrderInv, Sorted
      <4>. QED
        BY <1>1, <2>1, <3>1, <4>1, TailOrder
    <3>3. \A u \in Threads : InOrder(At(u)') /\ Packets(At(u)') \subseteq Packets(At(u))
      <4>1. ASSUME NEW u \in Threads, u # t
            PROVE  InOrder(At(u)') /\ Packets(At(u)') \subseteq Packets(At(u))
        BY <1>3, <4>1 DEF OrderInv, Sorted
      <4>. QED
        BY <3>2, <4>1
    <3>. QED
      BY <1>0, <1>2, <3>3, FewerKept
  <2>. QED
    BY <1>4, <2>2, <2>3
<1>5. CASE t = Out
  <2>1. Write
    BY <1>5, Numbers DEF LBReceive, FPDrop, FPForward
  <2>2. output \in Seq(Job \cup {Header}) /\ At(t) = output \o s
    BY <1>0, <1>5 DEF TypeOK, At
  <2>3. At(t)' = Append(output, Head(s)) \o Tail(s)
    BY <1>1, <1>5, <2>1 DEF At, Write
  <2>4. At(t)' = At(t)
    <3>1. \A f \in Seq(Job \cup {Header}) : Append(f, Head(s)) \o Tail(s) = f \o s
      BY <1>1, HeadAndTail
    <3>2. Append(output, Head(s)) \o Tail(s) = output \o s
      BY <2>2, <3>1
    <3>. QED
      BY <2>2, <2>3, <3>2
  <2>5. \A u \in Threads : At(u)' = At(u)
    BY <1>3, <2>4
  <2>. QED
    BY <1>0, <1>2, <2>5, SameKept
<1>. QED
  BY <1>4, <1>5

LEMMA PushKeepsOrder ==
  ASSUME TInv, OrderInv, NEW t \in Threads, Push(t)
  PROVE  OrderInv'
<1>0. TypeOK /\ t \in LBs \cup FPs /\ t # Out /\ has \in [Threads -> Job \cup {NoJob}]
  BY DEF TInv, TypeOK, Hands, Push, Threads
<1>1. PICK x : x = has[t]
  OBVIOUS
<1>2. x \in Job /\ x # NoJob /\ x # Header /\ x.hash \in Hashes
  BY <1>1, JobNumbers DEF TInv, Hands, Push
<1>3. PICK d : d = Target(t, x)
  OBVIOUS
<1>4. OnRoute(t, x)
  <2>1. At(t) = <<x>> \o q[t].items
    BY <1>0, <1>1, <1>2 DEF At
  <2>2. Packets(At(t)) = Packets(<<x>>) \cup Packets(q[t].items)
    <3>1. q[t].items \in Seq(Job \cup {Header}) /\ <<x>> \in Seq(Job \cup {Header})
      BY <1>0, <1>2, AtTypes
    <3>. QED
      BY <2>1, <3>1, ConcatOrder, ZenonT(40)
  <2>3. x \in Packets(At(t))
    BY <1>2, <2>2, OnePacket
  <2>. QED
    BY <2>3 DEF OrderInv, Routed
<1>5. /\ d \in Threads /\ d # t /\ OnRoute(d, x) /\ Stage(d) > Stage(t)
      /\ \A u \in Threads : Stage(d) > Stage(u) => Stage(u) = Stage(t) \/ Stage(t) > Stage(u)
      /\ \A u \in Threads : Stage(u) >= Stage(d) => Stage(u) > Stage(t)
  <2>1. CASE t \in LBs
    <3>1. d = NumLBs + WorkerFor(t, x.hash) /\ t = LBForPacket(x.hash) /\ d \in FPs
      BY <1>2, <1>3, <1>4, <2>1, Targets DEF Target, OnRoute
    <3>2. d \notin LBs /\ d \in Threads
      BY <3>1, Numbers DEF Threads
    <3>. QED
      BY <2>1, <3>1, <3>2, Stages DEF OnRoute, Stage
  <2>2. CASE t \in FPs
    <3>1. t \notin LBs /\ d = Out /\ Out \notin LBs /\ Out \notin FPs /\ Out \in Threads
      BY <1>3, <2>2, Numbers DEF Target
    <3>. QED
      BY <1>0, <2>2, <3>1, Stages DEF OnRoute, Stage
  <2>. QED
    BY <1>0, <2>1, <2>2
<1>6. /\ q' = [q EXCEPT ![d] = Pushed(@, x)] /\ has' = [has EXCEPT ![t] = NoJob]
      /\ UNCHANGED output /\ q \in [Threads -> Queue(Job)]
  BY <1>0, <1>1, <1>3 DEF Push, TypeOK
<1>7. /\ UNCHANGED Upcoming
      /\ readerPc' = "push" => readerJob'.file = file' /\ readerJob'.id = nextId'
  <2>1. UNCHANGED <<readerPc, readerJob, file, nextId>>
    BY DEF Push, mainVars, readerVars
  <2>. QED
    BY <2>1 DEF Upcoming, OrderInv, Unread
<1>8. \A u \in Threads : u # t /\ u # d => At(u)' = At(u)
  BY <1>0, <1>6 DEF At
<1>9. At(t)' = q[t].items
  <2>1. At(t)' = <<>> \o q[t].items
    BY <1>0, <1>5, <1>6 DEF At
  <2>. QED
    BY <1>0, <2>1, AtTypes, SeqUnits
<1>10. \A u \in Threads : u # d =>
         InOrder(At(u)') /\ Packets(At(u)') \subseteq Packets(At(u))
  <2>1. InOrder(At(t)') /\ Packets(At(t)') \subseteq Packets(At(t))
    BY <1>0, <1>9, PartOrder
  <2>2. ASSUME NEW u \in Threads, u # d, u # t
        PROVE  InOrder(At(u)') /\ Packets(At(u)') \subseteq Packets(At(u))
    BY <1>8, <2>2 DEF OrderInv, Sorted
  <2>. QED
    BY <2>1, <2>2
<1>11. Front(d)' = Front(d) /\ At(d)' = Front(d)' \o q'[d].items
  BY <1>0, <1>5, <1>6 DEF Front, At
<1>12. CASE q[d].down
  <2>1. At(d)' = At(d)
    <3>1. q'[d] = q[d]
      BY <1>5, <1>6, <1>12 DEF Pushed
    <3>. QED
      BY <1>11, <3>1 DEF At, Front
  <2>2. InOrder(At(d)') /\ Packets(At(d)') \subseteq Packets(At(d))
    BY <1>5, <2>1 DEF OrderInv, Sorted
  <2>3. \A u \in Threads : InOrder(At(u)') /\ Packets(At(u)') \subseteq Packets(At(u))
    BY <1>10, <2>2
  <2>. QED
    BY <1>0, <1>7, <2>3, FewerKept
<1>13. CASE ~q[d].down
  <2>1. q'[d].items = Append(q[d].items, x)
    BY <1>5, <1>6, <1>13 DEF Pushed, Queue
  <2>2. At(d)' = At(d) \o <<x>>
    <3>2. PICK f \in Seq(Job \cup {Header}) : f = Front(d)
      BY <1>0, <1>5, AtTypes
    <3>3. PICK s \in Seq(Job \cup {Header}) : s = q[d].items
      BY <1>0, <1>5, AtTypes
    <3>4. f \o Append(s, x) = (f \o s) \o <<x>>
      BY <1>2
    <3>5. At(d) = f \o s
      BY <1>0, <1>5, <3>2, <3>3, AtTypes
    <3>. QED
      BY <1>11, <2>1, <3>2, <3>3, <3>4, <3>5
  <2>3. Front(t) = <<x>> /\ Packets(<<x>>) = {x}
    BY <1>0, <1>1, <1>2, OnePacket DEF Front
  <2>4. x \in Packets(At(t)) /\ AllBefore({x}, Packets(At(t)'))
    BY <1>0, <1>9, <2>3, PartOrder
  <2>5. ASSUME NEW u \in Threads, Stage(u) >= Stage(d)
        PROVE  AllBefore(Packets(At(u)), {x})
    <3>1. AllBefore(Packets(At(u)), Packets(At(t)))
      BY <1>5, <2>5 DEF OrderInv, Staged
    <3>. QED
      BY <2>4, <3>1 DEF AllBefore
  <2>6. ASSUME NEW u \in Threads, Stage(d) > Stage(u)
        PROVE  AllBefore({x}, Packets(At(u)'))
    <3>1. CASE u = t
      BY <2>4, <3>1
    <3>2. CASE u # t /\ Stage(u) = Stage(t)
      <4>1. Packets(At(u)') \subseteq Packets(At(u))
        BY <1>10, <2>6, Stages DEF Stage
      <4>2. \A y \in Packets(At(u)) : x.hash # y.hash
        BY <1>4, <3>2, OneRoute DEF OrderInv, Routed
      <4>. QED
        BY <4>1, <4>2 DEF AllBefore
    <3>3. CASE Stage(t) > Stage(u)
      <4>1. Packets(At(u)') \subseteq Packets(At(u))
        BY <1>10, <2>6, Stages DEF Stage
      <4>2. AllBefore(Packets(At(t)), Packets(At(u)))
        BY <3>3 DEF OrderInv, Staged
      <4>. QED
        BY <2>4, <4>1, <4>2 DEF AllBefore
    <3>. QED
      BY <1>5, <2>6, <3>1, <3>2, <3>3
  <2>7. Before(x, Upcoming)
    BY <2>4 DEF OrderInv, Unread
  <2>. QED
    BY <1>0, <1>2, <1>5, <1>7, <1>10, <2>2, <2>5, <2>6, <2>7, MoveKept
<1>. QED
  BY <1>12, <1>13

LEMMA InitOrder == Init => OrderInv
<1>. SUFFICES ASSUME Init PROVE OrderInv
  OBVIOUS
<1>1. \A t \in Threads : At(t) = <<>>
  BY DEF Init, At, NewQueue
<1>. QED
  BY <1>1, NoPackets DEF Init, OrderInv, Routed, Sorted, Staged, Unread, AllBefore

LEMMA NextOrder == TInv /\ OrderInv /\ [Next]_vars => OrderInv'
<1>. SUFFICES ASSUME TInv, OrderInv, [Next]_vars PROVE OrderInv'
  OBVIOUS
<1>. QED
  BY StartKeepsOrder, QuietKeepsOrder, HeaderKeepsOrder, ReadKeepsOrder,
     DispatchKeepsOrder, PopsKeepOrder, PushKeepsOrder
  DEF Next, Main, Reader, Thread, Finished

(* With any number of threads and files, and however they are scheduled:   *)
(* no packet of a flow overtakes another, from the reader to the output.   *)
THEOREM FlowsStayInOrder == Spec => []FlowsInOrder
<1>1. ASSUME TInv, OrderInv PROVE FlowsInOrder
  <2>0. TypeOK
    BY <1>1 DEF TInv
  <2>1. ASSUME NEW t \in Threads, NEW u \in Threads, Stage(t) > Stage(u)
        PROVE  InOrder(At(t) \o At(u))
    <3>1. At(t) \in Seq(Job \cup {Header}) /\ At(u) \in Seq(Job \cup {Header})
      BY <2>0, AtTypes
    <3>2. InOrder(At(t)) /\ InOrder(At(u)) /\ AllBefore(Packets(At(t)), Packets(At(u)))
      BY <1>1, <2>1 DEF OrderInv, Sorted, Staged
    <3>. QED
      BY <3>1, <3>2, ConcatOrder
  <2>2. ASSUME NEW t \in Threads, NEW u \in Threads, Stage(t) = Stage(u), t # u,
               NEW m \in DOMAIN At(t), NEW n \in DOMAIN At(u)
        PROVE  At(t)[m].hash # At(u)[n].hash
    <3>1. t # Out /\ u # Out
      BY <2>2, Stages DEF Threads
    <3>2. ASSUME NEW v \in Threads, v # Out, NEW k \in DOMAIN At(v)
          PROVE  At(v)[k] \in Packets(At(v))
      <4>1. At(v) \in Seq(Job)
        <5>1. q[v].items \in Seq(Job) /\ has[v] \in Job \cup {NoJob}
          BY <2>0, AtTypes DEF TypeOK
        <5>2. <<>> \in Seq(Job) /\ (has[v] # NoJob => <<has[v]>> \in Seq(Job))
          BY <5>1
        <5>3. Front(v) \in Seq(Job) /\ q[v].items \in Seq(Job)
          BY <3>2, <5>1, <5>2 DEF Front
        <5>4. At(v) = Front(v) \o q[v].items
          BY DEF At, Front
        <5>5. \A a, b \in Seq(Job) : a \o b \in Seq(Job)
          OBVIOUS
        <5>. QED
          BY <5>3, <5>4, <5>5
      <4>2. At(v)[k] # Header
        BY <4>1, JobNumbers
      <4>. QED
        BY <4>2 DEF Packets
    <3>3. At(t)[m] \in Packets(At(t)) /\ At(u)[n] \in Packets(At(u))
      BY <3>1, <3>2
    <3>. QED
      BY <1>1, <2>2, <3>3, OneRoute DEF OrderInv, Routed
  <2>. QED
    BY <1>1, <2>1, <2>2 DEF FlowsInOrder, OrderInv, Sorted
<1>. QED
  BY <1>1, InitTInv, NextTInv, InitOrder, NextOrder, PTL DEF Spec
-----------------------------------------------------------------------------
(* Packets per thread, in its queue and in its hands, and what they sum to *)
(* at each stage.                                                          *)
Waiting == [t \in Threads |-> Len(q[t].items)]
Holding == [t \in Threads |-> IF has[t] = NoJob THEN 0 ELSE 1]
Loaded == [t \in Threads |-> Waiting[t] + Holding[t]]

AtLBs == SumFunctionOnSet(Loaded, LBs)
AtFPs == SumFunctionOnSet(Waiting, FPs)
Deciding == SumFunctionOnSet(Holding, FPs)
Sent == SumFunctionOnSet(sent, FPs)
AtReader == IF readerPc = "push" THEN 1 ELSE 0
Written == IF output = <<>> THEN 0 ELSE Len(output) - 1

(* While there is one file every packet that was read is somewhere, and    *)
(* has been counted wherever it has been.                                  *)
Counts ==
  /\ dropped = SumFunctionOnSet(refused, FPs)
  /\ forwarded = Deciding + Sent
  /\ file <= 1 =>
       /\ total = AtReader + AtLBs + SumFunctionOnSet(routed, Workers)
       /\ SumFunctionOnSet(routed, Workers) = AtFPs + forwarded + dropped
       /\ Sent = Waiting[Out] + Written

(* If everything was at rest when stop() was called, it stays so.          *)
Resting ==
  /\ mainPc = "reading" => run[Out] /\ pc[Out] = "loop"
  /\ drained /\ file <= 1 =>
       /\ mainPc \in {"halt", "join", "shutOut", "joinOut", "done"}
       /\ AtRest
       /\ pc[Out] = "off" => IsEmpty(q[Out])

LEMMA FiniteStages ==
  IsFiniteSet(LBs) /\ IsFiniteSet(FPs) /\ IsFiniteSet(Workers)
BY Numbers, FS_Interval DEF LBs, FPs, Workers

LEMMA StagesApart ==
  /\ LBs \subseteq Threads /\ FPs \subseteq Threads /\ Out \in Threads
  /\ \A t \in LBs : t \notin FPs /\ t # Out
  /\ \A t \in FPs : t \notin LBs /\ t # Out
BY Numbers DEF Threads

LEMMA CountTypes ==
  ASSUME TypeOK
  PROVE  /\ \A t \in Threads : Waiting[t] \in Nat /\ Holding[t] \in Nat
                               /\ Loaded[t] \in Nat
         /\ AtLBs \in Int /\ AtFPs \in Int /\ Deciding \in Int /\ Sent \in Int
         /\ SumFunctionOnSet(routed, Workers) \in Int
         /\ SumFunctionOnSet(refused, FPs) \in Int
<1>1. \A t \in Threads : Waiting[t] \in Nat
  BY AtTypes DEF Waiting
<1>2. \A t \in Threads : Holding[t] \in Nat
  BY DEF Holding
<1>3. \A t \in Threads : Loaded[t] \in Nat
  BY <1>1, <1>2 DEF Loaded
<1>4. ASSUME NEW D, IsFiniteSet(D), NEW f, \A d \in D : f[d] \in Nat
      PROVE  SumFunctionOnSet(f, D) \in Int
  <2>1. ChangesAt(f, f, D, 0, 0)
    BY <1>4 DEF ChangesAt
  <2>. QED
    BY <1>4, <2>1, SumChanges
<1>5. \A t \in FPs : sent[t] \in Nat /\ refused[t] \in Nat
  BY DEF TypeOK
<1>6. \A w \in Workers : routed[w] \in Nat
  BY DEF TypeOK
<1>7. AtLBs \in Int /\ AtFPs \in Int /\ Deciding \in Int
  BY <1>1, <1>2, <1>3, <1>4, FiniteStages, StagesApart DEF AtLBs, AtFPs, Deciding
<1>8. Sent \in Int /\ SumFunctionOnSet(refused, FPs) \in Int
  BY <1>4, <1>5, FiniteStages DEF Sent
<1>9. SumFunctionOnSet(routed, Workers) \in Int
  BY <1>4, <1>6, FiniteStages
<1>. QED
  BY <1>1, <1>2, <1>3, <1>7, <1>8, <1>9

(* The sums after i packets came to the queue of a, and j to the hands of b.*)
LEMMA CountsMove ==
  ASSUME TypeOK, NEW a, NEW i \in Int, NEW b, NEW j \in Int,
         \A t \in Threads :
           /\ Waiting'[t] = Waiting[t] + IF t = a THEN i ELSE 0
           /\ Holding'[t] = Holding[t] + IF t = b THEN j ELSE 0
  PROVE  /\ AtLBs' = AtLBs + (IF a \in LBs THEN i ELSE 0) + (IF b \in LBs THEN j ELSE 0)
         /\ AtFPs' = AtFPs + IF a \in FPs THEN i ELSE 0
         /\ Deciding' = Deciding + IF b \in FPs THEN j ELSE 0
<1>1. \A t \in Threads : Waiting[t] \in Int /\ Holding[t] \in Int /\ Loaded[t] \in Int
  BY CountTypes
<1>2. PICK w, h, l, w1, h1, l1 :
        /\ w = Waiting /\ h = Holding /\ l = Loaded
        /\ w1 = Waiting' /\ h1 = Holding' /\ l1 = Loaded'
  OBVIOUS
<1>3. \A t \in Threads : l[t] = w[t] + h[t] /\ l1[t] = w1[t] + h1[t]
  BY <1>2 DEF Loaded
<1>. DEFINE m == [t \in Threads |-> l[t] + IF t = a THEN i ELSE 0]
<1>4. /\ ChangesAt(w, w1, FPs, a, i) /\ ChangesAt(h, h1, FPs, b, j)
      /\ ChangesAt(l, m, LBs, a, i) /\ ChangesAt(m, l1, LBs, b, j)
  <2>1. ChangesAt(w, w1, FPs, a, i)
    BY <1>1, <1>2, StagesApart DEF ChangesAt
  <2>2. ChangesAt(h, h1, FPs, b, j)
    BY <1>1, <1>2, StagesApart DEF ChangesAt
  <2>3. ChangesAt(l, m, LBs, a, i)
    BY <1>1, <1>2, StagesApart DEF ChangesAt
  <2>4. ChangesAt(m, l1, LBs, b, j)
    BY <1>1, <1>2, <1>3, StagesApart DEF ChangesAt
  <2>. QED
    BY <2>1, <2>2, <2>3, <2>4
<1>. HIDE DEF m
<1>5. SumFunctionOnSet(w1, FPs) = SumFunctionOnSet(w, FPs) + IF a \in FPs THEN i ELSE 0
  BY <1>4, FiniteStages, SumChanges
<1>6. SumFunctionOnSet(h1, FPs) = SumFunctionOnSet(h, FPs) + IF b \in FPs THEN j ELSE 0
  BY <1>4, FiniteStages, SumChanges
<1>7. /\ SumFunctionOnSet(m, LBs) =
           SumFunctionOnSet(l, LBs) + IF a \in LBs THEN i ELSE 0
      /\ SumFunctionOnSet(l, LBs) \in Int
  BY <1>4, FiniteStages, SumChanges
<1>8. SumFunctionOnSet(l1, LBs) =
           SumFunctionOnSet(m, LBs) + IF b \in LBs THEN j ELSE 0
  BY <1>4, FiniteStages, SumChanges
<1>. QED
  BY <1>2, <1>5, <1>6, <1>7, <1>8 DEF AtLBs, AtFPs, Deciding

(* One more in the hands or in a queue.                                    *)
LEMMA HandsCount ==
  ASSUME TypeOK, NEW t \in Threads, NEW x, has' = [has EXCEPT ![t] = x]
  PROVE  /\ Holding'[t] = IF x = NoJob THEN 0 ELSE 1
         /\ \A u \in Threads : u # t => Holding'[u] = Holding[u]
         /\ \A u \in Threads : Holding[u] \in Nat
<1>1. \A u \in Threads : Holding[u] = (IF has[u] = NoJob THEN 0 ELSE 1)
        /\ Holding'[u] = IF has'[u] = NoJob THEN 0 ELSE 1
  BY DEF Holding
<1>2. \A u \in Threads : has'[u] = IF u = t THEN x ELSE has[u]
  BY DEF TypeOK
<1>. QED
  BY <1>1, <1>2

LEMMA SameHands ==
  ASSUME UNCHANGED has, TypeOK
  PROVE  \A b, u \in Threads : Holding'[u] = Holding[u] + IF u = b THEN 0 ELSE 0
<1>1. Holding' = Holding /\ \A u \in Threads : Holding[u] \in Nat
  BY CountTypes DEF Holding
<1>. QED
  BY <1>1

LEMMA SameQueues ==
  ASSUME \A t \in Threads : q'[t].items = q[t].items, TypeOK
  PROVE  \A a, u \in Threads : Waiting'[u] = Waiting[u] + IF u = a THEN 0 ELSE 0
<1>1. \A u \in Threads : Waiting'[u] = Waiting[u] /\ Waiting[u] \in Nat
  BY CountTypes DEF Waiting
<1>. QED
  BY <1>1

LEMMA PushCounts ==
  ASSUME TypeOK, NEW d \in Threads, NEW x \in Job, q' = [q EXCEPT ![d] = Pushed(@, x)],
         NEW i \in Int, i = IF q[d].down THEN 0 ELSE 1
  PROVE  \A t \in Threads : Waiting'[t] = Waiting[t] + IF t = d THEN i ELSE 0
<1>1. /\ q \in [Threads -> Queue(Job)] /\ q[d].items \in Seq(Job)
      /\ \A t \in Threads : Waiting[t] \in Nat
  BY CountTypes, AtTypes DEF TypeOK
<1>2. \A t \in Threads : Waiting[t] = Len(q[t].items) /\ Waiting'[t] = Len(q'[t].items)
  BY DEF Waiting
<1>3. Len(q'[d].items) = Len(q[d].items) + i
  <2>1. CASE q[d].down
    BY <1>1, <2>1 DEF Pushed
  <2>2. CASE ~q[d].down
    <3>1. q'[d].items = Append(q[d].items, x)
      BY <1>1, <2>2 DEF Pushed, Queue
    <3>. QED
      BY <1>1, <2>2, <3>1
  <2>. QED
    BY <2>1, <2>2
<1>4. \A t \in Threads : t # d => q'[t] = q[t]
  BY <1>1
<1>. SUFFICES ASSUME NEW t \in Threads
              PROVE  Waiting'[t] = Waiting[t] + IF t = d THEN i ELSE 0
  OBVIOUS
<1>5. CASE t = d
  BY <1>2, <1>3, <1>5
<1>6. CASE t # d
  BY <1>1, <1>2, <1>4, <1>6
<1>. QED
  BY <1>5, <1>6

LEMMA PopCounts ==
  ASSUME TypeOK, NEW t \in Threads, Pops(t)
  PROVE  \A u \in Threads : Waiting'[u] = Waiting[u] + IF u = t THEN -1 ELSE 0
<1>1. /\ q[t].items \in Seq(Job \cup {Header}) /\ q[t].items # <<>>
      /\ q'[t].items = Tail(q[t].items)
      /\ \A u \in Threads : u # t => q'[u] = q[u]
      /\ \A u \in Threads : Waiting[u] \in Nat
  BY PopAt, CountTypes
<1>2. \A u \in Threads : Waiting[u] = Len(q[u].items) /\ Waiting'[u] = Len(q'[u].items)
  BY DEF Waiting
<1>3. Len(q'[t].items) = Len(q[t].items) + -1
  BY <1>1
<1>. SUFFICES ASSUME NEW u \in Threads
              PROVE  Waiting'[u] = Waiting[u] + IF u = t THEN -1 ELSE 0
  OBVIOUS
<1>4. CASE u = t
  BY <1>2, <1>3, <1>4
<1>5. CASE u # t
  BY <1>1, <1>2, <1>5
<1>. QED
  BY <1>4, <1>5

LEMMA InitCounts == Init => Counts /\ Resting
<1>. SUFFICES ASSUME Init PROVE Counts /\ Resting
  OBVIOUS
<1>1. \A t \in Threads : Waiting[t] = 0 /\ Holding[t] = 0 /\ Loaded[t] = 0
  BY DEF Init, Waiting, Holding, Loaded, NewQueue
<1>2. AtLBs = 0 /\ AtFPs = 0 /\ Deciding = 0
  BY <1>1, FiniteStages, StagesApart, SumOfNoughts DEF AtLBs, AtFPs, Deciding
<1>3. /\ \A t \in FPs : sent[t] = 0 /\ refused[t] = 0
      /\ \A w \in Workers : routed[w] = 0
  BY DEF Init
<1>4. Sent = 0 /\ SumFunctionOnSet(refused, FPs) = 0
        /\ SumFunctionOnSet(routed, Workers) = 0
  BY <1>3, FiniteStages, SumOfNoughts DEF Sent
<1>5. AtReader = 0 /\ Written = 0 /\ Waiting[Out] = 0
  BY <1>1, StagesApart DEF Init, AtReader, Written
<1>6. Counts
  BY <1>2, <1>4, <1>5 DEF Init, Counts
<1>7. Resting
  BY DEF Init, Resting
<1>. QED
  BY <1>6, <1>7

LEMMA NothingMoves ==
  ASSUME TypeOK, \A t \in Threads : q'[t].items = q[t].items, UNCHANGED has
  PROVE  /\ AtLBs' = AtLBs /\ AtFPs' = AtFPs /\ Deciding' = Deciding
         /\ Waiting'[Out] = Waiting[Out]
<1>1. \A a, b, t \in Threads :
        /\ Waiting'[t] = Waiting[t] + IF t = a THEN 0 ELSE 0
        /\ Holding'[t] = Holding[t] + IF t = b THEN 0 ELSE 0
  BY SameQueues, SameHands
<1>2. /\ AtLBs' = AtLBs + (IF Out \in LBs THEN 0 ELSE 0) + (IF Out \in LBs THEN 0 ELSE 0)
      /\ AtFPs' = AtFPs + IF Out \in FPs THEN 0 ELSE 0
      /\ Deciding' = Deciding + IF Out \in FPs THEN 0 ELSE 0
  BY <1>1, StagesApart, CountsMove
<1>3. Waiting'[Out] = Waiting[Out]
  BY StagesApart DEF Waiting
<1>. QED
  BY <1>2, <1>3, CountTypes

(* Steps that move no packet.                                              *)
LEMMA QuietKeepsCounts ==
  ASSUME TypeOK, Counts, \A t \in Threads : q'[t].items = q[t].items,
         UNCHANGED <<has, stats, sent, refused, routed>>,
         AtReader' = AtReader, file' <= 1 => file <= 1 /\ Written' = Written
  PROVE  Counts'
<1>1. /\ AtLBs' = AtLBs /\ AtFPs' = AtFPs /\ Deciding' = Deciding
      /\ Waiting'[Out] = Waiting[Out]
  BY NothingMoves
<1>2. Sent' = Sent
  BY DEF Sent
<1>3. UNCHANGED <<total, forwarded, dropped, sent, refused, routed>>
  BY DEF stats
<1>. QED
  BY <1>1, <1>2, <1>3 DEF Counts

LEMMA OneMore ==
  ASSUME NEW D, IsFiniteSet(D), NEW f \in [D -> Nat], NEW t \in D,
         NEW g, g = [f EXCEPT ![t] = @ + 1]
  PROVE  SumFunctionOnSet(g, D) = SumFunctionOnSet(f, D) + 1
<1>1. ChangesAt(f, g, D, t, 1)
  BY DEF ChangesAt
<1>2. SumFunctionOnSet(g, D) = SumFunctionOnSet(f, D) + IF t \in D THEN 1 ELSE 0
  BY <1>1, SumChanges
<1>. QED
  BY <1>2

LEMMA QuietStepsKeepCounts ==
  ASSUME OInv, Counts,
         \/ Main \/ ReaderFails \/ WriteHeader \/ EndOfFile
         \/ \E t \in Threads : Leave(t)
         \/ UNCHANGED vars
  PROVE  Counts'
<1>. USE DEF OInv, TInv
<1>1. CASE Start
  <2>1. file' <= 1 => file = 0 /\ mainPc = "idle"
    BY <1>1, EngineAssumption DEF Start, TypeOK, Phases
  <2>2. file' <= 1 => file <= 1 /\ Written' = Written
    BY <1>1, <2>1 DEF Start, HeaderFirst, Written
  <2>3. AtReader' = AtReader
    BY <1>1 DEF Start, AtReader, Phases
  <2>. QED
    BY <1>1, <2>2, <2>3, QuietKeepsCounts DEF Start, counters
<1>2. CASE Stop
  BY <1>2, QuietKeepsCounts DEF Stop, counters, readerVars, AtReader, Written
<1>3. CASE Halt \/ ShutOutput
  <2>1. q \in [Threads -> Queue(Job)] /\ stopping \in Threads /\ Out \in Threads
    BY StagesApart DEF TypeOK
  <2>2. \A t \in Threads : q'[t].items = q[t].items
    BY <1>3, <2>1, DownStays DEF Halt, ShutOutput
  <2>. QED
    BY <1>3, <2>2, QuietKeepsCounts
    DEF Halt, ShutOutput, counters, readerVars, AtReader, Written
<1>4. CASE Join \/ JoinOutput \/ \E t \in Threads : Leave(t)
  BY <1>4, QuietKeepsCounts
  DEF Join, JoinOutput, Leave, counters, mainVars, readerVars, AtReader, Written
<1>5. CASE ReaderFails \/ EndOfFile
  BY <1>5, QuietKeepsCounts
  DEF ReaderFails, EndOfFile, counters, mainVars, AtReader, Written
<1>6. CASE WriteHeader
  <2>1. file <= 1 => output = <<>>
    BY <1>6 DEF WriteHeader, HeaderFirst
  <2>2. file <= 1 => Written = 0 /\ Written' = 0
    BY <1>6, <2>1 DEF WriteHeader, Written
  <2>. QED
    BY <1>6, <2>2, QuietKeepsCounts DEF WriteHeader, counters, mainVars, AtReader
<1>7. CASE UNCHANGED vars
  BY <1>7, QuietKeepsCounts
  DEF vars, counters, mainVars, readerVars, AtReader, Written
<1>. QED
  BY <1>1, <1>2, <1>3, <1>4, <1>5, <1>6, <1>7 DEF Main

LEMMA ReadKeepsCounts ==
  ASSUME OInv, Counts, Read
  PROVE  Counts'
<1>1. TypeOK /\ UNCHANGED <<q, has>>
  BY DEF OInv, TInv, Read
<1>2. /\ AtLBs' = AtLBs /\ AtFPs' = AtFPs /\ Deciding' = Deciding
      /\ Waiting'[Out] = Waiting[Out]
  BY <1>1, NothingMoves
<1>3. AtReader = 0 /\ AtReader' = 1
  BY DEF Read, AtReader
<1>4. UNCHANGED <<Sent, Written>>
  BY DEF Read, counters, Sent, Written
<1>5. total' = total + 1 /\ UNCHANGED <<forwarded, dropped, refused, routed, file>>
  BY DEF Read, counters, mainVars
<1>6. /\ AtLBs \in Int /\ SumFunctionOnSet(routed, Workers) \in Int
      /\ SumFunctionOnSet(routed, Workers)' = SumFunctionOnSet(routed, Workers)
      /\ SumFunctionOnSet(refused, FPs)' = SumFunctionOnSet(refused, FPs)
  BY <1>1, <1>5, CountTypes
<1>. QED
  BY <1>2, <1>3, <1>4, <1>5, <1>6 DEF Counts

LEMMA DispatchKeepsCounts ==
  ASSUME OInv, Counts, Dispatch
  PROVE  Counts'
<1>1. TypeOK /\ OInv'
  <2>1. [Next]_vars
    BY DEF Next, Reader
  <2>. QED
    BY <2>1, NextOInv DEF OInv, TInv
<1>2. PICK x : x = readerJob
  OBVIOUS
<1>3. x \in Job
  BY <1>2 DEF OInv, TInv, Hands, Dispatch
<1>4. PICK d : d = LBForPacket(x.hash)
  OBVIOUS
<1>5. d \in LBs /\ d \in Threads /\ d # Out /\ d \notin FPs
  BY <1>3, <1>4, JobNumbers, Targets, StagesApart
<1>6. PICK i \in Int : i = IF q[d].down THEN 0 ELSE 1
  OBVIOUS
<1>7. q' = [q EXCEPT ![d] = Pushed(@, x)]
  BY <1>2, <1>4 DEF Dispatch
<1>8. \A t \in Threads : /\ Waiting'[t] = Waiting[t] + IF t = d THEN i ELSE 0
                         /\ Holding'[t] = Holding[t] + IF t = d THEN 0 ELSE 0
  <2>1. UNCHANGED has
    BY DEF Dispatch
  <2>. QED
    BY <1>1, <1>3, <1>5, <1>6, <1>7, <2>1, PushCounts, SameHands
<1>9. AtLBs' = AtLBs + i /\ AtFPs' = AtFPs /\ Deciding' = Deciding
  <2>1. /\ AtLBs' = AtLBs + (IF d \in LBs THEN i ELSE 0) + (IF d \in LBs THEN 0 ELSE 0)
        /\ AtFPs' = AtFPs + IF d \in FPs THEN i ELSE 0
        /\ Deciding' = Deciding + IF d \in FPs THEN 0 ELSE 0
    BY <1>1, <1>8, CountsMove
  <2>. QED
    BY <1>1, <1>5, <1>6, <2>1, CountTypes
<1>10. AtReader = 1 /\ AtReader' = 0
  BY DEF Dispatch, AtReader
<1>11. Waiting'[Out] = Waiting[Out]
  BY <1>1, <1>5, <1>8, StagesApart, CountTypes
<1>12. UNCHANGED <<Sent, Written, total, forwarded, dropped, refused, routed, file>>
  BY DEF Dispatch, counters, mainVars, stats, Sent, Written
<1>13. file <= 1 => i = 1
  <2>1. file <= 1 => ~lost'
    BY <1>1, <1>12 DEF OInv, HeaderFirst
  <2>. QED
    BY <1>2, <1>4, <1>6, <2>1 DEF Dispatch
<1>. QED
  BY <1>1, <1>6, <1>9, <1>10, <1>11, <1>12, <1>13, CountTypes DEF Counts, TypeOK

(* A packet goes from the queue of a thread to its hands.                  *)
LEMMA TakeMoves ==
  ASSUME OInv, NEW t \in LBs \cup FPs, Pops(t), has' = [has EXCEPT ![t] = NextJob(t)]
  PROVE  /\ AtLBs' = AtLBs /\ Waiting'[Out] = Waiting[Out]
         /\ AtFPs' = AtFPs + IF t \in FPs THEN -1 ELSE 0
         /\ Deciding' = Deciding + IF t \in FPs THEN 1 ELSE 0
<1>1. TypeOK /\ t \in Threads /\ t # Out /\ Out \in Threads
  BY StagesApart DEF OInv, TInv
<1>2. PICK x \in Job : x = NextJob(t) /\ x # NoJob
  BY <1>1, PopAt, JobNumbers
<1>3. Holding[t] = 0
  BY <1>1 DEF OInv, TInv, Hands, Pops, Holding
<1>4. \A u \in Threads : Waiting'[u] = Waiting[u] + IF u = t THEN -1 ELSE 0
  BY <1>1, PopCounts
<1>5. \A u \in Threads : Holding'[u] = Holding[u] + IF u = t THEN 1 ELSE 0
  <2>1. has' = [has EXCEPT ![t] = x]
    BY <1>2
  <2>2. /\ Holding'[t] = 1 /\ \A u \in Threads : Holding[u] \in Nat
        /\ \A u \in Threads : u # t => Holding'[u] = Holding[u]
    BY <1>1, <1>2, <2>1, HandsCount
  <2>. QED
    BY <1>3, <2>2
<1>6. /\ AtLBs' = AtLBs + (IF t \in LBs THEN -1 ELSE 0) + (IF t \in LBs THEN 1 ELSE 0)
      /\ AtFPs' = AtFPs + IF t \in FPs THEN -1 ELSE 0
      /\ Deciding' = Deciding + IF t \in FPs THEN 1 ELSE 0
  BY <1>1, <1>4, <1>5, CountsMove
<1>7. AtLBs \in Int /\ Waiting[Out] \in Int
  BY <1>1, CountTypes
<1>. QED
  BY <1>1, <1>4, <1>6, <1>7

LEMMA ReceiveKeepsCounts ==
  ASSUME OInv, Counts, NEW t \in Threads, LBReceive(t)
  PROVE  Counts'
<1>1. t \in LBs /\ t \notin FPs /\ TypeOK
  BY StagesApart DEF LBReceive, OInv, TInv
<1>2. AtLBs' = AtLBs /\ Waiting'[Out] = Waiting[Out] /\ AtFPs' = AtFPs
        /\ Deciding' = Deciding
  <2>1. /\ AtLBs' = AtLBs /\ Waiting'[Out] = Waiting[Out]
        /\ AtFPs' = AtFPs + IF t \in FPs THEN -1 ELSE 0
        /\ Deciding' = Deciding + IF t \in FPs THEN 1 ELSE 0
    BY <1>1, TakeMoves DEF LBReceive
  <2>2. AtFPs \in Int /\ Deciding \in Int
    BY <1>1, CountTypes
  <2>. QED
    BY <1>1, <2>1, <2>2
<1>3. UNCHANGED <<Sent, Written, AtReader>>
  BY DEF LBReceive, readerVars, Sent, Written, AtReader
<1>4. UNCHANGED <<total, forwarded, dropped, refused, routed, file>>
  BY DEF LBReceive, mainVars, stats
<1>. QED
  BY <1>2, <1>3, <1>4 DEF Counts

LEMMA ForwardKeepsCounts ==
  ASSUME OInv, Counts, NEW t \in Threads, FPForward(t)
  PROVE  Counts'
<1>1. t \in FPs /\ TypeOK
  BY DEF FPForward, OInv, TInv
<1>2. AtLBs' = AtLBs /\ Waiting'[Out] = Waiting[Out] /\ AtFPs' = AtFPs - 1
        /\ Deciding' = Deciding + 1
  BY <1>1, TakeMoves, CountTypes DEF FPForward
<1>3. UNCHANGED <<Sent, Written, AtReader>>
  BY DEF FPForward, readerVars, Sent, Written, AtReader
<1>4. forwarded' = forwarded + 1 /\ UNCHANGED <<total, dropped, refused, routed, file>>
  BY DEF FPForward, mainVars
<1>5. AtFPs \in Int /\ Deciding \in Int /\ Sent \in Int
  BY <1>1, CountTypes
<1>6. forwarded \in Int /\ dropped \in Int
  BY <1>1 DEF TypeOK
<1>. QED
  BY <1>2, <1>3, <1>4, <1>5, <1>6 DEF Counts

(* A packet leaves a queue for good.                                       *)
LEMMA LeaveMoves ==
  ASSUME OInv, NEW t \in FPs \cup {Out}, Pops(t), UNCHANGED has
  PROVE  /\ AtLBs' = AtLBs /\ Deciding' = Deciding
         /\ Waiting'[Out] = Waiting[Out] + IF t = Out THEN -1 ELSE 0
         /\ AtFPs' = AtFPs + IF t \in FPs THEN -1 ELSE 0
<1>1. TypeOK /\ t \in Threads /\ t \notin LBs /\ Out \in Threads
  BY StagesApart DEF OInv, TInv
<1>2. \A u \in Threads : Waiting'[u] = Waiting[u] + IF u = t THEN -1 ELSE 0
  BY <1>1, PopCounts
<1>3. \A u \in Threads : Holding'[u] = Holding[u] + IF u = t THEN 0 ELSE 0
  BY <1>1, SameHands
<1>4. /\ AtLBs' = AtLBs + (IF t \in LBs THEN -1 ELSE 0) + (IF t \in LBs THEN 0 ELSE 0)
      /\ AtFPs' = AtFPs + IF t \in FPs THEN -1 ELSE 0
      /\ Deciding' = Deciding + IF t \in FPs THEN 0 ELSE 0
  BY <1>1, <1>2, <1>3, CountsMove
<1>5. AtLBs \in Int /\ Deciding \in Int
  BY <1>1, CountTypes
<1>6. Waiting'[Out] = Waiting[Out] + IF t = Out THEN -1 ELSE 0
  BY <1>1, <1>2
<1>. QED
  BY <1>1, <1>4, <1>5, <1>6

LEMMA DropKeepsCounts ==
  ASSUME OInv, Counts, NEW t \in Threads, FPDrop(t)
  PROVE  Counts'
<1>1. t \in FPs /\ t # Out /\ TypeOK
  BY StagesApart DEF FPDrop, OInv, TInv
<1>2. AtLBs' = AtLBs /\ Waiting'[Out] = Waiting[Out] /\ AtFPs' = AtFPs - 1
        /\ Deciding' = Deciding
  BY <1>1, LeaveMoves, CountTypes, StagesApart DEF FPDrop
<1>3. UNCHANGED <<Sent, Written, AtReader>>
  BY DEF FPDrop, readerVars, Sent, Written, AtReader
<1>4. dropped' = dropped + 1 /\ UNCHANGED <<total, forwarded, routed, file>>
  BY DEF FPDrop, mainVars
<1>5. SumFunctionOnSet(refused', FPs) = SumFunctionOnSet(refused, FPs) + 1
  <2>1. refused' = [refused EXCEPT ![t] = @ + 1] /\ refused \in [FPs -> Nat]
    BY <1>1 DEF FPDrop, TypeOK
  <2>. QED
    BY <1>1, <2>1, FiniteStages, OneMore
<1>6. AtFPs \in Int
  BY <1>1, CountTypes
<1>7. forwarded \in Int /\ dropped \in Int
  BY <1>1 DEF TypeOK
<1>. QED
  BY <1>2, <1>3, <1>4, <1>5, <1>6, <1>7 DEF Counts

LEMMA WriteKeepsCounts ==
  ASSUME OInv, Counts, Write
  PROVE  Counts'
<1>1. Out \in Threads /\ Out \notin FPs /\ TypeOK
  BY StagesApart DEF OInv, TInv
<1>2. AtLBs' = AtLBs /\ Waiting'[Out] = Waiting[Out] - 1 /\ AtFPs' = AtFPs
        /\ Deciding' = Deciding
  BY <1>1, LeaveMoves, CountTypes DEF Write
<1>3. UNCHANGED <<Sent, AtReader, total, forwarded, dropped, refused, routed, file>>
  BY DEF Write, counters, mainVars, readerVars, stats, Sent, AtReader
<1>4. file <= 1 => Written' = Written + 1
  <2>1. output \in Seq(Job \cup {Header})
    BY <1>1 DEF TypeOK
  <2>2. output' = Append(output, NextJob(Out)) /\ q[Out].items # <<>>
    BY DEF Write, Pops, IsEmpty
  <2>3. file <= 1 => output # <<>>
    BY <1>1, <2>2 DEF OInv, HeaderFirst
  <2>4. output' # <<>> /\ Len(output') = Len(output) + 1 /\ Len(output) \in Nat
    BY <2>1, <2>2
  <2>. QED
    BY <2>3, <2>4 DEF Written
<1>5. Waiting[Out] \in Int
  BY <1>1, CountTypes
<1>6. Written \in Int
  BY <1>1 DEF Written, TypeOK
<1>. QED
  BY <1>2, <1>3, <1>4, <1>5, <1>6 DEF Counts

(* A packet goes from the hands of a thread to the queue it aims at.       *)
LEMMA PushMoves ==
  ASSUME OInv, NEW t \in Threads, Push(t), NEW d \in Threads, d = Target(t, has[t]),
         NEW i \in Int, i = IF q[d].down THEN 0 ELSE 1
  PROVE  /\ AtLBs' = AtLBs + (IF d \in LBs THEN i ELSE 0) + (IF t \in LBs THEN -1 ELSE 0)
         /\ AtFPs' = AtFPs + IF d \in FPs THEN i ELSE 0
         /\ Deciding' = Deciding + IF t \in FPs THEN -1 ELSE 0
         /\ Waiting'[Out] = Waiting[Out] + IF d = Out THEN i ELSE 0
<1>1. TypeOK /\ Out \in Threads
  BY StagesApart DEF OInv, TInv
<1>2. PICK x \in Job : x = has[t] /\ x # NoJob
  BY JobNumbers DEF OInv, TInv, Hands, Push
<1>3. q' = [q EXCEPT ![d] = Pushed(@, x)] /\ has' = [has EXCEPT ![t] = NoJob]
  BY <1>2 DEF Push
<1>4. \A u \in Threads : Waiting'[u] = Waiting[u] + IF u = d THEN i ELSE 0
  BY <1>1, <1>3, PushCounts
<1>5. \A u \in Threads : Holding'[u] = Holding[u] + IF u = t THEN -1 ELSE 0
  <2>1. Holding[t] = 1
    BY <1>2 DEF Holding
  <2>2. /\ Holding'[t] = 0 /\ \A u \in Threads : Holding[u] \in Nat
        /\ \A u \in Threads : u # t => Holding'[u] = Holding[u]
    BY <1>1, <1>3, HandsCount
  <2>. QED
    BY <2>1, <2>2
<1>6. /\ AtLBs' = AtLBs + (IF d \in LBs THEN i ELSE 0) + (IF t \in LBs THEN -1 ELSE 0)
      /\ AtFPs' = AtFPs + IF d \in FPs THEN i ELSE 0
      /\ Deciding' = Deciding + IF t \in FPs THEN -1 ELSE 0
  BY <1>1, <1>4, <1>5, CountsMove
<1>. QED
  BY <1>1, <1>4, <1>6

LEMMA PushKeepsCounts ==
  ASSUME OInv, Counts, NEW t \in Threads, Push(t)
  PROVE  Counts'
<1>1. TypeOK
  BY DEF OInv, TInv
<1>2. PICK x \in Job : x = has[t]
  BY DEF OInv, TInv, Hands, Push
<1>3. PICK d : d = Target(t, x)
  OBVIOUS
<1>4. t \in LBs \cup FPs /\ x.hash \in Hashes
  BY <1>2, JobNumbers DEF OInv, TInv, Hands, Push, Threads
<1>5. file <= 1 => ~q[d].down
  BY <1>2, <1>3, TargetOpen DEF Push
<1>6. PICK i \in Int : i = IF q[d].down THEN 0 ELSE 1
  OBVIOUS
<1>7. UNCHANGED <<AtReader, Written, total, forwarded, dropped, refused, file>>
  BY DEF Push, mainVars, readerVars, stats, AtReader, Written
<1>8. /\ AtLBs \in Int /\ AtFPs \in Int /\ Deciding \in Int /\ Sent \in Int
      /\ SumFunctionOnSet(routed, Workers) \in Int /\ Waiting[Out] \in Int
      /\ Written \in Int /\ AtReader \in Int
  BY <1>1, CountTypes, StagesApart DEF Written, AtReader, TypeOK
<1>9. sent' = [sent EXCEPT ![t] = @ + 1] /\ sent \in [LBs \cup FPs -> Nat]
        /\ routed \in [Workers -> Nat]
  BY <1>1 DEF Push, TypeOK
<1>10. Sent' = Sent + IF t \in FPs THEN 1 ELSE 0
  <2>1. \A u \in FPs : sent[u] \in Nat /\ sent'[u] = sent[u] + IF u = t THEN 1 ELSE 0
    BY <1>4, <1>9
  <2>2. ChangesAt(sent, sent', FPs, t, 1)
    BY <2>1 DEF ChangesAt
  <2>3. SumFunctionOnSet(sent', FPs) =
          SumFunctionOnSet(sent, FPs) + IF t \in FPs THEN 1 ELSE 0
    BY <2>2, FiniteStages, SumChanges
  <2>. QED
    BY <2>3 DEF Sent
<1>11. CASE t \in LBs
  <2>1. d \in FPs /\ d \in Threads /\ d # Out /\ d \notin LBs /\ t \notin FPs
    BY <1>3, <1>4, <1>11, Targets, StagesApart DEF Target
  <2>2. /\ AtLBs' = AtLBs + (IF d \in LBs THEN i ELSE 0) + (IF t \in LBs THEN -1 ELSE 0)
        /\ AtFPs' = AtFPs + IF d \in FPs THEN i ELSE 0
        /\ Deciding' = Deciding + IF t \in FPs THEN -1 ELSE 0
        /\ Waiting'[Out] = Waiting[Out] + IF d = Out THEN i ELSE 0
    BY <1>2, <1>3, <1>6, <2>1, PushMoves
  <2>3. AtLBs' = AtLBs - 1 /\ AtFPs' = AtFPs + i /\ Deciding' = Deciding
          /\ Waiting'[Out] = Waiting[Out] /\ Sent' = Sent
    BY <1>8, <1>10, <1>11, <2>1, <2>2
  <2>4. SumFunctionOnSet(routed', Workers) = SumFunctionOnSet(routed, Workers) + 1
    <3>1. PICK w \in Workers : w = WorkerFor(t, x.hash)
      BY <1>4, <1>11, Targets
    <3>2. routed' = [routed EXCEPT ![w] = @ + 1] /\ routed \in [Workers -> Nat]
      BY <1>2, <1>9, <2>1, <3>1 DEF Push
    <3>4. w \in Workers
      BY <3>1
    <3>. QED
      BY <3>2, <3>4, FiniteStages, OneMore
  <2>5. file <= 1 => AtFPs' = AtFPs + 1
    BY <1>5, <1>6, <2>3
  <2>6. forwarded \in Int /\ dropped \in Int
    BY <1>1 DEF TypeOK
  <2>7. forwarded' = Deciding' + Sent' /\ dropped' = SumFunctionOnSet(refused', FPs)
    BY <1>7, <2>3 DEF Counts
  <2>8. file' <= 1 => total' = AtReader' + AtLBs' + SumFunctionOnSet(routed', Workers)
    BY <1>7, <1>8, <2>3, <2>4 DEF Counts
  <2>9. file' <= 1 => SumFunctionOnSet(routed', Workers) = AtFPs' + forwarded' + dropped'
    BY <1>7, <1>8, <2>4, <2>5, <2>6 DEF Counts
  <2>10. file' <= 1 => Sent' = Waiting'[Out] + Written'
    BY <1>7, <2>3 DEF Counts
  <2>. QED
    BY <2>7, <2>8, <2>9, <2>10 DEF Counts
<1>12. CASE t \in FPs
  <2>1. t \notin LBs /\ d = Out /\ d \in Threads /\ Out \notin LBs /\ Out \notin FPs
    BY <1>3, <1>12, StagesApart DEF Target
  <2>2. /\ AtLBs' = AtLBs + (IF d \in LBs THEN i ELSE 0) + (IF t \in LBs THEN -1 ELSE 0)
        /\ AtFPs' = AtFPs + IF d \in FPs THEN i ELSE 0
        /\ Deciding' = Deciding + IF t \in FPs THEN -1 ELSE 0
        /\ Waiting'[Out] = Waiting[Out] + IF d = Out THEN i ELSE 0
    BY <1>2, <1>3, <1>6, <2>1, PushMoves
  <2>3. AtLBs' = AtLBs /\ AtFPs' = AtFPs /\ Deciding' = Deciding - 1
          /\ Waiting'[Out] = Waiting[Out] + i /\ Sent' = Sent + 1
    BY <1>8, <1>10, <1>12, <2>1, <2>2
  <2>4. UNCHANGED routed
    BY <1>12 DEF Push
  <2>. QED
    BY <1>5, <1>6, <1>7, <1>8, <2>3, <2>4 DEF Counts
<1>. QED
  BY <1>4, <1>11, <1>12

LEMMA NextKeepsCounts == OInv /\ Counts /\ [Next]_vars => Counts'
<1>. SUFFICES ASSUME OInv, Counts, [Next]_vars PROVE Counts'
  OBVIOUS
<1>1. CASE Main \/ ReaderFails \/ WriteHeader \/ EndOfFile \/ UNCHANGED vars
  BY <1>1, QuietStepsKeepCounts
<1>2. CASE Read
  BY <1>2, ReadKeepsCounts
<1>3. CASE Dispatch
  BY <1>3, DispatchKeepsCounts
<1>4. ASSUME NEW t \in Threads, Thread(t)
      PROVE  Counts'
  BY <1>4, QuietStepsKeepCounts, ReceiveKeepsCounts, ForwardKeepsCounts,
     DropKeepsCounts, PushKeepsCounts, WriteKeepsCounts DEF Thread
<1>. QED
  BY <1>1, <1>2, <1>3, <1>4 DEF Next, Reader, Finished

LEMMA NextKeepsRest == OInv /\ Resting /\ [Next]_vars => Resting'
<1>. SUFFICES ASSUME OInv, Resting, [Next]_vars PROVE Resting'
  OBVIOUS
<1>. DEFINE Ends == {"halt", "join", "shutOut", "joinOut", "done"}
<1>0. TypeOK /\ Phases /\ Hands
  BY DEF OInv, TInv
<1>1. /\ q \in [Threads -> Queue(Job)] /\ pc \in [Threads -> {"off", "loop", "push"}]
      /\ run \in [Threads -> BOOLEAN] /\ stopping \in Threads /\ file \in Nat
      /\ Out \in Threads /\ Out \notin LBs \cup FPs /\ LBs \cup FPs \subseteq Threads
  BY <1>0, StagesApart, EngineAssumption DEF TypeOK
<1>2. CASE Start
  <2>1. file' <= 1 => mainPc = "idle" /\ file = 0
    BY <1>0, <1>1, <1>2 DEF Start, Phases
  <2>2. ~(drained' /\ file' <= 1)
    BY <1>2, <2>1 DEF Start, Resting
  <2>3. run'[Out] /\ pc'[Out] = "loop"
    BY <1>1, <1>2 DEF Start
  <2>. QED
    BY <2>2, <2>3 DEF Resting
<1>3. CASE Stop
  <2>1. pc[Out] = "loop"
    BY <1>3 DEF Stop, Resting
  <2>2. drained' => AtRest'
    BY <1>3 DEF Stop, AtRest
  <2>. QED
    BY <1>3, <2>1, <2>2 DEF Stop, Resting
<1>4. CASE Halt \/ ShutOutput
  <2>1. \A t \in Threads : q'[t].items = q[t].items
    BY <1>1, <1>4, DownStays DEF Halt, ShutOutput
  <2>2. AtRest /\ (pc[Out] = "off" => IsEmpty(q[Out])) =>
          AtRest' /\ (pc'[Out] = "off" => IsEmpty(q'[Out]))
    BY <1>1, <1>4, <2>1 DEF AtRest, IsEmpty, Halt, ShutOutput
  <2>3. mainPc' \in {"join", "joinOut"} /\ UNCHANGED <<file, drained>>
    BY <1>4 DEF Halt, ShutOutput
  <2>. QED
    BY <2>2, <2>3 DEF Resting
<1>5. CASE Join \/ JoinOutput
  <2>1. mainPc' \in Ends /\ mainPc' # "reading" /\ UNCHANGED <<file, drained, q, pc, has>>
    BY <1>5 DEF Join, JoinOutput
  <2>. QED
    BY <2>1 DEF Resting, AtRest
<1>6. CASE Reader
  <2>1. readerPc # "off" /\ UNCHANGED <<mainPc, file, drained, run, pc>>
    BY <1>6 DEF Reader, ReaderFails, WriteHeader, Read, Dispatch, EndOfFile, mainVars
  <2>2. mainPc = "reading"
    BY <1>0, <2>1 DEF Phases
  <2>. QED
    BY <2>1, <2>2 DEF Resting
<1>7. ASSUME NEW t \in Threads, Leave(t)
      PROVE  Resting'
  <2>1. UNCHANGED <<mainPc, file, drained, run, q, has>>
    BY <1>7 DEF Leave, mainVars
  <2>2. t # Out => pc'[Out] = pc[Out]
    BY <1>1, <1>7 DEF Leave
  <2>3. t = Out => IsEmpty(q[Out]) /\ ~run[Out]
    BY <1>7 DEF Leave, Stays
  <2>. QED
    BY <2>1, <2>2, <2>3 DEF Resting, AtRest
<1>8. ASSUME NEW t \in LBs \cup FPs, LBReceive(t) \/ FPDrop(t) \/ FPForward(t) \/ Push(t)
      PROVE  Resting'
  <2>1. UNCHANGED <<mainPc, file, drained, run>>
    BY <1>8 DEF LBReceive, FPDrop, FPForward, Push, mainVars
  <2>2. pc'[Out] = pc[Out]
    BY <1>1, <1>8 DEF LBReceive, FPDrop, FPForward, Push
  <2>3. ~AtRest
    <3>1. ~IsEmpty(q[t]) \/ pc[t] = "push"
      BY <1>8 DEF LBReceive, FPDrop, FPForward, Push, Pops
    <3>2. pc[t] = "push" => has[t] # NoJob
      BY <1>0, <1>1, JobNumbers DEF Hands
    <3>. QED
      BY <3>1, <3>2 DEF AtRest
  <2>. QED
    BY <2>1, <2>2, <2>3 DEF Resting
<1>9. CASE Write
  <2>1. UNCHANGED <<mainPc, file, drained, run, pc, has>> /\ pc[Out] = "loop"
    BY <1>9 DEF Write, Pops, mainVars
  <2>2. \A t \in LBs \cup FPs : q'[t] = q[t]
    BY <1>1, <1>9 DEF Write, Pops
  <2>3. AtRest => AtRest'
    BY <2>1, <2>2 DEF AtRest
  <2>. QED
    BY <2>1, <2>3 DEF Resting
<1>10. CASE UNCHANGED vars
  BY <1>10 DEF vars, mainVars, Resting, AtRest
<1>11. ASSUME NEW t \in Threads, Thread(t)
       PROVE  Resting'
  <2>1. pc[t] = "push" => t # Out
    BY <1>0 DEF Hands
  <2>2. Push(t) => t \in LBs \cup FPs
    BY <2>1 DEF Push, Threads
  <2>. QED
    BY <1>7, <1>8, <1>9, <1>11, <2>2 DEF Thread, LBReceive, FPDrop, FPForward
<1>. QED
  BY <1>2, <1>3, <1>4, <1>5, <1>6, <1>10, <1>11 DEF Next, Main, Finished

(* If load balancers and workers were at rest when stop() was called, then *)
(* at the end each packet was forwarded or dropped, and every forwarded    *)
(* packet is in the file.                                                  *)
THEOREM DrainedRunLosesNothing == Spec => []DrainedLosesNothing
<1>1. Init => OInv /\ Counts /\ Resting
  BY InitOInv, InitCounts
<1>2. OInv /\ Counts /\ Resting /\ [Next]_vars => (OInv /\ Counts /\ Resting)'
  BY NextOInv, NextKeepsCounts, NextKeepsRest
<1>3. OInv /\ Counts /\ Resting => DrainedLosesNothing
  <2>. SUFFICES ASSUME OInv, Counts, Resting, mainPc = "done", file = 1, drained
                PROVE  /\ total = forwarded + dropped
                       /\ Len(output) = (IF output = <<>> THEN 0 ELSE 1) + forwarded
                       /\ forwarded = SumFunctionOnSet(sent, FPs)
                       /\ dropped = SumFunction(refused)
                       /\ total = SumFunction(routed)
    BY DEF DrainedLosesNothing
  <2>1. TypeOK /\ readerPc = "off" /\ pc[Out] = "off"
    BY StagesApart DEF OInv, TInv, Phases
  <2>2. AtRest /\ IsEmpty(q[Out])
    BY <2>1 DEF Resting
  <2>3. \A t \in LBs \cup FPs : Waiting[t] = 0 /\ Holding[t] = 0 /\ Loaded[t] = 0
    <3>. SUFFICES ASSUME NEW t \in LBs \cup FPs
                  PROVE  Waiting[t] = 0 /\ Holding[t] = 0 /\ Loaded[t] = 0
      OBVIOUS
    <3>1. t \in Threads /\ q[t].items = <<>> /\ has[t] = NoJob
      BY <2>2, StagesApart DEF AtRest, IsEmpty
    <3>2. Waiting[t] = 0 /\ Holding[t] = 0
      BY <3>1 DEF Waiting, Holding
    <3>. QED
      BY <3>1, <3>2 DEF Loaded
  <2>4. AtLBs = 0
    BY <2>3, FiniteStages, SumOfNoughts DEF AtLBs
  <2>5. AtFPs = 0
    BY <2>3, FiniteStages, SumOfNoughts DEF AtFPs
  <2>6. Deciding = 0
    BY <2>3, FiniteStages, SumOfNoughts DEF Deciding
  <2>7. Waiting[Out] = 0 /\ AtReader = 0
    BY <2>1, <2>2, StagesApart DEF Waiting, AtReader, IsEmpty
  <2>8. /\ total \in Int /\ forwarded \in Int /\ dropped \in Int /\ Len(output) \in Nat
        /\ Sent \in Int /\ SumFunctionOnSet(routed, Workers) \in Int
    BY <2>1, CountTypes DEF TypeOK
  <2>9. total = SumFunctionOnSet(routed, Workers) /\ forwarded = Sent
          /\ total = forwarded + dropped /\ Sent = Written
          /\ dropped = SumFunctionOnSet(refused, FPs)
    <3>1. /\ dropped = SumFunctionOnSet(refused, FPs)
          /\ forwarded = Deciding + Sent
          /\ total = AtReader + AtLBs + SumFunctionOnSet(routed, Workers)
          /\ SumFunctionOnSet(routed, Workers) = AtFPs + forwarded + dropped
          /\ Sent = Waiting[Out] + Written
      BY DEF Counts
    <3>2. Written \in Int
      BY <2>8 DEF Written
    <3>. QED
      BY <2>4, <2>5, <2>6, <2>7, <2>8, <3>1, <3>2
  <2>10. Len(output) = (IF output = <<>> THEN 0 ELSE 1) + forwarded
    BY <2>8, <2>9 DEF Written
  <2>11. DOMAIN refused = FPs /\ DOMAIN routed = Workers
    BY <2>1 DEF TypeOK
  <2>12. /\ SumFunction(refused) = SumFunctionOnSet(refused, FPs)
         /\ SumFunction(routed) = SumFunctionOnSet(routed, Workers)
    BY <2>11 DEF SumFunction, SumFunctionOnSet, FoldFunction
  <2>. QED
    BY <2>9, <2>10, <2>12 DEF Sent
<1>. QED
  BY <1>1, <1>2, <1>3, PTL DEF Spec
=============================================================================
