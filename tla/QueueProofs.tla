---------------------------- MODULE QueueProofs ----------------------------
(***************************************************************************)
(* Theorems about ThreadSafeQueue, for any number of producers and         *)
(* consumers, any bound on the queue and any number of calls.              *)
(***************************************************************************)
EXTENDS ThreadSafeQueue, FiniteSetTheorems, TLAPS

(* A thread sleeps in the condition variable of its own call, a call has   *)
(* been counted, and a queue that is shut down has no sleepers.            *)
Waiting ==
  /\ \A t \in notFull : call[t] = "push"
  /\ \A t \in notEmpty : call[t] \in {"pop", "popWithTimeout"}
  /\ \A t \in Threads : call[t] # "none" => made[t] # 0
  /\ NoSleepAfterShutdown

LEMMA NotifyOneTakes ==
  ASSUME NEW S, NEW R \in NotifyOne(S)
  PROVE  (S = {} /\ R = {}) \/ \E t \in S : R = S \ {t}
BY DEF NotifyOne

LEMMA QueueInit == Init => TypeOK /\ Waiting
<1>. SUFFICES ASSUME Init PROVE TypeOK /\ Waiting
  OBVIOUS
<1>1. TypeOK
  <2>1. queue \in Seq(Items) /\ Len(queue) <= MaxSize
    BY QueueAssumption DEF Init
  <2>2. made \in [Threads -> 0 .. CallsPerThread]
    BY QueueAssumption DEF Init
  <2>. QED
    BY <2>1, <2>2 DEF Init, TypeOK, Calls
<1>2. Waiting
  BY DEF Init, Waiting, NoSleepAfterShutdown
<1>. QED
  BY <1>1, <1>2

(* What appending and removing do to the type and the length of queue_.    *)
LEMMA InsertType ==
  ASSUME TypeOK, Room, NEW x \in Items
  PROVE  /\ Append(queue, x) \in Seq(Items)
         /\ Len(Append(queue, x)) = Len(queue) + 1
         /\ Len(queue) + 1 <= MaxSize
BY QueueAssumption DEF TypeOK, Room

LEMMA TakeType ==
  ASSUME TypeOK, queue # <<>>
  PROVE  /\ Tail(queue) \in Seq(Items)
         /\ Len(Tail(queue)) = Len(queue) - 1
         /\ Len(queue) \in 1 .. MaxSize
BY QueueAssumption DEF TypeOK

LEMMA PushStep ==
  ASSUME TypeOK, Waiting, NEW t \in Producers,
         CallPush(t) \/ Push(t) \/ TryPush(t)
  PROVE  TypeOK' /\ Waiting'
<1>. USE DEF TypeOK, Waiting, NoSleepAfterShutdown, Calls, Threads
<1>0. MaxSize \in Nat /\ CallsPerThread \in Nat /\ Producers \cap Consumers = {}
  BY QueueAssumption
<1>1. CASE CallPush(t)
  BY <1>0, <1>1 DEF CallPush, Enters
<1>2. CASE Push(t)
  <2>1. CASE ~Room /\ ~shutdown
    BY <1>0, <1>2, <2>1 DEF Push, Awake
  <2>2. CASE shutdown
    BY <1>0, <1>2, <2>2 DEF Push, Awake, Returns
  <2>3. CASE Room /\ ~shutdown
    <3>1. <<t, made[t]>> \in Items
      BY <1>0, <1>2 DEF Push, Awake, Items
    <3>2. queue' \in Seq(Items) /\ Len(queue') <= MaxSize
      BY <1>2, <2>3, <3>1, InsertType DEF Push, Insert
    <3>3. notEmpty' \subseteq notEmpty
      BY <1>2, <2>3, NotifyOneTakes DEF Push, Insert
    <3>. QED
      BY <1>0, <1>2, <2>3, <3>2, <3>3 DEF Push, Awake, Returns
  <2>. QED
    BY <2>1, <2>2, <2>3
<1>3. CASE TryPush(t)
  <2>1. <<t, made[t] + 1>> \in Items
    BY <1>0, <1>3 DEF TryPush, Items
  <2>2. queue' \in Seq(Items) /\ Len(queue') <= MaxSize
    BY <1>3, <2>1, InsertType DEF TryPush
  <2>3. notEmpty' \subseteq notEmpty
    BY <1>3, NotifyOneTakes DEF TryPush
  <2>. QED
    BY <1>0, <1>3, <2>2, <2>3 DEF TryPush
<1>. QED
  BY <1>1, <1>2, <1>3

LEMMA PopStep ==
  ASSUME TypeOK, Waiting, NEW t \in Consumers,
         CallPop(t) \/ Pop(t) \/ Timeout(t)
  PROVE  TypeOK' /\ Waiting'
<1>. USE DEF TypeOK, Waiting, NoSleepAfterShutdown, Calls, Threads
<1>0. MaxSize \in Nat /\ CallsPerThread \in Nat /\ Producers \cap Consumers = {}
  BY QueueAssumption
<1>1. CASE CallPop(t)
  BY <1>0, <1>1 DEF CallPop, Enters
<1>2. ASSUME Take, queue # <<>>
      PROVE  /\ queue' \in Seq(Items) /\ Len(queue') <= MaxSize
             /\ notFull' \subseteq notFull
  BY <1>0, <1>2, TakeType, NotifyOneTakes DEF Take
<1>3. CASE Pop(t)
  <2>1. CASE queue = <<>> /\ ~shutdown
    BY <1>0, <1>3, <2>1 DEF Pop, Awake
  <2>2. CASE queue = <<>> /\ shutdown
    BY <1>0, <1>3, <2>2 DEF Pop, Awake, Returns
  <2>3. CASE queue # <<>>
    BY <1>0, <1>2, <1>3, <2>3 DEF Pop, Awake, Returns
  <2>. QED
    BY <2>1, <2>2, <2>3
<1>4. CASE Timeout(t)
  <2>1. CASE queue = <<>>
    BY <1>0, <1>4, <2>1 DEF Timeout, Returns
  <2>2. CASE queue # <<>>
    BY <1>0, <1>2, <1>4, <2>2 DEF Timeout, Returns
  <2>. QED
    BY <2>1, <2>2
<1>. QED
  BY <1>1, <1>3, <1>4

LEMMA QueueStep == TypeOK /\ Waiting /\ [Next]_vars => TypeOK' /\ Waiting'
<1>. SUFFICES ASSUME TypeOK, Waiting, [Next]_vars PROVE TypeOK' /\ Waiting'
  OBVIOUS
<1>1. CASE Shutdown
  BY <1>1 DEF Shutdown, NotifyAll, TypeOK, Waiting, NoSleepAfterShutdown
<1>2. ASSUME NEW t \in Threads, Spurious(t) PROVE TypeOK' /\ Waiting'
  BY <1>2 DEF Spurious, TypeOK, Waiting, NoSleepAfterShutdown
<1>3. CASE UNCHANGED vars
  BY <1>3 DEF vars, TypeOK, Waiting, NoSleepAfterShutdown
<1>. QED
  BY <1>1, <1>2, <1>3, PushStep, PopStep DEF Next, Rest

(* Every variable keeps its type and the queue its bound.                  *)
THEOREM QueueTypeCorrect == Spec => []TypeOK
BY QueueInit, QueueStep, PTL DEF Spec

(* No call sleeps on a queue that is shut down.                            *)
THEOREM NobodySleepsAfterShutdown == Spec => []NoSleepAfterShutdown
<1>1. Waiting => NoSleepAfterShutdown
  BY DEF Waiting
<1>. QED
  BY <1>1, QueueInit, QueueStep, PTL DEF Spec
-----------------------------------------------------------------------------
(* Wake-ups.  The counts of free slots and of items against the threads    *)
(* awake to use them.                                                      *)
LEMMA ThreadsFinite ==
  /\ \A S \in SUBSET Producers : IsFiniteSet(S) /\ Cardinality(S) \in Nat
  /\ \A S \in SUBSET Consumers : IsFiniteSet(S) /\ Cardinality(S) \in Nat
BY QueueAssumption, FS_Subset, FS_CardinalityType

(* A set that loses at most one element, and one that gains one.           *)
LEMMA CardinalityBounds ==
  ASSUME NEW S, NEW T, IsFiniteSet(S), IsFiniteSet(T)
  PROVE  /\ S \subseteq T => Cardinality(S) <= Cardinality(T)
         /\ \A x : S \ {x} \subseteq T => Cardinality(S) <= Cardinality(T) + 1
         /\ \A x : x \notin S /\ S \cup {x} \subseteq T =>
                     Cardinality(S) + 1 <= Cardinality(T)
<1>1. S \subseteq T => Cardinality(S) <= Cardinality(T)
  BY FS_Subset
<1>2. ASSUME NEW x, S \ {x} \subseteq T
      PROVE  Cardinality(S) <= Cardinality(T) + 1
  <2>1. IsFiniteSet(S \ {x}) /\ Cardinality(S \ {x}) <= Cardinality(T)
    BY <1>2, FS_Subset
  <2>2. Cardinality(S \ {x}) = IF x \in S THEN Cardinality(S) - 1 ELSE Cardinality(S)
    BY FS_RemoveElement
  <2>. QED
    BY <2>1, <2>2, FS_CardinalityType
<1>3. ASSUME NEW x, x \notin S, S \cup {x} \subseteq T
      PROVE  Cardinality(S) + 1 <= Cardinality(T)
  <2>1. Cardinality(S \cup {x}) <= Cardinality(T)
    BY <1>3, FS_Subset
  <2>2. Cardinality(S \cup {x}) = Cardinality(S) + 1
    BY <1>3, FS_AddElement
  <2>. QED
    BY <2>1, <2>2
<1>. QED
  BY <1>1, <1>2, <1>3

(* How many producers are awake, against the free slots, by what a step    *)
(* does to the queue.                                                      *)
LEMMA ProducerBalance ==
  ASSUME NoStrandedProducer, Len(queue) \in Nat, Len(queue)' \in Nat,
         \/ notFull' = {}
         \/ Len(queue)' >= MaxSize
         \/ /\ notFull # {} /\ Len(queue)' >= Len(queue)
            /\ AwakePushing \subseteq AwakePushing'
         \/ /\ notFull # {} /\ Len(queue)' = Len(queue) + 1
            /\ \E t : AwakePushing \ {t} \subseteq AwakePushing'
         \/ /\ notFull # {} /\ Len(queue)' = Len(queue) - 1
            /\ \E t : t \notin AwakePushing
                      /\ AwakePushing \cup {t} \subseteq AwakePushing'
  PROVE  NoStrandedProducer'
<1>1. AwakePushing \in SUBSET Producers /\ AwakePushing' \in SUBSET Producers
  BY DEF AwakePushing
<1>2. /\ IsFiniteSet(AwakePushing) /\ Cardinality(AwakePushing) \in Nat
      /\ IsFiniteSet(AwakePushing') /\ Cardinality(AwakePushing') \in Nat
      /\ MaxSize \in Nat
  BY <1>1, ThreadsFinite, QueueAssumption
<1>3. /\ AwakePushing \subseteq AwakePushing' =>
           Cardinality(AwakePushing) <= Cardinality(AwakePushing')
      /\ \A x : AwakePushing \ {x} \subseteq AwakePushing' =>
           Cardinality(AwakePushing) <= Cardinality(AwakePushing') + 1
      /\ \A x : x \notin AwakePushing /\ AwakePushing \cup {x} \subseteq AwakePushing'
           => Cardinality(AwakePushing) + 1 <= Cardinality(AwakePushing')
  BY <1>2, CardinalityBounds
<1>. SUFFICES ASSUME notFull' # {} PROVE MaxSize - Len(queue)' <= Cardinality(AwakePushing')
  BY DEF NoStrandedProducer
<1>4. notFull # {} => MaxSize - Len(queue) <= Cardinality(AwakePushing)
  BY DEF NoStrandedProducer
<1>5. CASE Len(queue)' >= MaxSize
  BY <1>2, <1>5
<1>6. CASE /\ notFull # {} /\ Len(queue)' >= Len(queue)
           /\ AwakePushing \subseteq AwakePushing'
  BY <1>2, <1>3, <1>4, <1>6
<1>7. CASE /\ notFull # {} /\ Len(queue)' = Len(queue) + 1
           /\ \E t : AwakePushing \ {t} \subseteq AwakePushing'
  <2>1. PICK t : AwakePushing \ {t} \subseteq AwakePushing'
    BY <1>7
  <2>2. Cardinality(AwakePushing) <= Cardinality(AwakePushing') + 1
    BY <1>3, <2>1
  <2>. QED
    BY <1>2, <1>4, <1>7, <2>2
<1>8. CASE /\ notFull # {} /\ Len(queue)' = Len(queue) - 1
           /\ \E t : t \notin AwakePushing
                     /\ AwakePushing \cup {t} \subseteq AwakePushing'
  BY <1>2, <1>3, <1>4, <1>8
<1>. QED
  BY <1>5, <1>6, <1>7, <1>8

LEMMA ConsumerBalance ==
  ASSUME NoStrandedConsumer, Len(queue) \in Nat, Len(queue)' \in Nat,
         \/ notEmpty' = {}
         \/ Len(queue)' = 0
         \/ /\ notEmpty # {} /\ Len(queue)' <= Len(queue)
            /\ AwakePopping \subseteq AwakePopping'
         \/ /\ notEmpty # {} /\ Len(queue)' = Len(queue) - 1
            /\ \E t : AwakePopping \ {t} \subseteq AwakePopping'
         \/ /\ notEmpty # {} /\ Len(queue)' = Len(queue) + 1
            /\ \E t : t \notin AwakePopping
                      /\ AwakePopping \cup {t} \subseteq AwakePopping'
  PROVE  NoStrandedConsumer'
<1>1. AwakePopping \in SUBSET Consumers /\ AwakePopping' \in SUBSET Consumers
  BY DEF AwakePopping
<1>2. /\ IsFiniteSet(AwakePopping) /\ Cardinality(AwakePopping) \in Nat
      /\ IsFiniteSet(AwakePopping') /\ Cardinality(AwakePopping') \in Nat
  BY <1>1, ThreadsFinite
<1>3. /\ AwakePopping \subseteq AwakePopping' =>
           Cardinality(AwakePopping) <= Cardinality(AwakePopping')
      /\ \A x : AwakePopping \ {x} \subseteq AwakePopping' =>
           Cardinality(AwakePopping) <= Cardinality(AwakePopping') + 1
      /\ \A x : x \notin AwakePopping /\ AwakePopping \cup {x} \subseteq AwakePopping'
           => Cardinality(AwakePopping) + 1 <= Cardinality(AwakePopping')
  BY <1>2, CardinalityBounds
<1>. SUFFICES ASSUME notEmpty' # {} PROVE Len(queue)' <= Cardinality(AwakePopping')
  BY DEF NoStrandedConsumer
<1>4. notEmpty # {} => Len(queue) <= Cardinality(AwakePopping)
  BY DEF NoStrandedConsumer
<1>5. CASE Len(queue)' = 0
  BY <1>2, <1>5
<1>6. CASE /\ notEmpty # {} /\ Len(queue)' <= Len(queue)
           /\ AwakePopping \subseteq AwakePopping'
  BY <1>2, <1>3, <1>4, <1>6
<1>7. CASE /\ notEmpty # {} /\ Len(queue)' = Len(queue) - 1
           /\ \E t : AwakePopping \ {t} \subseteq AwakePopping'
  <2>1. PICK t : AwakePopping \ {t} \subseteq AwakePopping'
    BY <1>7
  <2>2. Cardinality(AwakePopping) <= Cardinality(AwakePopping') + 1
    BY <1>3, <2>1
  <2>. QED
    BY <1>2, <1>4, <1>7, <2>2
<1>8. CASE /\ notEmpty # {} /\ Len(queue)' = Len(queue) + 1
           /\ \E t : t \notin AwakePopping
                     /\ AwakePopping \cup {t} \subseteq AwakePopping'
  BY <1>2, <1>3, <1>4, <1>8
<1>. QED
  BY <1>5, <1>6, <1>7, <1>8

(* Inserting takes at most the inserting producer away, and gives the new  *)
(* item to a consumer that slept, if one did.                              *)
LEMMA InsertBalance ==
  ASSUME TypeOK, TypeOK', Waiting, NoStrandedProducer, NoStrandedConsumer,
         Room, NEW t \in Producers, NEW x \in Items,
         queue' = Append(queue, x), notEmpty' \in NotifyOne(notEmpty),
         notFull' = notFull, call' = call \/ call' = [call EXCEPT ![t] = "none"]
  PROVE  NoStrandedProducer' /\ NoStrandedConsumer'
<1>1. /\ Len(queue) \in Nat /\ Len(queue)' = Len(queue) + 1
      /\ notFull \subseteq Producers /\ notEmpty \subseteq Consumers
      /\ Producers \cap Consumers = {}
      /\ call \in [Threads -> Calls]
      /\ \A u \in notEmpty : call[u] \in {"pop", "popWithTimeout"}
  BY InsertType, QueueAssumption DEF TypeOK, Waiting
<1>2. /\ AwakePushing \ {t} \subseteq AwakePushing'
      /\ AwakePopping \subseteq AwakePopping'
  BY <1>1, NotifyOneTakes DEF AwakePushing, AwakePopping, Awake, Threads
<1>3. NoStrandedProducer'
  BY <1>1, <1>2, ProducerBalance, SMTT(30) DEF NoStrandedProducer
<1>4. NoStrandedConsumer'
  <2>1. CASE notEmpty = {}
    BY <1>1, <2>1, NotifyOneTakes, ConsumerBalance
  <2>2. CASE notEmpty # {}
    <3>1. PICK u \in notEmpty : notEmpty' = notEmpty \ {u}
      BY <2>2, NotifyOneTakes
    <3>2. u \notin AwakePopping /\ u \in AwakePopping'
      BY <1>1, <3>1 DEF AwakePopping, Awake, Threads
    <3>. QED
      BY <1>1, <1>2, <2>2, <3>2, ConsumerBalance
  <2>. QED
    BY <2>1, <2>2
<1>. QED
  BY <1>3, <1>4

LEMMA TakeBalance ==
  ASSUME TypeOK, TypeOK', Waiting, NoStrandedProducer, NoStrandedConsumer,
         queue # <<>>, Take, NEW t \in Consumers,
         notEmpty' = notEmpty \ {t}, call' = [call EXCEPT ![t] = "none"]
  PROVE  NoStrandedProducer' /\ NoStrandedConsumer'
<1>1. /\ Len(queue) \in Nat /\ Len(queue)' = Len(queue) - 1
      /\ Len(queue)' \in Nat
      /\ notFull \subseteq Producers /\ notEmpty \subseteq Consumers
      /\ Producers \cap Consumers = {}
      /\ call \in [Threads -> Calls]
      /\ \A u \in notFull : call[u] = "push"
  BY TakeType, QueueAssumption DEF Take, TypeOK, Waiting
<1>2. /\ AwakePushing \subseteq AwakePushing'
      /\ AwakePopping \ {t} \subseteq AwakePopping'
  BY <1>1, NotifyOneTakes DEF Take, AwakePushing, AwakePopping, Awake, Threads
<1>3. NoStrandedConsumer'
  BY <1>1, <1>2, ConsumerBalance
<1>4. NoStrandedProducer'
  <2>1. CASE notFull = {}
    BY <1>1, <2>1, NotifyOneTakes, ProducerBalance DEF Take
  <2>2. CASE notFull # {}
    <3>1. PICK u \in notFull : notFull' = notFull \ {u}
      BY <2>2, NotifyOneTakes DEF Take
    <3>2. u \notin AwakePushing /\ u \in AwakePushing'
      BY <1>1, <3>1 DEF AwakePushing, Awake, Threads
    <3>. QED
      BY <1>1, <1>2, <2>2, <3>2, ProducerBalance
  <2>. QED
    BY <2>1, <2>2
<1>. QED
  BY <1>3, <1>4

(* The steps of one producer, and of one consumer.                         *)
LEMMA PushBalance ==
  ASSUME TypeOK, TypeOK', Waiting, NoStrandedProducer, NoStrandedConsumer,
         NEW t \in Producers, CallPush(t) \/ Push(t) \/ TryPush(t)
  PROVE  NoStrandedProducer' /\ NoStrandedConsumer'
<1>1. /\ Len(queue) \in Nat /\ Len(queue)' \in Nat
      /\ MaxSize \in Nat /\ CallsPerThread \in Nat
      /\ notFull \subseteq Producers /\ notEmpty \subseteq Consumers
      /\ Producers \cap Consumers = {}
      /\ call \in [Threads -> Calls] /\ made[t] \in 0 .. CallsPerThread
      /\ call[t] # "none" => made[t] # 0
  BY QueueAssumption DEF TypeOK, Waiting, Threads
<1>2. CASE UNCHANGED <<queue, notFull, notEmpty, call>>
  BY <1>2 DEF NoStrandedProducer, NoStrandedConsumer, AwakePushing,
              AwakePopping, Awake
<1>3. CASE CallPush(t)
  <2>1. /\ AwakePushing \subseteq AwakePushing'
        /\ AwakePopping \subseteq AwakePopping'
    BY <1>1, <1>3 DEF CallPush, Enters, AwakePushing, AwakePopping, Awake, Threads
  <2>2. UNCHANGED <<queue, notFull, notEmpty>>
    BY <1>3 DEF CallPush
  <2>. QED
    BY <1>1, <2>1, <2>2, ProducerBalance, ConsumerBalance
<1>4. CASE Push(t)
  <2>1. CASE ~Room /\ ~shutdown
    <3>1. Len(queue)' >= MaxSize
      BY <1>1, <1>4, <2>1 DEF Push, Room
    <3>2. AwakePopping \subseteq AwakePopping'
      BY <1>1, <1>4, <2>1 DEF Push, AwakePopping, Awake
    <3>3. queue' = queue /\ notEmpty' = notEmpty
      BY <1>4, <2>1 DEF Push
    <3>. QED
      BY <1>1, <3>1, <3>2, <3>3, ProducerBalance, ConsumerBalance
  <2>2. CASE shutdown
    BY <1>1, <1>4, <2>2, ProducerBalance, ConsumerBalance
       DEF Push, Waiting, NoSleepAfterShutdown
  <2>3. CASE Room /\ ~shutdown
    <3>1. <<t, made[t]>> \in Items
      BY <1>1, <1>4 DEF Push, Awake, Items
    <3>2. /\ queue' = Append(queue, <<t, made[t]>>) /\ notFull' = notFull
          /\ notEmpty' \in NotifyOne(notEmpty)
          /\ call' = [call EXCEPT ![t] = "none"]
      BY <1>4, <2>3 DEF Push, Insert, Returns
    <3>. QED
      BY <2>3, <3>1, <3>2, InsertBalance
  <2>. QED
    BY <2>1, <2>2, <2>3
<1>5. CASE TryPush(t)
  <2>1. CASE ~Room \/ shutdown
    BY <1>2, <1>5, <2>1 DEF TryPush
  <2>2. CASE Room /\ ~shutdown
    <3>1. <<t, made[t] + 1>> \in Items
      BY <1>1, <1>5 DEF TryPush, Items
    <3>2. /\ queue' = Append(queue, <<t, made[t] + 1>>) /\ notFull' = notFull
          /\ notEmpty' \in NotifyOne(notEmpty) /\ call' = call
      BY <1>5, <2>2 DEF TryPush
    <3>. QED
      BY <2>2, <3>1, <3>2, InsertBalance
  <2>. QED
    BY <2>1, <2>2
<1>. QED
  BY <1>3, <1>4, <1>5

LEMMA PopBalance ==
  ASSUME TypeOK, TypeOK', Waiting, NoStrandedProducer, NoStrandedConsumer,
         NEW t \in Consumers, CallPop(t) \/ Pop(t) \/ Timeout(t)
  PROVE  NoStrandedProducer' /\ NoStrandedConsumer'
<1>1. /\ Len(queue) \in Nat /\ Len(queue)' \in Nat
      /\ notFull \subseteq Producers /\ notEmpty \subseteq Consumers
      /\ Producers \cap Consumers = {}
      /\ call \in [Threads -> Calls]
  BY QueueAssumption DEF TypeOK
<1>2. CASE CallPop(t)
  <2>1. /\ AwakePushing \subseteq AwakePushing'
        /\ AwakePopping \subseteq AwakePopping'
    BY <1>1, <1>2 DEF CallPop, Enters, AwakePushing, AwakePopping, Awake, Threads
  <2>2. UNCHANGED <<queue, notFull, notEmpty>>
    BY <1>2 DEF CallPop
  <2>. QED
    BY <1>1, <2>1, <2>2, ProducerBalance, ConsumerBalance
<1>3. ASSUME queue = <<>>, UNCHANGED <<queue, notFull>>,
             call' = call \/ call' = [call EXCEPT ![t] = "none"],
             notEmpty' = notEmpty \cup {t} \/ notEmpty' = notEmpty
             \/ notEmpty' = notEmpty \ {t}
      PROVE  NoStrandedProducer' /\ NoStrandedConsumer'
  <2>1. Len(queue)' = 0
    BY <1>3
  <2>2. AwakePushing \subseteq AwakePushing'
    BY <1>1, <1>3 DEF AwakePushing, Awake, Threads
  <2>. QED
    BY <1>1, <1>3, <2>1, <2>2, ProducerBalance, ConsumerBalance
<1>4. CASE Pop(t)
  <2>1. CASE queue = <<>>
    BY <1>3, <1>4, <2>1 DEF Pop, Returns
  <2>2. CASE queue # <<>>
    <3>1. Take /\ call' = [call EXCEPT ![t] = "none"] /\ notEmpty' = notEmpty \ {t}
      BY <1>4, <2>2 DEF Pop, Returns, Awake
    <3>. QED
      BY <2>2, <3>1, TakeBalance
  <2>. QED
    BY <2>1, <2>2
<1>5. CASE Timeout(t)
  <2>1. CASE queue = <<>>
    BY <1>3, <1>5, <2>1 DEF Timeout, Returns
  <2>2. CASE queue # <<>>
    BY <1>5, <2>2, TakeBalance DEF Timeout, Returns
  <2>. QED
    BY <2>1, <2>2
<1>. QED
  BY <1>2, <1>4, <1>5

LEMMA WakeUpStep ==
  TypeOK /\ Waiting /\ NoStrandedProducer /\ NoStrandedConsumer /\ [Next]_vars
  => NoStrandedProducer' /\ NoStrandedConsumer'
<1>. SUFFICES ASSUME TypeOK, Waiting, NoStrandedProducer, NoStrandedConsumer,
                     [Next]_vars
              PROVE  NoStrandedProducer' /\ NoStrandedConsumer'
  OBVIOUS
<1>1. TypeOK'
  BY QueueStep
<1>2. CASE Shutdown
  BY <1>2 DEF Shutdown, NotifyAll, NoStrandedProducer, NoStrandedConsumer
<1>3. ASSUME NEW t \in Threads, Spurious(t)
      PROVE  NoStrandedProducer' /\ NoStrandedConsumer'
  <2>1. /\ queue' = queue /\ call' = call
        /\ notFull' \subseteq notFull /\ notEmpty' \subseteq notEmpty
    BY <1>3 DEF Spurious
  <2>2. Len(queue) \in Nat /\ Len(queue)' \in Nat
    BY <1>1 DEF TypeOK
  <2>3. /\ AwakePushing \subseteq AwakePushing'
        /\ AwakePopping \subseteq AwakePopping'
    BY <2>1 DEF AwakePushing, AwakePopping, Awake
  <2>. QED
    BY <2>1, <2>2, <2>3, ProducerBalance, ConsumerBalance
<1>4. CASE UNCHANGED vars
  BY <1>4 DEF vars, NoStrandedProducer, NoStrandedConsumer, AwakePushing,
              AwakePopping, Awake
<1>. QED
  BY <1>1, <1>2, <1>3, <1>4, PushBalance, PopBalance DEF Next, Rest

(* No wake-up is lost: a producer never sleeps beside a free slot, nor a   *)
(* consumer beside an item, that nobody is awake to use.                   *)
LEMMA WakeUpsKept == Spec => [](NoStrandedProducer /\ NoStrandedConsumer)
<1>1. Init => NoStrandedProducer /\ NoStrandedConsumer
  BY DEF Init, NoStrandedProducer, NoStrandedConsumer
<1>. QED
  BY <1>1, QueueInit, QueueStep, WakeUpStep, PTL DEF Spec

(* A slot never stays free beside a sleeping producer with nobody awake to *)
(* fill it.                                                                *)
THEOREM NoLostProducerWakeup == Spec => []NoStrandedProducer
BY WakeUpsKept, PTL

(* An item never stays queued beside a sleeping consumer with nobody awake *)
(* to take it.                                                             *)
THEOREM NoLostConsumerWakeup == Spec => []NoStrandedConsumer
BY WakeUpsKept, PTL
-----------------------------------------------------------------------------
(* The queue as its callers see it: each critical section is one of their  *)
(* steps, or, when it ends in a wait or changes only who waits, none.      *)
Seen == [items |-> queue, down |-> shutdown]

LEMMA SeenPush ==
  ASSUME TypeOK, NEW x, Room, ~shutdown, queue' = Append(queue, x),
         shutdown' = shutdown
  PROVE  Atomic!CanPush(Seen) /\ Seen' = Atomic!Pushed(Seen, x)
BY DEF Room, Seen, Atomic!CanPush, Atomic!Pushed

LEMMA SeenShutPush ==
  ASSUME shutdown, UNCHANGED <<queue, shutdown>>, NEW x
  PROVE  Atomic!CanPush(Seen) /\ Seen' = Atomic!Pushed(Seen, x)
BY DEF Seen, Atomic!CanPush, Atomic!Pushed

LEMMA SeenTake ==
  ASSUME queue # <<>>, Take, shutdown' = shutdown
  PROVE  ~Atomic!IsEmpty(Seen) /\ Seen' = Atomic!Popped(Seen)
BY DEF Take, Seen, Atomic!IsEmpty, Atomic!Popped

LEMMA PushImplements ==
  ASSUME TypeOK, NEW t \in Producers, CallPush(t) \/ Push(t) \/ TryPush(t)
  PROVE  [Atomic!Next]_Atomic!vars
<1>1. CASE CallPush(t)
  <2>1. Atomic!Enters(t, {"push"})
    BY <1>1 DEF CallPush, Enters, Atomic!Enters
  <2>. QED
    BY <2>1 DEF Atomic!Next
<1>2. CASE Push(t)
  <2>1. CASE ~Room /\ ~shutdown
    BY <1>2, <2>1 DEF Push, Atomic!vars
  <2>2. CASE shutdown
    <3>1. UNCHANGED <<queue, shutdown, made>> /\ call[t] = "push" /\ Returns(t)
      BY <1>2, <2>2 DEF Push, Awake
    <3>2. Atomic!CanPush(Seen) /\ Seen' = Atomic!Pushed(Seen, <<t, made[t]>>)
      BY <2>2, <3>1, SeenShutPush
    <3>3. Atomic!Push(t)
      BY <3>1, <3>2 DEF Atomic!Push, Atomic!Returns, Returns, Seen
    <3>. QED
      BY <3>3 DEF Atomic!Next
  <2>3. CASE Room /\ ~shutdown
    <3>1. /\ queue' = Append(queue, <<t, made[t]>>) /\ UNCHANGED <<shutdown, made>>
          /\ call[t] = "push" /\ Returns(t)
      BY <1>2, <2>3 DEF Push, Awake, Insert
    <3>2. Atomic!CanPush(Seen) /\ Seen' = Atomic!Pushed(Seen, <<t, made[t]>>)
      BY <2>3, <3>1, SeenPush
    <3>3. Atomic!Push(t)
      BY <3>1, <3>2 DEF Atomic!Push, Atomic!Returns, Returns, Seen
    <3>. QED
      BY <3>3 DEF Atomic!Next
  <2>. QED
    BY <2>1, <2>2, <2>3
<1>3. CASE TryPush(t)
  <2>1. /\ call[t] = "none" /\ made[t] < CallsPerThread /\ UNCHANGED <<shutdown, call>>
        /\ made' = [made EXCEPT ![t] = @ + 1] /\ made'[t] = made[t] + 1
    BY <1>3 DEF TryPush, TypeOK, Threads
  <2>2. Seen' = IF Atomic!CanPush(Seen) THEN Atomic!Pushed(Seen, <<t, made'[t]>>)
                ELSE Seen
    <3>1. CASE Room /\ ~shutdown
      <4>1. queue' = Append(queue, <<t, made'[t]>>)
        BY <1>3, <2>1, <3>1 DEF TryPush
      <4>. QED
        BY <2>1, <3>1, <4>1, SeenPush
    <3>2. CASE ~Room /\ ~shutdown
      <4>1. queue' = queue
        BY <1>3, <3>2 DEF TryPush
      <4>. QED
        BY <2>1, <3>2, <4>1 DEF Seen, Room, Atomic!CanPush
    <3>3. CASE shutdown
      <4>1. queue' = queue
        BY <1>3, <3>3 DEF TryPush
      <4>. QED
        BY <2>1, <3>3, <4>1 DEF Seen, Atomic!CanPush, Atomic!Pushed
    <3>. QED
      BY <3>1, <3>2, <3>3
  <2>3. Atomic!TryPush(t)
    BY <2>1, <2>2 DEF Atomic!TryPush, Seen
  <2>. QED
    BY <2>3 DEF Atomic!Next
<1>. QED
  BY <1>1, <1>2, <1>3

LEMMA PopImplements ==
  ASSUME TypeOK, Waiting, NEW t \in Consumers, CallPop(t) \/ Pop(t) \/ Timeout(t)
  PROVE  [Atomic!Next]_Atomic!vars
<1>1. CASE CallPop(t)
  <2>1. Atomic!Enters(t, {"pop", "popWithTimeout"})
    BY <1>1 DEF CallPop, Enters, Atomic!Enters
  <2>. QED
    BY <2>1 DEF Atomic!Next
<1>2. ASSUME call[t] \in {"pop", "popWithTimeout"}, Returns(t), queue # <<>>, Take,
             UNCHANGED <<shutdown, made>>
      PROVE  Atomic!Pop(t)
  <2>1. ~Atomic!IsEmpty(Seen) /\ Seen' = Atomic!Popped(Seen)
    BY <1>2, SeenTake
  <2>. QED
    BY <1>2, <2>1 DEF Atomic!Pop, Atomic!PopItem, Atomic!Returns, Returns, Seen
<1>3. ASSUME call[t] \in {"pop", "popWithTimeout"}, Returns(t), queue = <<>>,
             shutdown \/ call[t] = "popWithTimeout",
             UNCHANGED <<queue, shutdown, made>>
      PROVE  Atomic!Pop(t)
  BY <1>3 DEF Atomic!Pop, Atomic!PopNothing, Atomic!Returns, Returns, Atomic!IsEmpty
<1>4. CASE Pop(t)
  <2>1. CASE queue = <<>> /\ ~shutdown
    BY <1>4, <2>1 DEF Pop, Atomic!vars
  <2>2. CASE queue = <<>> /\ shutdown
    <3>1. Atomic!Pop(t)
      BY <1>3, <1>4, <2>2 DEF Pop, Awake
    <3>. QED
      BY <3>1 DEF Atomic!Next
  <2>3. CASE queue # <<>>
    <3>1. Atomic!Pop(t)
      BY <1>2, <1>4, <2>3 DEF Pop, Awake
    <3>. QED
      BY <3>1 DEF Atomic!Next
  <2>. QED
    BY <2>1, <2>2, <2>3
<1>5. CASE Timeout(t)
  <2>1. Atomic!Pop(t)
    BY <1>2, <1>3, <1>5 DEF Timeout
  <2>. QED
    BY <2>1 DEF Atomic!Next
<1>. QED
  BY <1>1, <1>4, <1>5

(* EXCEPT on the two fields of a queue.                                    *)
LEMMA DownRecord ==
  ASSUME NEW i, NEW d, NEW e
  PROVE  [[items |-> i, down |-> d] EXCEPT !.down = e] = [items |-> i, down |-> e]
OBVIOUS

(* The mutex and the condition variables make the queue an atomic bounded  *)
(* channel: no call does anything the channel would not, in any order of   *)
(* wake-ups, timeouts and spurious wake-ups.  (That its calls return is    *)
(* the fairness part of ImplementsChannel.)                                *)
THEOREM QueueIsChannel == Spec => Atomic!Init /\ [][Atomic!Next]_Atomic!vars
<1>1. Init => Atomic!Init
  BY DEF Init, Atomic!Init, Atomic!NewQueue, Atomic!Threads, Threads
<1>2. TypeOK /\ Waiting /\ [Next]_vars => [Atomic!Next]_Atomic!vars
  <2>. SUFFICES ASSUME TypeOK, Waiting, [Next]_vars
                PROVE  [Atomic!Next]_Atomic!vars
    OBVIOUS
  <2>1. CASE Shutdown
    <3>1. ~Seen.down /\ Seen' = [Seen EXCEPT !.down = TRUE] /\ UNCHANGED <<call, made>>
      <4>1. Seen' = [items |-> queue, down |-> TRUE]
        BY <2>1, Zenon DEF Shutdown, Seen
      <4>2. ~Seen.down
        <5>1. Seen.down = shutdown
          BY DEF Seen
        <5>. QED
          BY <2>1, <5>1, Zenon DEF Shutdown
      <4>3. [Seen EXCEPT !.down = TRUE] = [items |-> queue, down |-> TRUE]
        BY DownRecord, Zenon DEF Seen
      <4>. QED
        BY <2>1, <4>1, <4>2, <4>3, Zenon DEF Shutdown
    <3>2. Atomic!Shut
      BY <3>1 DEF Atomic!Shut, Atomic!ShutDown, Seen
    <3>. QED
      BY <3>2 DEF Atomic!Next
  <2>2. ASSUME NEW t \in Threads, Spurious(t) PROVE [Atomic!Next]_Atomic!vars
    BY <2>2 DEF Spurious, Atomic!vars
  <2>3. CASE UNCHANGED vars
    BY <2>3 DEF vars, Atomic!vars
  <2>. QED
    BY <2>1, <2>2, <2>3, PushImplements, PopImplements DEF Next, Rest
<1>. QED
  BY <1>1, <1>2, QueueInit, QueueStep, PTL DEF Spec
=============================================================================
