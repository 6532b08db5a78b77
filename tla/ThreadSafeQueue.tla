-------------------------- MODULE ThreadSafeQueue --------------------------
(***************************************************************************)
(* ThreadSafeQueue of include/thread_safe_queue.h at the level of its      *)
(* mutex and its two condition variables.  (TSQueue of src/dpi_mt.cpp is   *)
(* the same class without tryPush and without the untimed pop.)            *)
(*                                                                         *)
(* A call runs from taking the mutex to releasing it or to waiting, and    *)
(* again from each wake-up: these critical sections are the actions.  A    *)
(* thread waits in not_full_ or not_empty_ until it is notified, until its *)
(* timeout passes, or for no reason at all (a spurious wake-up).  Each     *)
(* thread makes at most CallsPerThread calls.                              *)
(***************************************************************************)
EXTENDS Naturals, Sequences, FiniteSets

CONSTANTS Producers, Consumers, MaxSize, CallsPerThread

Threads == Producers \cup Consumers

ASSUME QueueAssumption ==
  /\ IsFiniteSet(Producers) /\ IsFiniteSet(Consumers)
  /\ Producers \cap Consumers = {}
  /\ MaxSize \in Nat \ {0}
  /\ CallsPerThread \in Nat

VARIABLES
  queue,      \* queue_
  shutdown,   \* shutdown_
  notFull,    \* the threads waiting in not_full_
  notEmpty,   \* the threads waiting in not_empty_
  call,       \* the call each thread is in
  made        \* calls made so far, by thread

vars == <<queue, shutdown, notFull, notEmpty, call, made>>

Calls == {"none", "push", "pop", "popWithTimeout"}
Items == Producers \X (1 .. CallsPerThread)

Init ==
  /\ queue = <<>> /\ shutdown = FALSE
  /\ notFull = {} /\ notEmpty = {}
  /\ call = [t \in Threads |-> "none"]
  /\ made = [t \in Threads |-> 0]

Enters(t, name) ==
  /\ call[t] = "none" /\ made[t] < CallsPerThread
  /\ made' = [made EXCEPT ![t] = @ + 1]
  /\ call' = [call EXCEPT ![t] = name]

Returns(t) == call' = [call EXCEPT ![t] = "none"]

(* A thread of a call that is not waiting: it was just called, or it was   *)
(* taken out of the waiting set and is about to look at the queue again.   *)
Awake(t, name) == call[t] = name /\ t \notin notFull \cup notEmpty

(* Variant: nobody is told.                                                *)
NotifyNobody(waiting) == {waiting}

(* What notify_one may leave of the threads waiting.                       *)
NotifyOne(waiting) ==
  IF waiting = {} THEN {{}} ELSE {waiting \ {t} : t \in waiting}

(* Variant: only one of the threads waiting hears of the shutdown.         *)
NotifyFirst(waiting) ==
  IF waiting = {} THEN {} ELSE waiting \ {CHOOSE t \in waiting : TRUE}

NotifyAll(waiting) == {}
-----------------------------------------------------------------------------
(* Variant: the space left is counted from the wrong side.                 *)
RoomOrLast == Len(queue) <= MaxSize

Room == Len(queue) < MaxSize

Insert(t) ==
  /\ queue' = Append(queue, <<t, made[t]>>)
  /\ notEmpty' \in NotifyOne(notEmpty)

CallPush(t) ==
  /\ Enters(t, "push")
  /\ UNCHANGED <<queue, shutdown, notFull, notEmpty>>

(* One pass through the wait predicate of push, and the rest of the call   *)
(* if it holds; a push that finds the queue shut down drops its item.      *)
Push(t) ==
  /\ Awake(t, "push")
  /\ \/ /\ ~Room /\ ~shutdown
        /\ notFull' = notFull \cup {t}
        /\ UNCHANGED <<queue, notEmpty, call>>
     \/ /\ shutdown
        /\ Returns(t)
        /\ UNCHANGED <<queue, notFull, notEmpty>>
     \/ /\ Room /\ ~shutdown
        /\ Insert(t)
        /\ Returns(t)
        /\ UNCHANGED notFull
  /\ UNCHANGED <<shutdown, made>>

(* tryPush holds the mutex from start to end: one step.                    *)
TryPush(t) ==
  /\ call[t] = "none" /\ made[t] < CallsPerThread
  /\ made' = [made EXCEPT ![t] = @ + 1]
  /\ IF ~Room \/ shutdown
     THEN UNCHANGED <<queue, notEmpty>>
     ELSE /\ queue' = Append(queue, <<t, made[t] + 1>>)
          /\ notEmpty' \in NotifyOne(notEmpty)
  /\ UNCHANGED <<shutdown, notFull, call>>
-----------------------------------------------------------------------------
CallPop(t) ==
  /\ \E name \in {"pop", "popWithTimeout"} : Enters(t, name)
  /\ UNCHANGED <<queue, shutdown, notFull, notEmpty>>

Take ==
  /\ queue' = Tail(queue)
  /\ notFull' \in NotifyOne(notFull)

(* One pass through the wait predicate of pop or popWithTimeout.           *)
Pop(t) ==
  /\ Awake(t, "pop") \/ Awake(t, "popWithTimeout")
  /\ \/ /\ queue = <<>> /\ ~shutdown
        /\ notEmpty' = notEmpty \cup {t}
        /\ UNCHANGED <<queue, notFull, call>>
     \/ /\ queue = <<>> /\ shutdown
        /\ Returns(t)
        /\ UNCHANGED <<queue, notFull, notEmpty>>
     \/ /\ queue # <<>>
        /\ Take
        /\ Returns(t)
        /\ UNCHANGED notEmpty
  /\ UNCHANGED <<shutdown, made>>

(* wait_for gives up: it looks at the predicate a last time, so a thread   *)
(* whose timeout passes as an item arrives takes the item.                 *)
Timeout(t) ==
  /\ t \in notEmpty /\ call[t] = "popWithTimeout"
  /\ notEmpty' = notEmpty \ {t}
  /\ IF queue = <<>>
     THEN UNCHANGED <<queue, notFull>>
     ELSE Take
  /\ Returns(t)
  /\ UNCHANGED <<shutdown, made>>
-----------------------------------------------------------------------------
Shutdown ==
  /\ ~shutdown
  /\ shutdown' = TRUE
  /\ notFull' = NotifyAll(notFull)
  /\ notEmpty' = NotifyAll(notEmpty)
  /\ UNCHANGED <<queue, call, made>>

Spurious(t) ==
  /\ t \in notFull \cup notEmpty
  /\ notFull' = notFull \ {t} /\ notEmpty' = notEmpty \ {t}
  /\ UNCHANGED <<queue, shutdown, call, made>>

(* Every thread has made its calls.                                        *)
Rest ==
  /\ shutdown
  /\ \A t \in Threads : call[t] = "none" /\ made[t] = CallsPerThread
  /\ UNCHANGED vars

Next ==
  \/ \E t \in Producers : CallPush(t) \/ Push(t) \/ TryPush(t)
  \/ \E t \in Consumers : CallPop(t) \/ Pop(t) \/ Timeout(t)
  \/ Shutdown
  \/ \E t \in Threads : Spurious(t)
  \/ Rest

(* A thread that is awake runs.  A timeout passes however often the thread *)
(* is woken before, as wait_for fixes its deadline on entry.  New calls,   *)
(* the shutdown and spurious wake-ups need never happen.                   *)
Fairness ==
  /\ \A t \in Producers : WF_vars(Push(t))
  /\ \A t \in Consumers : WF_vars(Pop(t)) /\ SF_vars(Timeout(t))

Spec == Init /\ [][Next]_vars /\ Fairness
-----------------------------------------------------------------------------
(* Every variable has its type and queue_ holds at most max_size_ items.   *)
TypeOK ==
  /\ queue \in Seq(Items) /\ Len(queue) <= MaxSize
  /\ shutdown \in BOOLEAN
  /\ notFull \subseteq Producers /\ notEmpty \subseteq Consumers
  /\ call \in [Threads -> Calls]
  /\ made \in [Threads -> 0 .. CallsPerThread]

AwakePushing == {t \in Producers : Awake(t, "push")}
AwakePopping ==
  {t \in Consumers : Awake(t, "pop") \/ Awake(t, "popWithTimeout")}

(* No lost wake-up of a producer: while one sleeps in not_full_, the queue *)
(* has no more free slots than there are producers awake to fill them, so  *)
(* a slot never stays free for ever beside a sleeping producer.            *)
NoStrandedProducer ==
  notFull # {} => MaxSize - Len(queue) <= Cardinality(AwakePushing)

(* No lost wake-up of a consumer: while one sleeps in not_empty_, every    *)
(* item in the queue has a consumer awake to take it.                      *)
NoStrandedConsumer ==
  notEmpty # {} => Len(queue) <= Cardinality(AwakePopping)

(* No call sleeps on a queue that is shut down: stop() can join.           *)
NoSleepAfterShutdown == shutdown => notFull = {} /\ notEmpty = {}

(* Every push and pop returns once the queue is shut down.                 *)
ShutdownReleases ==
  \A t \in Threads : (shutdown /\ call[t] # "none") ~> (call[t] = "none")

(* Mutex, condition variables and notifications give the callers an atomic *)
(* bounded channel: no call that could return sleeps on.                   *)
Atomic == INSTANCE AtomicQueue WITH
            QueueCap <- MaxSize, q <- [items |-> queue, down |-> shutdown]
ImplementsChannel == Atomic!Spec
=============================================================================
