---------------------------- MODULE AtomicQueue ----------------------------
(***************************************************************************)
(* What the callers of ThreadSafeQueue and TSQueue rely on: a bounded      *)
(* channel whose calls take effect at one moment each, when the channel    *)
(* lets them.  Pipeline builds its threads from the same Channel operators *)
(* and takes the fairness stated here for granted.                         *)
(***************************************************************************)
EXTENDS Channel

CONSTANTS Producers, Consumers, CallsPerThread

VARIABLES
  q,     \* the channel
  call,  \* the call each thread is in
  made   \* calls made so far, by thread

vars == <<q, call, made>>

Threads == Producers \cup Consumers

Init ==
  /\ q = NewQueue
  /\ call = [t \in Threads |-> "none"]
  /\ made = [t \in Threads |-> 0]

Enters(t, names) ==
  /\ call[t] = "none" /\ made[t] < CallsPerThread
  /\ made' = [made EXCEPT ![t] = @ + 1]
  /\ \E name \in names : call' = [call EXCEPT ![t] = name]
  /\ UNCHANGED q

Returns(t, names) ==
  /\ call[t] \in names
  /\ call' = [call EXCEPT ![t] = "none"]
  /\ UNCHANGED made

Push(t) ==
  /\ Returns(t, {"push"})
  /\ CanPush(q)
  /\ q' = Pushed(q, <<t, made[t]>>)

(* A call that does not wait; it leaves a full queue alone.                *)
TryPush(t) ==
  /\ call[t] = "none" /\ made[t] < CallsPerThread
  /\ made' = [made EXCEPT ![t] = @ + 1]
  /\ q' = IF CanPush(q) THEN Pushed(q, <<t, made'[t]>>) ELSE q
  /\ UNCHANGED call

PopItem(t) ==
  /\ Returns(t, {"pop", "popWithTimeout"})
  /\ ~IsEmpty(q)
  /\ q' = Popped(q)

(* std::nullopt: only from an empty queue, and without a timeout only from *)
(* one that is shut down.                                                  *)
PopNothing(t) ==
  /\ Returns(t, IF q.down THEN {"pop", "popWithTimeout"}
                ELSE {"popWithTimeout"})
  /\ IsEmpty(q)
  /\ UNCHANGED q

Pop(t) == PopItem(t) \/ PopNothing(t)

Shut == ~q.down /\ q' = ShutDown(q) /\ UNCHANGED <<call, made>>

Next ==
  \/ \E t \in Producers : Enters(t, {"push"}) \/ Push(t) \/ TryPush(t)
  \/ \E t \in Consumers : Enters(t, {"pop", "popWithTimeout"}) \/ Pop(t)
  \/ Shut

(* A call the channel keeps letting through returns.                       *)
Fairness ==
  /\ \A t \in Producers : WF_vars(Push(t))
  /\ \A t \in Consumers : WF_vars(Pop(t))

Spec == Init /\ [][Next]_vars /\ Fairness
=============================================================================
