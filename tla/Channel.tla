------------------------------ MODULE Channel ------------------------------
(***************************************************************************)
(* The bounded queue between two stages, TSQueue of src/dpi_mt.cpp, as the *)
(* value its mutex protects: a queue is [items, down], the elements in     *)
(* order and the shutdown_ flag.  Each operator is the effect of one call  *)
(* at the moment it holds the mutex and its wait is over.                  *)
(***************************************************************************)
EXTENDS Naturals, Sequences

CONSTANT QueueCap    \* max_size_

ASSUME QueueCapAssumption == QueueCap \in Nat \ {0}

Queue(S) == [items : Seq(S), down : BOOLEAN]

NewQueue == [items |-> <<>>, down |-> FALSE]

IsEmpty(q) == q.items = <<>>

(* Variants: a slot of the queue never used; no wait at all.               *)
CanPushBelowCap(q) == Len(q.items) + 1 < QueueCap \/ q.down
CanPushAlways(q) == TRUE

(* The predicate push waits for on not_full_.                              *)
CanPush(q) == Len(q.items) < QueueCap \/ q.down

(* Variant: a full queue discards instead of making the caller wait.       *)
PushedOrDiscarded(q, x) ==
  IF q.down \/ Len(q.items) + 1 >= QueueCap
  THEN q ELSE [q EXCEPT !.items = Append(@, x)]

(* push: an element given to a queue that is shut down is discarded.       *)
Pushed(q, x) == IF q.down THEN q ELSE [q EXCEPT !.items = Append(@, x)]

(* pop of a non-empty queue.  A queue that is shut down still hands out    *)
(* what it holds; pop gives up (std::nullopt) only on an empty one.        *)
Popped(q) == [q EXCEPT !.items = Tail(@)]

ShutDown(q) == [q EXCEPT !.down = TRUE]
=============================================================================
