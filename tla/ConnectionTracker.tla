------------------------- MODULE ConnectionTracker -------------------------
(***************************************************************************)
(* ConnectionTracker of src/connection_tracker.cpp: the table of           *)
(* connections of one fast-path worker, with a bound on its size, eviction *)
(* of the connection idle for longest, and removal of closed and stale     *)
(* connections.  Only its worker changes it.                               *)
(*                                                                         *)
(* clock is steady_clock, in units small enough for IdleTimeout; two reads *)
(* may return the same time.  It stops at MaxClock.                        *)
(***************************************************************************)
EXTENDS Naturals, FiniteSets

CONSTANTS
  Tuples,          \* the five-tuples the worker is given
  MaxConnections,  \* max_connections_
  IdleTimeout,     \* the timeout cleanupStale is called with
  MaxClock

ASSUME TrackerAssumption ==
  /\ MaxConnections \in Nat \ {0}
  /\ IdleTimeout \in Nat /\ MaxClock \in Nat

VARIABLES
  connections,      \* connections_
  clock,
  total_seen,       \* total_seen_
  classified_count, \* classified_count_
  blocked_count     \* blocked_count_

Tracked == DOMAIN connections

NewConnection ==
  [state |-> "NEW", app_type |-> "Unknown", sni |-> "", syn_seen |-> FALSE,
   syn_ack_seen |-> FALSE, fin_seen |-> FALSE, last_seen |-> clock]

TrackerInit ==
  /\ connections = [t \in {} |-> NewConnection]
  /\ clock = 0
  /\ total_seen = 0 /\ classified_count = 0 /\ blocked_count = 0

(* Variant: the connection used last goes.                                 *)
Newest ==
  {t \in Tracked : \A u \in Tracked : connections[t].last_seen >= connections[u].last_seen}

(* The connections evictOldest may choose: which of several equally old    *)
(* ones depends on the order of the hash table.                            *)
Oldest ==
  {t \in Tracked : \A u \in Tracked : connections[t].last_seen <= connections[u].last_seen}

(* Variant: the table overshoots by one.                                   *)
VictimsLate(t) ==
  IF t \notin Tracked /\ Cardinality(Tracked) > MaxConnections
  THEN {{o} : o \in Oldest} ELSE {{}}

(* The sets of connections getOrCreateConnection may evict for t.          *)
Victims(t) ==
  IF t \notin Tracked /\ Cardinality(Tracked) >= MaxConnections
  THEN {{o} : o \in Oldest} ELSE {{}}

(* The table after getOrCreateConnection and updateConnection.             *)
TableWith(t, victims) ==
  [u \in (Tracked \ victims) \cup {t} |->
     IF u \in Tracked THEN IF u = t THEN [connections[u] EXCEPT !.last_seen = clock]
                           ELSE connections[u]
     ELSE NewConnection]

(* classifyConnection of a connection that is not CLASSIFIED.              *)
ClassifiedAs(conn, app, sni) ==
  [conn EXCEPT !.state = "CLASSIFIED", !.app_type = app, !.sni = sni]

BlockedConnection(conn) == [conn EXCEPT !.state = "BLOCKED"]

Stale(t) ==
  \/ clock - connections[t].last_seen > IdleTimeout
  \/ connections[t].state = "CLOSED"

CleanupStale ==
  /\ connections' = [t \in {u \in Tracked : ~Stale(u)} |-> connections[t]]
  /\ UNCHANGED <<clock, total_seen, classified_count, blocked_count>>

Tick ==
  /\ clock < MaxClock /\ clock' = clock + 1
  /\ UNCHANGED <<connections, total_seen, classified_count, blocked_count>>

InState(s) == {t \in Tracked : connections[t].state = s}
=============================================================================
