---------------------------- MODULE BlockMemory ----------------------------
(***************************************************************************)
(* What a fast-path worker promises about the connections it has blocked,  *)
(* whatever it looks at to decide: a packet of a connection on hold is     *)
(* dropped, and a hold only ends when a packet closes the connection (by   *)
(* its flags: RST, or ACK once there was a FIN), when it has been idle for *)
(* too long, or when it is the one idle for longest and its place is       *)
(* needed.                                                                 *)
(***************************************************************************)
EXTENDS Naturals, Sequences, FiniteSets

CONSTANTS
  Packets,   \* records with a tuple and flags
  NoPacket, Capacity, IdleTimeout

VARIABLES
  lastUse,   \* of each connection known, the time of its last packet
  onHold,    \* the connections that are blocked
  finished,  \* the TCP connections that have sent a FIN
  pending,   \* the packet to be decided, if any
  now,
  verdicts   \* what became of each packet

memory == <<lastUse, onHold, finished, pending, now, verdicts>>

Known == DOMAIN lastUse

Init ==
  /\ lastUse = [t \in {} |-> 0] /\ onHold = {} /\ finished = {}
  /\ pending = NoPacket /\ now = 0 /\ verdicts = <<>>

MayGoFor(t, gone) ==
  \/ gone = {}
  \/ /\ t \notin Known /\ Cardinality(Known) = Capacity
     /\ \E o \in Known :
          gone = {o} /\ \A u \in Known : lastUse[o] <= lastUse[u]

(* The connections whose FIN has been seen once pkt has come.              *)
Finished(pkt) ==
  finished \cup {t \in {pkt.tuple} : t.protocol = 6 /\ "FIN" \in pkt.flags}

(* The connections that pkt closes: its own, or none.                      *)
Closed(pkt) ==
  {t \in {pkt.tuple} :
     /\ t.protocol = 6
     /\ "RST" \in pkt.flags \/ ("ACK" \in pkt.flags /\ t \in Finished(pkt))}

(* pkt arrives; gone make place for its connection.                        *)
Arrive(pkt, gone) ==
  /\ pending = NoPacket
  /\ MayGoFor(pkt.tuple, gone)
  /\ lastUse' = [u \in (Known \ gone) \cup {pkt.tuple} |->
                   IF u = pkt.tuple THEN now ELSE lastUse[u]]
  /\ finished' = Finished(pkt) \ gone
  /\ onHold' = onHold \ (gone \cup Closed(pkt))
  /\ IF pkt.tuple \in onHold'
     THEN pending' = NoPacket /\ verdicts' = Append(verdicts, <<pkt, "DROP">>)
     ELSE pending' = pkt /\ verdicts' = verdicts
  /\ UNCHANGED now

Drop ==
  /\ pending # NoPacket
  /\ onHold' = onHold \cup {pending.tuple}
  /\ verdicts' = Append(verdicts, <<pending, "DROP">>) /\ pending' = NoPacket
  /\ UNCHANGED <<lastUse, finished, now>>

Forward ==
  /\ pending # NoPacket
  /\ verdicts' = Append(verdicts, <<pending, "FORWARD">>) /\ pending' = NoPacket
  /\ UNCHANGED <<lastUse, onHold, finished, now>>

Expire(gone) ==
  /\ pending = NoPacket
  /\ \A t \in gone \cap onHold : now - lastUse[t] > IdleTimeout
  /\ lastUse' = [t \in Known \ gone |-> lastUse[t]]
  /\ onHold' = onHold \ gone /\ finished' = finished \ gone
  /\ UNCHANGED <<pending, now, verdicts>>

Passes == now' = now + 1 /\ UNCHANGED <<lastUse, onHold, finished, pending, verdicts>>

Next ==
  \/ \E pkt \in Packets, gone \in SUBSET Known : Arrive(pkt, gone)
  \/ Drop \/ Forward
  \/ \E gone \in SUBSET Known : Expire(gone)
  \/ Passes

Spec == Init /\ [][Next]_memory
=============================================================================
