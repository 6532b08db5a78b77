----------------------------- MODULE FastPath ------------------------------
(***************************************************************************)
(* FastPathProcessor of src/fast_path.cpp: one worker of the v1 engine.    *)
(* It takes packets from its queue, tracks their connections, classifies   *)
(* them from payloads, asks the rules, which another thread may be         *)
(* changing, and drops or forwards.  While no packet comes it cleans its   *)
(* table up.                                                               *)
(*                                                                         *)
(* A packet is [tuple, flags, payload]; payload is NoPayload or says       *)
(* whether it has 50 bytes or more and what the SNI, Host and DNS          *)
(* extractors find in it (NoName: nothing).  The worker gets at most       *)
(* MaxPackets packets.                                                     *)
(***************************************************************************)
EXTENDS ConnectionTracker, RuleManager

CONSTANTS
  fp,               \* the worker, a checker of the rules
  Names,            \* names in payloads, "" among them
  NoName, NoPayload,
  SniToAppType(_),
  Packets,          \* the packets that may come
  NoJob,
  MaxPackets

Payload == [long : BOOLEAN, sni : Names \cup {NoName}, host : Names \cup {NoName},
            query : Names \cup {NoName}]

FiveTuple == [src_ip : IPs, src_port : Ports, dst_port : Ports, protocol : {6, 17}]

Packet == [tuple : Tuples, flags : SUBSET {"SYN", "ACK", "FIN", "RST"},
           payload : Payload \cup {NoPayload}]

ASSUME FastPathAssumption ==
  /\ Checkers = {fp} /\ Tuples \subseteq FiveTuple /\ Packets \subseteq Packet
  /\ "" \in Names /\ NoName \notin Names /\ NoPayload \notin Payload /\ NoJob \notin Packet
  /\ Names \subseteq Domains /\ {"Unknown", "HTTP", "HTTPS", "DNS"} \subseteq AppTypes
  /\ \A n \in Names : SniToAppType(n) \in AppTypes
  /\ MaxPackets \in Nat

VARIABLES
  running,    \* running_
  pc,         \* where the worker is
  job,        \* the packet it holds
  processed, forwarded, dropped,   \* its counters
  verdicts,   \* history: the calls of the output callback
  wasBlocked  \* history: whether job found its connection blocked

trackerVars == <<connections, clock, total_seen, classified_count, blocked_count>>
workerVars == <<running, pc, job, processed, forwarded, dropped, verdicts,
                wasBlocked>>
vars == <<trackerVars, ruleVars, workerVars>>

Init ==
  /\ TrackerInit /\ RulesInit
  /\ running = TRUE /\ pc = "loop" /\ job = NoJob
  /\ processed = 0 /\ forwarded = 0 /\ dropped = 0
  /\ verdicts = <<>> /\ wasBlocked = FALSE
-----------------------------------------------------------------------------
(* Variant: any segment with ACK closes, after a FIN or not.               *)
ClosesAtAck(pkt, conn) ==
  pkt.tuple.protocol = 6 /\ {"RST", "ACK"} \cap pkt.flags # {}

(* updateTCPState.                                                         *)
Closes(pkt, conn) ==
  /\ pkt.tuple.protocol = 6
  /\ \/ "RST" \in pkt.flags
     \/ "ACK" \in pkt.flags /\ (conn.fin_seen \/ "FIN" \in pkt.flags)

AfterFlags(pkt, conn) ==
  LET syn    == conn.syn_seen \/ ("SYN" \in pkt.flags /\ "ACK" \notin pkt.flags)
      synAck == conn.syn_ack_seen \/ {"SYN", "ACK"} \subseteq pkt.flags
      open   == conn.state = "NEW" /\ syn /\ synAck /\ "ACK" \in pkt.flags
  IN  [conn EXCEPT
        !.syn_seen = syn, !.syn_ack_seen = synAck,
        !.fin_seen = @ \/ "FIN" \in pkt.flags,
        !.state = IF Closes(pkt, conn) THEN "CLOSED"
                  ELSE IF open THEN "ESTABLISHED" ELSE @]

Followed(pkt, conn) ==
  IF pkt.tuple.protocol = 6 THEN AfterFlags(pkt, conn) ELSE conn

(* What each extractor is given a chance to find.                          *)
SniOf(pkt) ==
  IF pkt.tuple.dst_port = 443 \/ pkt.payload.long THEN pkt.payload.sni ELSE NoName
HostOf(pkt) == IF pkt.tuple.dst_port = 80 THEN pkt.payload.host ELSE NoName
DnsNameOf(pkt) ==
  IF 53 \in {pkt.tuple.dst_port, pkt.tuple.src_port} THEN pkt.payload.query ELSE NoName

(* inspectPayload: the application and name it classifies with, if any.  A *)
(* packet to port 80 or 443 always gets a class, if only that of the port. *)
Findings(pkt) ==
  IF SniOf(pkt) # NoName THEN {<<SniToAppType(SniOf(pkt)), SniOf(pkt)>>}
  ELSE IF HostOf(pkt) # NoName THEN {<<SniToAppType(HostOf(pkt)), HostOf(pkt)>>}
  ELSE IF DnsNameOf(pkt) # NoName THEN {<<"DNS", DnsNameOf(pkt)>>}
  ELSE {f \in {<<"HTTP", "">>} : pkt.tuple.dst_port = 80}
       \cup {f \in {<<"HTTPS", "">>} : pkt.tuple.dst_port = 443}

ToInspect(pkt, conn) ==
  /\ conn.state # "CLASSIFIED" /\ pkt.payload # NoPayload
  /\ Findings(pkt) # {}

Classified(pkt, conn) ==
  LET f == CHOOSE f \in Findings(pkt) : TRUE IN ClassifiedAs(conn, f[1], f[2])

QueryFor(pkt, conn) ==
  [src_ip |-> pkt.tuple.src_ip, dst_port |-> pkt.tuple.dst_port,
   app |-> conn.app_type, domain |-> conn.sni]
-----------------------------------------------------------------------------
(* Variant: running_ is not looked at.                                     *)
LoopForEver ==
  /\ pc = "loop" /\ pc' = "pop"
  /\ UNCHANGED <<trackerVars, ruleVars, running, job, processed, forwarded,
                 dropped, verdicts, wasBlocked>>

Loop ==
  /\ pc = "loop"
  /\ pc' = IF running THEN "pop" ELSE "exit"
  /\ UNCHANGED <<trackerVars, ruleVars, running, job, processed, forwarded,
                 dropped, verdicts, wasBlocked>>

(* Variant: the counter is forgotten.                                      *)
DropsUncounted(pkt) ==
  /\ UNCHANGED <<dropped, forwarded>>
  /\ verdicts' = Append(verdicts, <<pkt, "DROP">>)
  /\ pc' = "loop" /\ job' = NoJob /\ wasBlocked' = FALSE

Drops(pkt) ==
  /\ dropped' = dropped + 1 /\ forwarded' = forwarded
  /\ verdicts' = Append(verdicts, <<pkt, "DROP">>)
  /\ pc' = "loop" /\ job' = NoJob /\ wasBlocked' = FALSE

Forwards(pkt) ==
  /\ forwarded' = forwarded + 1 /\ dropped' = dropped
  /\ verdicts' = Append(verdicts, <<pkt, "FORWARD">>)
  /\ pc' = "loop" /\ job' = NoJob /\ wasBlocked' = FALSE

(* What a packet does to the worker's table, up to the test for a blocked  *)
(* connection or, past it, up to shouldBlock.                              *)
Track(pkt) ==
  /\ processed' = processed + 1
  /\ total_seen' = total_seen + (IF pkt.tuple \in Tracked THEN 0 ELSE 1)
  /\ \E gone \in Victims(pkt.tuple) :
       LET table == TableWith(pkt.tuple, gone)
           conn  == Followed(pkt, table[pkt.tuple])
           look  == conn.state # "BLOCKED" /\ ToInspect(pkt, conn)
       IN  /\ connections' = [table EXCEPT ![pkt.tuple] =
                                IF look THEN Classified(pkt, conn) ELSE conn]
           /\ classified_count' = classified_count + (IF look THEN 1 ELSE 0)
  /\ UNCHANGED <<clock, blocked_count, held, todo, section, file, calls, saved, running>>

OnHold(t) == connections'[t].state = "BLOCKED"

Receive(pkt) ==
  /\ pc = "pop" /\ processed < MaxPackets
  /\ Track(pkt)
  /\ \/ /\ OnHold(pkt.tuple)
        /\ Drops(pkt)
        /\ UNCHANGED check
     \/ /\ ~OnHold(pkt.tuple)
        /\ Ask(fp, QueryFor(pkt, connections'[pkt.tuple]))
        /\ pc' = "check" /\ job' = pkt
        /\ wasBlocked' = (pkt.tuple \in InState("BLOCKED"))
        /\ UNCHANGED <<forwarded, dropped, verdicts>>

CheckRules ==
  /\ pc = "check"
  /\ CheckSection(fp)
  /\ UNCHANGED <<trackerVars, workerVars>>

(* Variant: the application's answer is not looked at.                     *)
LetsAppsThrough == check[fp].answer \in {"allow", "app"}

Allowed == check[fp].answer = "allow"

(* The rest of checkRules, the output callback and the counters.           *)
Judge ==
  /\ pc = "check" /\ ~Checking(fp)
  /\ \/ /\ Allowed
        /\ Forwards(job)
        /\ UNCHANGED <<connections, blocked_count>>
     \/ /\ ~Allowed
        /\ connections' = [connections EXCEPT ![job.tuple] = BlockedConnection(@)]
        /\ blocked_count' = blocked_count + 1
        /\ Drops(job)
  /\ check' = [check EXCEPT ![fp] = NoCheck]
  /\ UNCHANGED <<clock, total_seen, classified_count, held, todo, section, file,
                 calls, saved, running, processed>>

(* popWithTimeout comes back empty.                                        *)
Idle ==
  /\ pc = "pop"
  /\ CleanupStale
  /\ pc' = "loop"
  /\ UNCHANGED <<ruleVars, running, job, processed, forwarded, dropped, verdicts,
                 wasBlocked>>

Worker == Loop \/ (\E pkt \in Packets : Receive(pkt)) \/ CheckRules \/ Judge \/ Idle

Stop ==
  /\ running /\ running' = FALSE
  /\ UNCHANGED <<trackerVars, ruleVars, pc, job, processed, forwarded, dropped,
                 verdicts, wasBlocked>>

(* The worker has left.                                                    *)
Rest == pc = "exit" /\ UNCHANGED vars

Next ==
  \/ Worker
  \/ Manage /\ UNCHANGED <<trackerVars, workerVars>>
  \/ Tick /\ UNCHANGED <<ruleVars, workerVars>>
  \/ Stop
  \/ Rest

(* The worker runs; packets, changes of the rules and stop() may not come. *)
Spec == Init /\ [][Next]_vars /\ WF_vars(Worker)
-----------------------------------------------------------------------------
States == {"NEW", "ESTABLISHED", "CLASSIFIED", "BLOCKED", "CLOSED"}

Connection == [state : States, app_type : AppTypes, sni : Names,
               syn_seen : BOOLEAN, syn_ack_seen : BOOLEAN, fin_seen : BOOLEAN,
               last_seen : 0 .. MaxClock]

(* Every variable has its type, the table is within its bound and the      *)
(* worker holds a packet of a connection it tracks while it checks.        *)
TypeOK ==
  /\ RulesTypeOK
  /\ Tracked \subseteq Tuples /\ Cardinality(Tracked) <= MaxConnections
  /\ \A t \in Tracked : connections[t] \in Connection
  /\ clock \in 0 .. MaxClock /\ {running, wasBlocked} \subseteq BOOLEAN
  /\ \A n \in {total_seen, classified_count, blocked_count, forwarded, dropped} : n \in Nat
  /\ processed \in 0 .. MaxPackets
  /\ pc \in {"loop", "pop", "check", "exit"}
  /\ IF pc = "check" THEN job \in Packets /\ job.tuple \in Tracked ELSE job = NoJob
  /\ verdicts \in Seq(Packets \X {"FORWARD", "DROP"})

(* The counters of the report fit together and fit the table, across       *)
(* eviction, cleanup and connections that are blocked more than once.      *)
CountersAgree ==
  /\ processed = forwarded + dropped + (IF pc = "check" THEN 1 ELSE 0)
  /\ Cardinality(InState("BLOCKED")) <= blocked_count /\ blocked_count <= dropped
  /\ Cardinality(Tracked) <= total_seen /\ total_seen <= processed

(* A packet is forwarded only if no rule that was in force throughout the  *)
(* check matches what its connection is then known to be.                  *)
ForwardsOnlyUnmatched ==
  [][forwarded' # forwarded =>
       \A r \in check[fp].throughout : ~Blocks(r, QueryFor(job, connections[job.tuple]))]_vars

(* A worker that has been stopped leaves, so stop() returns.               *)
StopReturns == ~running ~> pc = "exit"

(* A blocked connection is held until one of its packets closes it (RST,   *)
(* or ACK after or with FIN), it has been idle too long or it is evicted   *)
(* as the one idle for longest: the worker implements BlockMemory.         *)
Memory == INSTANCE BlockMemory WITH
            NoPacket <- NoJob, Capacity <- MaxConnections,
            lastUse <- [t \in Tracked |-> connections[t].last_seen],
            onHold <- InState("BLOCKED"),
            finished <- {t \in Tracked : connections[t].fin_seen},
            pending <- job, now <- clock
ImplementsMemory == Memory!Spec

(* "If connection is already blocked, drop immediately": a packet of a     *)
(* connection that is blocked when it arrives is not forwarded.            *)
BlockedIsDropped == [][forwarded' # forwarded => ~wasBlocked]_vars
=============================================================================
