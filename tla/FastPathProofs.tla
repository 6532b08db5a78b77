--------------------------- MODULE FastPathProofs ---------------------------
(***************************************************************************)
(* Theorems about FastPath: for any packets, any table size, any rules and *)
(* any changes of them, a v1 worker keeps its counters, forwards nothing   *)
(* that a steady rule matches, and implements BlockMemory.                 *)
(***************************************************************************)
EXTENDS FastPath, RuleProofs

(* What the worker has in hand while it checks, and nothing else does it.  *)
Asking ==
  IF pc = "check"
  THEN /\ job \in Packets /\ job.tuple \in Tracked
       /\ connections[job.tuple].state # "BLOCKED"
       /\ check[fp] # NoCheck
       /\ check[fp].query = QueryFor(job, connections[job.tuple])
  ELSE job = NoJob /\ check[fp] = NoCheck

(* The table is finite and within its bound.                               *)
TableOK ==
  /\ Tracked \subseteq Tuples /\ IsFiniteSet(Tracked)
  /\ Cardinality(Tracked) <= MaxConnections
  /\ \A t \in Tracked : connections[t] \in Connection

WorkerOK ==
  /\ clock \in 0 .. MaxClock /\ running \in BOOLEAN /\ wasBlocked \in BOOLEAN
  /\ total_seen \in Nat /\ classified_count \in Nat /\ blocked_count \in Nat
  /\ forwarded \in Nat /\ dropped \in Nat /\ processed \in 0 .. MaxPackets
  /\ pc \in {"loop", "pop", "check", "exit"}
  /\ verdicts \in Seq(Packets \X {"FORWARD", "DROP"})

LEMMA FollowedType ==
  ASSUME NEW pkt \in Packet, NEW conn \in Connection
  PROVE  /\ Followed(pkt, conn) \in Connection
         /\ Followed(pkt, conn).last_seen = conn.last_seen
         /\ Followed(pkt, conn).state = "BLOCKED" <=> conn.state = "BLOCKED" /\ ~Closes(pkt, conn)
         /\ Followed(pkt, conn).fin_seen =
              (conn.fin_seen \/ (pkt.tuple.protocol = 6 /\ "FIN" \in pkt.flags))
<1>. DEFINE syn    == conn.syn_seen \/ ("SYN" \in pkt.flags /\ "ACK" \notin pkt.flags)
            synAck == conn.syn_ack_seen \/ {"SYN", "ACK"} \subseteq pkt.flags
            fin    == conn.fin_seen \/ "FIN" \in pkt.flags
            open   == conn.state = "NEW" /\ syn /\ synAck /\ "ACK" \in pkt.flags
            st     == IF Closes(pkt, conn) THEN "CLOSED"
                      ELSE IF open THEN "ESTABLISHED" ELSE conn.state
<1>1. /\ conn.syn_seen \in BOOLEAN /\ conn.syn_ack_seen \in BOOLEAN
      /\ conn.fin_seen \in BOOLEAN /\ conn.state \in States
  BY DEF Connection
<1>2. syn \in BOOLEAN /\ synAck \in BOOLEAN /\ fin \in BOOLEAN
  OBVIOUS
<1>3. st \in States /\ (st = "BLOCKED" <=> conn.state = "BLOCKED" /\ ~Closes(pkt, conn))
  BY <1>1 DEF States
<1>4. AfterFlags(pkt, conn) = [conn EXCEPT !.syn_seen = syn, !.syn_ack_seen = synAck,
                                           !.fin_seen = fin, !.state = st]
  BY DEF AfterFlags
<1>. HIDE DEF syn, synAck, fin, st
<1>5. /\ AfterFlags(pkt, conn) \in Connection
      /\ AfterFlags(pkt, conn).last_seen = conn.last_seen
      /\ AfterFlags(pkt, conn).state = st
      /\ AfterFlags(pkt, conn).fin_seen = fin
  BY <1>2, <1>3, <1>4 DEF Connection
<1>6. CASE pkt.tuple.protocol = 6
  BY <1>3, <1>5, <1>6 DEF Followed, fin
<1>7. CASE pkt.tuple.protocol # 6
  <2>1. Followed(pkt, conn) = conn /\ ~Closes(pkt, conn)
    BY <1>7 DEF Followed, Closes
  <2>. QED
    BY <1>1, <1>7, <2>1
<1>. QED
  BY <1>6, <1>7

LEMMA ClassifiedType ==
  ASSUME NEW pkt \in Packet, NEW conn \in Connection, ToInspect(pkt, conn)
  PROVE  /\ Classified(pkt, conn) \in Connection
         /\ Classified(pkt, conn).last_seen = conn.last_seen
         /\ Classified(pkt, conn).fin_seen = conn.fin_seen
         /\ Classified(pkt, conn).state = "CLASSIFIED"
<1>. DEFINE F == Findings(pkt)
            f == CHOOSE x \in F : TRUE
<1>1. pkt.payload \in Payload
  BY DEF ToInspect, Packet
<1>2. /\ SniOf(pkt) \in Names \cup {NoName} /\ HostOf(pkt) \in Names \cup {NoName}
      /\ DnsNameOf(pkt) \in Names \cup {NoName}
  BY <1>1 DEF Payload, SniOf, HostOf, DnsNameOf
<1>3. \A x \in F : \E a \in AppTypes, n \in Names : x = <<a, n>>
  <2>1. /\ \A n \in Names : SniToAppType(n) \in AppTypes
        /\ "" \in Names /\ {"HTTP", "HTTPS", "DNS"} \subseteq AppTypes
    BY FastPathAssumption
  <2>2. CASE SniOf(pkt) # NoName
    <3>1. Findings(pkt) = {<<SniToAppType(SniOf(pkt)), SniOf(pkt)>>}
      BY <2>2 DEF Findings
    <3>. QED
      BY <1>2, <2>1, <2>2, <3>1
  <2>3. CASE SniOf(pkt) = NoName /\ HostOf(pkt) # NoName
    <3>1. Findings(pkt) = {<<SniToAppType(HostOf(pkt)), HostOf(pkt)>>}
      BY <2>3 DEF Findings
    <3>. QED
      BY <1>2, <2>1, <2>3, <3>1
  <2>4. CASE SniOf(pkt) = NoName /\ HostOf(pkt) = NoName /\ DnsNameOf(pkt) # NoName
    <3>1. Findings(pkt) = {<<"DNS", DnsNameOf(pkt)>>}
      BY <2>4 DEF Findings
    <3>. QED
      BY <1>2, <2>1, <2>4, <3>1
  <2>5. CASE SniOf(pkt) = NoName /\ HostOf(pkt) = NoName /\ DnsNameOf(pkt) = NoName
    <3>1. Findings(pkt) \subseteq {<<"HTTP", "">>, <<"HTTPS", "">>}
      BY <2>5 DEF Findings
    <3>. QED
      BY <2>1, <3>1
  <2>. QED
    BY <2>2, <2>3, <2>4, <2>5
<1>4. f[1] \in AppTypes /\ f[2] \in Names
  <2>1. f \in F
    BY DEF ToInspect
  <2>2. PICK a \in AppTypes, n \in Names : f = <<a, n>>
    BY <1>3, <2>1
  <2>. HIDE DEF f
  <2>. QED
    BY <2>2
<1>5. Classified(pkt, conn) = [conn EXCEPT !.state = "CLASSIFIED", !.app_type = f[1], !.sni = f[2]]
  BY DEF Classified, ClassifiedAs
<1>. HIDE DEF f
<1>. QED
  BY <1>4, <1>5 DEF Connection, States

LEMMA QueryType ==
  ASSUME NEW pkt \in Packet, pkt.tuple \in Tuples, NEW conn \in Connection
  PROVE  QueryFor(pkt, conn) \in Query
<1>1. pkt.tuple \in FiveTuple
  BY FastPathAssumption
<1>2. conn.sni \in Domains
  BY FastPathAssumption DEF Connection
<1>. QED
  BY <1>1, <1>2 DEF QueryFor, Query, FiveTuple, Connection

-----------------------------------------------------------------------------
FinSeen == {t \in Tracked : connections[t].fin_seen}

FinOf(pkt) == pkt.tuple \in FinSeen \/ (pkt.tuple.protocol = 6 /\ "FIN" \in pkt.flags)

(* What of the flags of pkt, and of those before, closes its connection.   *)
ClosedBy(pkt) ==
  /\ pkt.tuple.protocol = 6
  /\ "RST" \in pkt.flags \/ ("ACK" \in pkt.flags /\ FinOf(pkt))

(* The table when pkt has been tracked, with gone evicted.                 *)
Tracks(pkt, gone) ==
  LET t == pkt.tuple
  IN  /\ gone \in Victims(t)
      /\ Tracked' = (Tracked \ gone) \cup {t}
      /\ \A u \in Tracked' : u # t => connections'[u] = connections[u]
      /\ connections'[t] \in Connection /\ connections'[t].last_seen = clock
      /\ connections'[t].state = "BLOCKED" <=> t \in InState("BLOCKED") /\ ~ClosedBy(pkt)
      /\ connections'[t].fin_seen <=> FinOf(pkt)

LEMMA TrackTable ==
  ASSUME TableOK, WorkerOK, NEW pkt \in Packets, Track(pkt)
  PROVE  \E gone : Tracks(pkt, gone)
<1>. DEFINE t == pkt.tuple
<1>1. pkt \in Packet /\ t \in Tuples
  BY FastPathAssumption DEF Packet
<1>2. PICK gone \in Victims(t) :
        LET table == TableWith(t, gone)
            conn  == Followed(pkt, table[t])
            look  == conn.state # "BLOCKED" /\ ToInspect(pkt, conn)
        IN  connections' = [table EXCEPT ![t] = IF look THEN Classified(pkt, conn) ELSE conn]
  BY DEF Track
<1>. DEFINE table == TableWith(t, gone)
            conn  == Followed(pkt, table[t])
            look  == conn.state # "BLOCKED" /\ ToInspect(pkt, conn)
            new   == IF look THEN Classified(pkt, conn) ELSE conn
<1>3. connections' = [table EXCEPT ![t] = new]
  BY <1>2
<1>4. DOMAIN table = (Tracked \ gone) \cup {t}
  BY DEF TableWith
<1>5. t \in Tracked => t \notin gone
  BY <1>2 DEF Victims
<1>6. /\ table[t] \in Connection /\ table[t].last_seen = clock
      /\ table[t].state = "BLOCKED" <=> t \in InState("BLOCKED")
      /\ table[t].fin_seen <=> t \in FinSeen
  <2>1. CASE t \in Tracked
    <3>1. connections[t] \in Connection /\ table[t] = [connections[t] EXCEPT !.last_seen = clock]
      BY <2>1 DEF TableOK, TableWith
    <3>2. clock \in 0 .. MaxClock
      BY DEF WorkerOK
    <3>. QED
      BY <2>1, <3>1, <3>2 DEF Connection, InState, FinSeen
  <2>2. CASE t \notin Tracked
    <3>1. table[t] = NewConnection
      BY <2>2 DEF TableWith
    <3>2. NewConnection \in Connection
      BY FastPathAssumption DEF NewConnection, Connection, States, WorkerOK
    <3>3. /\ NewConnection.last_seen = clock /\ NewConnection.state = "NEW"
          /\ NewConnection.fin_seen = FALSE
      BY DEF NewConnection
    <3>4. t \notin InState("BLOCKED") /\ t \notin FinSeen
      BY <2>2 DEF InState, FinSeen
    <3>. HIDE DEF table
    <3>. QED
      BY <3>1, <3>2, <3>3, <3>4
  <2>. QED
    BY <2>1, <2>2
<1>7. /\ conn \in Connection /\ conn.last_seen = clock
      /\ conn.state = "BLOCKED" <=> t \in InState("BLOCKED") /\ ~ClosedBy(pkt)
      /\ conn.fin_seen <=> FinOf(pkt)
  <2>. HIDE DEF table
  <2>1. /\ conn \in Connection /\ conn.last_seen = clock
        /\ conn.state = "BLOCKED" <=> table[t].state = "BLOCKED" /\ ~Closes(pkt, table[t])
        /\ conn.fin_seen = (table[t].fin_seen \/ (t.protocol = 6 /\ "FIN" \in pkt.flags))
    BY <1>1, <1>6, FollowedType
  <2>2. Closes(pkt, table[t]) <=> ClosedBy(pkt)
    BY <1>6 DEF Closes, ClosedBy, FinOf
  <2>. HIDE DEF conn
  <2>. QED
    BY <1>6, <2>1, <2>2 DEF FinOf
<1>8. /\ new \in Connection /\ new.last_seen = clock
      /\ new.state = "BLOCKED" <=> t \in InState("BLOCKED") /\ ~ClosedBy(pkt)
      /\ new.fin_seen <=> FinOf(pkt)
  <2>. HIDE DEF conn
  <2>1. CASE look
    BY <1>1, <1>7, <2>1, ClassifiedType
  <2>2. CASE ~look
    BY <1>7, <2>2
  <2>. QED
    BY <2>1, <2>2
<1>9. connections'[t] = new /\ \A u \in Tracked' : u # t => connections'[u] = connections[u]
  <2>. HIDE DEF new
  <2>1. \A u \in (Tracked \ gone) \cup {t} : u # t => table[u] = connections[u]
    BY DEF TableWith
  <2>. HIDE DEF table
  <2>. QED
    BY <1>3, <1>4, <2>1 DEF Tracked
<1>10. Tracked' = (Tracked \ gone) \cup {t}
  <2>. HIDE DEF new, table
  <2>. QED
    BY <1>3, <1>4 DEF Tracked
<1>. HIDE DEF new
<1>. QED
  BY <1>2, <1>8, <1>9, <1>10 DEF Tracks

LEMMA TracksTable ==
  ASSUME TableOK, NEW pkt, pkt.tuple \in Tuples, NEW gone, Tracks(pkt, gone)
  PROVE  /\ TableOK' /\ pkt.tuple \in Tracked'
         /\ Cardinality(Tracked') <=
              Cardinality(Tracked) + (IF pkt.tuple \in Tracked THEN 0 ELSE 1)
<1>. DEFINE t == pkt.tuple
<1>1. IsFiniteSet(Tracked \ gone) /\ IsFiniteSet(Tracked')
  <2>1. IsFiniteSet(Tracked \ gone)
    BY FS_Subset DEF TableOK
  <2>. QED
    BY <2>1, FS_AddElement DEF Tracks
<1>2. /\ Cardinality(Tracked) \in Nat /\ Cardinality(Tracked \ gone) \in Nat
      /\ Cardinality(Tracked') \in Nat /\ MaxConnections \in Nat /\ MaxConnections > 0
      /\ Cardinality(Tracked \ gone) <= Cardinality(Tracked)
      /\ Cardinality(Tracked) <= MaxConnections
  <2>1. IsFiniteSet(Tracked) /\ Cardinality(Tracked) <= MaxConnections
    BY DEF TableOK
  <2>2. MaxConnections \in Nat /\ MaxConnections > 0
    BY TrackerAssumption
  <2>3. Cardinality(Tracked \ gone) <= Cardinality(Tracked)
    BY <2>1, FS_Subset
  <2>. QED
    BY <1>1, <2>1, <2>2, <2>3, FS_CardinalityType
<1>3. Cardinality(Tracked') <= Cardinality(Tracked \ gone) + 1
  <2>1. Tracked' = (Tracked \ gone) \cup {t}
    BY DEF Tracks
  <2>2. CASE t \in Tracked \ gone
    <3>1. Tracked' = Tracked \ gone
      BY <2>1, <2>2
    <3>. QED
      BY <1>2, <3>1
  <2>3. CASE t \notin Tracked \ gone
    BY <1>1, <1>2, <2>1, <2>3, FS_AddElement
  <2>. QED
    BY <2>2, <2>3
<1>4. t \in Tracked => gone = {} /\ Tracked' = Tracked
  BY DEF Tracks, Victims
<1>5. Cardinality(Tracked') <= MaxConnections
  <2>1. CASE t \in Tracked
    BY <1>2, <1>4, <2>1
  <2>2. CASE t \notin Tracked /\ Cardinality(Tracked) >= MaxConnections
    <3>1. PICK o \in Oldest : gone = {o}
      BY <2>2 DEF Tracks, Victims
    <3>2. Cardinality(Tracked \ gone) = Cardinality(Tracked) - 1
      BY <3>1, FS_RemoveElement DEF Oldest, TableOK
    <3>. QED
      BY <1>2, <1>3, <3>2
  <2>3. CASE t \notin Tracked /\ Cardinality(Tracked) < MaxConnections
    BY <1>2, <1>3, <2>3
  <2>. QED
    BY <1>2, <2>1, <2>2, <2>3
<1>6. \A u \in Tracked' : connections'[u] \in Connection
  BY DEF Tracks, TableOK
<1>7. Tracked' \subseteq Tuples /\ t \in Tracked'
  BY DEF Tracks, TableOK
<1>8. TableOK'
  BY <1>1, <1>5, <1>6, <1>7 DEF TableOK
<1>9. Cardinality(Tracked') <= Cardinality(Tracked) + (IF t \in Tracked THEN 0 ELSE 1)
  <2>1. CASE t \in Tracked
    BY <1>2, <1>4, <2>1
  <2>2. CASE t \notin Tracked
    BY <1>2, <1>3, <2>2
  <2>. QED
    BY <2>1, <2>2
<1>. QED
  BY <1>7, <1>8, <1>9

(* No step of the tracker but blockConnection puts a connection on hold.   *)
LEMMA TracksBlocked ==
  ASSUME TableOK, NEW pkt, NEW gone, Tracks(pkt, gone)
  PROVE  /\ InState("BLOCKED")' \subseteq InState("BLOCKED")
         /\ Cardinality(InState("BLOCKED")') <= Cardinality(InState("BLOCKED"))
<1>1. InState("BLOCKED")' \subseteq InState("BLOCKED")
  BY DEF Tracks, InState
<1>2. IsFiniteSet(InState("BLOCKED"))
  BY FS_Subset DEF TableOK, InState
<1>. QED
  BY <1>1, <1>2, FS_Subset
-----------------------------------------------------------------------------
FastPathInv == RulesInv /\ TableOK /\ WorkerOK /\ Asking /\ CountersAgree

LEMMA InitFastPath == Init => FastPathInv
<1>. SUFFICES ASSUME Init PROVE FastPathInv
  OBVIOUS
<1>1. RulesInv
  BY InitSound DEF Init
<1>2. Tracked = {} /\ InState("BLOCKED") = {}
  BY DEF Init, TrackerInit, Tracked, InState
<1>3. IsFiniteSet({}) /\ Cardinality({}) = 0
  BY FS_EmptySet
<1>4. TableOK
  BY <1>2, <1>3, TrackerAssumption DEF TableOK
<1>5. WorkerOK
  <2>1. MaxClock \in Nat /\ MaxPackets \in Nat
    BY TrackerAssumption, FastPathAssumption
  <2>2. <<>> \in Seq(Packets \X {"FORWARD", "DROP"})
    OBVIOUS
  <2>3. 0 \in 0 .. MaxClock /\ 0 \in 0 .. MaxPackets
    BY <2>1
  <2>. QED
    BY <2>2, <2>3 DEF Init, TrackerInit, WorkerOK
<1>6. Asking
  BY FastPathAssumption DEF Init, RulesInit, Asking
<1>7. CountersAgree
  BY <1>2, <1>3 DEF Init, TrackerInit, CountersAgree
<1>. QED
  BY <1>1, <1>4, <1>5, <1>6, <1>7 DEF FastPathInv

(* The rules' part of the invariant.                                       *)
LEMMA RulesKept ==
  ASSUME RulesInv, UNCHANGED <<held, todo, section, file, calls, saved, check>>
  PROVE  RulesInv'
BY DEF RulesInv, RulesTypeOK, ChecksSound, CheckSound, InForce

LEMMA ForgetCheck ==
  ASSUME RulesInv, NEW c \in Checkers, check' = [check EXCEPT ![c] = NoCheck],
         UNCHANGED <<held, todo, section, file, calls, saved>>
  PROVE  RulesInv'
<1>1. check' \in [Checkers -> Call \cup {NoCheck}]
  BY DEF RulesInv, RulesTypeOK
<1>2. ChecksSound'
  <2>1. ASSUME NEW d \in Checkers, check'[d] # NoCheck PROVE CheckSound(check[d])'
    <3>1. check'[d] = check[d] /\ check[d] # NoCheck
      BY <2>1 DEF RulesInv, RulesTypeOK
    <3>2. CheckSound(check[d])
      BY <3>1 DEF RulesInv, ChecksSound
    <3>. QED
      BY <3>1, <3>2 DEF CheckSound, InForce
  <2>. QED
    BY <2>1 DEF ChecksSound
<1>. QED
  BY <1>1, <1>2 DEF RulesInv, RulesTypeOK

(* A change of the rules leaves the question of a check as it is.          *)
LEMMA ManageKeepsQuery ==
  ASSUME RulesInv, Manage, NEW c \in Checkers
  PROVE  /\ check'[c] # NoCheck <=> check[c] # NoCheck
         /\ check[c] # NoCheck => check'[c].query = check[c].query
<1>1. check \in [Checkers -> Call \cup {NoCheck}]
  BY DEF RulesInv, RulesTypeOK
<1>2. CASE Witnessed
  <2>1. CASE Checking(c)
    <3>1. check[c] \in Call /\ check[c].at # "idle"
      BY <1>1, <2>1 DEF Checking, NoCheck
    <3>2. check'[c] = [check[c] EXCEPT !.throughout = @ \cap InForce', !.ever = @ \cup InForce']
      BY <1>2, <2>1 DEF Witnessed
    <3>3. check'[c].at = check[c].at /\ check'[c].query = check[c].query
      BY <3>1, <3>2 DEF Call
    <3>. QED
      BY <3>1, <3>3 DEF NoCheck
  <2>2. CASE ~Checking(c)
    BY <1>2, <2>2 DEF Witnessed
  <2>. QED
    BY <2>1, <2>2
<1>3. CASE check' = check
  BY <1>3
<1>. QED
  BY <1>2, <1>3 DEF Manage, Block, Unblock, ClearAll, ClearSection, SaveRules, SaveSection,
     LoadRules, LoadLine

LEMMA ReceiveInv ==
  ASSUME FastPathInv, NEW pkt \in Packets, Receive(pkt)
  PROVE  FastPathInv'
<1>. DEFINE t == pkt.tuple
<1>1. pkt \in Packet /\ t \in Tuples
  BY FastPathAssumption DEF Packet
<1>2. RulesInv /\ TableOK /\ WorkerOK /\ Asking /\ CountersAgree /\ Track(pkt)
  BY DEF FastPathInv, Receive
<1>3. PICK gone : Tracks(pkt, gone)
  BY <1>2, TrackTable
<1>4. /\ TableOK' /\ t \in Tracked'
      /\ Cardinality(Tracked') <= Cardinality(Tracked) + (IF t \in Tracked THEN 0 ELSE 1)
  BY <1>1, <1>2, <1>3, TracksTable
<1>5. Cardinality(InState("BLOCKED")') <= Cardinality(InState("BLOCKED"))
  BY <1>1, <1>2, <1>3, TracksBlocked
<1>6. /\ Cardinality(Tracked) \in Nat /\ Cardinality(Tracked') \in Nat
      /\ Cardinality(InState("BLOCKED")) \in Nat /\ Cardinality(InState("BLOCKED")') \in Nat
  <2>1. IsFiniteSet(Tracked) /\ IsFiniteSet(Tracked')
    BY <1>2, <1>4 DEF TableOK
  <2>2. IsFiniteSet(InState("BLOCKED"))
    BY <2>1, FS_Subset DEF InState
  <2>3. IsFiniteSet(InState("BLOCKED")')
    BY <2>1, FS_Subset DEF InState
  <2>. QED
    BY <2>1, <2>2, <2>3, FS_CardinalityType
<1>7. /\ processed \in Nat /\ processed' = processed + 1 /\ processed' \in 0 .. MaxPackets
      /\ total_seen \in Nat /\ total_seen' \in Nat
      /\ total_seen' = total_seen + (IF t \in Tracked THEN 0 ELSE 1)
      /\ classified_count' \in Nat
      /\ clock' = clock /\ blocked_count' = blocked_count /\ running' = running
  <2>1. processed \in 0 .. MaxPackets /\ processed < MaxPackets /\ MaxPackets \in Nat
    BY <1>2, FastPathAssumption DEF WorkerOK, Receive
  <2>2. total_seen \in Nat /\ classified_count \in Nat
    BY <1>2 DEF WorkerOK
  <2>. QED
    BY <1>2, <2>1, <2>2 DEF Track
<1>8. UNCHANGED <<held, todo, section, file, calls, saved>>
  BY <1>2 DEF Track
<1>9. pc = "pop" /\ check[fp] = NoCheck /\ fp \in Checkers
  BY <1>2, FastPathAssumption DEF Asking, Receive
<1>10. CASE OnHold(t) /\ Drops(pkt) /\ UNCHANGED check
  <2>1. RulesInv'
    BY <1>2, <1>8, <1>10, RulesKept
  <2>2. /\ pc' = "loop" /\ job' = NoJob /\ wasBlocked' = FALSE
        /\ dropped' = dropped + 1 /\ forwarded' = forwarded
        /\ verdicts' = Append(verdicts, <<pkt, "DROP">>)
    BY <1>10 DEF Drops
  <2>3. WorkerOK'
    <3>1. verdicts' \in Seq(Packets \X {"FORWARD", "DROP"})
      BY <1>1, <1>2, <2>2 DEF WorkerOK
    <3>2. dropped' \in Nat /\ forwarded' \in Nat
      BY <1>2, <2>2 DEF WorkerOK
    <3>3. wasBlocked' \in BOOLEAN
      BY <1>10 DEF Drops
    <3>4. pc' \in {"loop", "pop", "check", "exit"}
      BY <2>2
    <3>. QED
      BY <1>2, <1>7, <3>1, <3>2, <3>3, <3>4 DEF WorkerOK
  <2>4. Asking'
    BY <1>9, <1>10, <2>2 DEF Asking
  <2>5. CountersAgree'
    <3>1. /\ processed = forwarded + dropped /\ total_seen <= processed
          /\ Cardinality(InState("BLOCKED")) <= blocked_count /\ blocked_count <= dropped
          /\ Cardinality(Tracked) <= total_seen
      BY <1>2, <1>9 DEF CountersAgree, WorkerOK
    <3>2. forwarded \in Nat /\ dropped \in Nat /\ blocked_count \in Nat
      BY <1>2 DEF WorkerOK
    <3>. QED
      BY <1>4, <1>5, <1>6, <1>7, <2>2, <3>1, <3>2 DEF CountersAgree
  <2>. QED
    BY <1>4, <2>1, <2>3, <2>4, <2>5 DEF FastPathInv
<1>11. CASE /\ ~OnHold(t) /\ Ask(fp, QueryFor(pkt, connections'[t]))
            /\ pc' = "check" /\ job' = pkt
            /\ wasBlocked' = (t \in InState("BLOCKED"))
            /\ UNCHANGED <<forwarded, dropped, verdicts>>
  <2>. DEFINE q == QueryFor(pkt, connections'[t])
  <2>1. q \in Query
    <3>1. connections'[t] \in Connection
      BY <1>3 DEF Tracks
    <3>. QED
      BY <1>1, <3>1, QueryType
  <2>0. Ask(fp, q)
    BY <1>11
  <2>2. RulesInv'
    <3>. HIDE DEF q
    <3>1. check' \in [Checkers -> Call \cup {NoCheck}] /\ ChecksSound'
      <4>1. /\ check \in [Checkers -> Call \cup {NoCheck}] /\ ChecksSound
            /\ HeldOK(held) /\ held' = held
        BY <1>2, <1>8 DEF RulesInv, RulesTypeOK
      <4>. QED
        BY <1>9, <2>0, <2>1, <4>1, AskSound
    <3>. QED
      BY <1>2, <1>8, <3>1 DEF RulesInv, RulesTypeOK
  <2>3. WorkerOK'
    <3>1. wasBlocked' \in BOOLEAN
      BY <1>11
    <3>. QED
      BY <1>2, <1>7, <1>11, <3>1 DEF WorkerOK
  <2>4. Asking'
    <3>. HIDE DEF q
    <3>1. check'[fp].at = "ip" /\ check'[fp].query = q
      BY <1>2, <1>9, <2>0 DEF Ask, RulesInv, RulesTypeOK
    <3>2. check'[fp] # NoCheck
      BY <3>1 DEF NoCheck
    <3>3. q = QueryFor(pkt, connections'[t])
      BY DEF q
    <3>. QED
      BY <1>4, <1>11, <3>1, <3>2, <3>3 DEF Asking, OnHold, QueryFor
  <2>5. CountersAgree'
    <3>1. /\ processed = forwarded + dropped /\ total_seen <= processed
          /\ Cardinality(InState("BLOCKED")) <= blocked_count /\ blocked_count <= dropped
          /\ Cardinality(Tracked) <= total_seen
      BY <1>2, <1>9 DEF CountersAgree, WorkerOK
    <3>2. forwarded \in Nat /\ dropped \in Nat /\ blocked_count \in Nat
      BY <1>2 DEF WorkerOK
    <3>. QED
      BY <1>4, <1>5, <1>6, <1>7, <1>11, <3>1, <3>2 DEF CountersAgree
  <2>. QED
    BY <1>4, <2>2, <2>3, <2>4, <2>5 DEF FastPathInv
<1>. QED
  BY <1>10, <1>11 DEF Receive

LEMMA CheckRulesInv == FastPathInv /\ CheckRules => FastPathInv'
<1>. SUFFICES ASSUME FastPathInv, CheckRules PROVE FastPathInv'
  OBVIOUS
<1>1. /\ RulesInv /\ TableOK /\ WorkerOK /\ Asking /\ CountersAgree
      /\ fp \in Checkers /\ CheckSection(fp) /\ pc = "check"
      /\ UNCHANGED <<trackerVars, workerVars>>
  BY FastPathAssumption DEF FastPathInv, CheckRules
<1>2. /\ check \in [Checkers -> Call \cup {NoCheck}] /\ ChecksSound /\ HeldOK(held)
  BY <1>1 DEF RulesInv, RulesTypeOK
<1>3. RulesInv'
  <2>1. check' \in [Checkers -> Call \cup {NoCheck}] /\ ChecksSound'
    BY <1>1, <1>2, SectionSound
  <2>. QED
    BY <1>1, <2>1 DEF CheckSection, RulesInv, RulesTypeOK
<1>4. check'[fp] # NoCheck /\ check'[fp].query = check[fp].query
  <2>1. check[fp] \in Call
    BY <1>1, <1>2 DEF Asking
  <2>. DEFINE at1  == IF Hits(check[fp].at, check[fp].query) THEN "idle" ELSE After(check[fp].at)
              ans1 == IF Hits(check[fp].at, check[fp].query) THEN check[fp].at
                      ELSE IF check[fp].at = "domain" THEN "allow" ELSE "none"
  <2>2. check'[fp] = [check[fp] EXCEPT !.at = at1, !.answer = ans1]
    BY <1>1, <1>2 DEF CheckSection
  <2>3. check[fp].at \in {"ip", "port", "app", "domain"}
    BY <1>1, <2>1 DEF CheckSection, Checking, Call
  <2>4. ans1 # "none" \/ at1 # "idle"
    BY <2>3 DEF After
  <2>. HIDE DEF at1, ans1
  <2>5. check'[fp].at = at1 /\ check'[fp].answer = ans1 /\ check'[fp].query = check[fp].query
    BY <2>1, <2>2 DEF Call
  <2>. QED
    BY <2>4, <2>5 DEF NoCheck
<1>5. TableOK' /\ WorkerOK' /\ CountersAgree'
  BY <1>1 DEF TableOK, WorkerOK, CountersAgree, trackerVars, workerVars, Tracked, InState, Connection
<1>6. Asking'
  BY <1>1, <1>4 DEF Asking, trackerVars, workerVars, Tracked, QueryFor
<1>. QED
  BY <1>3, <1>5, <1>6 DEF FastPathInv

(* What blockConnection does to the table.                                 *)
LEMMA BlockTable ==
  ASSUME TableOK, NEW t \in Tracked,
         connections' = [connections EXCEPT ![t] = BlockedConnection(@)]
  PROVE  /\ TableOK' /\ Tracked' = Tracked
         /\ InState("BLOCKED")' = InState("BLOCKED") \cup {t}
         /\ \A u \in Tracked : connections'[u].last_seen = connections[u].last_seen
         /\ \A u \in Tracked : connections'[u].fin_seen = connections[u].fin_seen
<1>1. Tracked' = Tracked /\ \A u \in Tracked : u # t => connections'[u] = connections[u]
  BY DEF Tracked
<1>2. connections'[t] = [connections[t] EXCEPT !.state = "BLOCKED"]
  BY DEF Tracked, BlockedConnection
<1>3. /\ connections'[t] \in Connection /\ connections'[t].state = "BLOCKED"
      /\ connections'[t].last_seen = connections[t].last_seen
      /\ connections'[t].fin_seen = connections[t].fin_seen
  BY <1>2 DEF TableOK, Connection, States
<1>4. TableOK'
  BY <1>1, <1>3 DEF TableOK, Connection
<1>5. InState("BLOCKED")' = InState("BLOCKED") \cup {t}
  BY <1>1, <1>3 DEF InState
<1>. QED
  BY <1>1, <1>3, <1>4, <1>5

LEMMA JudgeInv == FastPathInv /\ Judge => FastPathInv'
<1>. SUFFICES ASSUME FastPathInv, Judge PROVE FastPathInv'
  OBVIOUS
<1>1. /\ RulesInv /\ TableOK /\ WorkerOK /\ Asking /\ CountersAgree
      /\ fp \in Checkers /\ pc = "check"
      /\ UNCHANGED <<clock, total_seen, classified_count, held, todo, section, file,
                     calls, saved, running, processed>>
  BY FastPathAssumption DEF FastPathInv, Judge
<1>2. job.tuple \in Tracked /\ job.tuple \in Tuples /\ job \in Packets
  BY <1>1 DEF Asking, TableOK
<1>3. RulesInv' /\ check'[fp] = NoCheck
  <2>1. check' = [check EXCEPT ![fp] = NoCheck]
    BY DEF Judge
  <2>2. RulesInv'
    BY <1>1, <2>1, ForgetCheck
  <2>3. check \in [Checkers -> Call \cup {NoCheck}]
    BY <1>1 DEF RulesInv, RulesTypeOK
  <2>. QED
    BY <1>1, <2>1, <2>2, <2>3
<1>4. /\ processed = forwarded + dropped + 1 /\ total_seen <= processed
      /\ Cardinality(InState("BLOCKED")) <= blocked_count /\ blocked_count <= dropped
      /\ Cardinality(Tracked) <= total_seen
      /\ forwarded \in Nat /\ dropped \in Nat /\ blocked_count \in Nat /\ processed \in Nat
  BY <1>1 DEF CountersAgree, WorkerOK
<1>5. CASE Allowed /\ Forwards(job) /\ UNCHANGED <<connections, blocked_count>>
  <2>1. /\ pc' = "loop" /\ job' = NoJob /\ forwarded' = forwarded + 1 /\ dropped' = dropped
        /\ verdicts' = Append(verdicts, <<job, "FORWARD">>)
    BY <1>5 DEF Forwards
  <2>2. wasBlocked' \in BOOLEAN
    BY <1>5 DEF Forwards
  <2>3. verdicts' \in Seq(Packets \X {"FORWARD", "DROP"})
    BY <1>1, <1>2, <2>1 DEF WorkerOK
  <2>4. WorkerOK'
    <3>1. dropped' \in Nat /\ forwarded' \in Nat /\ blocked_count' \in Nat
      BY <1>4, <1>5, <2>1
    <3>2. pc' \in {"loop", "pop", "check", "exit"}
      BY <2>1
    <3>. QED
      BY <1>1, <2>2, <2>3, <3>1, <3>2 DEF WorkerOK
  <2>5. TableOK'
    BY <1>1, <1>5 DEF TableOK, Tracked, Connection
  <2>6. Asking'
    BY <1>3, <2>1 DEF Asking
  <2>7. CountersAgree'
    BY <1>1, <1>4, <1>5, <2>1 DEF CountersAgree, InState, Tracked
  <2>. QED
    BY <1>3, <2>4, <2>5, <2>6, <2>7 DEF FastPathInv
<1>6. CASE /\ connections' = [connections EXCEPT ![job.tuple] = BlockedConnection(@)]
           /\ blocked_count' = blocked_count + 1 /\ Drops(job)
  <2>1. /\ pc' = "loop" /\ job' = NoJob /\ dropped' = dropped + 1 /\ forwarded' = forwarded
        /\ verdicts' = Append(verdicts, <<job, "DROP">>)
    BY <1>6 DEF Drops
  <2>2. wasBlocked' \in BOOLEAN
    BY <1>6 DEF Drops
  <2>3. verdicts' \in Seq(Packets \X {"FORWARD", "DROP"})
    BY <1>1, <1>2, <2>1 DEF WorkerOK
  <2>4. WorkerOK'
    <3>1. dropped' \in Nat /\ forwarded' \in Nat /\ blocked_count' \in Nat
      BY <1>4, <1>6, <2>1
    <3>2. pc' \in {"loop", "pop", "check", "exit"}
      BY <2>1
    <3>. QED
      BY <1>1, <2>2, <2>3, <3>1, <3>2 DEF WorkerOK
  <2>5. /\ TableOK' /\ Tracked' = Tracked
        /\ InState("BLOCKED")' = InState("BLOCKED") \cup {job.tuple}
    BY <1>1, <1>2, <1>6, BlockTable
  <2>6. Asking'
    BY <1>3, <2>1 DEF Asking
  <2>7. /\ Cardinality(InState("BLOCKED")) \in Nat /\ Cardinality(InState("BLOCKED")') \in Nat
        /\ Cardinality(InState("BLOCKED")') <= Cardinality(InState("BLOCKED")) + 1
    <3>. DEFINE B == InState("BLOCKED")
    <3>1. IsFiniteSet(B)
      BY <1>1, FS_Subset DEF TableOK, InState
    <3>. HIDE DEF B
    <3>2. /\ IsFiniteSet(B \cup {job.tuple}) /\ Cardinality(B) \in Nat
          /\ Cardinality(B \cup {job.tuple}) <= Cardinality(B) + 1
      <4>1. Cardinality(B) \in Nat
        BY <3>1, FS_CardinalityType
      <4>2. CASE job.tuple \in B
        <5>1. B \cup {job.tuple} = B
          BY <4>2
        <5>. QED
          BY <3>1, <4>1, <5>1
      <4>3. CASE job.tuple \notin B
        BY <3>1, <4>1, <4>3, FS_AddElement
      <4>. QED
        BY <4>2, <4>3
    <3>3. Cardinality(B \cup {job.tuple}) \in Nat
      BY <3>2, FS_CardinalityType
    <3>. QED
      BY <2>5, <3>2, <3>3 DEF B
  <2>8. CountersAgree'
    <3>1. Cardinality(Tracked') = Cardinality(Tracked)
      BY <2>5
    <3>. QED
      BY <1>1, <1>4, <1>6, <2>1, <2>7, <3>1 DEF CountersAgree
  <2>. QED
    BY <1>3, <2>4, <2>5, <2>6, <2>8 DEF FastPathInv
<1>. QED
  BY <1>5, <1>6 DEF Judge

(* What cleanupStale does to the table.                                    *)
LEMMA CleanupTable ==
  ASSUME TableOK, WorkerOK, CleanupStale
  PROVE  /\ TableOK'
         /\ Tracked' = {u \in Tracked : ~Stale(u)}
         /\ \A u \in Tracked' : connections'[u] = connections[u]
         /\ Cardinality(Tracked') <= Cardinality(Tracked)
         /\ Cardinality(InState("BLOCKED")') <= Cardinality(InState("BLOCKED"))
<1>1. /\ Tracked' = {u \in Tracked : ~Stale(u)}
      /\ \A u \in Tracked' : connections'[u] = connections[u]
  BY DEF CleanupStale, Tracked
<1>2. Tracked' \subseteq Tracked /\ InState("BLOCKED")' \subseteq InState("BLOCKED")
  BY <1>1 DEF InState
<1>3. IsFiniteSet(Tracked) /\ IsFiniteSet(InState("BLOCKED"))
  BY FS_Subset DEF TableOK, InState
<1>4. /\ IsFiniteSet(Tracked') /\ Cardinality(Tracked') <= Cardinality(Tracked)
      /\ Cardinality(InState("BLOCKED")') <= Cardinality(InState("BLOCKED"))
  BY <1>2, <1>3, FS_Subset
<1>5. /\ Cardinality(Tracked) \in Nat /\ Cardinality(Tracked') \in Nat /\ MaxConnections \in Nat
      /\ Cardinality(Tracked) <= MaxConnections
  BY <1>3, <1>4, FS_CardinalityType, TrackerAssumption DEF TableOK
<1>6. Cardinality(Tracked') <= MaxConnections
  BY <1>4, <1>5
<1>7. TableOK'
  BY <1>1, <1>2, <1>4, <1>6 DEF TableOK, Connection
<1>. QED
  BY <1>1, <1>4, <1>7

LEMMA IdleInv == FastPathInv /\ Idle => FastPathInv'
<1>. SUFFICES ASSUME FastPathInv, Idle PROVE FastPathInv'
  OBVIOUS
<1>1. /\ RulesInv /\ TableOK /\ WorkerOK /\ Asking /\ CountersAgree
      /\ pc = "pop" /\ pc' = "loop" /\ CleanupStale
      /\ UNCHANGED <<clock, total_seen, classified_count, blocked_count>>
      /\ UNCHANGED <<ruleVars, running, job, processed, forwarded, dropped, verdicts, wasBlocked>>
  BY DEF FastPathInv, Idle, CleanupStale
<1>2. RulesInv'
  BY <1>1, RulesKept DEF ruleVars
<1>3. /\ TableOK' /\ Cardinality(Tracked') <= Cardinality(Tracked)
      /\ Cardinality(InState("BLOCKED")') <= Cardinality(InState("BLOCKED"))
  BY <1>1, CleanupTable
<1>4. /\ Cardinality(Tracked) \in Nat /\ Cardinality(Tracked') \in Nat
      /\ Cardinality(InState("BLOCKED")) \in Nat /\ Cardinality(InState("BLOCKED")') \in Nat
  <2>1. IsFiniteSet(Tracked) /\ IsFiniteSet(Tracked')
    BY <1>1, <1>3 DEF TableOK
  <2>2. IsFiniteSet(InState("BLOCKED"))
    BY <2>1, FS_Subset DEF InState
  <2>3. IsFiniteSet(InState("BLOCKED")')
    BY <2>1, FS_Subset DEF InState
  <2>. QED
    BY <2>1, <2>2, <2>3, FS_CardinalityType
<1>5. WorkerOK'
  BY <1>1 DEF WorkerOK
<1>6. Asking'
  BY <1>1 DEF Asking, ruleVars
<1>7. CountersAgree'
  <2>1. blocked_count \in Nat /\ total_seen \in Nat
    BY <1>1 DEF WorkerOK
  <2>. QED
    BY <1>1, <1>3, <1>4, <2>1 DEF CountersAgree
<1>. QED
  BY <1>2, <1>3, <1>5, <1>6, <1>7 DEF FastPathInv

(* The other threads, and the worker between packets.                      *)
LEMMA OtherInv ==
  ASSUME FastPathInv,
         \/ Loop \/ Stop \/ Rest \/ UNCHANGED vars
         \/ Manage /\ UNCHANGED <<trackerVars, workerVars>>
         \/ Tick /\ UNCHANGED <<ruleVars, workerVars>>
  PROVE  FastPathInv'
<1>1. /\ RulesInv /\ TableOK /\ WorkerOK /\ Asking /\ CountersAgree
  BY DEF FastPathInv
<1>2. CASE Loop
  <2>1. /\ UNCHANGED <<trackerVars, ruleVars, running, job, processed, forwarded,
                       dropped, verdicts, wasBlocked>>
        /\ pc = "loop" /\ pc' \in {"pop", "exit"}
    BY <1>2 DEF Loop
  <2>2. RulesInv'
    BY <1>1, <2>1, RulesKept DEF ruleVars
  <2>. QED
    BY <1>1, <2>1, <2>2 DEF FastPathInv, TableOK, WorkerOK, Asking, CountersAgree,
       trackerVars, ruleVars, Tracked, InState, Connection
<1>3. CASE Stop
  <2>1. /\ UNCHANGED <<trackerVars, ruleVars, pc, job, processed, forwarded, dropped,
                       verdicts, wasBlocked>>
        /\ running' \in BOOLEAN
    BY <1>3 DEF Stop
  <2>2. RulesInv'
    BY <1>1, <2>1, RulesKept DEF ruleVars
  <2>. QED
    BY <1>1, <2>1, <2>2 DEF FastPathInv, TableOK, WorkerOK, Asking, CountersAgree,
       trackerVars, ruleVars, Tracked, InState, Connection, QueryFor
<1>4. CASE Rest \/ UNCHANGED vars
  <2>1. UNCHANGED <<trackerVars, ruleVars, workerVars>>
    BY <1>4 DEF Rest, vars
  <2>2. RulesInv'
    BY <1>1, <2>1, RulesKept DEF ruleVars
  <2>. QED
    BY <1>1, <2>1, <2>2 DEF FastPathInv, TableOK, WorkerOK, Asking, CountersAgree,
       trackerVars, ruleVars, workerVars, Tracked, InState, Connection, QueryFor
<1>5. CASE Manage /\ UNCHANGED <<trackerVars, workerVars>>
  <2>1. RulesInv'
    BY <1>1, <1>5, ManageSound
  <2>2. check'[fp] # NoCheck <=> check[fp] # NoCheck
    BY <1>1, <1>5, ManageKeepsQuery, FastPathAssumption
  <2>3. check[fp] # NoCheck => check'[fp].query = check[fp].query
    BY <1>1, <1>5, ManageKeepsQuery, FastPathAssumption
  <2>4. Asking'
    BY <1>1, <1>5, <2>2, <2>3 DEF Asking, trackerVars, workerVars, Tracked, QueryFor
  <2>. QED
    BY <1>1, <1>5, <2>1, <2>4 DEF FastPathInv, TableOK, WorkerOK, CountersAgree,
       trackerVars, workerVars, Tracked, InState, Connection
<1>6. CASE Tick /\ UNCHANGED <<ruleVars, workerVars>>
  <2>1. RulesInv'
    BY <1>1, <1>6, RulesKept DEF ruleVars
  <2>2. clock' \in 0 .. MaxClock
    BY <1>1, <1>6, TrackerAssumption DEF Tick, WorkerOK
  <2>. QED
    BY <1>1, <1>6, <2>1, <2>2 DEF Tick, FastPathInv, TableOK, WorkerOK, Asking, CountersAgree,
       ruleVars, workerVars, Tracked, InState, Connection, QueryFor
<1>. QED
  BY <1>2, <1>3, <1>4, <1>5, <1>6

LEMMA FastPathInvariant == Spec => []FastPathInv
<1>1. FastPathInv /\ [Next]_vars => FastPathInv'
  <2>. SUFFICES ASSUME FastPathInv, [Next]_vars PROVE FastPathInv'
    OBVIOUS
  <2>1. CASE Worker
    BY <2>1, OtherInv, ReceiveInv, CheckRulesInv, JudgeInv, IdleInv DEF Worker
  <2>2. CASE \/ Stop \/ Rest \/ UNCHANGED vars
             \/ Manage /\ UNCHANGED <<trackerVars, workerVars>>
             \/ Tick /\ UNCHANGED <<ruleVars, workerVars>>
    BY <2>2, OtherInv
  <2>. QED
    BY <2>1, <2>2 DEF Next
<1>. QED
  BY <1>1, InitFastPath, PTL DEF Spec

(* Every variable has its type, the table never outgrows its bound and the *)
(* connection of the packet in hand is not evicted under the worker.       *)
THEOREM FastPathTypeCorrect == Spec => []TypeOK
<1>1. FastPathInv => TypeOK
  <2>. SUFFICES ASSUME FastPathInv PROVE TypeOK
    OBVIOUS
  <2>1. {running, wasBlocked} \subseteq BOOLEAN
    BY DEF FastPathInv, WorkerOK
  <2>2. IF pc = "check" THEN job \in Packets /\ job.tuple \in Tracked ELSE job = NoJob
    BY DEF FastPathInv, Asking
  <2>. QED
    BY <2>1, <2>2 DEF FastPathInv, RulesInv, TableOK, WorkerOK, TypeOK
<1>. QED
  BY <1>1, FastPathInvariant, PTL

(* The counters of a worker's report fit together and fit its table,       *)
(* whatever is evicted, cleaned up, closed and blocked again.              *)
THEOREM CountersAlwaysAgree == Spec => []CountersAgree
<1>1. FastPathInv => CountersAgree
  BY DEF FastPathInv
<1>. QED
  BY <1>1, FastPathInvariant, PTL

LEMMA JudgedBySteadyRules ==
  ASSUME FastPathInv, pc = "check", check[fp].answer = "allow",
         NEW r \in check[fp].throughout
  PROVE  ~Blocks(r, QueryFor(job, connections[job.tuple]))
<1>1. check[fp] # NoCheck /\ check[fp].query = QueryFor(job, connections[job.tuple])
  BY DEF FastPathInv, Asking
<1>2. CheckSound(check[fp])
  BY <1>1, FastPathAssumption DEF FastPathInv, RulesInv, ChecksSound
<1>3. check[fp].at = "idle"
  BY <1>2 DEF CheckSound
<1>. QED
  BY <1>1, <1>2, <1>3 DEF CheckSound, Ahead

(* A v1 worker forwards no packet that a rule matches which was in force   *)
(* during the whole of its check, while rules come and go.                 *)
THEOREM OnlyUnmatchedForwarded == Spec => ForwardsOnlyUnmatched
<1>. DEFINE Step == forwarded' # forwarded =>
                      \A r \in check[fp].throughout :
                        ~Blocks(r, QueryFor(job, connections[job.tuple]))
<1>1. FastPathInv /\ [Next]_vars => [Step]_vars
  <2>. SUFFICES ASSUME FastPathInv, Next, forwarded' # forwarded,
                       NEW r \in check[fp].throughout
                PROVE  ~Blocks(r, QueryFor(job, connections[job.tuple]))
    OBVIOUS
  <2>1. Judge /\ Allowed
    <3>1. ASSUME NEW pkt \in Packets, Receive(pkt) PROVE FALSE
      BY <3>1 DEF Receive, Drops
    <3>. QED
      BY <3>1 DEF Next, Worker, Loop, CheckRules, Judge, Drops, Idle, Stop, Rest, vars,
         workerVars
  <2>. QED
    BY <2>1, JudgedBySteadyRules DEF Judge, Allowed
<1>. QED
  BY <1>1, FastPathInvariant, PTL DEF Spec, ForwardsOnlyUnmatched
-----------------------------------------------------------------------------
(* The worker's table as BlockMemory sees it.                              *)
LastUse == [t \in Tracked |-> connections[t].last_seen]

LEMMA MemoryInit == Init => Memory!Init
<1>. SUFFICES ASSUME Init PROVE Memory!Init
  OBVIOUS
<1>1. /\ Tracked = {} /\ InState("BLOCKED") = {} /\ FinSeen = {}
      /\ clock = 0 /\ job = NoJob /\ verdicts = <<>>
  BY DEF Init, TrackerInit, Tracked, InState, FinSeen
<1>2. [t \in Tracked |-> connections[t].last_seen] = [t \in {} |-> 0]
  BY <1>1
<1>. QED
  BY <1>1, <1>2 DEF Memory!Init, FinSeen

LEMMA ReceiveArrives ==
  ASSUME FastPathInv, NEW pkt \in Packets, Receive(pkt)
  PROVE  Memory!Next
<1>. DEFINE t == pkt.tuple
            closed == {u \in {t} : ClosedBy(pkt)}
<1>2. TableOK /\ WorkerOK /\ Track(pkt) /\ job = NoJob
  BY DEF FastPathInv, Receive, Asking
<1>3. PICK gone : Tracks(pkt, gone)
  BY <1>2, TrackTable
<1>4. gone \in SUBSET Tracked /\ (t \in Tracked => gone = {})
  BY <1>3 DEF Tracks, Victims, Oldest
<1>5. Memory!Known = Tracked /\ Memory!Cardinality(Tracked) = Cardinality(Tracked)
  BY DEF Memory!Known, Memory!Cardinality, Cardinality
<1>6. Memory!MayGoFor(t, gone)
  <2>1. CASE gone = {}
    BY <2>1 DEF Memory!MayGoFor
  <2>2. CASE gone # {}
    <3>1. t \notin Tracked /\ Cardinality(Tracked) >= MaxConnections
      BY <1>3, <2>2 DEF Tracks, Victims
    <3>2. PICK o \in Oldest : gone = {o}
      BY <1>3, <3>1 DEF Tracks, Victims
    <3>3. Cardinality(Tracked) = MaxConnections
      <4>1. Cardinality(Tracked) \in Nat /\ MaxConnections \in Nat
        BY <1>2, FS_CardinalityType, TrackerAssumption DEF TableOK
      <4>. QED
        BY <1>2, <3>1, <4>1 DEF TableOK
    <3>4. o \in Tracked /\ \A u \in Tracked : connections[o].last_seen <= connections[u].last_seen
      BY DEF Oldest
    <3>5. o \in Tracked /\ \A u \in Tracked : LastUse[o] <= LastUse[u]
      BY <3>4 DEF LastUse
    <3>6. gone = {o} /\ \A u \in Memory!Known : LastUse[o] <= LastUse[u]
      BY <1>5, <3>2, <3>5
    <3>7. t \notin Memory!Known /\ Memory!Cardinality(Memory!Known) = MaxConnections
      BY <1>5, <3>1, <3>3
    <3>. QED
      BY <1>5, <3>5, <3>6, <3>7 DEF Memory!MayGoFor, LastUse
  <2>. QED
    BY <2>1, <2>2
<1>7. Tracked' = (Tracked \ gone) \cup {t}
  BY <1>3 DEF Tracks
<1>8. LastUse' = [u \in (Tracked \ gone) \cup {t} |-> IF u = t THEN clock ELSE LastUse[u]]
  <2>1. \A u \in Tracked' : connections'[u].last_seen =
                              IF u = t THEN clock ELSE connections[u].last_seen
    BY <1>3 DEF Tracks
  <2>2. \A u \in Tracked' : u # t => u \in Tracked
    BY <1>7
  <2>. QED
    BY <1>7, <2>1, <2>2 DEF LastUse
<1>9. InState("BLOCKED")' = InState("BLOCKED") \ (gone \cup closed)
  <2>1. \A u \in Tracked' : u # t =>
          (u \in InState("BLOCKED")' <=> u \in InState("BLOCKED"))
    BY <1>3, <1>7 DEF Tracks, InState
  <2>2. t \in InState("BLOCKED")' <=> t \in InState("BLOCKED") /\ t \notin closed
    <3>. HIDE DEF closed
    <3>1. t \in InState("BLOCKED")' <=> connections'[t].state = "BLOCKED"
      BY <1>7 DEF InState
    <3>2. t \in closed <=> ClosedBy(pkt)
      BY DEF closed
    <3>. QED
      BY <1>3, <3>1, <3>2 DEF Tracks
  <2>3. t \in InState("BLOCKED") => t \notin gone
    BY <1>4 DEF InState
  <2>4. InState("BLOCKED") \subseteq Tracked /\ InState("BLOCKED")' \subseteq Tracked'
    BY DEF InState
  <2>5. closed \subseteq {t}
    OBVIOUS
  <2>. HIDE DEF closed
  <2>. QED
    BY <1>7, <2>1, <2>2, <2>3, <2>4, <2>5
<1>10. FinSeen' = Memory!Finished(pkt) \ gone
  <2>. DEFINE fin == {u \in {t} : u.protocol = 6 /\ "FIN" \in pkt.flags}
  <2>1. Memory!Finished(pkt) = FinSeen \cup fin
    BY DEF Memory!Finished, FinSeen
  <2>2. \A u \in Tracked' : u # t => (u \in FinSeen' <=> u \in FinSeen)
    BY <1>3, <1>7 DEF Tracks, FinSeen
  <2>3. t \in FinSeen' <=> t \in FinSeen \cup fin
    <3>1. t \in FinSeen' <=> connections'[t].fin_seen
      BY <1>7 DEF FinSeen
    <3>2. FinOf(pkt) <=> t \in FinSeen \cup fin
      BY DEF FinOf
    <3>. QED
      BY <1>3, <3>1, <3>2 DEF Tracks
  <2>4. FinSeen \subseteq Tracked /\ FinSeen' \subseteq Tracked' /\ fin \subseteq {t}
    BY DEF FinSeen
  <2>5. t \notin gone
    BY <1>3 DEF Tracks, Victims, Oldest
  <2>. HIDE DEF fin
  <2>. QED
    BY <1>7, <2>1, <2>2, <2>3, <2>4, <2>5
<1>11. Memory!Closed(pkt) = closed
  <2>1. t \in Memory!Finished(pkt) <=> FinOf(pkt)
    BY DEF Memory!Finished, FinOf, FinSeen
  <2>. QED
    BY <2>1 DEF Memory!Closed, ClosedBy
<1>12. IF t \in InState("BLOCKED")'
       THEN job' = NoJob /\ verdicts' = Append(verdicts, <<pkt, "DROP">>)
       ELSE job' = pkt /\ verdicts' = verdicts
  <2>1. OnHold(t) <=> t \in InState("BLOCKED")'
    BY <1>7 DEF OnHold, InState
  <2>. QED
    BY <2>1 DEF Receive, Drops
<1>13. clock' = clock
  BY <1>2 DEF Track
<1>. HIDE DEF closed
<1>14. Memory!Arrive(pkt, gone)
  BY <1>2, <1>5, <1>6, <1>8, <1>9, <1>10, <1>11, <1>12, <1>13
     DEF Memory!Arrive, LastUse, FinSeen
<1>15. gone \in SUBSET Memory!Known
  BY <1>4, <1>5
<1>. QED
  BY <1>14, <1>15 DEF Memory!Next

LEMMA JudgeDecides == FastPathInv /\ Judge => Memory!Next
<1>. SUFFICES ASSUME FastPathInv, Judge PROVE Memory!Next
  OBVIOUS
<1>1. TableOK /\ job.tuple \in Tracked /\ job # NoJob /\ clock' = clock
  BY FastPathAssumption DEF FastPathInv, Judge, Asking
<1>2. CASE Allowed /\ Forwards(job) /\ UNCHANGED <<connections, blocked_count>>
  <2>1. /\ verdicts' = Append(verdicts, <<job, "FORWARD">>) /\ job' = NoJob
        /\ LastUse' = LastUse /\ InState("BLOCKED")' = InState("BLOCKED")
        /\ FinSeen' = FinSeen
    BY <1>2 DEF Forwards, LastUse, InState, FinSeen, Tracked
  <2>2. Memory!Forward
    BY <1>1, <2>1 DEF Memory!Forward, LastUse, FinSeen
  <2>. QED
    BY <2>2 DEF Memory!Next
<1>3. CASE /\ connections' = [connections EXCEPT ![job.tuple] = BlockedConnection(@)]
           /\ blocked_count' = blocked_count + 1 /\ Drops(job)
  <2>1. /\ Tracked' = Tracked
        /\ InState("BLOCKED")' = InState("BLOCKED") \cup {job.tuple}
        /\ \A u \in Tracked : connections'[u].last_seen = connections[u].last_seen
        /\ \A u \in Tracked : connections'[u].fin_seen = connections[u].fin_seen
    BY <1>1, <1>3, BlockTable
  <2>2. LastUse' = LastUse /\ FinSeen' = FinSeen
    BY <2>1 DEF LastUse, FinSeen
  <2>3. verdicts' = Append(verdicts, <<job, "DROP">>) /\ job' = NoJob
    BY <1>3 DEF Drops
  <2>4. Memory!Drop
    BY <1>1, <2>1, <2>2, <2>3 DEF Memory!Drop, LastUse, FinSeen
  <2>. QED
    BY <2>4 DEF Memory!Next
<1>. QED
  BY <1>2, <1>3 DEF Judge

LEMMA IdleExpires == FastPathInv /\ Idle => Memory!Next
<1>. SUFFICES ASSUME FastPathInv, Idle PROVE Memory!Next
  OBVIOUS
<1>. DEFINE gone == {u \in Tracked : Stale(u)}
<1>1. /\ TableOK /\ WorkerOK /\ CleanupStale /\ job = NoJob
      /\ verdicts' = verdicts /\ clock' = clock /\ job' = job
  BY DEF FastPathInv, Idle, CleanupStale, Asking
<1>2. Tracked' = {u \in Tracked : ~Stale(u)} /\ \A u \in Tracked' : connections'[u] = connections[u]
  BY <1>1, CleanupTable
<1>3. Memory!Known = Tracked
  BY DEF Memory!Known
<1>4. Tracked' = Tracked \ gone
  BY <1>2
<1>5. \A u \in gone \cap InState("BLOCKED") : clock - LastUse[u] > IdleTimeout
  BY DEF Stale, InState, LastUse
<1>6. LastUse' = [u \in Tracked \ gone |-> LastUse[u]]
  BY <1>2, <1>4 DEF LastUse
<1>7. InState("BLOCKED")' = InState("BLOCKED") \ gone /\ FinSeen' = FinSeen \ gone
  BY <1>2, <1>4 DEF InState, FinSeen
<1>8. PICK g \in SUBSET Tracked : g = gone
  OBVIOUS
<1>. HIDE DEF gone
<1>9. Memory!Expire(g)
  BY <1>1, <1>3, <1>5, <1>6, <1>7, <1>8 DEF Memory!Expire, LastUse, FinSeen
<1>10. g \in SUBSET Memory!Known
  BY <1>3, <1>8
<1>. QED
  BY <1>9, <1>10 DEF Memory!Next

LEMMA TickPasses == Tick /\ UNCHANGED <<ruleVars, workerVars>> => Memory!Next
<1>. SUFFICES ASSUME Tick, UNCHANGED workerVars PROVE Memory!Next
  OBVIOUS
<1>1. /\ clock' = clock + 1 /\ connections' = connections
      /\ verdicts' = verdicts /\ job' = job
  BY DEF Tick, workerVars
<1>2. LastUse' = LastUse /\ InState("BLOCKED")' = InState("BLOCKED") /\ FinSeen' = FinSeen
  BY <1>1 DEF LastUse, InState, FinSeen, Tracked
<1>. QED
  BY <1>1, <1>2 DEF Memory!Next, Memory!Passes, LastUse, FinSeen

LEMMA NothingRemembered ==
  UNCHANGED <<connections, clock, job, verdicts>> => UNCHANGED Memory!memory
<1>. SUFFICES ASSUME UNCHANGED <<connections, clock, job, verdicts>> PROVE UNCHANGED Memory!memory
  OBVIOUS
<1>1. LastUse' = LastUse /\ InState("BLOCKED")' = InState("BLOCKED") /\ FinSeen' = FinSeen
  BY DEF LastUse, InState, FinSeen, Tracked
<1>. QED
  BY <1>1 DEF Memory!memory, LastUse, FinSeen

(* A v1 worker holds a connection it has blocked until a packet with RST,  *)
(* or with ACK after or with a FIN, closes it, it has been idle for too    *)
(* long, or it is idle for longest when its place is needed, and drops     *)
(* every packet that arrives meanwhile.                                    *)
THEOREM WorkerIsMemory == Spec => ImplementsMemory
<1>1. FastPathInv /\ [Next]_vars => [Memory!Next]_Memory!memory
  <2>. SUFFICES ASSUME FastPathInv, [Next]_vars PROVE [Memory!Next]_Memory!memory
    OBVIOUS
  <2>1. ASSUME NEW pkt \in Packets, Receive(pkt) PROVE Memory!Next
    BY <2>1, ReceiveArrives
  <2>2. CASE Judge
    BY <2>2, JudgeDecides
  <2>3. CASE Idle
    BY <2>3, IdleExpires
  <2>4. CASE Tick /\ UNCHANGED <<ruleVars, workerVars>>
    BY <2>4, TickPasses
  <2>5. CASE \/ Loop \/ CheckRules \/ Stop \/ Rest \/ UNCHANGED vars
             \/ Manage /\ UNCHANGED <<trackerVars, workerVars>>
    <3>1. UNCHANGED <<connections, clock, job, verdicts>>
      BY <2>5 DEF Loop, CheckRules, Stop, Rest, vars, trackerVars, workerVars
    <3>. QED
      BY <3>1, NothingRemembered
  <2>. QED
    BY <2>1, <2>2, <2>3, <2>4, <2>5 DEF Next, Worker
<1>. QED
  BY <1>1, MemoryInit, FastPathInvariant, PTL DEF Spec, ImplementsMemory, Memory!Spec
=============================================================================
