-------------------------- MODULE SequentialProofs --------------------------
(***************************************************************************)
(* Theorems about Sequential, for any captures, options and names.         *)
(***************************************************************************)
EXTENDS Sequential, Induction, SequenceTheorems, TLAPS

(* Every name has an application, and only the empty one has none.         *)
LEMMA AppOfName ==
  ASSUME NEW n
  PROVE  /\ SniToApp(n) \in AppTypeNames
         /\ SniToApp(n) = "Unknown" <=> n = ""
<1>. DEFINE hits == {k \in DOMAIN AppPatterns :
                      \E p \in AppPatterns[k][2] : Mentions(Lower(n), p)}
            first == CHOOSE k \in hits : \A m \in hits : k <= m
<1>1. DOMAIN AppPatterns = 1 .. 17
  BY DEF AppPatterns
<1>2. \A k \in 1 .. 17 : AppPatterns[k][1] # "Unknown"
  BY DEF AppPatterns
<1>3. ASSUME hits # {} PROVE first \in 1 .. 17
  <2>1. hits \subseteq 1 .. 17 /\ hits \in SUBSET Nat
    BY <1>1
  <2>2. \E k \in hits : \A m \in hits : k <= m
    BY <1>3, <2>1, LeastNatural
  <2>3. first \in hits
    BY <2>2
  <2>. QED
    BY <1>1, <2>3
<1>4. SniToApp(n) = IF n = "" THEN "Unknown"
                    ELSE IF hits = {} THEN "HTTPS" ELSE AppPatterns[first][1]
  BY DEF SniToApp
<1>. HIDE DEF hits, first
<1>5. \A k \in 1 .. 17 : AppPatterns[k][1] \in AppTypeNames
  BY <1>1 DEF AppTypeNames
<1>6. "Unknown" \in AppTypeNames /\ "HTTPS" \in AppTypeNames
  BY DEF AppTypeNames
<1>. QED
  BY <1>2, <1>3, <1>4, <1>5, <1>6
-----------------------------------------------------------------------------
(* One packet and the flow it belongs to.                                  *)

Flow == [app_type : AppTypeNames, sni : Names, packets : Nat,
         blocked : BOOLEAN]

(* The class the ports alone give.                                         *)
PortClass(t) ==
  IF 53 \in {t.src_port, t.dst_port} THEN "DNS"
  ELSE IF t.dst_port = 443 THEN "HTTPS"
  ELSE IF t.dst_port = 80 THEN "HTTP" ELSE "Unknown"

(* A flow with a name has the class of its name, a flow without one has    *)
(* the class of its ports or none.                                         *)
ClassFits(flow, t) ==
  /\ flow.sni = "" => flow.app_type \in {"Unknown", PortClass(t)}
  /\ flow.sni # "" => flow.app_type = SniToApp(flow.sni)

Settled(flow) == flow.sni # "" \/ flow.app_type = "DNS"
Shows(f) == NameIn(f) \notin {NoName, ""}

(* The flow up to the ports: named by the first packet that shows a name,  *)
(* and given the class of its ports until then.                            *)
Labelled(f, flow) == TryPorts(f, TryHost(f, TrySNI(f, [flow EXCEPT !.packets = @ + 1])))

LEMMA PortClassType == \A t : PortClass(t) \in AppTypeNames
BY DEF PortClass, AppTypeNames

LEMMA NamedFlow ==
  ASSUME NEW flow, flow \in Flow, NEW g \in Names
  PROVE  LET e == [flow EXCEPT !.sni = g, !.app_type = SniToApp(g)] IN
         /\ e \in Flow
         /\ e.sni = g /\ e.app_type = SniToApp(g)
         /\ e.packets = flow.packets /\ e.blocked = flow.blocked
BY AppOfName DEF Flow

LEMMA ReclassedFlow ==
  ASSUME NEW flow, flow \in Flow, NEW a \in AppTypeNames
  PROVE  LET e == [flow EXCEPT !.app_type = a] IN
         /\ e \in Flow /\ e.sni = flow.sni /\ e.app_type = a
         /\ e.packets = flow.packets /\ e.blocked = flow.blocked
BY DEF Flow

LEMMA PortClasses ==
  ASSUME NEW t
  PROVE  /\ t.dst_port = 443 => PortClass(t) \in {"DNS", "HTTPS"}
         /\ t.dst_port = 80 => PortClass(t) \in {"DNS", "HTTP"}
BY DEF PortClass

(* Where the name of a packet comes from.                                  *)
LEMMA NameSource ==
  ASSUME NEW f
  PROVE  /\ f.dst_port = 443 /\ HasTCP(f) /\ PayloadLen(f) > 5 =>
              NameIn(f) = ExtractSNI(f.payload, PayloadLen(f))
         /\ f.dst_port = 80 /\ HasTCP(f) /\ PayloadLen(f) > 0 =>
              NameIn(f) = ExtractHost(f.payload, PayloadLen(f))
         /\ NameIn(f) # NoName =>
              /\ HasTCP(f)
              /\ \/ f.dst_port = 443 /\ PayloadLen(f) > 5
                 \/ f.dst_port = 80 /\ PayloadLen(f) > 0
<1>. DEFINE long == PayloadLen(f) > 5
            some == PayloadLen(f) > 0
<1>1. NameIn(f) = IF HasTCP(f) /\ f.dst_port = 443 /\ long
                  THEN ExtractSNI(f.payload, PayloadLen(f))
                  ELSE IF HasTCP(f) /\ f.dst_port = 80 /\ some
                  THEN ExtractHost(f.payload, PayloadLen(f))
                  ELSE NoName
  BY DEF NameIn
<1>. HIDE DEF long, some
<1>2. 443 # 80
  OBVIOUS
<1>3. f.dst_port = 443 => f.dst_port # 80
  BY <1>2
<1>4. /\ f.dst_port = 443 /\ HasTCP(f) /\ long =>
           NameIn(f) = ExtractSNI(f.payload, PayloadLen(f))
      /\ f.dst_port = 80 /\ HasTCP(f) /\ some =>
           NameIn(f) = ExtractHost(f.payload, PayloadLen(f))
  BY <1>1, <1>3, Zenon
<1>5. NameIn(f) # NoName =>
        /\ HasTCP(f)
        /\ (f.dst_port = 443 /\ long) \/ (f.dst_port = 80 /\ some)
  BY <1>1, Zenon
<1>. QED
  BY <1>4, <1>5, Zenon DEF long, some

LEMMA Labels ==
  ASSUME NEW f, NEW flow, flow \in Flow, ClassFits(flow, FiveTupleOf(f)),
         NameIn(f) \in Names \cup {NoName}
  PROVE  LET e == Labelled(f, flow) IN
         /\ e \in Flow /\ e.packets = flow.packets + 1
         /\ e.blocked = flow.blocked
         /\ e.sni = IF ~Settled(flow) /\ Shows(f) THEN NameIn(f) ELSE flow.sni
         /\ e.app_type = IF Settled(flow) THEN flow.app_type
                         ELSE IF Shows(f) THEN SniToApp(NameIn(f))
                         ELSE PortClass(FiveTupleOf(f))
<1>. DEFINE t == FiveTupleOf(f)
            a == [flow EXCEPT !.packets = @ + 1]
            b == TrySNI(f, a)
            c == TryHost(f, b)
            d == TryPorts(f, c)
<1>1. /\ a \in Flow /\ a.packets = flow.packets + 1
      /\ a.sni = flow.sni /\ a.app_type = flow.app_type
      /\ a.blocked = flow.blocked
  BY DEF Flow
<1>2. t.src_port = f.src_port /\ t.dst_port = f.dst_port
  BY DEF FiveTupleOf
<1>. HIDE DEF a
<1>6. f.dst_port = 443 => f.dst_port # 80
  OBVIOUS
<1>3. CASE Settled(flow)
  <2>1. b = a
    BY <1>1, <1>3 DEF TrySNI, Settled
  <2>2. c = b
    BY <1>1, <1>3, <2>1 DEF TryHost, Settled
  <2>3. a.app_type # "Unknown"
    BY <1>1, <1>3, AppOfName DEF Settled, ClassFits
  <2>4. d = c
    BY <2>1, <2>2, <2>3 DEF TryPorts
  <2>. QED
    BY <1>1, <1>3, <2>1, <2>2, <2>4 DEF Labelled, a
<1>4. CASE ~Settled(flow) /\ Shows(f)
  <2>. DEFINE g == NameIn(f)
              e == [a EXCEPT !.sni = g, !.app_type = SniToApp(g)]
  <2>1. g \in Names /\ g # "" /\ g # NoName
    BY <1>4 DEF Shows
  <2>2. c = e
    <3>1. CASE f.dst_port = 443
      <4>1. /\ HasTCP(f) /\ PayloadLen(f) > 5
            /\ g = ExtractSNI(f.payload, PayloadLen(f))
        <5>1. HasTCP(f) /\ PayloadLen(f) > 5
          <6>1. NameIn(f) # NoName /\ f.dst_port # 80
            BY <1>6, <2>1, <3>1
          <6>. QED
            BY <6>1, NameSource, Zenon
        <5>. QED
          BY <3>1, <5>1, NameSource, Zenon
      <4>2. a.app_type \in {"Unknown", "HTTPS"} /\ a.sni = ""
        <5>1. PortClass(t) \in {"DNS", "HTTPS"}
          BY <1>2, <3>1, PortClasses
        <5>. QED
          BY <1>1, <1>4, <5>1 DEF Settled, ClassFits
      <4>3. b = e
        BY <2>1, <3>1, <4>1, <4>2 DEF TrySNI, Named
      <4>. QED
        BY <3>1, <4>3 DEF TryHost
    <3>2. CASE f.dst_port # 443
      <4>1. /\ HasTCP(f) /\ f.dst_port = 80 /\ PayloadLen(f) > 0
            /\ g = ExtractHost(f.payload, PayloadLen(f))
        <5>1. HasTCP(f) /\ f.dst_port = 80 /\ PayloadLen(f) > 0
          <6>1. NameIn(f) # NoName
            BY <2>1
          <6>2. /\ HasTCP(f)
                /\ \/ f.dst_port = 443 /\ PayloadLen(f) > 5
                   \/ f.dst_port = 80 /\ PayloadLen(f) > 0
            BY <6>1, NameSource, Zenon
          <6>. QED
            BY <3>2, <6>2, Zenon
        <5>. QED
          BY <5>1, NameSource, Zenon
      <4>2. a.app_type \in {"Unknown", "HTTP"} /\ a.sni = ""
        BY <1>1, <1>2, <1>4, <4>1, PortClasses DEF Settled, ClassFits
      <4>3. b = a
        BY <3>2 DEF TrySNI
      <4>. QED
        BY <2>1, <4>1, <4>2, <4>3 DEF TryHost, Named
    <3>. QED
      BY <3>1, <3>2
  <2>. HIDE DEF g
  <2>3. SniToApp(g) # "Unknown"
    BY <2>1, AppOfName
  <2>4. /\ e \in Flow /\ e.sni = g /\ e.app_type = SniToApp(g)
        /\ e.packets = a.packets /\ e.blocked = a.blocked
    BY <1>1, <2>1, NamedFlow
  <2>5. d = c
    BY <2>2, <2>3, <2>4 DEF TryPorts
  <2>. QED
    BY <1>1, <1>4, <2>2, <2>4, <2>5 DEF Labelled, a, g
<1>5. CASE ~Settled(flow) /\ ~Shows(f)
  <2>. DEFINE e == [a EXCEPT !.sni = "", !.app_type = SniToApp("")]
  <2>1. NameIn(f) = NoName \/ NameIn(f) = ""
    BY <1>5 DEF Shows
  <2>2. c = a \/ c = e
    <3>1. CASE f.dst_port = 443
      <4>1. b = a \/ b = e
        BY <2>1, <3>1, NameSource DEF TrySNI, Named
      <4>. QED
        BY <3>1, <4>1 DEF TryHost
    <3>2. CASE f.dst_port # 443
      <4>1. b = a
        BY <3>2 DEF TrySNI
      <4>. QED
        <5>1. CASE NameIn(f) = ExtractHost(f.payload, PayloadLen(f))
          BY <2>1, <4>1, <5>1 DEF TryHost, Named
        <5>2. CASE NameIn(f) # ExtractHost(f.payload, PayloadLen(f))
          <6>1. ~(f.dst_port = 80 /\ HasTCP(f) /\ PayloadLen(f) > 0)
            BY <5>2, NameSource, Zenon
          <6>. QED
            BY <4>1, <6>1, Zenon DEF TryHost
        <5>. QED
          BY <5>1, <5>2
    <3>. QED
      BY <3>1, <3>2
  <2>3. "" \in Names
    BY SequentialAssumption
  <2>. HIDE DEF b, c
  <2>4. /\ e \in Flow /\ e.sni = "" /\ e.app_type = "Unknown"
        /\ e.packets = a.packets /\ e.blocked = a.blocked
    <3>1. SniToApp("") = "Unknown"
      BY AppOfName
    <3>. QED
      BY <1>1, <2>3, <3>1, NamedFlow
  <2>. HIDE DEF e, b, c
  <2>5. /\ c \in Flow /\ c.sni = "" /\ flow.sni = ""
        /\ c.app_type \in {"Unknown", PortClass(t)}
        /\ c.packets = a.packets /\ c.blocked = a.blocked
    BY <1>1, <1>5, <2>2, <2>4 DEF Settled, ClassFits
  <2>6. CASE c.app_type # "Unknown"
    <3>1. d = c /\ c.app_type = PortClass(t)
      BY <2>5, <2>6 DEF TryPorts
    <3>. QED
      BY <1>1, <1>5, <2>5, <3>1 DEF Labelled, a, b, c
  <2>7. CASE c.app_type = "Unknown"
    <3>1. d = [c EXCEPT !.app_type = PortClass(t)]
      BY <1>2, <2>7 DEF TryPorts, PortClass
    <3>. HIDE DEF d
    <3>2. /\ d \in Flow /\ d.sni = c.sni /\ d.app_type = PortClass(t)
          /\ d.packets = c.packets /\ d.blocked = c.blocked
      BY <2>5, <3>1, PortClassType, ReclassedFlow, ZenonT(40)
    <3>. QED
      BY <1>1, <1>5, <2>5, <3>2 DEF Labelled, a, b, c, d
  <2>. QED
    BY <2>6, <2>7
<1>. QED
  BY <1>3, <1>4, <1>5

LEMMA Inspection ==
  ASSUME NEW f, NEW flow, flow \in Flow, ClassFits(flow, FiveTupleOf(f)),
         NameIn(f) \in Names \cup {NoName}
  PROVE  LET e == Inspect(f, flow) IN
         /\ e \in Flow /\ e.packets = flow.packets + 1
         /\ ClassFits(e, FiveTupleOf(f))
         /\ e.sni = IF ~Settled(flow) /\ Shows(f) THEN NameIn(f) ELSE flow.sni
         /\ e.app_type = IF Settled(flow) THEN flow.app_type
                         ELSE IF Shows(f) THEN SniToApp(NameIn(f))
                         ELSE PortClass(FiveTupleOf(f))
         /\ e = [Labelled(f, flow) EXCEPT
                   !.blocked = flow.blocked \/ IsBlocked(f.src_ip, e.app_type, e.sni)]
<1>. DEFINE l == Labelled(f, flow)
            e == Inspect(f, flow)
            b == flow.blocked \/ IsBlocked(f.src_ip, l.app_type, l.sni)
<1>1. /\ l \in Flow /\ l.packets = flow.packets + 1
      /\ l.blocked = flow.blocked
      /\ l.sni = IF ~Settled(flow) /\ Shows(f) THEN NameIn(f) ELSE flow.sni
      /\ l.app_type = IF Settled(flow) THEN flow.app_type
                      ELSE IF Shows(f) THEN SniToApp(NameIn(f))
                      ELSE PortClass(FiveTupleOf(f))
  BY Labels
<1>2. e = [l EXCEPT !.blocked = b]
  BY <1>1, Zenon DEF Inspect, Judge, Labelled
<1>3. b \in BOOLEAN
  OBVIOUS
<1>. HIDE DEF l, e, b
<1>4. /\ e \in Flow /\ e.packets = l.packets /\ e.sni = l.sni
      /\ e.app_type = l.app_type
  BY <1>1, <1>2, <1>3 DEF Flow
<1>5. ClassFits(e, FiveTupleOf(f))
  <2>1. ClassFits(l, FiveTupleOf(f))
    BY <1>1, AppOfName DEF ClassFits, Settled, Shows
  <2>. QED
    BY <1>4, <2>1 DEF ClassFits
<1>6. e = [l EXCEPT !.blocked =
             flow.blocked \/ IsBlocked(f.src_ip, e.app_type, e.sni)]
  BY <1>2, <1>4, Zenon DEF b
<1>. QED
  BY <1>1, <1>4, <1>5, <1>6 DEF l, e
-----------------------------------------------------------------------------
(* Type correctness.                                                       *)

Classes == \A t \in Tuples : ClassFits(flows[t], t)

(* The packet to be written is the one just forwarded.                     *)
Pending == pc = "write" => pos \in Ids /\ verdict[pos] = "forwarded"

LEMMA Records ==
  ASSUME capture \in Captures
  PROVE  /\ Len(capture.records) \in Nat
         /\ DOMAIN capture.records = Ids
         /\ \A i \in Ids : Parsed(FrameOf(i)) =>
              /\ FlowOf(i) \in Tuples
              /\ NameIn(FrameOf(i)) \in Names \cup {NoName}
<1>1. capture.records \in Seq({capture.records[i] : i \in DOMAIN capture.records})
  BY SequentialAssumption
<1>2. DOMAIN capture.records = Ids /\ Len(capture.records) \in Nat
  BY <1>1 DEF Ids
<1>. QED
  BY <1>2, SequentialAssumption DEF FrameOf, FlowOf

LEMMA HandledFlow ==
  ASSUME TypeOK, Classes, Handle
  PROVE  LET f == FrameOf(pos + 1)
             t == FlowOf(pos + 1)
         IN /\ pos + 1 \in Ids /\ t \in Tuples /\ t = FiveTupleOf(f)
            /\ flows[t] \in Flow /\ ClassFits(flows[t], t)
            /\ NameIn(f) \in Names \cup {NoName}
<1>1. pos + 1 \in Ids
  BY Records DEF TypeOK, Handle, HasNext, Ids
<1>. QED
  BY <1>1, Records DEF TypeOK, Classes, Handle, FlowOf, Flow

LEMMA TypeInit == Init => TypeOK /\ Classes /\ Pending
<1>. SUFFICES ASSUME Init PROVE TypeOK /\ Classes /\ Pending
  OBVIOUS
<1>1. NewFlow \in Flow
  BY SequentialAssumption DEF NewFlow, Flow, AppTypeNames
<1>2. TypeOK
  BY <1>1, Records DEF Init, TypeOK, Flow
<1>3. Classes
  BY DEF Init, Classes, ClassFits, NewFlow
<1>4. Pending
  BY DEF Init, Pending
<1>. QED
  BY <1>2, <1>3, <1>4

LEMMA TypeStep ==
  TypeOK /\ Classes /\ Pending /\ [Next]_vars => TypeOK' /\ Classes' /\ Pending'
<1>. SUFFICES ASSUME TypeOK, Classes, Pending, [Next]_vars
              PROVE  TypeOK' /\ Classes' /\ Pending'
  OBVIOUS
<1>. USE DEF givens, stats, vars
<1>0. Len(capture.records) \in Nat
  BY Records DEF TypeOK
<1>1. CASE Handle
  <2>. DEFINE t == FlowOf(pos + 1)
              e == Inspect(FrameOf(pos + 1), flows[t])
  <2>1. /\ pos + 1 \in Ids /\ t \in Tuples
        /\ e \in Flow /\ ClassFits(e, t)
    BY <1>1, HandledFlow, Inspection
  <2>2. /\ flows' = [flows EXCEPT ![t] = e]
        /\ appStats' = [appStats EXCEPT ![e.app_type] = @ + 1]
        /\ pos' = pos + 1 /\ total' = total + 1
        /\ UNCHANGED <<capture, args, rules, written>>
    BY <1>1 DEF Handle
  <2>3. \/ /\ dropped' = dropped + 1 /\ UNCHANGED <<pc, forwarded>>
           /\ verdict' = [verdict EXCEPT ![pos + 1] = "dropped"]
        \/ /\ forwarded' = forwarded + 1 /\ pc' = "write" /\ UNCHANGED dropped
           /\ verdict' = [verdict EXCEPT ![pos + 1] = "forwarded"]
    BY <1>1 DEF Handle
  <2>. HIDE DEF t, e
  <2>4. Ids' = Ids
    BY <2>2 DEF Ids
  <2>5. e.app_type \in AppTypeNames
    BY <2>1 DEF Flow
  <2>6. flows' \in [Tuples -> Flow] /\ appStats' \in [AppTypeNames -> Nat]
    BY <2>1, <2>2, <2>5 DEF TypeOK, Flow
  <2>7. pos' \in 0 .. Len(capture'.records) /\ total' \in Nat
    BY <1>0, <2>1, <2>2 DEF TypeOK, Ids
  <2>8. /\ dropped' \in Nat /\ forwarded' \in Nat
        /\ pc' \in {"open", "failed", "read", "write", "done"}
    BY <2>3 DEF TypeOK
  <2>9. verdict' \in [Ids -> {"none", "forwarded", "dropped"}]
    BY <2>1, <2>3 DEF TypeOK
  <2>10. TypeOK'
    BY <2>2, <2>4, <2>6, <2>7, <2>8, <2>9 DEF TypeOK, Flow
  <2>11. Classes'
    BY <2>1, <2>2 DEF Classes, TypeOK
  <2>12. Pending'
    <3>1. pc = "read"
      BY <1>1 DEF Handle
    <3>. QED
      BY <2>1, <2>2, <2>3, <2>4, <3>1 DEF Pending, TypeOK
  <2>. QED
    BY <2>10, <2>11, <2>12
<1>2. CASE Write
  <2>1. pos \in Ids
    BY <1>2 DEF Write, Pending
  <2>. QED
    BY <1>2, <2>1 DEF Write, TypeOK, Ids, Classes, Pending
<1>3. CASE Skip
  <2>1. pos' \in 0 .. Len(capture.records)
    BY <1>0, <1>3 DEF Skip, TypeOK, HasNext
  <2>. QED
    BY <1>3, <2>1 DEF Skip, TypeOK, Ids, Classes, Pending
<1>4. CASE Open \/ OpenFails \/ Finish
  BY <1>4 DEF Open, OpenFails, Finish, TypeOK, Ids, Classes, Pending
<1>5. CASE UNCHANGED vars
  BY <1>5 DEF TypeOK, Ids, Classes, Pending
<1>. QED
  BY <1>1, <1>2, <1>3, <1>4, <1>5 DEF Next

(* Counters, flow table, verdicts and output keep their types over any     *)
(* capture, and each packet written is one of the capture.                 *)
THEOREM SequentialTypeCorrect == Spec => []TypeOK
BY TypeInit, TypeStep, PTL DEF Spec
-----------------------------------------------------------------------------
(* The first name of a flow.                                               *)

(* FirstNameStays, flow by flow.                                           *)
NameKept(t) ==
  LET flow == flows[t] IN
  flow.app_type # "DNS" \/ flow.sni # "" =>
    IF Naming(t) = {} THEN flow.sni = ""
    ELSE /\ \E i \in Naming(t) : /\ \A j \in Naming(t) : i <= j
                                 /\ flow.sni = NameIn(FrameOf(i))
         /\ flow.app_type = SniToApp(flow.sni)

ShowsFor(i, t) == Parsed(FrameOf(i)) /\ FlowOf(i) = t /\ Shows(FrameOf(i))

LEMMA NamingIs == \A t : Naming(t) = {i \in 1 .. pos : ShowsFor(i, t)}
BY DEF Naming, ShowsFor, Shows

LEMMA FirstNameInit == Init => FirstNameStays
<1>. SUFFICES ASSUME Init, NEW t \in Tuples PROVE NameKept(t)
  BY DEF FirstNameStays, NameKept
<1>1. Naming(t) = {}
  BY DEF Init, Naming
<1>2. flows[t].sni = ""
  BY DEF Init, NewFlow
<1>. QED
  BY <1>1, <1>2 DEF NameKept

LEMMA FirstNameStep ==
  TypeOK /\ Classes /\ Pending /\ FirstNameStays /\ [Next]_vars
    => FirstNameStays'
<1>. SUFFICES ASSUME TypeOK, Classes, Pending, FirstNameStays, [Next]_vars,
                     NEW t \in Tuples
              PROVE  NameKept(t)'
  BY DEF FirstNameStays, NameKept
<1>. USE DEF givens, stats, vars
<1>00. pos \in Nat
  BY Records DEF TypeOK
<1>0. NameKept(t)
  BY DEF FirstNameStays, NameKept
<1>1. CASE Handle
  <2>1. PICK n \in Nat : n = pos + 1
    BY <1>00
  <2>. DEFINE f == FrameOf(n)
              u == FlowOf(n)
              e == Inspect(f, flows[u])
  <2>2. /\ u \in Tuples /\ flows[u] \in Flow
        /\ e.sni = IF ~Settled(flows[u]) /\ Shows(f) THEN NameIn(f)
                   ELSE flows[u].sni
        /\ e.app_type = IF Settled(flows[u]) THEN flows[u].app_type
                        ELSE IF Shows(f) THEN SniToApp(NameIn(f))
                        ELSE PortClass(u)
    BY <1>1, <2>1, HandledFlow, Inspection
  <2>3. /\ flows' = [flows EXCEPT ![u] = e] /\ pos' = n
        /\ capture' = capture /\ Parsed(f)
    BY <1>1, <2>1 DEF Handle
  <2>4. \A i : FrameOf(i)' = FrameOf(i) /\ ShowsFor(i, t)' = ShowsFor(i, t)
    BY <2>3 DEF FrameOf, FlowOf, ShowsFor
  <2>5. Naming(t)' = {i \in 1 .. n : ShowsFor(i, t)}
    <3>1. Naming(t)' = {i \in 1 .. pos' : ShowsFor(i, t)'}
      BY DEF Naming, ShowsFor, Shows
    <3>. QED
      BY <2>3, <2>4, <3>1
  <2>6. ShowsFor(n, t) <=> t = u /\ Shows(f)
    BY <2>3 DEF ShowsFor
  <2>. HIDE DEF f, u, e
  <2>7. Naming(t)' = IF t = u /\ Shows(f) THEN Naming(t) \cup {n}
                     ELSE Naming(t)
    <3>1. \A i : i \in 1 .. n <=> i \in 1 .. pos \/ i = n
      BY <1>00, <2>1
    <3>. QED
      BY <2>5, <2>6, <3>1, NamingIs
  <2>8. \A i \in Naming(t) : i \in Nat /\ i < n
    BY <1>00, <2>1, NamingIs
  <2>9. \A i \in Naming(t) : NameIn(FrameOf(i)) # ""
    BY DEF Naming
  <2>10. CASE t # u
    <3>1. flows'[t] = flows[t] /\ Naming(t)' = Naming(t)
      BY <2>2, <2>3, <2>7, <2>10 DEF TypeOK
    <3>. QED
      BY <1>0, <2>4, <3>1 DEF NameKept
  <2>11. CASE t = u /\ Settled(flows[t])
    <3>1. flows'[t].sni = flows[t].sni /\ flows'[t].app_type = flows[t].app_type
      BY <2>2, <2>3, <2>11 DEF TypeOK
    <3>2. CASE flows[t].sni = ""
      BY <2>11, <3>1, <3>2 DEF NameKept, Settled
    <3>3. CASE flows[t].sni # ""
      <4>1. PICK i \in Naming(t) : /\ \A j \in Naming(t) : i <= j
                                   /\ flows[t].sni = NameIn(FrameOf(i))
        BY <1>0, <3>3 DEF NameKept
      <4>2. \A j \in Naming(t)' : i <= j
        BY <2>7, <2>8, <4>1
      <4>3. i \in Naming(t)' /\ Naming(t)' # {}
        BY <2>7, <4>1
      <4>4. flows[t].app_type = SniToApp(flows[t].sni)
        BY <1>0, <3>3 DEF NameKept
      <4>. QED
        BY <2>4, <3>1, <4>1, <4>2, <4>3, <4>4 DEF NameKept
    <3>. QED
      BY <3>2, <3>3
  <2>12. CASE t = u /\ ~Settled(flows[t])
    <3>1. Naming(t) = {} /\ flows[t].sni = ""
      BY <1>0, <2>9, <2>12 DEF NameKept, Settled
    <3>2. flows'[t] = e
      BY <2>2, <2>3, <2>12 DEF TypeOK
    <3>3. CASE Shows(f)
      <4>1. Naming(t)' = {n}
        BY <2>7, <2>12, <3>1, <3>3
      <4>2. e.sni = NameIn(FrameOf(n)) /\ e.app_type = SniToApp(e.sni)
        BY <2>2, <2>12, <3>3 DEF f
      <4>3. n <= n /\ NameIn(FrameOf(n)') = NameIn(FrameOf(n))
        BY <2>4
      <4>4. /\ flows'[t].sni = NameIn(FrameOf(n)')
            /\ flows'[t].app_type = SniToApp(flows'[t].sni)
        BY <3>2, <4>2, <4>3
      <4>5. /\ n \in Naming(t)' /\ \A j \in Naming(t)' : n <= j
            /\ Naming(t)' # {}
        BY <4>1, <4>3
      <4>. QED
        BY <4>4, <4>5, Zenon DEF NameKept
    <3>4. CASE ~Shows(f)
      BY <2>2, <2>7, <2>12, <3>1, <3>2, <3>4 DEF NameKept
    <3>. QED
      BY <3>3, <3>4
  <2>. QED
    BY <2>10, <2>11, <2>12
<1>2. CASE Skip
  <2>1. PICK n \in Nat : n = pos + 1
    BY <1>00
  <2>2. /\ UNCHANGED <<capture, flows>> /\ pos' = n /\ ~ShowsFor(n, t)
    BY <1>2, <2>1 DEF Skip, ShowsFor
  <2>3. \A i : FrameOf(i)' = FrameOf(i) /\ ShowsFor(i, t)' = ShowsFor(i, t)
    BY <2>2 DEF FrameOf, FlowOf, ShowsFor
  <2>4. Naming(t)' = Naming(t)
    <3>1. Naming(t)' = {i \in 1 .. pos' : ShowsFor(i, t)'}
      BY DEF Naming, ShowsFor, Shows
    <3>2. \A i : i \in 1 .. n <=> i \in 1 .. pos \/ i = n
      BY <1>00, <2>1
    <3>. QED
      BY <2>2, <2>3, <3>1, <3>2, NamingIs
  <2>. QED
    BY <1>0, <2>2, <2>3, <2>4 DEF NameKept
<1>3. CASE Write \/ Open \/ OpenFails \/ Finish \/ UNCHANGED vars
  <2>1. UNCHANGED <<capture, pos, flows>>
    BY <1>3 DEF Write, Open, OpenFails, Finish
  <2>2. Naming(t)' = Naming(t)
    BY <2>1 DEF Naming, FrameOf, FlowOf
  <2>. QED
    BY <1>0, <2>1, <2>2 DEF NameKept, FrameOf
<1>. QED
  BY <1>1, <1>2, <1>3 DEF Next

(* Whatever the order of the packets of a flow, its first name and the     *)
(* class of that name are its last word.                                   *)
THEOREM FirstNameAlwaysStays == Spec => []FirstNameStays
BY TypeInit, TypeStep, FirstNameInit, FirstNameStep, PTL DEF Spec
-----------------------------------------------------------------------------
(* The refinement.  One pass decides the packets up to pos, and everything *)
(* it forwards is written before it goes on.                               *)

Out == {written[n] : n \in 1 .. Len(written)}

Decided == \A i \in Ids : verdict[i] # "none" <=> i <= pos /\ Parsed(FrameOf(i))

WrittenUpTo ==
  /\ \A i \in Out : i \in Ids /\ i <= pos /\ (pc = "write" => i # pos)
  /\ \A i \in Ids : verdict[i] = "forwarded" =>
                      i \in Out \/ (pc = "write" /\ i = pos)

LEMMA OutType ==
  ASSUME TypeOK
  PROVE  /\ Out \subseteq Ids
         /\ \A i \in Ids : {Append(written, i)[n] :
              n \in 1 .. Len(Append(written, i))} = Out \cup {i}
<1>1. written \in Seq(Ids)
  BY DEF TypeOK
<1>2. Out \subseteq Ids
  BY <1>1 DEF Out
<1>3. ASSUME NEW i \in Ids
      PROVE  {Append(written, i)[n] : n \in 1 .. Len(Append(written, i))}
               = Out \cup {i}
  <2>1. /\ Len(written) \in Nat /\ Len(Append(written, i)) = Len(written) + 1
        /\ \A n \in 1 .. Len(written) : Append(written, i)[n] = written[n]
        /\ Append(written, i)[Len(written) + 1] = i
    BY <1>1
  <2>2. \A n : n \in 1 .. Len(written) + 1 <=>
                 n \in 1 .. Len(written) \/ n = Len(written) + 1
    BY <2>1
  <2>. QED
    BY <2>1, <2>2 DEF Out
<1>. QED
  BY <1>2, <1>3

LEMMA UpToInit == Init => Decided /\ WrittenUpTo
<1>. SUFFICES ASSUME Init PROVE Decided /\ WrittenUpTo
  OBVIOUS
<1>1. Decided
  BY DEF Init, Decided, Ids
<1>2. Out = {}
  BY DEF Init, Out
<1>3. WrittenUpTo
  BY <1>2 DEF Init, WrittenUpTo
<1>. QED
  BY <1>1, <1>3

LEMMA UpToStep ==
  TypeOK /\ Classes /\ Pending /\ Decided /\ WrittenUpTo /\ [Next]_vars
    => Decided' /\ WrittenUpTo'
<1>. SUFFICES ASSUME TypeOK, Classes, Pending, Decided, WrittenUpTo, [Next]_vars
              PROVE  Decided' /\ WrittenUpTo'
  OBVIOUS
<1>. USE DEF givens, stats, vars
<1>0. pos \in Nat
  BY Records DEF TypeOK
<1>1. CASE Handle
  <2>1. /\ pos + 1 \in Ids /\ pc = "read" /\ Parsed(FrameOf(pos + 1))
        /\ pos' = pos + 1 /\ UNCHANGED <<capture, written>>
    BY <1>1, HandledFlow DEF Handle
  <2>2. \/ /\ verdict' = [verdict EXCEPT ![pos + 1] = "dropped"]
           /\ pc' = "read"
        \/ /\ verdict' = [verdict EXCEPT ![pos + 1] = "forwarded"]
           /\ pc' = "write"
    BY <1>1, <2>1 DEF Handle
  <2>3. Ids' = Ids /\ Out' = Out /\ \A i : FrameOf(i)' = FrameOf(i)
    BY <2>1 DEF Ids, Out, FrameOf
  <2>4. \A i \in Ids : i \in Nat /\ (i <= pos + 1 <=> i <= pos \/ i = pos + 1)
    BY <1>0 DEF Ids
  <2>5. Decided'
    BY <2>1, <2>2, <2>3, <2>4 DEF Decided, TypeOK
  <2>6. \A i \in Out : i <= pos + 1 /\ i # pos + 1
    BY <1>0, <2>4 DEF WrittenUpTo
  <2>7. \A i \in Ids : verdict'[i] = "forwarded" =>
          i \in Out \/ (pc' = "write" /\ i = pos + 1)
    BY <2>1, <2>2 DEF WrittenUpTo, TypeOK
  <2>8. WrittenUpTo'
    BY <2>1, <2>3, <2>6, <2>7 DEF WrittenUpTo
  <2>. QED
    BY <2>5, <2>8
<1>2. CASE Write
  <2>1. /\ pos \in Ids /\ written' = Append(written, pos) /\ pc' = "read"
        /\ pc = "write" /\ UNCHANGED <<capture, pos, verdict>>
    BY <1>2 DEF Write, Pending
  <2>2. Out' = Out \cup {pos}
    BY <2>1, OutType DEF Out
  <2>3. Ids' = Ids
    BY <2>1 DEF Ids
  <2>4. WrittenUpTo'
    BY <1>0, <2>1, <2>2, <2>3 DEF WrittenUpTo
  <2>5. Decided'
    BY <2>1, <2>3 DEF Decided, FrameOf
  <2>. QED
    BY <2>4, <2>5
<1>3. CASE Skip
  <2>1. /\ ~Parsed(FrameOf(pos + 1)) /\ pos' = pos + 1 /\ pc = "read"
        /\ UNCHANGED <<capture, written, verdict, pc>>
    BY <1>3 DEF Skip
  <2>2. Ids' = Ids /\ Out' = Out /\ \A i : FrameOf(i)' = FrameOf(i)
    BY <2>1 DEF Ids, Out, FrameOf
  <2>3. \A i \in Ids : i \in Nat /\ (i <= pos + 1 <=> i <= pos \/ i = pos + 1)
    BY <1>0 DEF Ids
  <2>4. Decided'
    BY <2>1, <2>2, <2>3 DEF Decided
  <2>5. WrittenUpTo'
    BY <2>1, <2>2, <2>3 DEF WrittenUpTo
  <2>. QED
    BY <2>4, <2>5
<1>4. CASE Open \/ OpenFails \/ Finish \/ UNCHANGED vars
  <2>1. /\ UNCHANGED <<capture, pos, written, verdict>>
        /\ pc' = pc \/ (pc # "write" /\ pc' # "write")
    BY <1>4 DEF Open, OpenFails, Finish
  <2>2. Ids' = Ids /\ Out' = Out /\ \A i : FrameOf(i)' = FrameOf(i)
    BY <2>1 DEF Ids, Out, FrameOf
  <2>3. Decided'
    BY <2>1, <2>2 DEF Decided
  <2>4. WrittenUpTo'
    BY <2>1, <2>2 DEF WrittenUpTo
  <2>. QED
    BY <2>3, <2>4
<1>. QED
  BY <1>1, <1>2, <1>3, <1>4 DEF Next

FlowTable == [t \in Tuples |-> FlowEntryOf(flows[t])]

LEMMA InputIs ==
  ASSUME capture \in Captures
  PROVE  /\ Filter!Ids = Ids
         /\ \A i \in Ids : InputOf[capture][i] = PacketOf(FrameOf(i))
<1>1. InputOf[capture] = [i \in Ids |-> PacketOf(FrameOf(i))]
  BY Records DEF InputOf, PacketsOf, FrameOf
<1>2. Len(capture.records) \in Nat
  BY Records
<1>3. Len([i \in Ids |-> PacketOf(FrameOf(i))]) = Len(capture.records)
  BY <1>2 DEF Ids
<1>. QED
  BY <1>1, <1>3 DEF Filter!Ids, Ids

(* What Inspect does to a flow is what the filter does to its entry.       *)
LEMMA SameInspection ==
  ASSUME NEW f, NEW flow, flow \in Flow, ClassFits(flow, FiveTupleOf(f)),
         NameIn(f) \in Names \cup {NoName}
  PROVE  FlowEntryOf(Inspect(f, flow)) =
           Filter!Inspect(rules, PacketOf(f), FlowEntryOf(flow))
<1>. DEFINE e == Inspect(f, flow)
            p == PacketOf(f)
            t == FiveTupleOf(f)
            en == FlowEntryOf(flow)
            k == Filter!Classified(p, Filter!Counted(en))
<1>1. /\ e \in Flow /\ e.packets = flow.packets + 1
      /\ e.sni = IF ~Settled(flow) /\ Shows(f) THEN NameIn(f) ELSE flow.sni
      /\ e.app_type = IF Settled(flow) THEN flow.app_type
                      ELSE IF Shows(f) THEN SniToApp(NameIn(f))
                      ELSE PortClass(t)
  BY Inspection
<1>2. e.blocked = (flow.blocked \/ IsBlocked(f.src_ip, e.app_type, e.sni))
  <2>1. e = [Labelled(f, flow) EXCEPT
               !.blocked = flow.blocked \/ IsBlocked(f.src_ip, e.app_type, e.sni)]
    BY Inspection
  <2>2. Labelled(f, flow) \in Flow
    BY Labels
  <2>. HIDE DEF e
  <2>. QED
    BY <2>1, <2>2 DEF Flow
<1>3. k = [app_type |-> e.app_type, sni |-> e.sni, packets |-> e.packets,
           blocked |-> flow.blocked,
           classified |-> e.sni # "" \/ e.app_type = "DNS"]
  <2>. DEFINE c == [app_type |-> flow.app_type, sni |-> flow.sni,
                    packets |-> flow.packets + 1, blocked |-> flow.blocked,
                    classified |-> Settled(flow)]
  <2>1. Filter!Counted(en) = c
    <3>1. en = [app_type |-> flow.app_type, sni |-> flow.sni,
                packets |-> flow.packets, blocked |-> flow.blocked,
                classified |-> Settled(flow)]
      BY Zenon DEF FlowEntryOf, Settled
    <3>. HIDE DEF en
    <3>. QED
      BY <3>1 DEF Filter!Counted
  <2>2. p.tuple = t /\ t.dst_port = f.dst_port
        /\ p.name = IF NameIn(f) = "" THEN NoName ELSE NameIn(f)
    BY DEF PacketOf, FiveTupleOf
  <2>3. c.classified = Settled(flow) /\ c.app_type = flow.app_type
    OBVIOUS
  <2>. HIDE DEF e, p, t
  <2>4. CASE Settled(flow)
    <3>1. k = c
      BY <2>1, <2>3, <2>4, Zenon DEF Filter!Classified
    <3>2. e.sni = flow.sni /\ e.app_type = flow.app_type
      BY <1>1, <2>4
    <3>. QED
      BY <1>1, <3>1, <3>2 DEF Settled
  <2>5. CASE ~Settled(flow) /\ Shows(f)
    <3>1. k = Filter!ClassifyFlow(p, c)
      BY <2>1, <2>3, <2>5, Zenon DEF Filter!Classified
    <3>2. p.name = NameIn(f) /\ NameIn(f) # NoName /\ NameIn(f) # ""
      BY <2>2, <2>5 DEF Shows
    <3>3. f.dst_port \in {443, 80}
      <4>1. \/ f.dst_port = 443 /\ PayloadLen(f) > 5
            \/ f.dst_port = 80 /\ PayloadLen(f) > 0
        BY <3>2, NameSource, Zenon
      <4>. QED
        BY <4>1
    <3>4. Filter!ExtractedName(p) = NameIn(f)
      BY <2>2, <3>2, <3>3 DEF Filter!ExtractedName
    <3>5. k = [c EXCEPT !.sni = NameIn(f), !.app_type = SniToApp(NameIn(f)),
                        !.classified = TRUE]
      BY <3>1, <3>2, <3>4, Zenon DEF Filter!ClassifyFlow
    <3>6. e.sni = NameIn(f) /\ e.app_type = SniToApp(NameIn(f))
      BY <1>1, <2>5
    <3>. QED
      BY <1>1, <3>2, <3>5, <3>6
  <2>6. CASE ~Settled(flow) /\ ~Shows(f)
    <3>1. k = Filter!ClassifyFlow(p, c)
      BY <2>1, <2>3, <2>6, Zenon DEF Filter!Classified
    <3>2. Filter!ExtractedName(p) = NoName
      BY <2>2, <2>6 DEF Filter!ExtractedName, Shows
    <3>3. /\ e.sni = "" /\ flow.sni = "" /\ e.app_type = PortClass(t)
          /\ flow.app_type \in {"Unknown", PortClass(t)}
      BY <1>1, <2>6 DEF Settled, ClassFits, t
    <3>4. CASE Filter!IsDNS(t)
      <4>1. k = [c EXCEPT !.app_type = "DNS", !.classified = TRUE]
        BY <2>2, <3>1, <3>2, <3>4, Zenon DEF Filter!ClassifyFlow
      <4>2. PortClass(t) = "DNS"
        BY <3>4 DEF Filter!IsDNS, PortClass
      <4>. QED
        BY <1>1, <3>3, <4>1, <4>2
    <3>5. CASE ~Filter!IsDNS(t)
      <4>1. k = [c EXCEPT !.app_type = Filter!PortFallback(t, flow.app_type)]
        BY <2>2, <2>3, <3>1, <3>2, <3>5, Zenon DEF Filter!ClassifyFlow
      <4>2. /\ PortClass(t) # "DNS"
            /\ Filter!PortFallback(t, flow.app_type) = PortClass(t)
        <5>1. CASE t.dst_port = 443
          BY <3>5, <5>1 DEF Filter!IsDNS, Filter!PortFallback, PortClass
        <5>2. CASE t.dst_port = 80
          BY <3>5, <5>2 DEF Filter!IsDNS, Filter!PortFallback, PortClass
        <5>3. CASE t.dst_port # 443 /\ t.dst_port # 80
          BY <3>3, <3>5, <5>3 DEF Filter!IsDNS, Filter!PortFallback, PortClass
        <5>. QED
          BY <5>1, <5>2, <5>3
      <4>3. k = [app_type |-> e.app_type, sni |-> e.sni,
                 packets |-> e.packets, blocked |-> flow.blocked,
                 classified |-> Settled(flow)]
        BY <1>1, <3>3, <4>1, <4>2
      <4>4. Settled(flow) = (e.sni # "" \/ e.app_type = "DNS")
        BY <2>6, <3>3, <4>2 DEF Settled
      <4>. QED
        BY <4>3, <4>4, Zenon
    <3>. QED
      BY <3>4, <3>5
  <2>. QED
    BY <2>4, <2>5, <2>6
<1>4. Filter!Judged(rules, p, k) =
        [k EXCEPT !.blocked =
           flow.blocked \/ IsBlocked(f.src_ip, e.app_type, e.sni)]
  <2>1. /\ k.app_type = e.app_type /\ k.sni = e.sni
        /\ k.blocked = flow.blocked /\ p.tuple.src_ip = f.src_ip
    <3>1. p.tuple.src_ip = f.src_ip
      BY DEF PacketOf, FiveTupleOf
    <3>. HIDE DEF k, e, p
    <3>. QED
      BY <1>3, <3>1
  <2>2. \A ip, a, n : Filter!IsBlocked(rules, ip, a, n) = IsBlocked(ip, a, n)
    BY DEF Filter!IsBlocked, IsBlocked
  <2>. HIDE DEF k, e, p
  <2>. QED
    <3>1. Filter!Judged(rules, p, k) =
            [k EXCEPT !.blocked = k.blocked \/
               Filter!IsBlocked(rules, p.tuple.src_ip, k.app_type, k.sni)]
      BY Zenon DEF Filter!Judged
    <3>2. Filter!IsBlocked(rules, p.tuple.src_ip, k.app_type, k.sni)
            = IsBlocked(f.src_ip, e.app_type, e.sni)
      BY <2>1, <2>2
    <3>. QED
      BY <2>1, <3>1, <3>2, Zenon
<1>5. Filter!Inspect(rules, p, en) = Filter!Judged(rules, p, k)
  BY DEF Filter!Inspect
<1>. HIDE DEF k, e
<1>6. Filter!Judged(rules, p, k) =
        [app_type |-> e.app_type, sni |-> e.sni, packets |-> e.packets,
         blocked |-> flow.blocked \/ IsBlocked(f.src_ip, e.app_type, e.sni),
         classified |-> e.sni # "" \/ e.app_type = "DNS"]
  BY <1>3, <1>4
<1>. QED
  BY <1>2, <1>5, <1>6 DEF FlowEntryOf, e

LEMMA FilterInit == Init => Filter!Init
<1>. SUFFICES ASSUME Init PROVE Filter!Init
  OBVIOUS
<1>1. capture \in Captures /\ args \in ArgLists /\ rules = Options(args)
      /\ pc # "done" /\ written = <<>>
  BY DEF Init
<1>2. InputOf[capture] \in AllInputs /\ rules \in AllRuleSets
  BY <1>1 DEF AllInputs, AllRuleSets
<1>3. FlowEntryOf(NewFlow) = Filter!NewFlow
  BY DEF FlowEntryOf, NewFlow, Filter!NewFlow
<1>4. FlowTable = [t \in Tuples |-> Filter!NewFlow]
  BY <1>3 DEF Init, FlowTable
<1>5. verdict = [i \in Filter!Ids |-> "none"]
  BY <1>1, InputIs DEF Init
<1>. QED
  BY <1>1, <1>2, <1>4, <1>5 DEF Filter!Init, FlowTable

LEMMA FilterStutters ==
  ASSUME UNCHANGED <<capture, rules, flows, verdict, written>>,
         pc' = "done" <=> pc = "done"
  PROVE  UNCHANGED Filter!vars
BY DEF Filter!vars

LEMMA FilterDecides ==
  ASSUME TypeOK, Classes, Decided, Handle
  PROVE  \E i \in Filter!Ids : Filter!Decide(i)
<1>1. PICK n \in Ids : n = pos + 1
  BY HandledFlow
<1>. DEFINE f == FrameOf(n)
            t == FlowOf(n)
            e == Inspect(f, flows[t])
            p == PacketOf(f)
<1>2. /\ t \in Tuples /\ t = FiveTupleOf(f) /\ flows[t] \in Flow
      /\ ClassFits(flows[t], t) /\ NameIn(f) \in Names \cup {NoName}
  BY <1>1, HandledFlow
<1>3. /\ Parsed(f) /\ flows' = [flows EXCEPT ![t] = e]
      /\ pc = "read" /\ pc' # "done"
      /\ UNCHANGED <<capture, rules, written>>
  BY <1>1 DEF Handle, givens
<1>4. verdict' = [verdict EXCEPT ![n] = IF e.blocked THEN "dropped" ELSE "forwarded"]
  BY <1>1 DEF Handle
<1>5. FlowTable' = [FlowTable EXCEPT ![t] = FlowEntryOf(e)]
  <2>. HIDE DEF e, t
  <2>1. \A u \in Tuples : flows'[u] = IF u = t THEN e ELSE flows[u]
    BY <1>2, <1>3 DEF TypeOK
  <2>. QED
    BY <1>2, <2>1 DEF FlowTable
<1>6. FlowEntryOf(e) = Filter!Inspect(rules, p, FlowTable[t])
  BY <1>2, SameInspection DEF FlowTable
<1>7. FlowEntryOf(e).blocked = e.blocked
  BY DEF FlowEntryOf
<1>8. /\ \A i \in Ids : InputOf[capture][i] = PacketOf(FrameOf(i))
      /\ Filter!Ids = Ids
  BY InputIs DEF TypeOK
<1>9. p.tuple = t /\ p.parsed
  BY <1>2, <1>3 DEF PacketOf
<1>10. Filter!ItsTurn(n)
  <2>1. pos \in Nat /\ Len(capture.records) \in Nat
    BY Records DEF TypeOK
  <2>2. ASSUME NEW j \in 1 .. n - 1, InputOf[capture][j].parsed
        PROVE  verdict[j] # "none"
    <3>1. j \in Ids /\ j <= pos
      BY <1>1, <2>1 DEF Ids
    <3>2. Parsed(FrameOf(j))
      <4>1. InputOf[capture][j] = PacketOf(FrameOf(j))
        BY <1>8, <3>1
      <4>2. PacketOf(FrameOf(j)).parsed = Parsed(FrameOf(j))
        BY DEF PacketOf
      <4>. QED
        BY <2>2, <4>1, <4>2, Zenon
    <3>. QED
      BY <3>1, <3>2 DEF Decided
  <2>. QED
    BY <2>2 DEF Filter!ItsTurn
<1>11. verdict[n] = "none"
  <2>1. pos \in Nat
    BY Records DEF TypeOK
  <2>2. ~(n <= pos)
    BY <1>1, <2>1
  <2>. QED
    BY <2>2 DEF Decided
<1>. HIDE DEF f, t, e, p
<1>12. InputOf[capture][n] = p /\ n \in Filter!Ids
  BY <1>8 DEF p, f
<1>13. InputOf[capture][n].parsed /\ InputOf[capture][n].tuple = t
  BY <1>9, <1>12, Zenon
<1>14. FlowTable' = [FlowTable EXCEPT
                       ![t] = Filter!Inspect(rules, p, FlowTable[t])]
  BY <1>5, <1>6
<1>15. verdict' = [verdict EXCEPT
                     ![n] = IF Filter!Inspect(rules, p, FlowTable[t]).blocked
                            THEN "dropped" ELSE "forwarded"]
  BY <1>4, <1>6, <1>7, Zenon
<1>16. InputOf[capture'] = InputOf[capture] /\ UNCHANGED <<rules, written>>
       /\ pc # "done" /\ pc' # "done"
  BY <1>3
<1>17. Filter!Decide(n)
  BY <1>10, <1>11, <1>12, <1>13, <1>14, <1>15, <1>16, Zenon
  DEF Filter!Decide, FlowTable
<1>. QED
  BY <1>12, <1>17

LEMMA FilterEmits ==
  ASSUME TypeOK, Pending, WrittenUpTo, Write
  PROVE  \E i \in Filter!Ids : Filter!Emit(i)
<1>1. PICK n \in Ids : n = pos
  BY DEF Pending, Write
<1>2. /\ verdict[n] = "forwarded" /\ written' = Append(written, n)
      /\ pc = "write" /\ pc' # "done"
      /\ UNCHANGED <<capture, rules, flows, verdict>>
  BY <1>1 DEF Write, Pending, givens
<1>3. Filter!Written = Out /\ n \notin Out
  BY <1>1, <1>2 DEF Filter!Written, Out, WrittenUpTo
<1>4. ASSUME NEW j \in 1 .. n - 1, verdict[j] = "forwarded"
      PROVE  j \in Out
  <2>1. Len(capture.records) \in Nat /\ n \in Nat
    BY Records DEF TypeOK, Ids
  <2>2. j \in Ids /\ j # pos
    BY <1>1, <2>1 DEF Ids
  <2>. QED
    BY <1>4, <2>2 DEF WrittenUpTo
<1>5. Filter!Emit(n)
  BY <1>2, <1>3, <1>4 DEF Filter!Emit
<1>. QED
  BY <1>5, InputIs DEF TypeOK

LEMMA FilterFinishes ==
  ASSUME TypeOK, WrittenUpTo, Finish
  PROVE  Filter!Finish
<1>1. /\ pc = "read" /\ pc' = "done"
      /\ UNCHANGED <<capture, rules, flows, verdict, written>>
  BY DEF Finish, givens
<1>2. \A i \in Ids : verdict[i] = "forwarded" => i \in Out
  BY <1>1 DEF WrittenUpTo
<1>3. Filter!Ids = Ids /\ Filter!Written = Out
  BY InputIs DEF TypeOK, Filter!Written, Out
<1>. QED
  BY <1>1, <1>2, <1>3 DEF Filter!Finish

LEMMA FilterStep ==
  TypeOK /\ Classes /\ Pending /\ Decided /\ WrittenUpTo /\ [Next]_vars
    => [Filter!Next]_Filter!vars
<1>. SUFFICES ASSUME TypeOK, Classes, Pending, Decided, WrittenUpTo, [Next]_vars
              PROVE  [Filter!Next]_Filter!vars
  OBVIOUS
<1>1. CASE Handle
  BY <1>1, FilterDecides DEF Filter!Next
<1>2. CASE Write
  BY <1>2, FilterEmits DEF Filter!Next
<1>3. CASE Finish
  BY <1>3, FilterFinishes DEF Filter!Next
<1>4. CASE Open \/ OpenFails \/ Skip \/ UNCHANGED vars
  <2>1. UNCHANGED <<capture, rules, flows, verdict, written>>
    BY <1>4 DEF Open, OpenFails, Skip, vars, givens
  <2>2. pc' = "done" <=> pc = "done"
    BY <1>4 DEF Open, OpenFails, Skip, vars
  <2>. QED
    BY <2>1, <2>2, FilterStutters
<1>. QED
  BY <1>1, <1>2, <1>3, <1>4 DEF Next

(* main_working.cpp implements the specification dpi_mt.cpp implements:    *)
(* for the same packets the two engines decide alike.                      *)
THEOREM SequentialIsFilter == Spec => ImplementsFilter
BY TypeInit, TypeStep, UpToInit, UpToStep, FilterInit, FilterStep, PTL
DEF Spec, ImplementsFilter, Filter!Spec
-----------------------------------------------------------------------------
(* What is written reads back.                                             *)

(* Each packet written was read whole, and holds a header.                 *)
Readback(i) == HasNext(capture, i - 1) /\ Parsed(FrameOf(i))

OutInv ==
  /\ pc \in {"read", "write", "done"} => CanOpen(capture)
  /\ \A i \in Out : Readback(i)
  /\ pc = "write" => Readback(pos)

LEMMA ReadInit == Init => OutInv
BY DEF Init, OutInv, Out

LEMMA ReadStep == TypeOK /\ Classes /\ Pending /\ OutInv /\ [Next]_vars => OutInv'
<1>. SUFFICES ASSUME TypeOK, Classes, Pending, OutInv, [Next]_vars PROVE OutInv'
  OBVIOUS
<1>. USE DEF givens, stats, vars
<1>1. UNCHANGED capture => \A i : Readback(i)' <=> Readback(i)
  BY DEF Readback, FrameOf
<1>2. UNCHANGED written => Out' = Out
  BY DEF Out
<1>3. CASE Handle
  <2>1. /\ pc = "read" /\ pos' = pos + 1 /\ UNCHANGED <<capture, written>>
        /\ HasNext(capture, pos) /\ Parsed(FrameOf(pos + 1))
    BY <1>3 DEF Handle
  <2>2. pos \in Nat /\ (pos + 1) - 1 = pos
    BY Records DEF TypeOK
  <2>3. Readback(pos + 1)
    BY <2>1, <2>2 DEF Readback
  <2>. QED
    BY <1>1, <1>2, <2>1, <2>3 DEF OutInv
<1>4. CASE Write
  <2>1. /\ pos \in Ids /\ written' = Append(written, pos) /\ pc = "write" /\ pc' = "read"
        /\ UNCHANGED <<capture, pos>>
    BY <1>4 DEF Write, Pending
  <2>2. Out' = Out \cup {pos}
    BY <2>1, OutType DEF Out
  <2>. QED
    BY <1>1, <2>1, <2>2 DEF OutInv
<1>5. CASE Open
  BY <1>1, <1>2, <1>5 DEF Open, OutInv
<1>6. CASE Skip \/ OpenFails \/ Finish \/ UNCHANGED vars
  <2>1. UNCHANGED <<capture, written>>
    BY <1>6 DEF Skip, OpenFails, Finish
  <2>2. /\ pc' \in {"read", "write", "done"} => pc \in {"read", "write", "done"}
        /\ pc' = "write" => pc = "write" /\ pos' = pos
    BY <1>6 DEF Skip, OpenFails, Finish
  <2>. QED
    BY <1>1, <1>2, <2>1, <2>2 DEF OutInv
<1>. QED
  BY <1>3, <1>4, <1>5, <1>6 DEF Next

(* A length of up to 16 bits is written so that it reads back; read with   *)
(* its bytes reversed it is too long for any capture.                      *)
LEMMA WordReads ==
  ASSUME NEW n \in Nat, n <= 65535
  PROVE  /\ Value(WordOf(n)) = n
         /\ n > 0 => Value(Reverse(WordOf(n))) = 65536
<1>. DEFINE q == n \div 256
            r == n % 256
<1>1. q \in Byte /\ r \in Byte /\ n = 256 * q + r
  BY DEF Byte
<1>. HIDE DEF q, r
<1>2. WordOf(n) = <<0, 0, q, r>>
  BY DEF WordOf, q, r
<1>4. Value(<<0, 0, q, r>>) = n
  BY <1>1 DEF Value
<1>5. Reverse(<<0, 0, q, r>>)[1] = r /\ Reverse(<<0, 0, q, r>>)[2] = q
  BY DEF Reverse
<1>6. n > 0 => r + q > 0
  BY <1>1 DEF Byte
<1>7. n > 0 => Value(Reverse(<<0, 0, q, r>>)) = 65536
  BY <1>5, <1>6 DEF Value
<1>. QED
  BY <1>2, <1>4, <1>7

(* The lengths of the records that are read.                               *)
LEMMA LengthRead ==
  ASSUME TypeOK, NEW i \in Ids, Readback(i)
  PROVE  /\ InclLen(capture, i) \in Nat \ {0} /\ InclLen(capture, i) <= 65535
         /\ InclLen(capture, i) <= Value(GlobalHeader(capture).snaplen)
<1>1. i \in Nat /\ (i - 1) + 1 = i /\ i \in DOMAIN capture.records /\ capture \in Captures
  BY Records DEF TypeOK, Ids
<1>2. /\ InclLen(capture, i) <= Value(GlobalHeader(capture).snaplen)
      /\ InclLen(capture, i) <= 65535
  BY <1>1 DEF Readback, HasNext
<1>3. FrameOf(i).len = InclLen(capture, i) /\ FrameOf(i).len \in Nat
  BY <1>1, CaptureAssumption DEF Readback, FrameOf
<1>4. FrameOf(i).len >= 14
  BY DEF Readback, Parsed, HasTCP, HasUDP, HasIP, EthHeaderLen
<1>. QED
  BY <1>2, <1>3, <1>4

(* A finished output is read back packet by packet, unless the capture was *)
(* in the other byte order and something was written.                      *)
THEOREM OutputAlwaysReadsBack == Spec => []OutputReadsBack
<1>1. TypeOK /\ OutInv => OutputReadsBack
  <2>. SUFFICES ASSUME TypeOK, OutInv, pc = "done"
                PROVE  Readable(Output) <=> (capture.magic = "native" \/ written = <<>>)
    BY DEF OutputReadsBack
  <2>. DEFINE O == Output
              N == Len(written)
              L(n) == InclLen(capture, written[n])
              snap == GlobalHeader(capture).snaplen
  <2>1. written \in Seq(Ids) /\ N \in Nat /\ DOMAIN written = 1 .. N
    BY DEF TypeOK
  <2>2. ASSUME NEW n \in 1 .. N
        PROVE  L(n) \in Nat \ {0} /\ L(n) <= 65535 /\ L(n) <= Value(snap)
    <3>1. written[n] \in Ids /\ written[n] \in Out
      BY <2>1 DEF Out
    <3>2. Readback(written[n])
      BY <3>1 DEF OutInv
    <3>. QED
      BY <3>1, <3>2, LengthRead
  <2>3. capture.magic \in {"native", "swapped"}
    <3>1. capture \in Captures /\ CanOpen(capture)
      BY DEF TypeOK, OutInv
    <3>. QED
      BY <3>1, CaptureAssumption DEF CanOpen, Magics
  <2>4. /\ O.magic = capture.magic /\ O.snaplen = snap
        /\ O.records = [n \in 1 .. N |-> NewRecord(FrameOf(written[n]), L(n))]
    BY <2>1 DEF Output, GlobalHeader
  <2>. HIDE DEF O, snap, L, N
  <2>5. Len(O.records) = N
    BY <2>1, <2>4
  <2>6. \A n \in 1 .. N : O.records[n].incl = WordOf(L(n)) /\ O.records[n].present = L(n)
    BY <2>4 DEF NewRecord
  <2>7. CanOpen(O)
    BY <2>3, <2>4 DEF CanOpen
  <2>8. ASSUME capture.magic = "native" PROVE Readable(O)
    <3>1. GlobalHeader(O).snaplen = snap
      BY <2>4, <2>8 DEF GlobalHeader, MaybeSwap32
    <3>2. \A n \in 1 .. N : InclLen(O, n) = L(n)
      BY <2>2, <2>4, <2>6, <2>8, WordReads DEF InclLen, MaybeSwap32
    <3>3. ASSUME NEW n \in 1 .. N PROVE HasNext(O, n - 1) /\ InclLen(O, n) = O.records[n].present
      <4>1. (n - 1) + 1 = n /\ n - 1 < N
        BY <2>1
      <4>. QED
        BY <2>2, <2>5, <2>6, <3>1, <3>2, <4>1 DEF HasNext
    <3>. QED
      BY <2>5, <2>7, <3>3 DEF Readable
  <2>9. ASSUME written = <<>> PROVE Readable(O)
    <3>1. N = 0
      BY <2>9 DEF N
    <3>. QED
      BY <2>5, <2>7, <3>1 DEF Readable
  <2>10. ASSUME capture.magic # "native", written # <<>>, Readable(O) PROVE FALSE
    <3>1. O.magic = "swapped"
      BY <2>3, <2>4, <2>10
    <3>2. 1 \in 1 .. N /\ (1 - 1) + 1 = 1
      BY <2>1, <2>10 DEF N
    <3>3. InclLen(O, 1) = Value(Reverse(WordOf(L(1))))
      BY <2>6, <3>1, <3>2 DEF InclLen, MaybeSwap32
    <3>4. InclLen(O, 1) = 65536
      BY <2>2, <3>2, <3>3, WordReads
    <3>5. InclLen(O, 1) <= 65535
      BY <2>5, <2>10, <3>2 DEF Readable, HasNext
    <3>. QED
      BY <3>4, <3>5
  <2>. QED
    BY <2>8, <2>9, <2>10 DEF O
<1>. QED
  BY <1>1, TypeInit, TypeStep, ReadInit, ReadStep, PTL DEF Spec
-----------------------------------------------------------------------------
(* The loop over the extensions.                                           *)

Bytes(p) == p.bytes \in [DOMAIN p.bytes -> Byte]

LoopStep(g, p, end, k) ==
  IF k + 4 > end THEN {}
  ELSE IF Fits(p, k, end) /\ ExtensionType(p, k) # 0
       THEN {k} \cup g[k + 4 + ExtensionLength(p, k)]
       ELSE {k}

LoopEquation(g, p, end) == g = [k \in Nat |-> LoopStep(g, p, end, k)]

Loop(p, end) == CHOOSE g : LoopEquation(g, p, end)

LEMMA VisitedIsLoop ==
  ASSUME NEW p, NEW len, HasExtensions(p, len)
  PROVE  Visited(p, len) = Loop(p, ExtensionsEnd(p, len))[Extensions(p) + 2]
BY DEF Visited, Loop, LoopEquation, LoopStep

LEMMA NumbersInBytes ==
  ASSUME NEW p, Bytes(p)
  PROVE  /\ \A k : At(p, k) \in Byte /\ At(p, k) \in Nat
         /\ \A k : U16(p, k) \in Nat
<1>1. \A k : At(p, k) \in Byte
  BY DEF At, Bytes, Byte
<1>2. \A k : At(p, k) \in Nat
  BY <1>1 DEF Byte
<1>3. \A k : U16(p, k) \in Nat
  BY <1>2 DEF U16
<1>. QED
  BY <1>1, <1>2, <1>3

(* The loop comes to an end, as each extension lies behind the one before. *)
LEMMA LoopDefined ==
  ASSUME NEW p, Bytes(p), NEW end \in Nat PROVE \E g : LoopEquation(g, p, end)
<1>. DEFINE upTo(m, g) == \A k \in Nat : end - k <= m => g[k] = LoopStep(g, p, end, k)
            C == {m \in Nat : \E g : upTo(m, g)}
<1>0. \A k \in Nat : k + 4 + ExtensionLength(p, k) \in Nat
                     /\ k + 4 + ExtensionLength(p, k) >= k + 4
  BY NumbersInBytes DEF ExtensionLength
<1>1. 0 \in C
  <2>1. upTo(0, [k \in Nat |-> {}])
    BY DEF LoopStep
  <2>. QED
    BY <2>1
<1>2. ASSUME NEW m \in Nat, m \in C PROVE m + 1 \in C
  <2>1. PICK g : upTo(m, g)
    BY <1>2
  <2>. DEFINE h == [k \in Nat |-> LoopStep(g, p, end, k)]
  <2>2. ASSUME NEW k \in Nat, end - k <= m + 1 PROVE h[k] = LoopStep(h, p, end, k)
    <3>. DEFINE n == k + 4 + ExtensionLength(p, k)
    <3>1. n \in Nat /\ end - n <= m
      BY <1>0, <2>2
    <3>2. h[n] = g[n]
      BY <2>1, <3>1
    <3>. HIDE DEF h, n
    <3>3. LoopStep(h, p, end, k) = LoopStep(g, p, end, k)
      BY <3>2 DEF LoopStep, n
    <3>. QED
      BY <3>3 DEF h
  <2>. HIDE DEF h
  <2>3. upTo(m + 1, h)
    BY <2>2
  <2>. QED
    BY <2>3
<1>3. end \in C
  <2>. HIDE DEF C
  <2>. QED
    BY <1>1, <1>2, InductiveSet
<1>4. PICK g : upTo(end, g)
  BY <1>3
<1>5. \A k \in Nat : g[k] = LoopStep(g, p, end, k)
  BY <1>4
<1>. DEFINE h == [k \in Nat |-> g[k]]
<1>6. \A k \in Nat : LoopStep(h, p, end, k) = LoopStep(g, p, end, k)
  BY <1>0 DEF LoopStep
<1>7. h = [k \in Nat |-> LoopStep(h, p, end, k)]
  BY <1>5, <1>6
<1>8. LoopEquation(h, p, end)
  BY <1>7 DEF LoopEquation
<1>. QED
  BY <1>8

LEMMA LoopUnfolds ==
  ASSUME NEW p, Bytes(p), NEW end \in Nat, NEW k \in Nat
  PROVE  Loop(p, end)[k] = LoopStep(Loop(p, end), p, end, k)
<1>1. LoopEquation(Loop(p, end), p, end)
  BY LoopDefined DEF Loop
<1>. QED
  BY <1>1 DEF LoopEquation

(* Wherever it starts, it only looks at a type and a length before the end.*)
LEMMA LoopInside ==
  ASSUME NEW p, Bytes(p), NEW end \in Nat, NEW k \in Nat
  PROVE  \A j \in Loop(p, end)[k] : j \in Nat /\ j + 4 <= end
<1>. DEFINE inside(i) == \A j \in Loop(p, end)[i] : j \in Nat /\ j + 4 <= end
            C == {m \in Nat : \A i \in Nat : end - i <= m => inside(i)}
<1>1. 0 \in C
  <2>1. \A i \in Nat : end - i <= 0 => LoopStep(Loop(p, end), p, end, i) = {}
    BY DEF LoopStep
  <2>2. \A i \in Nat : end - i <= 0 => Loop(p, end)[i] = {}
    BY <2>1, LoopUnfolds
  <2>. QED
    BY <2>2
<1>2. ASSUME NEW m \in Nat, m \in C PROVE m + 1 \in C
  <2>. SUFFICES ASSUME NEW i \in Nat, end - i <= m + 1 PROVE inside(i)
    OBVIOUS
  <2>. DEFINE n == i + 4 + ExtensionLength(p, i)
  <2>1. n \in Nat /\ end - n <= m
    BY NumbersInBytes DEF ExtensionLength
  <2>2. inside(n)
    BY <1>2, <2>1
  <2>. HIDE DEF n
  <2>3. Loop(p, end)[i] = LoopStep(Loop(p, end), p, end, i)
    BY LoopUnfolds
  <2>4. \/ Loop(p, end)[i] = {}
        \/ /\ i + 4 <= end
           /\ Loop(p, end)[i] = {i} \/ Loop(p, end)[i] = {i} \cup Loop(p, end)[n]
    BY <2>3 DEF LoopStep, n
  <2>. QED
    BY <2>2, <2>4
<1>3. end \in C
  <2>. HIDE DEF C
  <2>. QED
    BY <1>1, <1>2, InductiveSet
<1>. QED
  BY <1>3
-----------------------------------------------------------------------------
(* The places of a hello.                                                  *)
LEMMA HelloPlaces ==
  ASSUME NEW p, Bytes(p), NEW len \in Nat
  PROVE  /\ CipherSuites(p) \in Nat /\ Compression(p) \in Nat /\ Extensions(p) \in Nat
         /\ ExtensionsEnd(p, len) \in Nat /\ ExtensionsEnd(p, len) <= len
<1>1. CipherSuites(p) \in Nat
  BY NumbersInBytes DEF CipherSuites, SessionId
<1>2. Compression(p) \in Nat
  BY <1>1, NumbersInBytes DEF Compression
<1>3. Extensions(p) \in Nat
  BY <1>2, NumbersInBytes DEF Extensions
<1>4. U16(p, Extensions(p)) \in Nat
  BY NumbersInBytes
<1>5. ExtensionsEnd(p, len) \in Nat /\ ExtensionsEnd(p, len) <= len
  BY <1>3, <1>4 DEF ExtensionsEnd
<1>. QED
  BY <1>1, <1>2, <1>3, <1>5

(* No read of the extractor goes behind the payload.                       *)
LEMMA EndsInside ==
  ASSUME NEW p, Bytes(p), NEW len \in Nat, NEW e \in ReadEnds(p, len)
  PROVE  e <= len
<1>. DEFINE end == ExtensionsEnd(p, len)
<1>1. end \in Nat /\ end <= len
  BY HelloPlaces
<1>2. \A k \in Visited(p, len) : k \in Nat /\ k + 4 <= end
  <2>1. CASE HasExtensions(p, len)
    <3>1. Visited(p, len) = Loop(p, end)[Extensions(p) + 2]
      BY <2>1, VisitedIsLoop
    <3>2. Extensions(p) + 2 \in Nat
      BY HelloPlaces
    <3>. QED
      BY <1>1, <3>1, <3>2, LoopInside
  <2>2. CASE ~HasExtensions(p, len)
    BY <2>2 DEF Visited
  <2>. QED
    BY <2>1, <2>2
<1>3. \A k \in ServerNames(p, len) :
        /\ k \in Nat /\ ExtensionLength(p, k) \in Nat
        /\ ExtensionLength(p, k) >= 5 /\ k + 4 + ExtensionLength(p, k) <= end
  BY <1>2, NumbersInBytes DEF ServerNames, Fits, ExtensionLength
<1>4. \A k \in ServerNames(p, len) : Acceptable(p, k) =>
        NameLength(p, k) \in Nat /\ NameLength(p, k) <= ExtensionLength(p, k) - 5
  BY NumbersInBytes DEF Acceptable, NameLength
<1>. HIDE DEF end
<1>5. CASE e \in {k + 4 : k \in Visited(p, len)}
  BY <1>1, <1>2, <1>5
<1>6. CASE e \in {k + 9 : k \in ServerNames(p, len)}
  <2>1. PICK k \in ServerNames(p, len) : e = k + 9
    BY <1>6
  <2>2. PICK x \in Nat : x = ExtensionLength(p, k)
    BY <1>3
  <2>. QED
    BY <1>1, <1>3, <2>1, <2>2
<1>7. CASE e \in {k + 9 + NameLength(p, k) :
                    k \in {s \in ServerNames(p, len) : Acceptable(p, s)}}
  <2>1. PICK k \in ServerNames(p, len) : e = k + 9 + NameLength(p, k) /\ Acceptable(p, k)
    BY <1>7
  <2>2. PICK x \in Nat, y \in Nat : x = ExtensionLength(p, k) /\ y = NameLength(p, k)
    BY <1>3, <1>4, <2>1
  <2>3. e = k + 9 + y /\ y <= x - 5 /\ k + 4 + x <= end /\ k \in Nat
    BY <1>3, <1>4, <2>1, <2>2
  <2>. QED
    BY <1>1, <2>2, <2>3
<1>8. CASE \/ e = 9 /\ IsClientHello(p, len)
           \/ e = SessionId + 1 /\ HasSessionId(p, len)
           \/ e = CipherSuites(p) + 2 /\ HasCipherSuites(p, len)
           \/ e = Compression(p) + 1 /\ HasCompression(p, len)
           \/ e = Extensions(p) + 2 /\ HasExtensions(p, len)
  <2>1. IsClientHello(p, len) => 9 <= len
    BY DEF IsClientHello
  <2>2. HasSessionId(p, len) => SessionId + 1 <= len
    BY DEF HasSessionId, SessionId
  <2>3. HasCipherSuites(p, len) => CipherSuites(p) + 2 <= len
    BY DEF HasCipherSuites
  <2>4. HasCompression(p, len) => Compression(p) + 1 <= len
    BY HelloPlaces DEF HasCompression
  <2>5. HasExtensions(p, len) => Extensions(p) + 2 <= len
    BY DEF HasExtensions
  <2>. QED
    BY <1>8, <2>1, <2>2, <2>3, <2>4, <2>5
<1>. QED
  BY <1>5, <1>6, <1>7, <1>8 DEF ReadEnds

(* Whatever the lengths in a packet say, the extractor reads no byte that  *)
(* was not captured: not in the header, not at the length of the session   *)
(* id, the cipher suites, the compression methods or the extensions, and   *)
(* not in the loop over the extensions or in the name.                     *)
THEOREM ReadsAlwaysStayInside == Spec => []ReadsStayInside
<1>1. TypeOK => ReadsStayInside
  <2>. SUFFICES ASSUME TypeOK, NEW i \in Ids, HasTCP(FrameOf(i)), PayloadLen(FrameOf(i)) > 5,
                       NEW e \in ReadEnds(FrameOf(i).payload, PayloadLen(FrameOf(i)))
                PROVE  e <= PayloadLen(FrameOf(i))
    BY DEF ReadsStayInside
  <2>. DEFINE f == FrameOf(i)
  <2>1. /\ f.len \in Nat /\ f.ihl \in 0 .. 15 /\ f.doff \in 0 .. 15
        /\ Bytes(f.payload)
    <3>1. capture \in Captures /\ i \in DOMAIN capture.records /\ Parsed(f)
      BY Records DEF TypeOK, Parsed
    <3>. QED
      BY <3>1, CaptureAssumption DEF FrameOf, Bytes
  <2>2. PayloadLen(f) \in Nat
    BY <2>1 DEF PayloadLen, PayloadOffset, TransportOffset, EthHeaderLen
  <2>. HIDE DEF f
  <2>3. ReadEnds(f.payload, PayloadLen(f)) = ReadEnds(FrameOf(i).payload, PayloadLen(FrameOf(i)))
    BY DEF f
  <2>4. e <= PayloadLen(f)
    BY <2>1, <2>2, <2>3, EndsInside
  <2>. QED
    BY <2>4 DEF f
<1>. QED
  BY <1>1, TypeInit, TypeStep, PTL DEF Spec
-----------------------------------------------------------------------------
(* Where the parts of the documented ClientHello lie.                      *)
CiphersAt(h) == 44 + h.session
CompressionAt(h) == CiphersAt(h) + 2 + h.ciphers
ExtensionsAt(h) == CompressionAt(h) + 1 + h.compression
LengthsOf(h) == h.before \o <<h.nameLength + 5>> \o h.after
NameIndex(h) == Len(h.before) + 1
BeginEquation(b, h) ==
  b = [i \in 1 .. Len(LengthsOf(h)) + 1 |->
         IF i = 1 THEN ExtensionsAt(h) + 2 ELSE b[i - 1] + 4 + LengthsOf(h)[i - 1]]
BeginOf(h) == CHOOSE b : BeginEquation(b, h)
EndOf(h) == BeginOf(h)[Len(LengthsOf(h)) + 1]
NumbersOf(h) ==
  {<<1, 769>>, <<3, EndOf(h) - 5>>, <<CiphersAt(h), h.ciphers>>,
   <<ExtensionsAt(h), EndOf(h) - (ExtensionsAt(h) + 2)>>,
   <<BeginOf(h)[NameIndex(h)] + 4, h.nameLength + 3>>,
   <<BeginOf(h)[NameIndex(h)] + 7, h.nameLength>>}
  \cup {<<BeginOf(h)[i], IF i = NameIndex(h) THEN 0 ELSE 10>> : i \in DOMAIN LengthsOf(h)}
  \cup {<<BeginOf(h)[i] + 2, LengthsOf(h)[i]>> : i \in DOMAIN LengthsOf(h)}
OctetsOf(h) ==
  {<<0, 22>>, <<5, 1>>, <<43, h.session>>, <<CompressionAt(h), h.compression>>}
  \cup {<<n[1], n[2] \div 256>> : n \in NumbersOf(h)}
  \cup {<<n[1] + 1, n[2] % 256>> : n \in NumbersOf(h)}

LEMMA HelloIs ==
  ASSUME NEW h
  PROVE  Hello(h) =
           [len |-> EndOf(h),
            payload |->
              [bytes |-> [k \in {o[1] : o \in OctetsOf(h)} |->
                            (CHOOSE o \in OctetsOf(h) : o[1] = k)[2]],
               texts |-> {[at |-> BeginOf(h)[NameIndex(h)] + 9, len |-> h.nameLength,
                           text |-> h.name]},
               method |-> FALSE, hosts |-> <<>>]]
BY DEF Hello, OctetsOf, NumbersOf, EndOf, BeginOf, BeginEquation, NameIndex, LengthsOf,
       ExtensionsAt, CompressionAt, CiphersAt

LEMMA HelloLengths ==
  ASSUME NEW h \in Hellos
  PROVE  /\ LengthsOf(h) \in Seq(Nat) /\ Len(LengthsOf(h)) \in Nat
         /\ DOMAIN LengthsOf(h) = 1 .. Len(LengthsOf(h))
         /\ \A i \in 1 .. Len(LengthsOf(h)) : LengthsOf(h)[i] \in Nat
         /\ NameIndex(h) \in 1 .. Len(LengthsOf(h))
         /\ LengthsOf(h)[NameIndex(h)] = h.nameLength + 5
         /\ CiphersAt(h) \in Nat /\ CiphersAt(h) >= 44
         /\ CompressionAt(h) \in Nat /\ CompressionAt(h) = CiphersAt(h) + 2 + h.ciphers
         /\ ExtensionsAt(h) \in Nat /\ ExtensionsAt(h) = CompressionAt(h) + 1 + h.compression
         /\ h.session \in Nat /\ h.ciphers \in Nat /\ h.compression \in Nat
         /\ h.nameLength \in Nat
<1>1. /\ h.session \in Nat /\ h.ciphers \in Nat /\ h.compression \in Nat
      /\ h.nameLength \in Nat /\ h.before \in Seq(Nat) /\ h.after \in Seq(Nat)
  BY HelloAssumption
<1>2. PICK s \in Seq(Nat), t \in Seq(Nat), m \in Nat :
        s = h.before /\ t = h.after /\ m = h.nameLength + 5
  BY <1>1
<1>3. LengthsOf(h) = s \o <<m>> \o t /\ NameIndex(h) = Len(s) + 1
  BY <1>2 DEF LengthsOf, NameIndex
<1>4. /\ s \o <<m>> \in Seq(Nat) /\ Len(s \o <<m>>) = Len(s) + 1
      /\ (s \o <<m>>)[Len(s) + 1] = m
  BY <1>2
<1>5. PICK u \in Seq(Nat) : u = s \o <<m>>
  BY <1>4
<1>6. /\ u \o t \in Seq(Nat) /\ Len(u \o t) = Len(u) + Len(t)
      /\ Len(u) \in Nat /\ Len(t) \in Nat /\ Len(s) \in Nat
      /\ \A i \in 1 .. Len(u) : (u \o t)[i] = u[i]
  OBVIOUS
<1>7. LengthsOf(h) = u \o t
  BY <1>3, <1>5
<1>8. Len(s) + 1 \in 1 .. Len(u)
  BY <1>4, <1>5, <1>6
<1>9. PICK w \in Seq(Nat) : w = u \o t
  BY <1>6
<1>10. /\ LengthsOf(h) \in Seq(Nat) /\ Len(LengthsOf(h)) \in Nat
       /\ DOMAIN LengthsOf(h) = 1 .. Len(LengthsOf(h))
       /\ \A i \in 1 .. Len(LengthsOf(h)) : LengthsOf(h)[i] \in Nat
  BY <1>7, <1>9
<1>11. NameIndex(h) \in 1 .. Len(LengthsOf(h)) /\ LengthsOf(h)[NameIndex(h)] = h.nameLength + 5
  <2>1. NameIndex(h) \in 1 .. Len(u \o t)
    BY <1>3, <1>6, <1>8
  <2>2. (u \o t)[NameIndex(h)] = m
    BY <1>3, <1>4, <1>5, <1>6, <1>8
  <2>. QED
    BY <1>2, <1>7, <2>1, <2>2
<1>12. /\ CiphersAt(h) \in Nat /\ CiphersAt(h) >= 44
       /\ CompressionAt(h) \in Nat /\ CompressionAt(h) = CiphersAt(h) + 2 + h.ciphers
       /\ ExtensionsAt(h) \in Nat /\ ExtensionsAt(h) = CompressionAt(h) + 1 + h.compression
  <2>1. PICK x \in Nat, y \in Nat, z \in Nat :
          x = h.session /\ y = h.ciphers /\ z = h.compression
    BY <1>1
  <2>2. CiphersAt(h) = 44 + x
    BY <2>1 DEF CiphersAt
  <2>3. CompressionAt(h) = CiphersAt(h) + 2 + y
    BY <2>1 DEF CompressionAt
  <2>4. ExtensionsAt(h) = CompressionAt(h) + 1 + z
    BY <2>1 DEF ExtensionsAt
  <2>5. CiphersAt(h) \in Nat /\ CiphersAt(h) >= 44
    BY <2>2
  <2>6. CompressionAt(h) \in Nat
    BY <2>3, <2>5
  <2>7. ExtensionsAt(h) \in Nat
    BY <2>4, <2>6
  <2>. QED
    BY <2>5, <2>6, <2>7 DEF CompressionAt, ExtensionsAt
<1>. QED
  BY <1>1, <1>10, <1>11, <1>12

LEMMA BeginDefined ==
  ASSUME NEW h \in Hellos PROVE \E b : BeginEquation(b, h)
<1>. DEFINE s == LengthsOf(h)
            N == Len(s)
            a == ExtensionsAt(h) + 2
            F == [i \in 1 .. N |-> [x \in Nat |-> x + 4 + s[i]]]
<1>1. N \in Nat /\ a \in Nat /\ \A i \in 1 .. N : s[i] \in Nat
  BY HelloLengths
<1>. HIDE DEF a, N, s
<1>2. F \in [1 .. N -> [Nat -> Nat]]
  BY <1>1
<1>3. HasRecursion(N, Nat, a, F)
  <2>. HIDE DEF F
  <2>. QED
    BY <1>1, <1>2, RecursiveFunction
<1>4. PICK g \in [0 .. N -> Nat] : g[0] = a /\ \A n \in 1 .. N : g[n] = F[n][g[n - 1]]
  BY <1>3 DEF HasRecursion
<1>5. \A n \in 1 .. N : g[n] = g[n - 1] + 4 + s[n]
  <2>. SUFFICES ASSUME NEW n \in 1 .. N PROVE g[n] = g[n - 1] + 4 + s[n]
    OBVIOUS
  <2>1. g[n - 1] \in Nat
    BY <1>1, <1>4
  <2>. QED
    BY <1>4, <2>1
<1>. DEFINE b == [i \in 1 .. N + 1 |-> g[i - 1]]
<1>6. \A i \in 1 .. N + 1 : b[i] = IF i = 1 THEN a ELSE b[i - 1] + 4 + s[i - 1]
  <2>. SUFFICES ASSUME NEW i \in 1 .. N + 1
                PROVE  b[i] = IF i = 1 THEN a ELSE b[i - 1] + 4 + s[i - 1]
    OBVIOUS
  <2>1. CASE i = 1
    BY <1>1, <1>4, <2>1
  <2>2. CASE i # 1
    <3>1. i - 1 \in 1 .. N /\ i - 1 \in 1 .. N + 1
      BY <1>1, <2>2
    <3>2. b[i] = g[i - 1] /\ b[i - 1] = g[(i - 1) - 1]
      BY <3>1
    <3>. QED
      BY <1>5, <2>2, <3>1, <3>2
  <2>. QED
    BY <2>1, <2>2
<1>7. b = [i \in 1 .. N + 1 |-> IF i = 1 THEN a ELSE b[i - 1] + 4 + s[i - 1]]
  BY <1>6
<1>8. BeginEquation(b, h)
  BY <1>7 DEF BeginEquation, N, a, s
<1>. QED
  BY <1>8

(* Where the extensions begin: each behind the one before.                 *)
LEMMA Beginnings ==
  ASSUME NEW h \in Hellos
  PROVE  /\ BeginOf(h)[1] = ExtensionsAt(h) + 2
         /\ \A i \in 1 .. Len(LengthsOf(h)) :
              /\ BeginOf(h)[i] \in Nat /\ BeginOf(h)[i + 1] \in Nat
              /\ BeginOf(h)[i + 1] = BeginOf(h)[i] + 4 + LengthsOf(h)[i]
<1>. DEFINE s == LengthsOf(h)
            N == Len(s)
            b == BeginOf(h)
            C == {i \in Nat : i < N => b[i + 1] \in Nat}
<1>1. N \in Nat /\ ExtensionsAt(h) + 2 \in Nat /\ \A i \in 1 .. N : s[i] \in Nat
  BY HelloLengths
<1>2. b = [i \in 1 .. N + 1 |-> IF i = 1 THEN ExtensionsAt(h) + 2 ELSE b[i - 1] + 4 + s[i - 1]]
  BY BeginDefined DEF BeginOf, BeginEquation
<1>. HIDE DEF b, N, s
<1>3. b[1] = ExtensionsAt(h) + 2
  BY <1>1, <1>2
<1>4. ASSUME NEW i \in 1 .. N PROVE b[i + 1] = b[i] + 4 + s[i]
  <2>1. i + 1 \in 1 .. N + 1 /\ i + 1 # 1 /\ (i + 1) - 1 = i
    BY <1>1
  <2>. QED
    BY <1>2, <2>1
<1>5. ASSUME NEW i \in Nat, i \in C PROVE i + 1 \in C
  <2>. SUFFICES ASSUME i + 1 < N PROVE b[(i + 1) + 1] \in Nat
    OBVIOUS
  <2>1. i + 1 \in 1 .. N /\ b[i + 1] \in Nat
    BY <1>1, <1>5
  <2>. QED
    BY <1>1, <1>4, <2>1
<1>6. 0 \in C
  BY <1>1, <1>3
<1>7. Nat \subseteq C
  <2>. HIDE DEF C
  <2>. QED
    BY <1>5, <1>6, InductiveSet
<1>8. ASSUME NEW i \in 1 .. N PROVE b[i] \in Nat /\ b[i + 1] \in Nat
  <2>1. i - 1 \in C /\ i - 1 < N /\ (i - 1) + 1 = i
    BY <1>1, <1>7
  <2>2. b[i] \in Nat
    BY <2>1
  <2>. QED
    BY <1>1, <1>4, <2>2
<1>. QED
  BY <1>3, <1>4, <1>8 DEF b, N, s

LEMMA InOrder ==
  ASSUME NEW h \in Hellos, NEW i \in 1 .. Len(LengthsOf(h))
  PROVE  \A j \in 1 .. Len(LengthsOf(h)) + 1 :
           i < j => BeginOf(h)[i] + 4 + LengthsOf(h)[i] <= BeginOf(h)[j]
<1>. DEFINE s == LengthsOf(h)
            N == Len(s)
            b == BeginOf(h)
            C == {d \in Nat : i + d <= N => b[i] + 4 + s[i] <= b[(i + d) + 1]}
<1>1. /\ N \in Nat /\ \A k \in 1 .. N : s[k] \in Nat
      /\ \A k \in 1 .. N : b[k] \in Nat /\ b[k + 1] \in Nat /\ b[k + 1] = b[k] + 4 + s[k]
  BY HelloLengths, Beginnings
<1>. HIDE DEF b, N, s
<1>0. i \in 1 .. N
  BY DEF N, s
<1>2. 0 \in C
  BY <1>0, <1>1
<1>3. ASSUME NEW d \in Nat, d \in C PROVE d + 1 \in C
  <2>. SUFFICES ASSUME i + (d + 1) <= N PROVE b[i] + 4 + s[i] <= b[(i + (d + 1)) + 1]
    OBVIOUS
  <2>1. PICK k \in 1 .. N : k = (i + d) + 1 /\ k = i + (d + 1)
    BY <1>0, <1>1
  <2>2. b[i] + 4 + s[i] <= b[k]
    BY <1>0, <1>1, <1>3, <2>1
  <2>3. b[i] \in Nat /\ s[i] \in Nat
    BY <1>0, <1>1
  <2>4. b[k] \in Nat /\ b[k + 1] \in Nat /\ s[k] \in Nat /\ b[k + 1] = b[k] + 4 + s[k]
    BY <1>1
  <2>5. b[i] + 4 + s[i] <= b[k + 1]
    BY <2>2, <2>3, <2>4, SMTT(30)
  <2>. QED
    BY <2>1, <2>5
<1>4. Nat \subseteq C
  <2>. HIDE DEF C
  <2>. QED
    BY <1>2, <1>3, InductiveSet
<1>5. ASSUME NEW j \in 1 .. N + 1, i < j PROVE b[i] + 4 + s[i] <= b[j]
  <2>1. PICK d \in Nat : d = j - 1 - i
    BY <1>0, <1>1, <1>5
  <2>2. i + d <= N /\ (i + d) + 1 = j
    BY <1>0, <1>1, <2>1
  <2>3. d \in C
    BY <1>4
  <2>. QED
    BY <2>2, <2>3
<1>. QED
  BY <1>5 DEF b, N, s
-----------------------------------------------------------------------------
(* No byte of the hello is given two values: the numbers before the        *)
(* extensions, and those of each extension, lie apart.                     *)

HeadNumbers(h) ==
  {<<1, 769>>, <<3, EndOf(h) - 5>>, <<CiphersAt(h), h.ciphers>>,
   <<ExtensionsAt(h), EndOf(h) - (ExtensionsAt(h) + 2)>>}

ExtensionNumbers(h, i) ==
  {<<BeginOf(h)[i], IF i = NameIndex(h) THEN 0 ELSE 10>>, <<BeginOf(h)[i] + 2, LengthsOf(h)[i]>>}
  \cup IF i = NameIndex(h)
       THEN {<<BeginOf(h)[i] + 4, h.nameLength + 3>>, <<BeginOf(h)[i] + 7, h.nameLength>>}
       ELSE {}

LEMMA NumbersAre ==
  ASSUME NEW h \in Hellos
  PROVE  \A n : n \in NumbersOf(h) <=>
           \/ n \in HeadNumbers(h)
           \/ \E i \in 1 .. Len(LengthsOf(h)) : n \in ExtensionNumbers(h, i)
<1>1. DOMAIN LengthsOf(h) = 1 .. Len(LengthsOf(h)) /\ NameIndex(h) \in 1 .. Len(LengthsOf(h))
  BY HelloLengths
<1>. QED
  BY <1>1 DEF NumbersOf, HeadNumbers, ExtensionNumbers

LEMMA HeadApart ==
  ASSUME NEW h \in Hellos, NEW n \in HeadNumbers(h)
  PROVE  /\ n[1] \in Nat /\ n[1] + 1 <= ExtensionsAt(h) + 1
         /\ \A z \in {0, 5, 43, CompressionAt(h)} : n[1] # z /\ n[1] + 1 # z
         /\ \A m \in HeadNumbers(h) : (m[1] = n[1] => m = n) /\ m[1] + 1 # n[1]
<1>1. PICK c \in Nat, p \in Nat, x \in Nat, y \in Nat, w \in Nat :
        /\ c = CiphersAt(h) /\ p = CompressionAt(h) /\ x = ExtensionsAt(h)
        /\ y = h.ciphers /\ w = h.compression
        /\ c >= 44 /\ p = c + 2 + y /\ x = p + 1 + w
  BY HelloLengths
<1>. DEFINE u == EndOf(h) - 5
            v == EndOf(h) - (ExtensionsAt(h) + 2)
<1>2. HeadNumbers(h) = {<<1, 769>>, <<3, u>>, <<c, y>>, <<x, v>>}
  BY <1>1 DEF HeadNumbers
<1>. HIDE DEF u, v
<1>3. \A m \in HeadNumbers(h) :
        \/ m[1] = 1 /\ m = <<1, 769>>
        \/ m[1] = 3 /\ m = <<3, u>>
        \/ m[1] = c /\ m = <<c, y>>
        \/ m[1] = x /\ m = <<x, v>>
  BY <1>2
<1>4. n[1] \in Nat /\ n[1] + 1 <= x + 1
  BY <1>1, <1>3
<1>5. \A z \in {0, 5, 43, p} : n[1] # z /\ n[1] + 1 # z
  BY <1>1, <1>3
<1>6. ASSUME NEW m \in HeadNumbers(h) PROVE (m[1] = n[1] => m = n) /\ m[1] + 1 # n[1]
  BY <1>1, <1>3
<1>. QED
  BY <1>1, <1>4, <1>5, <1>6

LEMMA ExtensionApart ==
  ASSUME NEW h \in Hellos, NEW i \in 1 .. Len(LengthsOf(h)), NEW n \in ExtensionNumbers(h, i)
  PROVE  /\ n[1] \in Nat /\ BeginOf(h)[i] <= n[1]
         /\ n[1] + 2 <= BeginOf(h)[i] + 4 + LengthsOf(h)[i]
         /\ \A m \in ExtensionNumbers(h, i) : (m[1] = n[1] => m = n) /\ m[1] + 1 # n[1]
         /\ BeginOf(h)[i] + 6 # n[1] /\ BeginOf(h)[i] + 6 # n[1] + 1
<1>1. PICK b \in Nat, s \in Nat, l \in Nat :
        b = BeginOf(h)[i] /\ s = LengthsOf(h)[i] /\ l = h.nameLength
  BY HelloLengths, Beginnings
<1>2. CASE i = NameIndex(h)
  <2>1. s = l + 5
    BY <1>1, <1>2, HelloLengths
  <2>2. ExtensionNumbers(h, i) = {<<b, 0>>, <<b + 2, s>>, <<b + 4, l + 3>>, <<b + 7, l>>}
    BY <1>1, <1>2 DEF ExtensionNumbers
  <2>3. \A m \in ExtensionNumbers(h, i) :
          \/ m[1] = b /\ m = <<b, 0>>
          \/ m[1] = b + 2 /\ m = <<b + 2, s>>
          \/ m[1] = b + 4 /\ m = <<b + 4, l + 3>>
          \/ m[1] = b + 7 /\ m = <<b + 7, l>>
    BY <2>2
  <2>4. ASSUME NEW m \in ExtensionNumbers(h, i)
        PROVE  (m[1] = n[1] => m = n) /\ m[1] + 1 # n[1]
    BY <2>3
  <2>5. /\ n[1] \in Nat /\ b <= n[1] /\ n[1] + 2 <= b + 4 + s
        /\ b + 6 # n[1] /\ b + 6 # n[1] + 1
    BY <2>1, <2>3
  <2>. QED
    BY <1>1, <2>4, <2>5
<1>3. CASE i # NameIndex(h)
  <2>1. ExtensionNumbers(h, i) = {<<b, 10>>, <<b + 2, s>>}
    BY <1>1, <1>3 DEF ExtensionNumbers
  <2>. QED
    BY <1>1, <2>1, SMTT(30)
<1>. QED
  BY <1>2, <1>3

LEMMA ExtensionsBehind ==
  ASSUME NEW h \in Hellos, NEW i \in 1 .. Len(LengthsOf(h))
  PROVE  BeginOf(h)[i] \in Nat /\ BeginOf(h)[i] >= ExtensionsAt(h) + 2
<1>1. PICK N \in Nat : N = Len(LengthsOf(h))
  BY HelloLengths
<1>2. /\ BeginOf(h)[1] = ExtensionsAt(h) + 2 /\ ExtensionsAt(h) \in Nat
      /\ BeginOf(h)[i] \in Nat /\ LengthsOf(h)[1] \in Nat
  BY <1>1, HelloLengths, Beginnings
<1>3. CASE i = 1
  BY <1>2, <1>3
<1>4. CASE i # 1
  <2>1. 1 \in 1 .. N /\ i \in 1 .. N + 1 /\ 1 < i
    BY <1>1, <1>4
  <2>2. BeginOf(h)[1] + 4 + LengthsOf(h)[1] <= BeginOf(h)[i]
    BY <1>1, <2>1, InOrder
  <2>. QED
    BY <1>2, <2>2
<1>. QED
  BY <1>3, <1>4

LEMMA NumbersApart ==
  ASSUME NEW h \in Hellos, NEW n \in NumbersOf(h)
  PROVE  /\ n[1] \in Nat
         /\ \A z \in {0, 5, 43, CompressionAt(h)} : n[1] # z /\ n[1] + 1 # z
         /\ \A m \in NumbersOf(h) : (m[1] = n[1] => m = n) /\ m[1] + 1 # n[1]
         /\ LET z == BeginOf(h)[NameIndex(h)] + 6 IN n[1] # z /\ n[1] + 1 # z
<1>. DEFINE N == Len(LengthsOf(h))
            b == BeginOf(h)
            s == LengthsOf(h)
            x == ExtensionsAt(h)
            t == NameIndex(h)
<1>0. /\ N \in Nat /\ x \in Nat /\ t \in 1 .. N /\ CompressionAt(h) \in Nat
      /\ CompressionAt(h) < x /\ CompressionAt(h) >= 46
      /\ \A i \in 1 .. N : s[i] \in Nat
  <2>1. /\ N \in Nat /\ t \in 1 .. N /\ \A i \in 1 .. N : s[i] \in Nat
    BY HelloLengths
  <2>2. PICK c \in Nat, p \in Nat, y \in Nat, w \in Nat :
          /\ p = CompressionAt(h) /\ c >= 44 /\ p = c + 2 + y /\ ExtensionsAt(h) = p + 1 + w
    BY HelloLengths
  <2>. QED
    BY <2>1, <2>2
<1>. HIDE DEF N, b, s, x, t
<1>1. \A i \in 1 .. N : b[i] \in Nat /\ b[i] >= x + 2
  BY ExtensionsBehind DEF N, b, x
<1>2. \A i, j \in 1 .. N : i < j => b[i] + 4 + s[i] <= b[j]
  <2>1. \A i \in 1 .. N : i \in 1 .. N + 1
    BY <1>0
  <2>. QED
    BY <2>1, InOrder DEF N, b, s
<1>3. \A m \in HeadNumbers(h) :
        /\ m[1] \in Nat /\ m[1] + 1 <= x + 1
        /\ \A z \in {0, 5, 43, CompressionAt(h)} : m[1] # z /\ m[1] + 1 # z
        /\ \A k \in HeadNumbers(h) : (k[1] = m[1] => k = m) /\ k[1] + 1 # m[1]
  BY HeadApart DEF x
<1>4. \A i \in 1 .. N : \A m \in ExtensionNumbers(h, i) :
        /\ m[1] \in Nat /\ b[i] <= m[1] /\ m[1] + 2 <= b[i] + 4 + s[i]
        /\ \A k \in ExtensionNumbers(h, i) : (k[1] = m[1] => k = m) /\ k[1] + 1 # m[1]
        /\ b[i] + 6 # m[1] /\ b[i] + 6 # m[1] + 1
  BY ExtensionApart DEF N, b, s
<1>5. \A m \in NumbersOf(h) :
        m \in HeadNumbers(h) \/ \E i \in 1 .. N : m \in ExtensionNumbers(h, i)
  BY NumbersAre DEF N
<1>6. s[t] >= 5
  BY HelloLengths DEF s, t
<1>. SUFFICES /\ n[1] \in Nat
              /\ \A z \in {0, 5, 43, CompressionAt(h)} : n[1] # z /\ n[1] + 1 # z
              /\ \A m \in NumbersOf(h) : (m[1] = n[1] => m = n) /\ m[1] + 1 # n[1]
              /\ n[1] # b[t] + 6 /\ n[1] + 1 # b[t] + 6
  BY DEF b, t
<1>7. CASE n \in HeadNumbers(h)
  <2>1. ASSUME NEW m \in NumbersOf(h) PROVE (m[1] = n[1] => m = n) /\ m[1] + 1 # n[1]
    <3>1. CASE m \in HeadNumbers(h)
      BY <1>3, <1>7, <3>1
    <3>2. ASSUME NEW i \in 1 .. N, m \in ExtensionNumbers(h, i)
          PROVE (m[1] = n[1] => m = n) /\ m[1] + 1 # n[1]
      <4>1. m[1] \in Nat /\ m[1] >= x + 2
        BY <1>0, <1>1, <1>4, <3>2
      <4>2. n[1] \in Nat /\ n[1] + 1 <= x + 1
        BY <1>3, <1>7
      <4>. QED
        BY <1>0, <4>1, <4>2
    <3>. QED
      BY <1>5, <3>1, <3>2
  <2>2. n[1] # b[t] + 6 /\ n[1] + 1 # b[t] + 6
    BY <1>0, <1>1, <1>3, <1>7
  <2>. QED
    BY <1>3, <1>7, <2>1, <2>2
<1>8. ASSUME NEW i \in 1 .. N, n \in ExtensionNumbers(h, i)
      PROVE  /\ n[1] \in Nat
             /\ \A z \in {0, 5, 43, CompressionAt(h)} : n[1] # z /\ n[1] + 1 # z
             /\ \A m \in NumbersOf(h) : (m[1] = n[1] => m = n) /\ m[1] + 1 # n[1]
             /\ n[1] # b[t] + 6 /\ n[1] + 1 # b[t] + 6
  <2>1. /\ n[1] \in Nat /\ b[i] \in Nat /\ s[i] \in Nat /\ b[i] <= n[1]
        /\ n[1] + 2 <= b[i] + 4 + s[i] /\ b[i] >= x + 2
    BY <1>0, <1>1, <1>4, <1>8
  <2>2. \A z \in {0, 5, 43, CompressionAt(h)} : n[1] # z /\ n[1] + 1 # z
    BY <1>0, <2>1
  <2>3. ASSUME NEW m \in NumbersOf(h) PROVE (m[1] = n[1] => m = n) /\ m[1] + 1 # n[1]
    <3>1. CASE m \in HeadNumbers(h)
      <4>1. m[1] \in Nat /\ m[1] + 1 <= x + 1
        BY <1>3, <3>1
      <4>. QED
        BY <1>0, <2>1, <4>1
    <3>2. ASSUME NEW j \in 1 .. N, m \in ExtensionNumbers(h, j)
          PROVE (m[1] = n[1] => m = n) /\ m[1] + 1 # n[1]
      <4>1. /\ m[1] \in Nat /\ b[j] \in Nat /\ s[j] \in Nat /\ b[j] <= m[1]
            /\ m[1] + 2 <= b[j] + 4 + s[j]
        BY <1>0, <1>1, <1>4, <3>2
      <4>2. CASE i = j
        BY <1>4, <1>8, <3>2, <4>2
      <4>3. CASE i < j
        <5>1. b[i] + 4 + s[i] <= b[j]
          BY <1>2, <4>3
        <5>. QED
          BY <2>1, <4>1, <5>1
      <4>4. CASE j < i
        <5>1. b[j] + 4 + s[j] <= b[i]
          BY <1>2, <4>4
        <5>. QED
          BY <2>1, <4>1, <5>1
      <4>5. i = j \/ i < j \/ j < i
        BY <1>0
      <4>. QED
        BY <4>2, <4>3, <4>4, <4>5
    <3>. QED
      BY <1>5, <3>1, <3>2
  <2>4. n[1] # b[t] + 6 /\ n[1] + 1 # b[t] + 6
    <3>1. b[t] \in Nat /\ s[t] \in Nat /\ s[t] >= 5
      BY <1>0, <1>1, <1>6
    <3>2. CASE i = t
      BY <1>4, <1>8, <3>2
    <3>3. CASE i < t
      <4>1. b[i] + 4 + s[i] <= b[t]
        BY <1>0, <1>2, <3>3
      <4>. QED
        BY <2>1, <3>1, <4>1
    <3>4. CASE t < i
      <4>1. b[t] + 4 + s[t] <= b[i]
        BY <1>0, <1>2, <3>4
      <4>. QED
        BY <2>1, <3>1, <4>1
    <3>5. i = t \/ i < t \/ t < i
      BY <1>0
    <3>. QED
      BY <3>2, <3>3, <3>4, <3>5
  <2>. QED
    BY <2>1, <2>2, <2>3, <2>4
<1>. QED
  BY <1>5, <1>7, <1>8
-----------------------------------------------------------------------------
(* So the bytes of the hello are what the layout says.                     *)

LEMMA EndBehind ==
  ASSUME NEW h \in Hellos
  PROVE  EndOf(h) \in Nat /\ \A i \in 1 .. Len(LengthsOf(h)) :
           BeginOf(h)[i] + 4 + LengthsOf(h)[i] <= EndOf(h)
<1>1. PICK N \in Nat : N = Len(LengthsOf(h)) /\ N \in 1 .. N
  BY HelloLengths
<1>2. EndOf(h) = BeginOf(h)[N + 1]
  BY <1>1 DEF EndOf
<1>3. EndOf(h) \in Nat
  BY <1>1, <1>2, Beginnings
<1>4. ASSUME NEW i \in 1 .. N PROVE BeginOf(h)[i] + 4 + LengthsOf(h)[i] <= EndOf(h)
  <2>1. N + 1 \in 1 .. N + 1 /\ i < N + 1
    BY <1>1
  <2>. QED
    BY <1>1, <1>2, <2>1, InOrder
<1>. QED
  BY <1>1, <1>3, <1>4

LEMMA NumbersAreNat ==
  ASSUME NEW h \in Hellos, NEW n \in NumbersOf(h) PROVE n[2] \in Nat
<1>1. PICK N \in Nat : N = Len(LengthsOf(h)) /\ NameIndex(h) \in 1 .. N
  BY HelloLengths
<1>2. CASE n \in HeadNumbers(h)
  <2>1. PICK e \in Nat, x \in Nat, b \in Nat, s \in Nat :
          /\ e = EndOf(h) /\ x = ExtensionsAt(h) /\ b = BeginOf(h)[NameIndex(h)]
          /\ s = LengthsOf(h)[NameIndex(h)]
    BY <1>1, EndBehind, HelloLengths, ExtensionsBehind
  <2>2. b + 4 + s <= e
    BY <1>1, <2>1, EndBehind
  <2>3. b >= x + 2
    BY <1>1, <2>1, ExtensionsBehind
  <2>4. e - (x + 2) \in Nat /\ x >= 44
    <3>1. PICK c \in Nat, p \in Nat, y \in Nat, w \in Nat :
            c >= 44 /\ p = c + 2 + y /\ x = p + 1 + w
      BY <2>1, HelloLengths
    <3>. QED
      BY <2>1, <2>2, <2>3, <3>1
  <2>5. e - 5 \in Nat
    BY <2>1, <2>4
  <2>6. HeadNumbers(h) = {<<1, 769>>, <<3, e - 5>>, <<CiphersAt(h), h.ciphers>>,
                          <<ExtensionsAt(h), e - (x + 2)>>}
    BY <2>1 DEF HeadNumbers
  <2>7. h.ciphers \in Nat
    BY HelloLengths
  <2>8. n[2] = 769 \/ n[2] = e - 5 \/ n[2] = h.ciphers \/ n[2] = e - (x + 2)
    BY <1>2, <2>6
  <2>. QED
    BY <2>4, <2>5, <2>7, <2>8
<1>3. ASSUME NEW i \in 1 .. N, n \in ExtensionNumbers(h, i) PROVE n[2] \in Nat
  <2>1. h.nameLength \in Nat /\ h.nameLength + 3 \in Nat /\ LengthsOf(h)[i] \in Nat
    BY <1>1, HelloLengths, SMTT(30)
  <2>2. n[2] \in {0, 10, LengthsOf(h)[i], h.nameLength + 3, h.nameLength}
    BY <1>3 DEF ExtensionNumbers
  <2>. QED
    BY <2>1, <2>2
<1>. QED
  BY <1>1, <1>2, <1>3, NumbersAre

Singles(h) ==
  {<<0, 22>>, <<5, 1>>, <<43, h.session>>, <<CompressionAt(h), h.compression>>}

LEMMA OctetsUnique ==
  ASSUME NEW h \in Hellos, NEW o \in OctetsOf(h), NEW q \in OctetsOf(h), o[1] = q[1]
  PROVE  o[2] = q[2]
<1>1. PICK c \in Nat : c = CompressionAt(h) /\ c >= 46
  <2>1. PICK b \in Nat, p \in Nat, y \in Nat :
          p = CompressionAt(h) /\ b >= 44 /\ p = b + 2 + y
    BY HelloLengths
  <2>. QED
    BY <2>1
<1>2. Singles(h) = {<<0, 22>>, <<5, 1>>, <<43, h.session>>, <<c, h.compression>>}
  BY <1>1 DEF Singles
<1>3. \A s \in Singles(h) :
        \/ s[1] = 0 /\ s[2] = 22
        \/ s[1] = 5 /\ s[2] = 1
        \/ s[1] = 43 /\ s[2] = h.session
        \/ s[1] = c /\ s[2] = h.compression
  BY <1>2
<1>4. \A s, t \in Singles(h) : s[1] = t[1] => s[2] = t[2]
  BY <1>1, <1>3
<1>5. \A s \in Singles(h), n \in NumbersOf(h) : n[1] # s[1] /\ n[1] + 1 # s[1]
  <2>1. \A s \in Singles(h) : s[1] \in {0, 5, 43, CompressionAt(h)}
    BY <1>1, <1>3
  <2>2. \A n \in NumbersOf(h) : \A z \in {0, 5, 43, CompressionAt(h)} : n[1] # z /\ n[1] + 1 # z
    BY NumbersApart
  <2>. QED
    BY <2>1, <2>2
<1>6. \A n, m \in NumbersOf(h) : (m[1] = n[1] => m = n) /\ m[1] + 1 # n[1]
  BY NumbersApart
<1>7. \A n, m \in NumbersOf(h) : m[1] + 1 = n[1] + 1 => m = n
  <2>1. \A n \in NumbersOf(h) : n[1] \in Nat
    BY NumbersApart
  <2>. QED
    BY <1>6, <2>1
<1>8. \A a \in OctetsOf(h) :
        \/ a \in Singles(h)
        \/ \E n \in NumbersOf(h) : a[1] = n[1] /\ a[2] = n[2] \div 256
        \/ \E n \in NumbersOf(h) : a[1] = n[1] + 1 /\ a[2] = n[2] % 256
  BY DEF OctetsOf, Singles
<1>9. CASE o \in Singles(h)
  BY <1>4, <1>5, <1>8, <1>9
<1>10. ASSUME NEW n \in NumbersOf(h), o[1] = n[1], o[2] = n[2] \div 256 PROVE o[2] = q[2]
  <2>1. CASE q \in Singles(h)
    BY <1>5, <1>10, <2>1
  <2>2. ASSUME NEW m \in NumbersOf(h), q[1] = m[1], q[2] = m[2] \div 256 PROVE o[2] = q[2]
    <3>1. m[1] = n[1]
      BY <1>10, <2>2
    <3>2. m = n
      BY <1>6, <3>1
    <3>. QED
      BY <1>10, <2>2, <3>2
  <2>3. ASSUME NEW m \in NumbersOf(h), q[1] = m[1] + 1 PROVE FALSE
    <3>1. m[1] + 1 = n[1]
      BY <1>10, <2>3
    <3>. QED
      BY <1>6, <3>1
  <2>. QED
    BY <1>8, <2>1, <2>2, <2>3
<1>11. ASSUME NEW n \in NumbersOf(h), o[1] = n[1] + 1, o[2] = n[2] % 256 PROVE o[2] = q[2]
  <2>1. CASE q \in Singles(h)
    BY <1>5, <1>11, <2>1
  <2>2. ASSUME NEW m \in NumbersOf(h), q[1] = m[1] + 1, q[2] = m[2] % 256 PROVE o[2] = q[2]
    <3>1. m[1] + 1 = n[1] + 1
      BY <1>11, <2>2
    <3>2. m = n
      BY <1>7, <3>1
    <3>. QED
      BY <1>11, <2>2, <3>2
  <2>3. ASSUME NEW m \in NumbersOf(h), q[1] = m[1] PROVE FALSE
    <3>1. n[1] + 1 = m[1]
      BY <1>11, <2>3
    <3>. QED
      BY <1>6, <3>1
  <2>. QED
    BY <1>8, <2>1, <2>2, <2>3
<1>. QED
  BY <1>8, <1>9, <1>10, <1>11

LEMMA HelloBytes ==
  ASSUME NEW h \in Hellos
  PROVE  /\ \A o \in OctetsOf(h) : At(Hello(h).payload, o[1]) = o[2]
         /\ \A k : (\A o \in OctetsOf(h) : o[1] # k) => At(Hello(h).payload, k) = 0
<1>. DEFINE p == Hello(h).payload
            O == OctetsOf(h)
            pick(k) == CHOOSE o \in O : o[1] = k
<1>1. p.bytes = [k \in {o[1] : o \in O} |-> pick(k)[2]]
  BY HelloIs
<1>2. ASSUME NEW o \in O PROVE pick(o[1])[2] = o[2]
  <2>1. pick(o[1]) \in O /\ pick(o[1])[1] = o[1]
    OBVIOUS
  <2>. HIDE DEF pick
  <2>. QED
    BY <2>1, OctetsUnique
<1>. HIDE DEF p, O, pick
<1>3. \A o \in O : At(p, o[1]) = o[2]
  BY <1>1, <1>2 DEF At
<1>4. \A k : (\A o \in O : o[1] # k) => At(p, k) = 0
  BY <1>1 DEF At
<1>. QED
  BY <1>3, <1>4 DEF p, O

LEMMA HelloNumbers ==
  ASSUME NEW h \in Hellos, NEW n \in NumbersOf(h)
  PROVE  U16(Hello(h).payload, n[1]) = n[2]
<1>. DEFINE a == <<n[1], n[2] \div 256>>
            b == <<n[1] + 1, n[2] % 256>>
<1>1. a \in OctetsOf(h) /\ b \in OctetsOf(h)
  BY DEF OctetsOf
<1>2. /\ At(Hello(h).payload, a[1]) = a[2]
      /\ At(Hello(h).payload, b[1]) = b[2]
  BY <1>1, HelloBytes
<1>3. /\ At(Hello(h).payload, n[1]) = n[2] \div 256
      /\ At(Hello(h).payload, n[1] + 1) = n[2] % 256
  BY <1>2
<1>4. PICK v \in Nat : v = n[2]
  BY NumbersAreNat
<1>5. 256 * (v \div 256) + (v % 256) = v
  OBVIOUS
<1>. QED
  BY <1>3, <1>4, <1>5 DEF U16

(* What the extractor reads of it.                                         *)
LEMMA HelloValues ==
  ASSUME NEW h \in Hellos
  PROVE  LET p == Hello(h).payload
             b == BeginOf(h)
             t == NameIndex(h)
         IN /\ At(p, 0) = 22 /\ At(p, 5) = 1 /\ At(p, 43) = h.session
            /\ At(p, CompressionAt(h)) = h.compression
            /\ U16(p, 1) = 769 /\ U16(p, 3) = EndOf(h) - 5
            /\ U16(p, CiphersAt(h)) = h.ciphers
            /\ U16(p, ExtensionsAt(h)) = EndOf(h) - (ExtensionsAt(h) + 2)
            /\ \A i \in 1 .. Len(LengthsOf(h)) :
                 /\ U16(p, b[i]) = (IF i = t THEN 0 ELSE 10)
                 /\ U16(p, b[i] + 2) = LengthsOf(h)[i]
            /\ U16(p, b[t] + 4) = h.nameLength + 3 /\ At(p, b[t] + 6) = 0
            /\ U16(p, b[t] + 7) = h.nameLength
<1>. DEFINE p == Hello(h).payload
            b == BeginOf(h)
            t == NameIndex(h)
<1>1. /\ At(p, 0) = 22 /\ At(p, 5) = 1 /\ At(p, 43) = h.session
      /\ At(p, CompressionAt(h)) = h.compression
  <2>1. \A v, w : <<v, w>> \in Singles(h) => At(p, v) = w
    <3>. SUFFICES ASSUME NEW v, NEW w, <<v, w>> \in Singles(h) PROVE At(p, v) = w
      OBVIOUS
    <3>1. PICK o \in OctetsOf(h) : o = <<v, w>>
      BY DEF OctetsOf, Singles
    <3>2. At(p, o[1]) = o[2]
      BY HelloBytes
    <3>. QED
      BY <3>1, <3>2
  <2>. QED
    BY <2>1 DEF Singles
<1>2. \A v, w : <<v, w>> \in NumbersOf(h) => U16(p, v) = w
  <2>. SUFFICES ASSUME NEW v, NEW w, <<v, w>> \in NumbersOf(h) PROVE U16(p, v) = w
    OBVIOUS
  <2>1. PICK n \in NumbersOf(h) : n = <<v, w>>
    OBVIOUS
  <2>2. U16(p, n[1]) = n[2]
    BY HelloNumbers
  <2>. QED
    BY <2>1, <2>2
<1>3. DOMAIN LengthsOf(h) = 1 .. Len(LengthsOf(h))
  BY HelloLengths
<1>4. At(p, b[t] + 6) = 0
  <2>1. b[t] \in Nat /\ b[t] + 6 >= 50 /\ b[t] + 6 > CompressionAt(h)
    <3>1. PICK c \in Nat, q \in Nat, y \in Nat, x \in Nat, w \in Nat :
            /\ q = CompressionAt(h) /\ c >= 44 /\ q = c + 2 + y
            /\ x = ExtensionsAt(h) /\ x = q + 1 + w
      BY HelloLengths
    <3>2. t \in 1 .. Len(LengthsOf(h))
      BY HelloLengths
    <3>3. b[t] \in Nat /\ b[t] >= ExtensionsAt(h) + 2
      BY <3>2, ExtensionsBehind
    <3>. QED
      BY <3>1, <3>3
  <2>2. ASSUME NEW o \in OctetsOf(h) PROVE o[1] # b[t] + 6
    <3>1. CASE o \in Singles(h)
      <4>1. o[1] \in {0, 5, 43, CompressionAt(h)}
        BY <3>1 DEF Singles
      <4>2. CompressionAt(h) \in Nat
        BY HelloLengths
      <4>. QED
        BY <2>1, <4>1, <4>2
    <3>2. ASSUME NEW n \in NumbersOf(h), o[1] = n[1] \/ o[1] = n[1] + 1 PROVE o[1] # b[t] + 6
      <4>1. n[1] # b[t] + 6 /\ n[1] + 1 # b[t] + 6
        BY NumbersApart
      <4>. QED
        BY <3>2, <4>1
    <3>3. \/ o \in Singles(h)
          \/ \E n \in NumbersOf(h) : o[1] = n[1] \/ o[1] = n[1] + 1
      BY DEF OctetsOf, Singles
    <3>. QED
      BY <3>1, <3>2, <3>3
  <2>. QED
    BY <2>2, HelloBytes
<1>5. /\ <<1, 769>> \in NumbersOf(h) /\ <<3, EndOf(h) - 5>> \in NumbersOf(h)
      /\ <<CiphersAt(h), h.ciphers>> \in NumbersOf(h)
      /\ <<ExtensionsAt(h), EndOf(h) - (ExtensionsAt(h) + 2)>> \in NumbersOf(h)
      /\ <<b[t] + 4, h.nameLength + 3>> \in NumbersOf(h)
      /\ <<b[t] + 7, h.nameLength>> \in NumbersOf(h)
  BY DEF NumbersOf
<1>6. \A i \in 1 .. Len(LengthsOf(h)) :
        /\ <<b[i], IF i = t THEN 0 ELSE 10>> \in NumbersOf(h)
        /\ <<b[i] + 2, LengthsOf(h)[i]>> \in NumbersOf(h)
  BY <1>3 DEF NumbersOf
<1>. HIDE DEF p, b, t
<1>7. /\ U16(p, 1) = 769 /\ U16(p, 3) = EndOf(h) - 5
      /\ U16(p, CiphersAt(h)) = h.ciphers
      /\ U16(p, ExtensionsAt(h)) = EndOf(h) - (ExtensionsAt(h) + 2)
      /\ U16(p, b[t] + 4) = h.nameLength + 3
      /\ U16(p, b[t] + 7) = h.nameLength
  BY <1>2, <1>5
<1>8. \A i \in 1 .. Len(LengthsOf(h)) :
        /\ U16(p, b[i]) = (IF i = t THEN 0 ELSE 10)
        /\ U16(p, b[i] + 2) = LengthsOf(h)[i]
  BY <1>2, <1>6
<1>. QED
  BY <1>1, <1>4, <1>7, <1>8 DEF p, b, t
-----------------------------------------------------------------------------
(* The extractor finds its way through the hello.                          *)

LEMMA HelloParts ==
  ASSUME NEW h \in Hellos
  PROVE  LET p == Hello(h).payload
             e == EndOf(h)
         IN /\ Extensions(p) = ExtensionsAt(h)
            /\ HasExtensions(p, e) /\ ExtensionsEnd(p, e) = e
<1>. DEFINE p == Hello(h).payload
            e == EndOf(h)
<1>1. /\ At(p, 0) = 22 /\ At(p, 5) = 1 /\ At(p, 43) = h.session
      /\ At(p, CompressionAt(h)) = h.compression
      /\ U16(p, 1) = 769 /\ U16(p, 3) = e - 5
      /\ U16(p, CiphersAt(h)) = h.ciphers
      /\ U16(p, ExtensionsAt(h)) = e - (ExtensionsAt(h) + 2)
  BY HelloValues
<1>2. PICK c \in Nat, q \in Nat, x \in Nat, y \in Nat, w \in Nat, s \in Nat :
        /\ c = CiphersAt(h) /\ q = CompressionAt(h) /\ x = ExtensionsAt(h)
        /\ y = h.ciphers /\ w = h.compression /\ s = h.session
        /\ c >= 44 /\ q = c + 2 + y /\ x = q + 1 + w
  BY HelloLengths
<1>3. c = 44 + s
  BY <1>2 DEF CiphersAt
<1>4. e \in Nat /\ e >= x + 2
  <2>1. PICK N \in Nat : N = Len(LengthsOf(h)) /\ NameIndex(h) \in 1 .. N
    BY HelloLengths
  <2>2. PICK b \in Nat, l \in Nat : b = BeginOf(h)[NameIndex(h)] /\ l = LengthsOf(h)[NameIndex(h)]
    BY <2>1, ExtensionsBehind, HelloLengths
  <2>3. e \in Nat /\ b + 4 + l <= e
    BY <2>1, <2>2, EndBehind
  <2>4. b >= x + 2
    BY <1>2, <2>1, <2>2, ExtensionsBehind
  <2>. QED
    BY <2>3, <2>4
<1>. HIDE DEF p, e
<1>5. CipherSuites(p) = c
  BY <1>1, <1>2, <1>3 DEF CipherSuites, SessionId
<1>6. Compression(p) = q
  BY <1>1, <1>2, <1>5 DEF Compression
<1>7. Extensions(p) = x
  BY <1>1, <1>2, <1>6 DEF Extensions
<1>8. IsClientHello(p, e)
  <2>1. e - 5 <= e - 5 /\ e >= 9
    BY <1>2, <1>4
  <2>. QED
    BY <1>1, <2>1 DEF IsClientHello
<1>9. HasExtensions(p, e)
  <2>1. SessionId < e /\ c + 2 <= e /\ q < e /\ x + 2 <= e
    BY <1>2, <1>4 DEF SessionId
  <2>. QED
    BY <1>5, <1>6, <1>7, <1>8, <2>1
       DEF HasExtensions, HasCompression, HasCipherSuites, HasSessionId
<1>10. ExtensionsEnd(p, e) = e
  <2>1. U16(p, x) = e - (x + 2)
    BY <1>1, <1>2
  <2>2. x + 2 + U16(p, x) = e
    BY <1>4, <2>1
  <2>. QED
    BY <1>4, <1>7, <2>2 DEF ExtensionsEnd
<1>. QED
  BY <1>2, <1>7, <1>9, <1>10 DEF p, e

(* The loop comes from each extension up to the name to the name.          *)
LEMMA HelloVisited ==
  ASSUME NEW h \in Hellos, Bytes(Hello(h).payload)
  PROVE  Visited(Hello(h).payload, EndOf(h)) = {BeginOf(h)[i] : i \in 1 .. NameIndex(h)}
<1>. DEFINE p == Hello(h).payload
            e == EndOf(h)
            b == BeginOf(h)
            s == LengthsOf(h)
            N == Len(s)
            t == NameIndex(h)
            C == {d \in Nat : d < t => Loop(p, e)[b[t - d]] = {b[i] : i \in t - d .. t}}
<1>1. /\ N \in Nat /\ t \in 1 .. N
      /\ \A i \in 1 .. N : s[i] \in Nat
  BY HelloLengths
<1>2. \A i \in 1 .. N : b[i] \in Nat /\ b[i + 1] = b[i] + 4 + s[i]
  BY Beginnings
<1>3. e \in Nat /\ \A i \in 1 .. N : b[i] + 4 + s[i] <= e
  BY EndBehind
<1>4. \A i \in 1 .. N : U16(p, b[i]) = (IF i = t THEN 0 ELSE 10) /\ U16(p, b[i] + 2) = s[i]
  BY HelloValues
<1>5. Bytes(p) /\ Extensions(p) + 2 = b[1]
  BY HelloParts, Beginnings
<1>6. Visited(p, e) = Loop(p, e)[b[1]]
  <2>1. Visited(p, e) = Loop(p, ExtensionsEnd(p, e))[Extensions(p) + 2]
    BY HelloParts, VisitedIsLoop
  <2>2. ExtensionsEnd(p, e) = e
    BY HelloParts
  <2>. QED
    BY <1>5, <2>1, <2>2
<1>. HIDE DEF p, e, b, s, N, t
<1>7. ASSUME NEW i \in 1 .. N
      PROVE  Loop(p, e)[b[i]] = IF i = t THEN {b[i]} ELSE {b[i]} \cup Loop(p, e)[b[i + 1]]
  <2>1. /\ b[i] \in Nat /\ s[i] \in Nat /\ b[i] + 4 <= e /\ b[i] + 4 + s[i] <= e
        /\ b[i + 1] = b[i] + 4 + s[i]
    BY <1>1, <1>2, <1>3
  <2>2. ExtensionLength(p, b[i]) = s[i] /\ ExtensionType(p, b[i]) = (IF i = t THEN 0 ELSE 10)
    BY <1>4 DEF ExtensionLength, ExtensionType
  <2>3. Loop(p, e)[b[i]] = LoopStep(Loop(p, e), p, e, b[i])
    BY <1>3, <1>5, <2>1, LoopUnfolds
  <2>4. ~ (b[i] + 4 > e) /\ Fits(p, b[i], e)
    BY <1>3, <2>1, <2>2 DEF Fits
  <2>. QED
    BY <2>1, <2>2, <2>3, <2>4 DEF LoopStep
<1>8. 0 \in C
  <2>1. t - 0 = t /\ t .. t = {t}
    BY <1>1
  <2>2. Loop(p, e)[b[t]] = {b[t]}
    BY <1>1, <1>7
  <2>. QED
    BY <2>1, <2>2
<1>9. ASSUME NEW d \in Nat, d \in C PROVE d + 1 \in C
  <2>. SUFFICES ASSUME d + 1 < t
                PROVE  Loop(p, e)[b[t - (d + 1)]] = {b[i] : i \in t - (d + 1) .. t}
    OBVIOUS
  <2>1. PICK k \in 1 .. N : k = t - (d + 1)
    BY <1>1
  <2>2. k # t /\ k + 1 = t - d /\ d < t
    BY <1>1, <2>1
  <2>3. Loop(p, e)[b[k + 1]] = {b[i] : i \in k + 1 .. t}
    BY <1>9, <2>2
  <2>4. Loop(p, e)[b[k]] = {b[k]} \cup {b[i] : i \in k + 1 .. t}
    BY <1>7, <2>2, <2>3
  <2>5. \A i : i \in k .. t <=> i = k \/ i \in k + 1 .. t
    BY <1>1, <2>1
  <2>6. {b[i] : i \in k .. t} = {b[k]} \cup {b[i] : i \in k + 1 .. t}
    BY <2>5
  <2>. QED
    BY <2>1, <2>4, <2>6
<1>10. Nat \subseteq C
  <2>. HIDE DEF C
  <2>. QED
    BY <1>8, <1>9, InductiveSet
<1>11. Loop(p, e)[b[1]] = {b[i] : i \in 1 .. t}
  <2>1. PICK d \in Nat : d = t - 1
    BY <1>1
  <2>2. d \in C /\ t - d = 1 /\ d < t
    BY <1>1, <1>10, <2>1
  <2>. QED
    BY <2>2
<1>. QED
  BY <1>6, <1>11 DEF p, e, b, t

LEMMA HelloName ==
  ASSUME NEW h \in Hellos, Bytes(Hello(h).payload)
  PROVE  ExtractSNI(Hello(h).payload, EndOf(h)) = h.name
<1>. DEFINE p == Hello(h).payload
            e == EndOf(h)
            b == BeginOf(h)
            s == LengthsOf(h)
            N == Len(s)
            t == NameIndex(h)
            z == b[t]
<1>1. /\ N \in Nat /\ t \in 1 .. N /\ h.nameLength \in Nat
      /\ s[t] = h.nameLength + 5
  BY HelloLengths
<1>2. z \in Nat /\ e \in Nat /\ z + 4 + s[t] <= e
  BY <1>1, Beginnings, EndBehind
<1>3. /\ \A i \in 1 .. N : U16(p, b[i]) = (IF i = t THEN 0 ELSE 10)
      /\ U16(p, z + 2) = s[t] /\ U16(p, z + 4) = h.nameLength + 3
      /\ At(p, z + 6) = 0 /\ U16(p, z + 7) = h.nameLength
  BY <1>1, HelloValues
<1>4. Visited(p, e) = {b[i] : i \in 1 .. t}
  BY HelloVisited
<1>5. ExtensionsEnd(p, e) = e
  BY HelloParts
<1>6. p.texts = {[at |-> z + 9, len |-> h.nameLength, text |-> h.name]}
  BY HelloIs
<1>7. h.nameLength = 0 => h.name = ""
  BY HelloAssumption
<1>. HIDE DEF p, e, b, s, N, t, z
<1>8. ServerNames(p, e) = {z}
  <2>1. \A i \in 1 .. t : i \in 1 .. N /\ (ExtensionType(p, b[i]) = 0 <=> i = t)
    BY <1>1, <1>3 DEF ExtensionType
  <2>2. ExtensionLength(p, z) = s[t]
    BY <1>3 DEF ExtensionLength
  <2>3. Fits(p, z, e) /\ ExtensionLength(p, z) >= 5
    BY <1>1, <1>2, <2>2 DEF Fits
  <2>4. t \in 1 .. t /\ b[t] = z
    BY <1>1 DEF z
  <2>5. \A k \in Visited(p, e) : ExtensionType(p, k) = 0 => k = z
    BY <1>4, <2>1, <2>4
  <2>6. z \in Visited(p, e) /\ ExtensionType(p, z) = 0
    BY <1>4, <2>1, <2>4
  <2>. QED
    BY <1>5, <2>3, <2>5, <2>6 DEF ServerNames
<1>9. NameLength(p, z) = h.nameLength
  BY <1>3 DEF NameLength
<1>10. Acceptable(p, z)
  <2>1. PICK l \in Nat : l = h.nameLength
    BY <1>1
  <2>2. ExtensionLength(p, z) = l + 5 /\ U16(p, z + 4) = l + 3
    BY <1>1, <1>3, <2>1 DEF ExtensionLength
  <2>. QED
    BY <1>3, <1>9, <2>1, <2>2 DEF Acceptable
<1>11. ExtractSNI(p, e) = Text(p, z + 9, h.nameLength)
  <2>1. (CHOOSE k \in ServerNames(p, e) : TRUE) = z
    BY <1>8
  <2>. QED
    BY <1>8, <1>9, <1>10, <2>1 DEF ExtractSNI
<1>12. Text(p, z + 9, h.nameLength) = h.name
  <2>1. CASE h.nameLength = 0
    BY <1>7, <2>1 DEF Text
  <2>2. CASE h.nameLength # 0
    <3>. DEFINE r == [at |-> z + 9, len |-> h.nameLength, text |-> h.name]
    <3>1. r.at = z + 9 /\ r.len = h.nameLength /\ r.text = h.name
      OBVIOUS
    <3>. HIDE DEF r
    <3>2. p.texts = {r}
      BY <1>6 DEF r
    <3>3. (CHOOSE x \in p.texts : x.at = z + 9 /\ x.len = h.nameLength) = r
      BY <3>1, <3>2
    <3>. QED
      BY <2>2, <3>1, <3>2, <3>3 DEF Text
  <2>. QED
    BY <2>1, <2>2
<1>. QED
  BY <1>11, <1>12 DEF p, e

(* Of a complete ClientHello the extractor returns the server name, for    *)
(* any lengths of the fields, any extensions around it and any name.       *)
THEOREM HelloNameAlwaysFound == Spec => []HelloNameFound
<1>1. TypeOK => HelloNameFound
  <2>. SUFFICES ASSUME TypeOK, NEW i \in Ids, Parsed(FrameOf(i)), NEW h \in Hellos,
                       [len |-> PayloadLen(FrameOf(i)), payload |-> FrameOf(i).payload]
                         = HelloOf[h]
                PROVE  ExtractSNI(FrameOf(i).payload, PayloadLen(FrameOf(i))) = h.name
    BY DEF HelloNameFound
  <2>1. HelloOf[h] = Hello(h)
    BY DEF HelloOf
  <2>2. Hello(h).len = EndOf(h)
    BY HelloIs
  <2>3. PayloadLen(FrameOf(i)) = EndOf(h) /\ FrameOf(i).payload = Hello(h).payload
    BY <2>1, <2>2
  <2>4. Bytes(FrameOf(i).payload)
    <3>1. capture \in Captures /\ i \in DOMAIN capture.records
      BY Records DEF TypeOK
    <3>. QED
      BY <3>1, CaptureAssumption DEF FrameOf, Bytes
  <2>5. Bytes(Hello(h).payload)
    BY <2>3, <2>4
  <2>. QED
    BY <2>3, <2>5, HelloName
<1>. QED
  BY <1>1, TypeInit, TypeStep, PTL DEF Spec
=============================================================================
