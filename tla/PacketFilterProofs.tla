------------------------- MODULE PacketFilterProofs -------------------------
(***************************************************************************)
(* What holds of every packet filter holds of every engine that implements *)
(* one: theorems about PacketFilter, for PipelineProofs to carry over.     *)
(***************************************************************************)
EXTENDS PacketFilter, Induction, TLAPS

Verdicts == {"none", "forwarded", "dropped"}

TypeOK ==
  /\ input \in Seq(Packet)
  /\ flow \in [Tuples -> FlowEntry]
  /\ verdict \in [Ids -> Verdicts]
  /\ written \in Seq(Ids)

Decided(i) == verdict[i] # "none"

(* The decided packets of a flow come before its undecided ones.           *)
FlowsInTurn ==
  \A i, j \in Ids :
    j < i /\ SameFlow(i, j) /\ input[j].parsed /\ Decided(i) => Decided(j)

(* The packets that have shown a name of flow t.                           *)
Naming(t) ==
  {j \in Ids : /\ input[j].tuple = t /\ input[j].parsed /\ Decided(j)
               /\ ExtractedName(input[j]) # NoName}

NamedBy(j, t) ==
  /\ flow[t].sni = input[j].name
  /\ flow[t].app_type = SniToAppType(input[j].name)

(* A flow, unless it is DNS, is classified by the first of them.           *)
FirstNames ==
  \A t \in Tuples : ~IsDNS(t) =>
    IF flow[t].classified
    THEN \E j \in Naming(t) : (\A m \in Naming(t) : j <= m) /\ NamedBy(j, t)
    ELSE Naming(t) = {}

(* What RulesEnforced says of packet i.                                    *)
Named(i) ==
  {j \in 1 .. i : SameFlow(i, j) /\ input[j].parsed
                  /\ ExtractedName(input[j]) # NoName}
Fits(i) ==
  /\ input[i].tuple.src_ip \notin rules.ips
  /\ ~IsDNS(input[i].tuple) =>
       \A j \in Named(i) :
         (\A m \in Named(i) : j <= m) =>
           ~IsBlocked(rules, input[i].tuple.src_ip,
                      SniToAppType(input[j].name), input[j].name)

ForwardedFits == \A i \in Ids : verdict[i] = "forwarded" => Fits(i)
WrittenForwarded == \A i \in Written : i \in Ids /\ verdict[i] = "forwarded"

Inv == TypeOK /\ FlowsInTurn /\ FirstNames /\ ForwardedFits /\ WrittenForwarded
-----------------------------------------------------------------------------
(* What Inspect does to an entry.                                          *)

LEMMA CountedEntry ==
  ASSUME NEW e \in FlowEntry
  PROVE  /\ Counted(e) \in FlowEntry
         /\ Counted(e).classified = e.classified
         /\ Counted(e).sni = e.sni /\ Counted(e).app_type = e.app_type
BY DEF Counted, FlowEntry

LEMMA PacketTypes ==
  ASSUME NEW pkt \in Packet
  PROVE  /\ pkt.tuple \in Tuples
         /\ ExtractedName(pkt) # NoName =>
              pkt.name \in Names /\ SniToAppType(pkt.name) \in AppTypes
         /\ \A app \in AppTypes : PortFallback(pkt.tuple, app) \in AppTypes
BY InspectionAssumption DEF Packet, ExtractedName, PortFallback

LEMMA ClassifiedEntry ==
  ASSUME NEW pkt \in Packet, NEW e \in FlowEntry
  PROVE  /\ Classified(pkt, e) \in FlowEntry
         /\ e.classified => Classified(pkt, e) = e
         /\ ~e.classified /\ ExtractedName(pkt) # NoName =>
              /\ Classified(pkt, e).classified
              /\ Classified(pkt, e).sni = pkt.name
              /\ Classified(pkt, e).app_type = SniToAppType(pkt.name)
         /\ ~e.classified /\ ExtractedName(pkt) = NoName /\ ~IsDNS(pkt.tuple) =>
              ~Classified(pkt, e).classified
<1>1. CASE e.classified
  BY <1>1 DEF Classified
<1>2. CASE ~e.classified /\ ExtractedName(pkt) # NoName
  BY <1>2, PacketTypes DEF Classified, ClassifyFlow, FlowEntry
<1>3. CASE ~e.classified /\ ExtractedName(pkt) = NoName /\ IsDNS(pkt.tuple)
  BY <1>3, InspectionAssumption DEF Classified, ClassifyFlow, FlowEntry
<1>4. CASE ~e.classified /\ ExtractedName(pkt) = NoName /\ ~IsDNS(pkt.tuple)
  <2>1. PortFallback(pkt.tuple, e.app_type) \in AppTypes
    BY PacketTypes DEF FlowEntry
  <2>2. Classified(pkt, e)
          = [e EXCEPT !.app_type = PortFallback(pkt.tuple, e.app_type)]
    BY <1>4 DEF Classified, ClassifyFlow
  <2>. QED
    BY <1>4, <2>1, <2>2 DEF FlowEntry
<1>. QED
  BY <1>1, <1>2, <1>3, <1>4

LEMMA InspectedEntry ==
  ASSUME NEW rs, NEW pkt \in Packet, NEW e \in FlowEntry
  PROVE  /\ Inspect(rs, pkt, e) \in FlowEntry
         /\ Inspect(rs, pkt, e).classified = Classified(pkt, Counted(e)).classified
         /\ Inspect(rs, pkt, e).sni = Classified(pkt, Counted(e)).sni
         /\ Inspect(rs, pkt, e).app_type = Classified(pkt, Counted(e)).app_type
         /\ ~Inspect(rs, pkt, e).blocked =>
              ~IsBlocked(rs, pkt.tuple.src_ip, Inspect(rs, pkt, e).app_type,
                         Inspect(rs, pkt, e).sni)
<1>. DEFINE c == Classified(pkt, Counted(e))
<1>1. c \in FlowEntry
  BY CountedEntry, ClassifiedEntry
<1>. HIDE DEF c
<1>2. Inspect(rs, pkt, e) = Judged(rs, pkt, c)
  BY DEF Inspect, c
<1>3. IsBlocked(rs, pkt.tuple.src_ip, c.app_type, c.sni) \in BOOLEAN
  BY DEF IsBlocked
<1>4. Judged(rs, pkt, c) \in FlowEntry
  BY <1>1, <1>3 DEF Judged, FlowEntry
<1>5. /\ Judged(rs, pkt, c).classified = c.classified
      /\ Judged(rs, pkt, c).sni = c.sni
      /\ Judged(rs, pkt, c).app_type = c.app_type
      /\ Judged(rs, pkt, c).blocked
           = (c.blocked \/ IsBlocked(rs, pkt.tuple.src_ip, c.app_type, c.sni))
  BY <1>1 DEF Judged, FlowEntry
<1>. QED
  BY <1>2, <1>4, <1>5, Zenon DEF c
-----------------------------------------------------------------------------
LEMMA IdsAreNumbers ==
  ASSUME TypeOK
  PROVE  /\ \A i \in Ids : i \in Nat /\ input[i] \in Packet /\ input[i].tuple \in Tuples
         /\ \A i \in Ids : Named(i) \subseteq Ids
         /\ Written \subseteq Ids
<1>1. Len(input) \in Nat /\ \A i \in Ids : i \in Nat /\ input[i] \in Packet
  BY DEF TypeOK, Ids
<1>2. \A i \in Ids : input[i].tuple \in Tuples
  BY <1>1, PacketTypes
<1>3. \A i \in Ids : Named(i) \subseteq Ids
  BY <1>1 DEF Named, Ids
<1>4. Written \subseteq Ids
  BY DEF TypeOK, Written
<1>. QED
  BY <1>1, <1>2, <1>3, <1>4

LEMMA FilterInvInit ==
  ASSUME Inputs \subseteq Seq(Packet), Init
  PROVE  Inv
<1>1. NewFlow \in FlowEntry /\ ~NewFlow.classified
  BY InspectionAssumption DEF NewFlow, FlowEntry
<1>2. TypeOK
  BY <1>1 DEF Init, TypeOK, Verdicts
<1>3. \A i \in Ids : verdict[i] = "none"
  BY DEF Init
<1>4. FlowsInTurn /\ ForwardedFits /\ \A t : Naming(t) = {}
  BY <1>3 DEF FlowsInTurn, ForwardedFits, Naming, Decided
<1>5. FirstNames
  BY <1>1, <1>4 DEF Init, FirstNames
<1>6. Written = {}
  BY DEF Init, Written
<1>. QED
  BY <1>2, <1>4, <1>5, <1>6 DEF Inv, WrittenForwarded

(* Steps that decide nothing.                                              *)
LEMMA FilterInvKept ==
  ASSUME Inv, UNCHANGED <<input, rules, flow, verdict>>,
         written' \in Seq(Ids), \A i \in Written' : i \in Ids /\ verdict[i] = "forwarded"
  PROVE  Inv'
<1>1. Ids' = Ids /\ \A i : Named(i)' = Named(i) /\ (Decided(i)' <=> Decided(i))
  BY DEF Ids, Named, SameFlow, Decided
<1>2. \A t : Naming(t)' = Naming(t)
  BY <1>1 DEF Naming
<1>3. TypeOK'
  BY <1>1 DEF Inv, TypeOK
<1>4. FlowsInTurn'
  BY <1>1 DEF Inv, FlowsInTurn, SameFlow
<1>5. FirstNames'
  BY <1>2 DEF Inv, FirstNames, NamedBy
<1>6. ForwardedFits'
  BY <1>1 DEF Inv, ForwardedFits, Fits
<1>. QED
  BY <1>1, <1>3, <1>4, <1>5, <1>6 DEF Inv, WrittenForwarded

LEMMA EmitKeeps ==
  ASSUME Inv, NEW i \in Ids, Emit(i)
  PROVE  Inv'
<1>1. written \in Seq(Ids)
  BY DEF Inv, TypeOK
<1>2. written' \in Seq(Ids)
  BY <1>1 DEF Emit
<1>3. \A n \in 1 .. Len(written') :
        written'[n] = i \/ (n \in 1 .. Len(written) /\ written'[n] = written[n])
  BY <1>1 DEF Emit
<1>4. \A j \in Written' : j = i \/ j \in Written
  BY <1>3 DEF Written
<1>5. \A j \in Written' : j \in Ids /\ verdict[j] = "forwarded"
  BY <1>4 DEF Inv, WrittenForwarded, Emit
<1>. QED
  BY <1>2, <1>5, FilterInvKept DEF Emit

(* The packet about to be decided is the next of its flow.                 *)
LEMMA NothingAhead ==
  ASSUME Inv, NEW i \in Ids, Decide(i)
  PROVE  \A j \in Ids : SameFlow(i, j) /\ input[j].parsed =>
           /\ j < i => Decided(j)
           /\ i < j => ~Decided(j)
<1>1. ~Decided(i) /\ ItsTurn(i) /\ input[i].parsed
  BY DEF Decide, Decided
<1>2. ASSUME NEW j \in Ids, SameFlow(i, j), input[j].parsed, j < i
      PROVE  Decided(j)
  <2>1. j \in 1 .. i - 1
    BY <1>2, IdsAreNumbers DEF Inv, Ids
  <2>. QED
    BY <1>1, <1>2, <2>1 DEF ItsTurn, Decided
<1>3. ASSUME NEW j \in Ids, SameFlow(i, j), input[j].parsed, i < j
      PROVE  ~Decided(j)
  BY <1>1, <1>3 DEF Inv, FlowsInTurn, SameFlow
<1>. QED
  BY <1>2, <1>3

LEMMA DecideKeeps ==
  ASSUME Inv, NEW i \in Ids, Decide(i), NEW t \in Tuples, t = input[i].tuple
  PROVE  Inv'
<1>. DEFINE before == flow[t]
            after == Inspect(rules, input[i], flow[t])
<1>1. /\ input[i] \in Packet /\ t \in Tuples /\ i \in Nat
      /\ before \in FlowEntry /\ input[i].parsed /\ ~Decided(i)
  BY IdsAreNumbers DEF Inv, TypeOK, Decide, Decided
<1>2. /\ flow' = [flow EXCEPT ![t] = after]
      /\ verdict' = [verdict EXCEPT ![i] =
                       IF after.blocked THEN "dropped" ELSE "forwarded"]
      /\ UNCHANGED <<input, rules, written>>
  BY DEF Decide
<1>3. /\ after \in FlowEntry
      /\ before.classified =>
           after.classified /\ after.sni = before.sni
             /\ after.app_type = before.app_type
      /\ ~before.classified /\ ExtractedName(input[i]) # NoName =>
           /\ after.classified /\ after.sni = input[i].name
           /\ after.app_type = SniToAppType(input[i].name)
      /\ ~before.classified /\ ExtractedName(input[i]) = NoName /\ ~IsDNS(t)
           => ~after.classified
      /\ ~after.blocked =>
           ~IsBlocked(rules, t.src_ip, after.app_type, after.sni)
  <2>1. /\ Counted(before) \in FlowEntry
        /\ Counted(before).classified = before.classified
        /\ Counted(before).sni = before.sni
        /\ Counted(before).app_type = before.app_type
    BY <1>1, CountedEntry
  <2>. DEFINE c == Classified(input[i], Counted(before))
  <2>2. /\ Counted(before).classified => c = Counted(before)
        /\ ~Counted(before).classified /\ ExtractedName(input[i]) # NoName =>
              /\ c.classified /\ c.sni = input[i].name
              /\ c.app_type = SniToAppType(input[i].name)
        /\ ~Counted(before).classified /\ ExtractedName(input[i]) = NoName
             /\ ~IsDNS(t) => ~c.classified
    BY <1>1, <2>1, ClassifiedEntry
  <2>3. /\ after \in FlowEntry /\ after.classified = c.classified
        /\ after.sni = c.sni /\ after.app_type = c.app_type
        /\ ~after.blocked =>
             ~IsBlocked(rules, t.src_ip, after.app_type, after.sni)
    BY <1>1, InspectedEntry
  <2>. HIDE DEF c, before, after
  <2>. QED
    BY <2>1, <2>2, <2>3, Zenon
<1>. HIDE DEF before, after
<1>4. /\ Ids' = Ids /\ verdict \in [Ids -> Verdicts]
      /\ flow \in [Tuples -> FlowEntry] /\ written \in Seq(Ids)
  BY <1>2 DEF Inv, TypeOK, Ids
<1>5. TypeOK'
  BY <1>1, <1>2, <1>3, <1>4 DEF Inv, TypeOK, Verdicts
<1>6. \A j \in Ids : Decided(j)' <=> Decided(j) \/ j = i
  BY <1>2, <1>4 DEF Decided
<1>7. \A j \in Ids : SameFlow(i, j) /\ input[j].parsed =>
        (j < i => Decided(j)) /\ (i < j => ~Decided(j))
  BY NothingAhead
<1>8. FlowsInTurn'
  <2>1. ASSUME NEW k \in Ids, NEW j \in Ids, j < k, SameFlow(k, j),
               input[j].parsed, Decided(k)'
        PROVE  Decided(j)'
    <3>1. CASE k = i
      BY <1>6, <1>7, <2>1, <3>1
    <3>2. CASE k # i
      BY <1>6, <2>1, <3>2 DEF Inv, FlowsInTurn
    <3>. QED
      BY <3>1, <3>2
  <2>. QED
    BY <1>2, <1>4, <2>1 DEF FlowsInTurn, SameFlow
<1>9. \A u \in Tuples : Naming(u)' =
        IF u = t /\ ExtractedName(input[i]) # NoName
        THEN Naming(u) \cup {i} ELSE Naming(u)
  BY <1>1, <1>2, <1>4, <1>6 DEF Naming
<1>10. \A j \in Naming(t) : j \in Ids /\ j \in Nat /\ j < i
  BY <1>1, <1>7, IdsAreNumbers DEF Naming, SameFlow, Inv
<1>11. FirstNames'
  <2>1. ASSUME NEW u \in Tuples, ~IsDNS(u), u # t
        PROVE  /\ flow'[u] = flow[u] /\ Naming(u)' = Naming(u)
    BY <1>1, <1>2, <1>4, <1>9, <2>1
  <2>2. ASSUME ~IsDNS(t), before.classified
        PROVE  /\ flow'[t].classified
               /\ \E j \in Naming(t)' :
                    (\A m \in Naming(t)' : j <= m) /\ NamedBy(j, t)'
    <3>1. PICK j \in Naming(t) : (\A m \in Naming(t) : j <= m) /\ NamedBy(j, t)
      BY <1>1, <2>2 DEF Inv, FirstNames, before
    <3>2. j <= i /\ Naming(t)' \subseteq Naming(t) \cup {i} /\ j \in Naming(t)'
      BY <1>1, <1>9, <1>10, <3>1
    <3>3. flow'[t] = after /\ input' = input
      BY <1>1, <1>2, <1>4
    <3>4. NamedBy(j, t)'
      BY <1>3, <2>2, <3>1, <3>3 DEF NamedBy, before
    <3>. QED
      BY <1>3, <2>2, <3>1, <3>2, <3>3, <3>4
  <2>3. ASSUME ~IsDNS(t), ~before.classified, ExtractedName(input[i]) # NoName
        PROVE  /\ flow'[t].classified
               /\ \E j \in Naming(t)' :
                    (\A m \in Naming(t)' : j <= m) /\ NamedBy(j, t)'
    <3>1. Naming(t) = {}
      BY <1>1, <2>3 DEF Inv, FirstNames, before
    <3>2. Naming(t)' = {i}
      BY <1>1, <1>9, <2>3, <3>1
    <3>3. flow'[t] = after /\ input' = input
      BY <1>1, <1>2, <1>4
    <3>4. NamedBy(i, t)'
      BY <1>3, <2>3, <3>3 DEF NamedBy
    <3>. QED
      BY <1>1, <1>3, <2>3, <3>2, <3>3, <3>4
  <2>4. ASSUME ~IsDNS(t), ~before.classified, ExtractedName(input[i]) = NoName
        PROVE  ~flow'[t].classified /\ Naming(t)' = {}
    BY <1>1, <1>2, <1>3, <1>4, <1>9, <2>4 DEF Inv, FirstNames, before
  <2>5. ASSUME NEW u \in Tuples, ~IsDNS(u)
        PROVE  IF flow'[u].classified
               THEN \E j \in Naming(u)' :
                      (\A m \in Naming(u)' : j <= m) /\ NamedBy(j, u)'
               ELSE Naming(u)' = {}
    <3>1. CASE u # t
      BY <1>2, <2>1, <2>5, <3>1 DEF Inv, FirstNames, NamedBy
    <3>2. CASE u = t
      BY <2>2, <2>3, <2>4, <2>5, <3>2
    <3>. QED
      BY <3>1, <3>2
  <2>. QED
    BY <2>5 DEF FirstNames
<1>12. ~after.blocked => Fits(i)
  <2>. SUFFICES ASSUME ~after.blocked PROVE Fits(i)
    OBVIOUS
  <2>1. t.src_ip \notin rules.ips
    BY <1>3 DEF IsBlocked
  <2>2. ASSUME ~IsDNS(t), NEW j \in Named(i), \A m \in Named(i) : j <= m
        PROVE  after.sni = input[j].name
                 /\ after.app_type = SniToAppType(input[j].name)
    <3>1. /\ j \in Ids /\ j \in Nat /\ j <= i /\ SameFlow(i, j)
          /\ input[j].parsed /\ ExtractedName(input[j]) # NoName
      BY <1>1, <2>2, IdsAreNumbers DEF Named, Inv
    <3>2. CASE before.classified
      <4>1. PICK k \in Naming(t) :
              (\A m \in Naming(t) : k <= m) /\ NamedBy(k, t)
        BY <1>1, <2>2, <3>2 DEF Inv, FirstNames, before
      <4>2. k \in Nat /\ k < i /\ k \in Named(i)
        BY <1>1, <1>10, <4>1 DEF Naming, Named, SameFlow, Ids
      <4>3. j <= k
        BY <2>2, <4>2
      <4>4. j \in Naming(t)
        BY <1>1, <1>7, <3>1, <4>2, <4>3 DEF Naming, SameFlow
      <4>5. j = k
        BY <3>1, <4>1, <4>2, <4>3, <4>4
      <4>. QED
        BY <1>3, <3>2, <4>1, <4>5 DEF NamedBy, before
    <3>3. CASE ~before.classified
      <4>1. Naming(t) = {}
        BY <1>1, <2>2, <3>3 DEF Inv, FirstNames, before
      <4>2. j = i
        BY <1>1, <1>7, <3>1, <4>1 DEF Naming, SameFlow
      <4>. QED
        BY <1>3, <3>1, <3>3, <4>2
    <3>. QED
      BY <3>2, <3>3
  <2>. QED
    BY <1>3, <2>1, <2>2 DEF Fits
<1>13. ForwardedFits'
  <2>1. \A j \in Ids : Fits(j)' <=> Fits(j)
    BY <1>2 DEF Fits, Named, SameFlow
  <2>. QED
    BY <1>2, <1>4, <1>12, <2>1 DEF Inv, ForwardedFits
<1>14. WrittenForwarded'
  BY <1>1, <1>2, <1>4 DEF Inv, WrittenForwarded, Written, Decided
<1>. QED
  BY <1>5, <1>8, <1>11, <1>13, <1>14 DEF Inv

LEMMA FilterInvStep == Inv /\ [Next]_vars => Inv'
<1>. SUFFICES ASSUME Inv, [Next]_vars PROVE Inv'
  OBVIOUS
<1>1. ASSUME NEW i \in Ids, Decide(i) PROVE Inv'
  <2>1. PICK t \in Tuples : t = input[i].tuple
    BY IdsAreNumbers DEF Inv
  <2>. QED
    BY <1>1, <2>1, DecideKeeps
<1>2. CASE \E i \in Ids : Emit(i)
  BY <1>2, EmitKeeps
<1>3. CASE Finish \/ UNCHANGED vars
  <2>1. /\ UNCHANGED <<input, rules, flow, verdict, written>>
        /\ Ids' = Ids /\ Written' = Written
    BY <1>3 DEF Finish, vars, Ids, Written
  <2>. QED
    BY <2>1, FilterInvKept DEF Inv, TypeOK, WrittenForwarded
<1>. QED
  BY <1>1, <1>2, <1>3 DEF Next

LEMMA InvEnforces == Inv => RulesEnforced
<1>. SUFFICES ASSUME Inv, NEW i \in Written PROVE Fits(i)
  BY DEF RulesEnforced, Fits, Named
<1>. QED
  BY DEF Inv, WrittenForwarded, ForwardedFits

(* A packet filter writes no packet that comes from a blocked address, or  *)
(* whose flow has first shown a name that is blocked, itself or its        *)
(* application.                                                            *)
THEOREM FilterEnforcesRules ==
  ASSUME Inputs \subseteq Seq(Packet)
  PROVE  Spec => []RulesEnforced
BY FilterInvInit, FilterInvStep, InvEnforces, PTL DEF Spec
-----------------------------------------------------------------------------
(* The single-threaded pass of ScheduleIndependent, packet by packet.      *)
PassStart == [flow |-> [t \in Tuples |-> NewFlow], verdict |-> <<>>]

PassStep(in, rs, prev, n) ==
  LET p == in[n]
      entry == Inspect(rs, p, prev.flow[p.tuple])
  IN IF ~p.parsed
     THEN [prev EXCEPT !.verdict = Append(@, "none")]
     ELSE [flow |-> [prev.flow EXCEPT ![p.tuple] = entry],
           verdict |-> Append(prev.verdict,
              IF entry.blocked THEN "dropped" ELSE "forwarded")]

PassEquation(in, rs, g) ==
  g = [n \in 0 .. Len(in) |->
         IF n = 0 THEN PassStart ELSE PassStep(in, rs, g[n - 1], n)]

Pass(in, rs) == CHOOSE g : PassEquation(in, rs, g)

PassType == [flow : [Tuples -> FlowEntry], verdict : Seq(Verdicts)]

LEMMA SequentialIsPass ==
  ASSUME NEW in, NEW rs
  PROVE  Sequential(in, rs) = Pass(in, rs)[Len(in)]
BY DEF Sequential, Pass, PassEquation, PassStart, PassStep

LEMMA PassStartType == PassStart \in PassType /\ PassStart.verdict = <<>>
<1>1. NewFlow \in FlowEntry
  BY InspectionAssumption DEF NewFlow, FlowEntry
<1>2. <<>> \in Seq(Verdicts)
  OBVIOUS
<1>. QED
  BY <1>1, <1>2 DEF PassStart, PassType

LEMMA PassStepType ==
  ASSUME NEW in \in Seq(Packet), NEW rs, NEW n \in 1 .. Len(in),
         NEW prev \in PassType
  PROVE  /\ PassStep(in, rs, prev, n) \in PassType
         /\ Len(PassStep(in, rs, prev, n).verdict) = Len(prev.verdict) + 1
         /\ \A i \in 1 .. Len(prev.verdict) :
              PassStep(in, rs, prev, n).verdict[i] = prev.verdict[i]
<1>. DEFINE p == in[n]
            entry == Inspect(rs, p, prev.flow[p.tuple])
            v == IF entry.blocked THEN "dropped" ELSE "forwarded"
<1>1. p \in Packet /\ p.tuple \in Tuples
  BY PacketTypes
<1>2. prev.flow \in [Tuples -> FlowEntry] /\ prev.verdict \in Seq(Verdicts)
  BY DEF PassType
<1>3. entry \in FlowEntry
  BY <1>1, <1>2, InspectedEntry
<1>4. v \in Verdicts /\ "none" \in Verdicts
  BY DEF Verdicts
<1>5. ASSUME NEW x \in Verdicts
      PROVE  /\ Append(prev.verdict, x) \in Seq(Verdicts)
             /\ Len(Append(prev.verdict, x)) = Len(prev.verdict) + 1
             /\ \A i \in 1 .. Len(prev.verdict) :
                  Append(prev.verdict, x)[i] = prev.verdict[i]
  BY <1>2
<1>6. PassStep(in, rs, prev, n) =
        IF ~p.parsed
        THEN [prev EXCEPT !.verdict = Append(prev.verdict, "none")]
        ELSE [flow |-> [prev.flow EXCEPT ![p.tuple] = entry],
              verdict |-> Append(prev.verdict, v)]
  BY DEF PassStep
<1>. HIDE DEF p, entry, v
<1>7. CASE ~p.parsed
  <2>1. PassStep(in, rs, prev, n) =
          [flow |-> prev.flow, verdict |-> Append(prev.verdict, "none")]
    BY <1>6, <1>7 DEF PassType
  <2>. QED
    BY <1>2, <1>4, <1>5, <2>1 DEF PassType
<1>8. CASE p.parsed
  <2>1. [prev.flow EXCEPT ![p.tuple] = entry] \in [Tuples -> FlowEntry]
    BY <1>1, <1>2, <1>3
  <2>. QED
    BY <1>4, <1>5, <1>6, <1>8, <2>1 DEF PassType
<1>. QED
  BY <1>7, <1>8

(* The pass exists, and takes the packets one after the other.             *)
LEMMA PassUnfolds ==
  ASSUME NEW in \in Seq(Packet), NEW rs
  PROVE  /\ Pass(in, rs)[0] = PassStart
         /\ \A n \in 1 .. Len(in) :
              Pass(in, rs)[n] = PassStep(in, rs, Pass(in, rs)[n - 1], n)
         /\ \A n \in 0 .. Len(in) :
              Pass(in, rs)[n] \in PassType /\ Len(Pass(in, rs)[n].verdict) = n
<1>. DEFINE N == Len(in)
            P == Pass(in, rs)
<1>1. N \in Nat /\ PassStart \in PassType /\ Len(PassStart.verdict) = 0
  BY PassStartType
<1>. HIDE DEF N, P
<1>2. \E g \in [0 .. N -> PassType] :
        g[0] = PassStart /\ \A n \in 1 .. N : g[n] = PassStep(in, rs, g[n - 1], n)
  <2>. DEFINE G == [n \in 1 .. N |-> [prev \in PassType |-> PassStep(in, rs, prev, n)]]
  <2>1. ASSUME NEW n \in 1 .. N, NEW prev \in PassType
        PROVE  PassStep(in, rs, prev, n) \in PassType
    <3>1. n \in 1 .. Len(in)
      BY DEF N
    <3>. QED
      BY <3>1, PassStepType
  <2>. HIDE DEF PassType, PassStart
  <2>2. /\ G \in [1 .. N -> [PassType -> PassType]]
        /\ \A n \in 1 .. N, prev \in PassType : G[n][prev] = PassStep(in, rs, prev, n)
    BY <2>1
  <2>. HIDE DEF G
  <2>3. PICK g \in [0 .. N -> PassType] :
               g[0] = PassStart /\ \A n \in 1 .. N : g[n] = G[n][g[n - 1]]
    <3>1. N \in Nat /\ PassStart \in PassType /\ G \in [1 .. N -> [PassType -> PassType]]
      BY <1>1, <2>2
    <3>2. HasRecursion(N, PassType, PassStart, G)
      BY <3>1, RecursiveFunction
    <3>. QED
      BY <3>2 DEF HasRecursion
  <2>4. \A n \in 1 .. N : g[n - 1] \in PassType
    BY <1>1
  <2>. QED
    BY <2>2, <2>3, <2>4, ZenonT(40)
<1>3. PICK g \in [0 .. N -> PassType] :
        g[0] = PassStart /\ \A n \in 1 .. N : g[n] = PassStep(in, rs, g[n - 1], n)
  BY <1>2
<1>4. PassEquation(in, rs, g)
  <2>1. \A n \in 0 .. N :
          g[n] = IF n = 0 THEN PassStart ELSE PassStep(in, rs, g[n - 1], n)
    BY <1>1, <1>3
  <2>. QED
    BY <1>3, <2>1 DEF PassEquation, N
<1>5. PassEquation(in, rs, P)
  BY <1>4 DEF Pass, P
<1>6. /\ P[0] = PassStart
      /\ \A n \in 1 .. N : P[n] = PassStep(in, rs, P[n - 1], n)
  BY <1>1, <1>5 DEF PassEquation, N
<1>. DEFINE C == {n \in Nat : n <= N => P[n] \in PassType /\ Len(P[n].verdict) = n}
<1>7. 0 \in C
  BY <1>1, <1>6
<1>8. ASSUME NEW n \in Nat, n \in C PROVE n + 1 \in C
  <2>. SUFFICES ASSUME n + 1 <= N
                PROVE  P[n + 1] \in PassType /\ Len(P[n + 1].verdict) = n + 1
    OBVIOUS
  <2>1. n + 1 \in 1 .. N /\ P[n + 1] = PassStep(in, rs, P[n], n + 1)
    BY <1>1, <1>6
  <2>2. P[n] \in PassType /\ Len(P[n].verdict) = n
    BY <1>1, <1>8
  <2>. QED
    BY <2>1, <2>2, PassStepType DEF N
<1>9. Nat \subseteq C
  <2>. HIDE DEF C
  <2>. QED
    BY <1>7, <1>8, InductiveSet
<1>. QED
  BY <1>6, <1>9 DEF P, N

(* Later packets change no verdict, and no entry of another flow.          *)
LEMMA PassKeeps ==
  ASSUME NEW in \in Seq(Packet), NEW rs, NEW m \in 0 .. Len(in)
  PROVE  \A n \in m .. Len(in) :
           /\ \A i \in 1 .. m : Pass(in, rs)[n].verdict[i] = Pass(in, rs)[m].verdict[i]
           /\ \A t \in Tuples :
                (\A j \in m + 1 .. n : ~(in[j].parsed /\ in[j].tuple = t)) =>
                  Pass(in, rs)[n].flow[t] = Pass(in, rs)[m].flow[t]
<1>. DEFINE P == Pass(in, rs)
            Kept(n) ==
              /\ \A i \in 1 .. m : P[n].verdict[i] = P[m].verdict[i]
              /\ \A t \in Tuples :
                   (\A j \in m + 1 .. n : ~(in[j].parsed /\ in[j].tuple = t)) =>
                     P[n].flow[t] = P[m].flow[t]
            C == {k \in Nat : m + k <= Len(in) => Kept(m + k)}
<1>1. Len(in) \in Nat /\ m \in Nat
  OBVIOUS
<1>2. /\ \A n \in 1 .. Len(in) : P[n] = PassStep(in, rs, P[n - 1], n)
      /\ \A n \in 0 .. Len(in) : P[n] \in PassType /\ Len(P[n].verdict) = n
  BY PassUnfolds
<1>. HIDE DEF P
<1>3. 0 \in C
  BY <1>1
<1>4. ASSUME NEW k \in Nat, k \in C PROVE k + 1 \in C
  <2>. DEFINE n == m + k
  <2>. SUFFICES ASSUME n + 1 <= Len(in) PROVE Kept(n + 1)
    BY <1>1
  <2>1. n \in 0 .. Len(in) /\ n + 1 \in 1 .. Len(in) /\ Kept(n) /\ m <= n
    BY <1>1, <1>4
  <2>. HIDE DEF n
  <2>2. P[n + 1] = PassStep(in, rs, P[n], n + 1) /\ P[n] \in PassType
          /\ Len(P[n].verdict) = n
    BY <1>2, <2>1
  <2>3. \A i \in 1 .. m : P[n + 1].verdict[i] = P[m].verdict[i]
    BY <1>1, <2>1, <2>2, PassStepType
  <2>4. ASSUME NEW t \in Tuples,
               \A j \in m + 1 .. n + 1 : ~(in[j].parsed /\ in[j].tuple = t)
        PROVE  P[n + 1].flow[t] = P[m].flow[t]
    <3>1. P[n].flow[t] = P[m].flow[t]
      BY <1>1, <2>1, <2>4
    <3>2. ~(in[n + 1].parsed /\ in[n + 1].tuple = t)
      BY <1>1, <2>1, <2>4
    <3>3. P[n].flow \in [Tuples -> FlowEntry]
      BY <2>2 DEF PassType
    <3>4. P[n + 1].flow[t] = P[n].flow[t]
      <4>1. CASE ~in[n + 1].parsed
        BY <2>2, <4>1 DEF PassStep, PassType
      <4>2. CASE in[n + 1].parsed
        BY <2>2, <3>2, <3>3, <4>2 DEF PassStep
      <4>. QED
        BY <4>1, <4>2
    <3>. QED
      BY <3>1, <3>4
  <2>. QED
    BY <2>3, <2>4
<1>5. Nat \subseteq C
  <2>. HIDE DEF C
  <2>. QED
    BY <1>3, <1>4, InductiveSet
<1>6. ASSUME NEW n \in m .. Len(in) PROVE Kept(n)
  <2>1. n - m \in Nat /\ m + (n - m) = n
    BY <1>1
  <2>2. n - m \in C
    BY <1>5, <2>1
  <2>. QED
    BY <1>1, <2>1, <2>2
<1>. QED
  BY <1>6 DEF P

-----------------------------------------------------------------------------
(* Every flow stands where the pass stands after some packet, and what is  *)
(* decided is decided as in the pass.                                      *)
UpTo(t, n) ==
  \A j \in Ids : input[j].tuple = t /\ input[j].parsed => (Decided(j) <=> j <= n)

FollowsPass ==
  /\ \A t \in Tuples : \E n \in 0 .. Len(input) :
       UpTo(t, n) /\ flow[t] = Pass(input, rules)[n].flow[t]
  /\ \A i \in Ids : Decided(i) => verdict[i] = Pass(input, rules)[i].verdict[i]

LEMMA FollowsInit ==
  ASSUME Inputs \subseteq Seq(Packet), Init
  PROVE  FollowsPass
<1>1. input \in Seq(Packet) /\ Len(input) \in Nat
  BY DEF Init
<1>2. \A i \in Ids : ~Decided(i) /\ ~(i <= 0)
  BY <1>1 DEF Init, Decided, Ids
<1>3. 0 \in 0 .. Len(input) /\ Pass(input, rules)[0] = PassStart
  BY <1>1, PassUnfolds
<1>4. \A t \in Tuples : UpTo(t, 0) /\ flow[t] = PassStart.flow[t]
  BY <1>2 DEF UpTo, Init, PassStart
<1>. QED
  BY <1>2, <1>3, <1>4 DEF FollowsPass

LEMMA FollowsDecide ==
  ASSUME Inv, FollowsPass, NEW i \in Ids, Decide(i)
  PROVE  FollowsPass'
<1>. DEFINE P == Pass(input, rules)
            t == input[i].tuple
            entry == Inspect(rules, input[i], flow[t])
            v == IF entry.blocked THEN "dropped" ELSE "forwarded"
<1>1. /\ input \in Seq(Packet) /\ Len(input) \in Nat /\ i \in 1 .. Len(input)
      /\ verdict \in [Ids -> Verdicts] /\ flow \in [Tuples -> FlowEntry]
      /\ t \in Tuples
  BY IdsAreNumbers DEF Inv, TypeOK, Ids
<1>2. /\ flow' = [flow EXCEPT ![t] = entry]
      /\ verdict' = [verdict EXCEPT ![i] = v]
      /\ UNCHANGED <<input, rules>> /\ input[i].parsed /\ ~Decided(i)
  BY DEF Decide, Decided
<1>3. \A j \in Ids : input[j].tuple = t /\ input[j].parsed =>
        (j < i => Decided(j)) /\ (i < j => ~Decided(j))
  BY NothingAhead DEF SameFlow
<1>4. PICK n \in 0 .. Len(input) : UpTo(t, n) /\ flow[t] = P[n].flow[t]
  BY <1>1 DEF FollowsPass
<1>5. n <= i - 1
  BY <1>1, <1>2, <1>4 DEF UpTo
<1>6. \A j \in n + 1 .. i - 1 : ~(input[j].parsed /\ input[j].tuple = t)
  <2>1. ASSUME NEW j \in n + 1 .. i - 1, input[j].parsed, input[j].tuple = t
        PROVE  FALSE
    <3>1. j \in Ids /\ j < i /\ ~(j <= n)
      BY <1>1, <1>5 DEF Ids
    <3>. QED
      BY <1>3, <1>4, <2>1, <3>1 DEF UpTo
  <2>. QED
    BY <2>1
<1>7. P[i - 1].flow[t] = flow[t]
  <2>1. i - 1 \in n .. Len(input)
    BY <1>1, <1>5
  <2>2. \A k \in n .. Len(input) :
          (\A j \in n + 1 .. k : ~(input[j].parsed /\ input[j].tuple = t)) =>
            P[k].flow[t] = P[n].flow[t]
    BY <1>1, PassKeeps
  <2>. HIDE DEF P, t
  <2>. QED
    BY <1>4, <1>6, <2>1, <2>2
<1>8. /\ P[i] = PassStep(input, rules, P[i - 1], i) /\ P[i - 1] \in PassType
      /\ Len(P[i - 1].verdict) = i - 1
  BY <1>1, PassUnfolds
<1>. HIDE DEF P
<1>9. P[i].flow[t] = entry /\ P[i].verdict[i] = v
  <2>1. P[i] = [flow |-> [P[i - 1].flow EXCEPT ![t] = entry],
                verdict |-> Append(P[i - 1].verdict, v)]
    BY <1>2, <1>7, <1>8 DEF PassStep
  <2>2. P[i - 1].flow \in [Tuples -> FlowEntry] /\ P[i - 1].verdict \in Seq(Verdicts)
    BY <1>8 DEF PassType
  <2>. HIDE DEF t, entry, v
  <2>3. Append(P[i - 1].verdict, v)[i] = v
    BY <1>1, <1>8, <2>2
  <2>4. P[i].flow = [P[i - 1].flow EXCEPT ![t] = entry]
          /\ P[i].verdict = Append(P[i - 1].verdict, v)
    BY <2>1
  <2>5. P[i].flow[t] = entry
    BY <1>1, <2>2, <2>4
  <2>. QED
    BY <2>3, <2>4, <2>5
<1>. HIDE DEF entry, v
<1>10. Ids' = Ids /\ P' = P
  BY <1>2 DEF Ids, P
<1>11. \A j \in Ids : Decided(j)' <=> Decided(j) \/ j = i
  <2>1. v # "none"
    BY DEF v
  <2>. QED
    BY <1>1, <1>2, <2>1 DEF Decided
<1>12. ASSUME NEW u \in Tuples
       PROVE  \E k \in 0 .. Len(input) : UpTo(u, k)' /\ flow'[u] = P[k].flow[u]
  <2>1. CASE u = t
    <3>1. UpTo(u, i)'
      <4>1. \A j \in Ids : j \in Nat
        BY <1>1 DEF Ids
      <4>2. \A j \in Ids : input[j].tuple = u /\ input[j].parsed =>
              (Decided(j)' <=> j <= i)
        BY <1>1, <1>3, <1>11, <2>1, <4>1
      <4>. QED
        BY <1>2, <1>10, <4>2 DEF UpTo
    <3>2. flow'[t] = entry /\ i \in 0 .. Len(input)
      BY <1>1, <1>2
    <3>3. flow'[t] = P[i].flow[t]
      BY <1>9, <3>2
    <3>4. UpTo(u, i)' /\ flow'[u] = P[i].flow[u]
      BY <2>1, <3>1, <3>3
    <3>. QED
      BY <3>2, <3>4
  <2>2. CASE u # t
    <3>1. PICK k \in 0 .. Len(input) : UpTo(u, k) /\ flow[u] = P[k].flow[u]
      BY <1>12 DEF FollowsPass, P
    <3>2. UpTo(u, k)'
      BY <1>2, <1>10, <1>11, <2>2, <3>1 DEF UpTo, t
    <3>3. flow'[u] = flow[u]
      BY <1>1, <1>2, <2>2
    <3>. QED
      BY <3>1, <3>2, <3>3
  <2>. QED
    BY <2>1, <2>2
<1>13. ASSUME NEW j \in Ids, Decided(j)' PROVE verdict'[j] = P[j].verdict[j]
  <2>1. CASE j = i
    BY <1>1, <1>2, <1>9, <2>1
  <2>2. CASE j # i
    BY <1>1, <1>2, <1>11, <1>13, <2>2 DEF FollowsPass, P
  <2>. QED
    BY <2>1, <2>2
<1>. QED
  BY <1>2, <1>10, <1>12, <1>13 DEF FollowsPass, P

LEMMA FollowsStep == Inv /\ FollowsPass /\ [Next]_vars => FollowsPass'
<1>. SUFFICES ASSUME Inv, FollowsPass, [Next]_vars PROVE FollowsPass'
  OBVIOUS
<1>1. ASSUME NEW i \in Ids, Decide(i) PROVE FollowsPass'
  BY <1>1, FollowsDecide
<1>2. CASE (\E i \in Ids : Emit(i)) \/ Finish \/ UNCHANGED vars
  <2>1. UNCHANGED <<input, rules, flow, verdict>>
    BY <1>2 DEF Emit, Finish, vars
  <2>2. Ids' = Ids /\ \A j : Decided(j)' <=> Decided(j)
    BY <2>1 DEF Ids, Decided
  <2>3. \A t, n : UpTo(t, n)' <=> UpTo(t, n)
    BY <2>1, <2>2 DEF UpTo
  <2>. QED
    BY <2>1, <2>2, <2>3 DEF FollowsPass
<1>. QED
  BY <1>1, <1>2 DEF Next

LEMMA FollowsIndependent == Inv /\ FollowsPass => ScheduleIndependent
<1>. SUFFICES ASSUME Inv, FollowsPass, NEW i \in Ids, Decided(i)
              PROVE  verdict[i] = Sequential(input, rules).verdict[i]
  BY DEF ScheduleIndependent, Decided
<1>1. /\ input \in Seq(Packet) /\ i \in 0 .. Len(input) /\ i \in 1 .. i
      /\ Len(input) \in i .. Len(input)
  BY DEF Inv, TypeOK, Ids
<1>2. Pass(input, rules)[Len(input)].verdict[i] = Pass(input, rules)[i].verdict[i]
  BY <1>1, PassKeeps
<1>. QED
  BY <1>2, SequentialIsPass DEF FollowsPass

(* The order in which a filter takes the flows, and how far it gets in     *)
(* each, changes no verdict: a packet that is decided gets the verdict of  *)
(* a single-threaded pass over the capture.                                *)
THEOREM FilterIgnoresSchedule ==
  ASSUME Inputs \subseteq Seq(Packet)
  PROVE  Spec => []ScheduleIndependent
BY FilterInvInit, FilterInvStep, FollowsInit, FollowsStep,
   FollowsIndependent, PTL DEF Spec
=============================================================================
