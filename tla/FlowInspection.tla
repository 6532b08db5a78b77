--------------------------- MODULE FlowInspection ---------------------------
(***************************************************************************)
(* What one fast-path worker of src/dpi_mt.cpp does to the flow of one     *)
(* packet: count it, classify it from the name its payload carries, and    *)
(* decide from the blocking rules whether the flow is blocked.  The module *)
(* has no state; Pipeline and PacketFilter apply its operators.            *)
(*                                                                         *)
(* A packet is [tuple, name, parsed].  name is what the SNI or Host        *)
(* extractor returns for its payload, NoName when it returns nullopt;      *)
(* parsed says whether PacketParser accepted it as IPv4 over TCP or UDP.   *)
(***************************************************************************)
EXTENDS Naturals

CONSTANTS
  IPs,              \* source and destination addresses
  Ports,            \* port numbers of the capture
  Tuples,           \* the five-tuples of the capture
  Names,            \* domain names, "" among them
  NoName,           \* the extractors' std::nullopt
  AppTypes,         \* the AppType enumeration
  SniToAppType(_),  \* sniToAppType of src/types.cpp
  Mentions(_, _)    \* std::string::find(...) != npos

FiveTuple == [src_ip : IPs, dst_ip : IPs, src_port : Ports, dst_port : Ports,
              protocol : {6, 17}]

Packet == [tuple : Tuples, name : Names \cup {NoName}, parsed : BOOLEAN]

RuleSet == [ips : SUBSET IPs, apps : SUBSET AppTypes, domains : SUBSET Names]

FlowEntry == [app_type : AppTypes, sni : Names, packets : Nat,
              blocked : BOOLEAN, classified : BOOLEAN]

ASSUME InspectionAssumption ==
  /\ Ports \subseteq Nat
  /\ Tuples \subseteq FiveTuple
  /\ "" \in Names /\ NoName \notin Names
  /\ {"Unknown", "HTTP", "HTTPS", "DNS"} \subseteq AppTypes
  /\ \A n \in Names : SniToAppType(n) \in AppTypes
  /\ \A n, d \in Names : Mentions(n, d) \in BOOLEAN

(* The entry flows_[tuple] default-constructs for a flow not seen before.  *)
NewFlow == [app_type |-> "Unknown", sni |-> "", packets |-> 0,
            blocked |-> FALSE, classified |-> FALSE]

(* The name classifyFlow gets out of the payload: SNI on destination port  *)
(* 443, Host on 80, and nothing is tried on another port.                  *)
ExtractedName(pkt) ==
  IF pkt.tuple.dst_port \in {443, 80} THEN pkt.name ELSE NoName

IsDNS(t) == 53 \in {t.src_port, t.dst_port}

PortFallback(t, app) ==
  CASE t.dst_port = 443 -> "HTTPS"
    [] t.dst_port = 80  -> "HTTP"
    [] OTHER            -> app

(* Variant: the class of the port is taken for the flow's last word.       *)
ClassifyForGood(pkt, flow) ==
  [flow EXCEPT
     !.sni = IF ExtractedName(pkt) = NoName THEN @ ELSE pkt.name,
     !.app_type = IF ExtractedName(pkt) # NoName THEN SniToAppType(pkt.name)
                  ELSE IF IsDNS(pkt.tuple) THEN "DNS"
                  ELSE PortFallback(pkt.tuple, @),
     !.classified = TRUE]

ClassifyFlow(pkt, flow) ==
  IF ExtractedName(pkt) # NoName
  THEN [flow EXCEPT !.sni = pkt.name,
                    !.app_type = SniToAppType(pkt.name),
                    !.classified = TRUE]
  ELSE IF IsDNS(pkt.tuple)
       THEN [flow EXCEPT !.app_type = "DNS", !.classified = TRUE]
       ELSE [flow EXCEPT !.app_type = PortFallback(pkt.tuple, @)]

IsBlocked(rules, src_ip, app, sni) ==
  \/ src_ip \in rules.ips
  \/ app \in rules.apps
  \/ \E d \in rules.domains : Mentions(sni, d)

Counted(flow) == [flow EXCEPT !.packets = @ + 1]

Classified(pkt, flow) ==
  IF flow.classified THEN flow ELSE ClassifyFlow(pkt, flow)

(* Variant: the stored decision is overwritten, not kept.                  *)
JudgedAfresh(rules, pkt, flow) ==
  [flow EXCEPT !.blocked =
     IsBlocked(rules, pkt.tuple.src_ip, flow.app_type, flow.sni)]

Judged(rules, pkt, flow) ==
  [flow EXCEPT !.blocked =
     @ \/ IsBlocked(rules, pkt.tuple.src_ip, flow.app_type, flow.sni)]

(* The flow entry after the worker has handled pkt.                        *)
Inspect(rules, pkt, flow) ==
  Judged(rules, pkt, Classified(pkt, Counted(flow)))
=============================================================================
