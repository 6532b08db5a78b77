----------------------------- MODULE MCPipeline -----------------------------
(***************************************************************************)
(* Instances of Pipeline for TLC: three flows (HTTPS, HTTP, DNS) and short *)
(* captures in which a name arrives late, a blocked flow goes on, a record *)
(* is not IPv4 over TCP or UDP, and a queue of one slot fills up.          *)
(***************************************************************************)
EXTENDS Pipeline

MCIPs == 0 .. 2
MCPorts == {53, 80, 443, 5000}

Flow(src, dst, sport, dport, proto) ==
  [src_ip |-> src, dst_ip |-> dst, src_port |-> sport, dst_port |-> dport,
   protocol |-> proto]

Web  == Flow(1, 0, 5000, 443, 6)
Page == Flow(2, 1, 5000, 80, 6)
Dns  == Flow(1, 2, 53, 5000, 17)
MCTuples == {Web, Page, Dns}

(* std::hash of an integer is the integer: any residue occurs.             *)
MCHashOf(t) == t.dst_ip

MCNames == {"", "ads.com", "www.ads.com", "facebook.com"}
MCAppTypes == {"Unknown", "HTTP", "HTTPS", "DNS", "Facebook"}
MCSniToAppType(n) ==
  CASE n = "" -> "Unknown"
    [] n = "facebook.com" -> "Facebook"
    [] OTHER -> "HTTPS"
MCMentions(s, d) == \E k \in 0 .. Len(s) - Len(d) : SubSeq(s, k + 1, k + Len(d)) = d

Pkt(t, n) == [tuple |-> t, name |-> n, parsed |-> TRUE]
Junk == [tuple |-> Web, name |-> "nullopt", parsed |-> FALSE]

(* A handshake without a name, then the name, then data; a second flow.    *)
LateName == <<Pkt(Web, "nullopt"), Pkt(Page, "facebook.com"),
              Pkt(Web, "www.ads.com"), Pkt(Web, "nullopt")>>
(* Two flows, one of them DNS, and a record the parser rejects.            *)
Mixed == <<Pkt(Page, "ads.com"), Junk, Pkt(Dns, "nullopt")>>
(* One flow, so one load balancer and one worker do all the work; the name *)
(* maps to another application than the port.                              *)
OneFlow == <<Pkt(Web, "nullopt"), Pkt(Web, "facebook.com"), Pkt(Web, "")>>

MCInputs == {LateName, Mixed, OneFlow}

NoRules == [ips |-> {}, apps |-> {}, domains |-> {}]
BlockDomain == [NoRules EXCEPT !.domains = {"ads.com"}]
BlockAppOrIP == [NoRules EXCEPT !.apps = {"HTTPS"}, !.ips = {2}]
MCRuleSets == {NoRules, BlockDomain, BlockAppOrIP}
=============================================================================
