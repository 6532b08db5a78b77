---------------------------- MODULE MCFastPath -----------------------------
(***************************************************************************)
(* FastPath for TLC: three connections on a table of two.  One opens, is   *)
(* classified by its name and closes; one is of a port with no class of    *)
(* its own; one is DNS.  Each name, each application and one host may be   *)
(* blocked and unblocked at any time.                                      *)
(***************************************************************************)
EXTENDS FastPath

Web == [src_ip |-> "10.0.0.1", src_port |-> 5000, dst_port |-> 443, protocol |-> 6]
Ssh == [src_ip |-> "10.0.0.2", src_port |-> 5000, dst_port |-> 22, protocol |-> 6]
Dns == [src_ip |-> "10.0.0.2", src_port |-> 5000, dst_port |-> 53, protocol |-> 17]
MCTuples == {Web, Ssh, Dns}

MCNames == {"", "www.facebook.com"}
MCIPs == {"10.0.0.1", "10.0.0.2", "0.0.0.0"}
MCPorts == {22, 53, 443, 5000}
PortTexts == {"22", "53", "443", "5000"}
MCAppTypes == {"Unknown", "HTTP", "HTTPS", "DNS", "Facebook"}
MCDomains == {"", "www.facebook.com"} \cup MCIPs \cup MCAppTypes \cup PortTexts
MCPatterns == {"*.facebook.com"}

MCIPText(i) == i
MCIPOf(t) == IF t \in MCIPs THEN t ELSE "0.0.0.0"
MCPortText(p) ==
  CASE p = 22 -> "22" [] p = 53 -> "53" [] p = 443 -> "443" [] p = 5000 -> "5000"
MCPortOf(t) ==
  IF t \in PortTexts THEN CHOOSE p \in MCPorts : MCPortText(p) = t ELSE Throws
MCMatches(d, p) == d = "www.facebook.com"
MCSniToAppType(n) == IF n = "www.facebook.com" THEN "Facebook" ELSE "Unknown"

Bytes(sni, query) == [long |-> TRUE, sni |-> sni, host |-> NoName, query |-> query]
Pkt(t, flags, payload) == [tuple |-> t, flags |-> flags, payload |-> payload]

Hello == Pkt(Web, {"ACK"}, Bytes("www.facebook.com", NoName))
Data == Pkt(Web, {"ACK"}, Bytes(NoName, NoName))
LastData == Pkt(Web, {"FIN", "ACK"}, Bytes(NoName, NoName))
Open == {Pkt(Web, {"SYN"}, NoPayload), Pkt(Web, {"SYN", "ACK"}, NoPayload)}
Reset == Pkt(Ssh, {"RST"}, NoPayload)
Shell == Pkt(Ssh, {"ACK"}, Bytes(NoName, NoName))
Lookup == Pkt(Dns, {}, Bytes(NoName, "www.facebook.com"))

AllPackets == Open \cup {Hello, Data, LastData, Reset, Shell, Lookup}
WebPackets == {Hello, Data, Lookup}

NoFile == {<<>>}
OneRuling == {<<"pattern", "*.facebook.com">>}
MCRulings == {<<"ip", "10.0.0.2">>, <<"app", "Facebook">>, <<"pattern", "*.facebook.com">>}
=============================================================================
