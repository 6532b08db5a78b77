--------------------------- MODULE MCRuleManager ---------------------------
(***************************************************************************)
(* RuleManager for TLC: one worker asks about two flows of one host while  *)
(* rules of every kind come and go, are saved, cleared and loaded.         *)
(***************************************************************************)
EXTENDS RuleManager

MCIPs == {"10.0.0.1", "0.0.0.0"}
MCPorts == {443, 80}
MCAppTypes == {"YouTube", "Unknown"}
MCDomains == {"", "[x", "10.0.0.1", "0.0.0.0", "443", "65979", "80", "YouTube",
              "Unknown", "www.facebook.com", "facebook.com"}
MCPatterns == {"*.facebook.com"}

MCIPText(i) == i
MCIPOf(t) == IF t = "10.0.0.1" THEN t ELSE "0.0.0.0"
MCPortText(p) == IF p = 443 THEN "443" ELSE "80"
(* 65979 = 65536 + 443.                                                    *)
MCPortOf(t) == CASE t \in {"443", "65979"} -> 443 [] t = "80" -> 80 [] OTHER -> Throws
MCMatches(d, p) == d \in {"www.facebook.com", "facebook.com"}

MCRulings == {<<"ip", "10.0.0.1">>, <<"app", "YouTube">>, <<"port", 443>>,
              <<"domain", "facebook.com">>, <<"pattern", "*.facebook.com">>}
AnyRulings == MCRulings \cup {<<"domain", "">>, <<"domain", "[x">>}

FromHost(app, name) ==
  [src_ip |-> "10.0.0.1", dst_port |-> 443, app |-> app, domain |-> name]

MCQueries == {FromHost("YouTube", ""), FromHost("Unknown", "facebook.com")}

NoFile == {<<>>}
SomeFiles ==
  {<<"443", "[BLOCKED_PORTS]", "65979", "Unknown", "80">>,
   <<"[BLOCKED_APPS]", "facebook.com", "YouTube", "", "[x", "YouTube",
     "[BLOCKED_DOMAINS]", "facebook.com", "*.facebook.com">>}
=============================================================================
