---------------------------- MODULE MCSequential ----------------------------
(***************************************************************************)
(* Instances of Sequential for TLC.  MCCaptures has a capture of one       *)
(* record for every odd frame, and longer captures in which a name comes   *)
(* late, a second name follows, and records cannot be read.                *)
(***************************************************************************)
EXTENDS Sequential

MCIPs == 0 .. 3
MCPorts == {53, 80, 443, 5000}
MCNames == {"", Garbled, "www.netflix.com", "WWW.YOUTUBE.COM", "ads.com",
            "www.microsoft.com", "github.com"}
MCIPOf(a) == CASE a = "10.0.0.2" -> 2 [] OTHER -> 0

MCMentions(s, d) ==
  \E k \in 0 .. Len(s) - Len(d) : SubSeq(s, k + 1, k + Len(d)) = d
MCLower(s) ==
  CASE s = "WWW.YOUTUBE.COM" -> "www.youtube.com"
    [] s = "Netflix" -> "netflix"
    [] s = "Microsoft" -> "microsoft"
    [] s = "YouTube" -> "youtube"
    [] OTHER -> s
-----------------------------------------------------------------------------
(* ClientHellos of the documented layout.                                  *)
Hel(session, ciphers, before, after, name) ==
  [session |-> session, ciphers |-> ciphers, compression |-> 1,
   before |-> before, after |-> after, nameLength |-> Len(name), name |-> name]

MCHellos ==
  {Hel(s, 4, b, a, "ads.com") : s \in {0, 32, 255}, b \in {<<>>, <<0>>, <<2, 7>>},
                                a \in {<<>>, <<3>>}}
    \cup {Hel(32, c, <<5>>, <<>>, "github.com") : c \in {0, 2, 300}}
    \cup {Hel(32, 4, <<>>, <<>>, "")}

Plain(name) == Hello(Hel(32, 4, <<2>>, <<>>, name))

(* The hello with one byte changed, and what is left of it when cut.       *)
Patch(hello, k, b) ==
  [hello EXCEPT !.payload.bytes = [i \in DOMAIN @ \cup {k} |->
                                     IF i = k THEN b ELSE @[i]]]
Cut(hello, n) == [hello EXCEPT !.len = n]

Base == Plain("ads.com")
Ext == Extensions(Base.payload)       \* the length of all extensions
SniAt == Ext + 2 + 4 + 2              \* the SNI, behind one extension
OddHellos ==
  {Cut(Patch(Base, 4, n - 5), n) : n \in {9, 43, 44, 76, 78, 82, 84, 86, SniAt + 3,
                                          SniAt + 4, Base.len - 1}}
    \cup {Cut(Base, n) : n \in {6, 8, 60}}
    \cup {Patch(Base, k, b) : k \in {0, 1, 2, 5}, b \in {0, 23}}
    \cup {Patch(Base, 43, 255), Patch(Base, 77, 200), Patch(Base, 81, 99),
          Patch(Base, Ext, 255), Patch(Base, Ext + 1, 6), Patch(Base, Ext + 5, 99)}
    \cup {Patch(Base, SniAt + k, b) : k \in {2, 3, 5, 6, 8}, b \in {1, 2, 4, 13}}

(* Requests: a header at an offset, a port, an empty one, one too late.    *)
Request(hs, n) ==
  [len |-> n, payload |-> [bytes |-> <<>>, texts |-> {}, method |-> TRUE,
                           hosts |-> hs]]
Host(at, host, port) == [at |-> at, host |-> host, port |-> port]
Requests ==
  {Request(<<Host(16, "ads.com", p)>>, n) : p \in {"", ":8080"}, n \in {22, 40}}
    \cup {Request(<<Host(16, "", p), Host(24, "github.com", "")>>, 60) :
            p \in {"", ":80"}}
    \cup {Request(<<>>, 3), Request(<<>>, 40)}
Nothing == [len |-> 0, payload |-> [bytes |-> <<>>, texts |-> {},
                                    method |-> FALSE, hosts |-> <<>>]]
-----------------------------------------------------------------------------
(* Frames.                                                                 *)
Segment(src, sport, dport, data) ==
  [len |-> 54 + data.len, ether |-> IPv4, version |-> 4, ihl |-> 5,
   protocol |-> TCP, src_ip |-> src, dst_ip |-> 3, src_port |-> sport,
   dst_port |-> dport, doff |-> 5, payload |-> data.payload]
Datagram(src, sport, dport) ==
  [Segment(src, sport, dport, Nothing) EXCEPT !.protocol = UDP, !.len = 42]
WithOptions(f) == [f EXCEPT !.ihl = 6, !.doff = 8, !.len = @ + 16]

Web(data) == Segment(1, 5000, 443, data)
Syn == Web(Nothing)
OddFrames ==
  {[Syn EXCEPT !.len = n] : n \in {13, 14, 33, 34, 53}}
    \cup {[Syn EXCEPT !.ether = 2054], [Syn EXCEPT !.version = 6],
          [Syn EXCEPT !.ihl = 4], [Syn EXCEPT !.ihl = 6], [Syn EXCEPT !.doff = 4],
          [Syn EXCEPT !.doff = 6], [Syn EXCEPT !.protocol = 1]}
    \cup {Datagram(1, 5000, 443), [Datagram(1, 53, 443) EXCEPT !.len = 41],
          WithOptions(Web(Base)), WithOptions(Syn)}

MCFrames ==
  {Web(h) : h \in OddHellos \cup {Hello(h) : h \in MCHellos}}
    \cup {Segment(2, 5000, 80, r) : r \in Requests \cup {Base}}
    \cup OddFrames
-----------------------------------------------------------------------------
Rec(f) == [incl |-> WordOf(f.len), frame |-> f, present |-> f.len]
Swapped(r) == [r EXCEPT !.incl = Reverse(@)]
MCSnaplen == <<0, 0, 255, 255>>
Capture(rs) == [magic |-> "native", snaplen |-> MCSnaplen, records |-> rs]
SwappedCapture(rs) ==
  [magic |-> "swapped", snaplen |-> Reverse(MCSnaplen),
   records |-> [i \in DOMAIN rs |-> Swapped(rs[i])]]
Of(fs) == [i \in DOMAIN fs |-> Rec(fs[i])]

(* The frames longer captures are made of: two names for one flow, the     *)
(* same flow with no name, DNS from and to the HTTPS port, a page.         *)
Story == {Syn, Web(Plain("www.netflix.com")), Web(Plain("WWW.YOUTUBE.COM")),
          Web(Plain("")), Segment(1, 53, 443, Nothing),
          Segment(1, 53, 443, Plain("ads.com")),
          Segment(2, 5000, 80, Request(<<Host(16, "ads.com", "")>>, 40)),
          Segment(2, 5000, 80, Nothing), Datagram(2, 5000, 53),
          [Syn EXCEPT !.ether = 2054]}
Late == [1 .. 2 -> {Syn, Web(Plain("")), Segment(1, 53, 443, Nothing)}]
Stories == [1 .. 2 -> Story] \cup {l \o <<f>> : l \in Late, f \in Story}

Two == <<Rec(Syn), Rec(Web(Base))>>
BadFiles ==
  {Capture([Two EXCEPT ![2].present = @ - 1]),
   Capture([Two EXCEPT ![2].incl = <<1, 0, 0, 0>>]),
   [Capture(Two) EXCEPT !.magic = "other"],
   [Capture(Two) EXCEPT !.snaplen = <<0, 0, 0, 54>>],
   [Capture(Two) EXCEPT !.snaplen = <<0, 4, 0, 0>>],
   [Capture(Two) EXCEPT !.magic = "swapped", !.snaplen = Reverse(@)]}

MCCaptures ==
  {Capture(<<Rec(f)>>) : f \in MCFrames} \cup {Capture(Of(fs)) : fs \in Stories}
    \cup {SwappedCapture(<<Rec(Syn), Rec(f)>>) : f \in Story}
    \cup {Capture(<<>>)} \cup BadFiles

MCArgLists ==
  {<<>>, <<"--block-app", "YouTube">>, <<"--block-domain", "netflix">>,
   <<"--block-ip", "10.0.0.2", "--block-app", "HTTPS">>,
   <<"--block-app", "YOUTUBE", "--block-domain">>,
   <<"--block-domain", "--block-app", "DNS">>,
   <<"--json-output", "--block-ip", "10.0.0.2", "--block-app", "DNS">>}

MCTuples == {FiveTupleOf(f) : f \in MCFrames \cup Story}

(* The names of servers, and the applications to block.                    *)
AppCaptures ==
  {Capture(Of(<<Syn, Web(Plain(n)), Syn>>)) : n \in MCNames}
AppArgLists == {<<"--block-app", a>> : a \in {"YouTube", "Netflix", "Microsoft"}}
=============================================================================
