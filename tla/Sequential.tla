----------------------------- MODULE Sequential -----------------------------
(***************************************************************************)
(* The single-threaded engine of src/main_working.cpp: one pass over the   *)
(* capture, one flow table.  The body of its loop is two steps here, up to *)
(* the decision (Handle) and the write of a forwarded packet (Write).      *)
(***************************************************************************)
EXTENDS PcapFile, PacketParser, SniExtractor, AppNames

CONSTANTS
  IPs, Ports, Tuples, Names,
  IPOf(_),     \* parseIP of an argument
  Captures, ArgLists,
  Hellos       \* ClientHellos whose extraction is checked

VARIABLES capture, args, rules, pc, pos, flows, written, total, forwarded,
          dropped, appStats,
          verdict    \* history: what became of each record

givens == <<capture, args, rules>>
stats == <<total, forwarded, dropped, appStats>>
vars == <<givens, pc, pos, flows, written, stats, verdict>>

Ids == 1 .. Len(capture.records)
FrameOf(i) == capture.records[i].frame
FlowOf(i) == FiveTupleOf(FrameOf(i))
-----------------------------------------------------------------------------
(* The options: --block-ip, --block-app and --block-domain each take the   *)
(* next argument, whatever it is; the last argument is no option.          *)

NoRules == [ips |-> {}, apps |-> {}, domains |-> {}]

(* blockApp knows an application by the name the report shows.             *)
BlockApp(rs, app) == [rs EXCEPT !.apps = @ \cup ({app} \cap AppTypeNames)]

Options(as) ==
  LET from[i \in Nat] ==
        IF i >= Len(as) THEN NoRules
        ELSE CASE as[i] = "--block-ip" ->
                    [from[i + 2] EXCEPT !.ips = @ \cup {IPOf(as[i + 1])}]
               [] as[i] = "--block-app" -> BlockApp(from[i + 2], as[i + 1])
               [] as[i] = "--block-domain" ->
                    [from[i + 2] EXCEPT !.domains = @ \cup {as[i + 1]}]
               [] as[i] = "--json-output" -> from[i + 2]
               [] OTHER -> from[i + 1]
  IN from[1]

IsBlocked(src_ip, app, sni) ==
  \/ src_ip \in rules.ips
  \/ app \in rules.apps
  \/ \E d \in rules.domains : Mentions(sni, d)
-----------------------------------------------------------------------------
(* What the loop does to the flow of a packet.                             *)

NewFlow == [app_type |-> "Unknown", sni |-> "", packets |-> 0,
            blocked |-> FALSE]

(* Variant: the result of an extractor is taken without looking at it.     *)
NamedAlways(flow, name) ==
  [flow EXCEPT !.sni = name, !.app_type = SniToApp(name)]

Named(flow, name) ==
  IF name = NoName THEN flow
  ELSE [flow EXCEPT !.sni = name, !.app_type = SniToApp(name)]

(* Variant: a flow that has its name is looked at again.                   *)
TrySNIAgain(f, flow) ==
  IF /\ HasTCP(f) /\ f.dst_port = 443
     /\ PayloadLen(f) > 5
  THEN Named(flow, ExtractSNI(f.payload, PayloadLen(f))) ELSE flow

TrySNI(f, flow) ==
  IF /\ flow.app_type \in {"Unknown", "HTTPS"} /\ flow.sni = ""
     /\ HasTCP(f) /\ f.dst_port = 443
     /\ PayloadLen(f) > 5
  THEN Named(flow, ExtractSNI(f.payload, PayloadLen(f))) ELSE flow

TryHost(f, flow) ==
  IF /\ flow.app_type \in {"Unknown", "HTTP"} /\ flow.sni = ""
     /\ HasTCP(f) /\ f.dst_port = 80
     /\ PayloadLen(f) > 0
  THEN Named(flow, ExtractHost(f.payload, PayloadLen(f))) ELSE flow

TryPorts(f, flow) ==
  IF flow.app_type # "Unknown" THEN flow
  ELSE [flow EXCEPT !.app_type =
          IF 53 \in {f.src_port, f.dst_port} THEN "DNS"
          ELSE IF f.dst_port = 443 THEN "HTTPS"
          ELSE IF f.dst_port = 80 THEN "HTTP" ELSE @]

(* Variant: the decision of an earlier packet is forgotten.                *)
JudgeAfresh(f, flow) ==
  [flow EXCEPT !.blocked = IsBlocked(f.src_ip, flow.app_type, flow.sni)]

Judge(f, flow) ==
  [flow EXCEPT !.blocked = @ \/ IsBlocked(f.src_ip, flow.app_type, flow.sni)]

Inspect(f, flow) ==
  Judge(f, TryPorts(f, TryHost(f, TrySNI(f, [flow EXCEPT !.packets = @ + 1]))))
-----------------------------------------------------------------------------
Init ==
  /\ capture \in Captures /\ args \in ArgLists
  /\ rules = Options(args)
  /\ pc = "open" /\ pos = 0
  /\ flows = [t \in Tuples |-> NewFlow]
  /\ written = <<>>
  /\ total = 0 /\ forwarded = 0 /\ dropped = 0
  /\ appStats = [a \in AppTypeNames |-> 0]
  /\ verdict = [i \in Ids |-> "none"]

(* Both files are opened and the header is copied.                         *)
Open ==
  /\ pc = "open" /\ CanOpen(capture)
  /\ pc' = "read"
  /\ UNCHANGED <<givens, pos, flows, written, stats, verdict>>

(* The input is no capture, or a file cannot be opened: main returns 1.    *)
OpenFails ==
  /\ pc = "open"
  /\ pc' = "failed"
  /\ UNCHANGED <<givens, pos, flows, written, stats, verdict>>

Skip ==
  /\ pc = "read" /\ HasNext(capture, pos) /\ ~Parsed(FrameOf(pos + 1))
  /\ pos' = pos + 1
  /\ total' = total + 1
  /\ UNCHANGED <<givens, pc, flows, written, forwarded, dropped, appStats,
                 verdict>>

Handle ==
  LET t == FlowOf(pos + 1)
      flow == Inspect(FrameOf(pos + 1), flows[t])
  IN
  /\ pc = "read" /\ HasNext(capture, pos) /\ Parsed(FrameOf(pos + 1))
  /\ pos' = pos + 1
  /\ total' = total + 1
  /\ flows' = [flows EXCEPT ![t] = flow]
  /\ appStats' = [appStats EXCEPT ![flow.app_type] = @ + 1]
  /\ IF flow.blocked
     THEN /\ dropped' = dropped + 1
          /\ verdict' = [verdict EXCEPT ![pos + 1] = "dropped"]
          /\ UNCHANGED <<pc, forwarded>>
     ELSE /\ forwarded' = forwarded + 1
          /\ verdict' = [verdict EXCEPT ![pos + 1] = "forwarded"]
          /\ pc' = "write"
          /\ UNCHANGED dropped
  /\ UNCHANGED <<givens, written>>

Write ==
  /\ pc = "write"
  /\ written' = Append(written, pos)
  /\ pc' = "read"
  /\ UNCHANGED <<givens, pos, flows, stats, verdict>>

(* The end of the capture or a record that cannot be read; the report.     *)
Finish ==
  /\ pc = "read" /\ ~HasNext(capture, pos)
  /\ pc' = "done"
  /\ UNCHANGED <<givens, pos, flows, written, stats, verdict>>

Next == Open \/ OpenFails \/ Skip \/ Handle \/ Write \/ Finish

Spec == Init /\ [][Next]_vars

(* The output file.                                                        *)
Output ==
  [magic |-> GlobalHeader(capture).magic,
   snaplen |-> GlobalHeader(capture).snaplen,
   records |-> [n \in DOMAIN written |->
                  NewRecord(FrameOf(written[n]), InclLen(capture, written[n]))]]
-----------------------------------------------------------------------------
(* As a packet filter.  An empty name has no effect here: the port decides *)
(* as if the extractor had returned nothing.                               *)
NameIn(f) ==
  IF HasTCP(f) /\ f.dst_port = 443 /\ PayloadLen(f) > 5
  THEN ExtractSNI(f.payload, PayloadLen(f))
  ELSE IF HasTCP(f) /\ f.dst_port = 80 /\ PayloadLen(f) > 0
  THEN ExtractHost(f.payload, PayloadLen(f))
  ELSE NoName

(* A capture is a sequence of records, and the packets in it are those the *)
(* tuples and the names are about.                                         *)
ASSUME SequentialAssumption ==
  /\ "" \in Names /\ NoName \notin Names
  /\ \A c \in Captures :
       /\ c.records \in Seq({c.records[i] : i \in DOMAIN c.records})
       /\ \A i \in DOMAIN c.records :
            Parsed(c.records[i].frame) =>
              /\ FiveTupleOf(c.records[i].frame) \in Tuples
              /\ NameIn(c.records[i].frame) \in Names \cup {NoName}

(* Fields and payloads are made of bytes, and a record that can be read    *)
(* has as many bytes of its frame as its length says.                      *)
ASSUME CaptureAssumption ==
  \A c \in Captures :
    /\ c.magic \in Magics /\ c.snaplen \in Word
    /\ \A i \in DOMAIN c.records :
         LET f == c.records[i].frame IN
         /\ c.records[i].incl \in Word
         /\ HasNext(c, i - 1) => f.len = InclLen(c, i)
         /\ Parsed(f) => /\ f.len \in Nat /\ f.ihl \in 0 .. 15 /\ f.doff \in 0 .. 15
                         /\ f.payload.bytes \in [DOMAIN f.payload.bytes -> Byte]

(* The lengths of a ClientHello are numbers, a name of no bytes is empty.  *)
ASSUME HelloAssumption ==
  \A h \in Hellos :
    /\ {h.session, h.ciphers, h.compression, h.nameLength} \subseteq Nat
    /\ h.before \in Seq(Nat) /\ h.after \in Seq(Nat)
    /\ h.nameLength = 0 => h.name = ""

PacketOf(f) ==
  [tuple |-> FiveTupleOf(f), parsed |-> Parsed(f),
   name |-> IF NameIn(f) = "" THEN NoName ELSE NameIn(f)]

PacketsOf(c) == [i \in DOMAIN c.records |-> PacketOf(c.records[i].frame)]

FlowEntryOf(flow) ==
  [app_type |-> flow.app_type, sni |-> flow.sni, packets |-> flow.packets,
   blocked |-> flow.blocked,
   classified |-> flow.sni # "" \/ flow.app_type = "DNS"]

InputOf == [c \in Captures |-> PacketsOf(c)]
AllInputs == {InputOf[c] : c \in Captures}
AllRuleSets == {Options(as) : as \in ArgLists}

Filter == INSTANCE PacketFilter WITH
            AppTypes <- AppTypeNames, SniToAppType <- SniToApp,
            Inputs <- AllInputs,
            RuleSets <- AllRuleSets,
            input <- InputOf[capture],
            flow <- [t \in Tuples |-> FlowEntryOf(flows[t])],
            finished <- (pc = "done")

(* The single-threaded engine and the multi-threaded one of dpi_mt.cpp are *)
(* implementations of one specification: the same packets with the same    *)
(* names get the same verdicts.                                            *)
ImplementsFilter == Filter!Spec
-----------------------------------------------------------------------------
(* Properties.                                                             *)

(* Every variable has its type.                                            *)
TypeOK ==
  /\ capture \in Captures /\ args \in ArgLists
  /\ pc \in {"open", "failed", "read", "write", "done"}
  /\ pos \in 0 .. Len(capture.records)
  /\ flows \in [Tuples -> [app_type : AppTypeNames, sni : Names,
                           packets : Nat, blocked : BOOLEAN]]
  /\ written \in Seq(Ids)
  /\ total \in Nat /\ forwarded \in Nat /\ dropped \in Nat
  /\ appStats \in [AppTypeNames -> Nat]
  /\ verdict \in [Ids -> {"none", "forwarded", "dropped"}]

Naming(t) == {i \in 1 .. pos : /\ Parsed(FrameOf(i)) /\ FlowOf(i) = t
                               /\ NameIn(FrameOf(i)) \notin {NoName, ""}}

(* A flow keeps the first name one of its packets shows, and the class of  *)
(* that name, however many packets come before it or after it: the class a *)
(* port gave at first does not stay, except DNS, and no later name counts. *)
FirstNameStays ==
  \A t \in Tuples :
    LET flow == flows[t] IN
    flow.app_type # "DNS" \/ flow.sni # "" =>
      IF Naming(t) = {} THEN flow.sni = ""
      ELSE /\ \E i \in Naming(t) :
                /\ \A j \in Naming(t) : i <= j
                /\ flow.sni = NameIn(FrameOf(i))
           /\ flow.app_type = SniToApp(flow.sni)

(* What is written can be read again, packet by packet, if the capture was *)
(* in this machine's byte order.  From a swapped capture it cannot: the    *)
(* header keeps the swapped magic number, and all else is written native.  *)
OutputReadsBack ==
  pc = "done" =>
    (Readable(Output) <=> (capture.magic = "native" \/ written = <<>>))

(* Every read of the TLS extractor, the five lengths that each locate the  *)
(* next among them, stays within the captured bytes of the packet just     *)
(* handled, whatever lengths it states.                                    *)
ReadsStayInside ==
  \A i \in Ids \cap {pos} :
    LET f == FrameOf(i) IN
    HasTCP(f) /\ f.dst_port = 443 /\ PayloadLen(f) > 5 =>
      \A end \in ReadEnds(f.payload, PayloadLen(f)) : end <= PayloadLen(f)

HelloOf == [h \in Hellos |-> Hello(h)]

(* A complete ClientHello of the documented layout, in the packet just     *)
(* handled, gives up its server name, whatever the session id, the cipher  *)
(* suites and the extensions before and after the name.                    *)
HelloNameFound ==
  \A i \in Ids \cap {pos} :
    LET f == FrameOf(i) IN
    Parsed(f) => \A h \in Hellos :
      [len |-> PayloadLen(f), payload |-> f.payload] = HelloOf[h]
        => ExtractSNI(f.payload, PayloadLen(f)) = h.name

(* "Supported Apps for Blocking" of the usage text in main_dpi.cpp, those  *)
(* whose name is a word of their domain.                                   *)
SupportedApps ==
  {"Google", "YouTube", "Facebook", "Instagram", "Netflix", "Amazon",
   "Microsoft", "Apple", "WhatsApp", "Telegram", "TikTok", "Spotify", "Zoom",
   "Discord", "GitHub"}

(* A flow whose server name has the name of a blocked, supported           *)
(* application in it is blocked.                                           *)
SupportedAppBlocked ==
  \A t \in Tuples, a \in rules.apps \cap SupportedApps :
    Mentions(Lower(flows[t].sni), Lower(a)) => flows[t].blocked
=============================================================================
