---------------------------- MODULE PacketFilter ----------------------------
(***************************************************************************)
(* What process() of src/dpi_mt.cpp promises, with no threads and no       *)
(* queues: one flow table for the whole engine.  The packets of a flow are *)
(* decided in the order of the capture, each by Inspect on the flow's      *)
(* entry; forwarded packets are written, those of one flow in order.  The  *)
(* order between flows is open, and so is where each flow stops: packets   *)
(* may be left undecided at the end, but none that is forwarded unwritten. *)
(***************************************************************************)
EXTENDS FlowInspection, Sequences

CONSTANTS Inputs, RuleSets

VARIABLES input, rules, flow, verdict, written, finished

vars == <<input, rules, flow, verdict, written, finished>>

Ids == 1 .. Len(input)
SameFlow(i, j) == input[i].tuple = input[j].tuple

Init ==
  /\ input \in Inputs /\ rules \in RuleSets
  /\ flow = [t \in Tuples |-> NewFlow]
  /\ verdict = [i \in Ids |-> "none"]
  /\ written = <<>>
  /\ finished = FALSE

Written == {written[n] : n \in 1 .. Len(written)}

(* A packet is decided after all earlier packets of its flow.              *)
ItsTurn(i) ==
  \A j \in 1 .. i - 1 :
    SameFlow(i, j) /\ input[j].parsed => verdict[j] # "none"

Decide(i) ==
  LET t == input[i].tuple
      entry == Inspect(rules, input[i], flow[t])
  IN
  /\ ~finished /\ input[i].parsed /\ verdict[i] = "none"
  /\ ItsTurn(i)
  /\ flow' = [flow EXCEPT ![t] = entry]
  /\ verdict' = [verdict EXCEPT ![i] =
                   IF entry.blocked THEN "dropped" ELSE "forwarded"]
  /\ UNCHANGED <<input, rules, written, finished>>

Emit(i) ==
  /\ ~finished /\ verdict[i] = "forwarded" /\ i \notin Written
  /\ \A j \in 1 .. i - 1 :
       SameFlow(i, j) /\ verdict[j] = "forwarded" => j \in Written
  /\ written' = Append(written, i)
  /\ UNCHANGED <<input, rules, flow, verdict, finished>>

Finish ==
  /\ ~finished
  /\ \A i \in Ids : verdict[i] = "forwarded" => i \in Written
  /\ finished' = TRUE
  /\ UNCHANGED <<input, rules, flow, verdict, written>>

Next == (\E i \in Ids : Decide(i) \/ Emit(i)) \/ Finish

Spec == Init /\ [][Next]_vars

(* The flow entries and verdicts of a single-threaded pass over a capture: *)
(* what the first n packets leave behind.                                  *)
Sequential(in, rs) ==
  LET after[n \in 0 .. Len(in)] ==
        IF n = 0
        THEN [flow |-> [t \in Tuples |-> NewFlow], verdict |-> <<>>]
        ELSE LET p == in[n]
                 prev == after[n - 1]
                 entry == Inspect(rs, p, prev.flow[p.tuple])
             IN IF ~p.parsed
                THEN [prev EXCEPT !.verdict = Append(@, "none")]
                ELSE [flow |-> [prev.flow EXCEPT ![p.tuple] = entry],
                      verdict |-> Append(prev.verdict,
                         IF entry.blocked THEN "dropped" ELSE "forwarded")]
  IN after[Len(in)]

(* The fate of a packet does not depend on how the threads interleave: it  *)
(* is that of a single-threaded pass.                                      *)
ScheduleIndependent ==
  \A i \in Ids :
    verdict[i] \in {"none", Sequential(input, rules).verdict[i]}

(* A packet in the output comes from no blocked address; and once its flow *)
(* has shown a name, neither that name nor its application is blocked.  So *)
(* the provisional class of a port may not keep a flow from being renamed. *)
RulesEnforced ==
  \A i \in Written :
    LET named == {j \in 1 .. i : SameFlow(i, j) /\ input[j].parsed
                                 /\ ExtractedName(input[j]) # NoName}
    IN /\ input[i].tuple.src_ip \notin rules.ips
       /\ ~IsDNS(input[i].tuple) =>
            \A j \in named :
              (\A m \in named : j <= m) =>
                ~IsBlocked(rules, input[i].tuple.src_ip,
                           SniToAppType(input[j].name), input[j].name)
=============================================================================
