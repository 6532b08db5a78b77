---------------------------- MODULE RuleManager ----------------------------
(***************************************************************************)
(* RuleManager of src/rule_manager.cpp: four sections of blocking rules,   *)
(* each behind its own reader-writer lock.  One thread changes the rules,  *)
(* saves and loads them; fast-path workers ask shouldBlock meanwhile.      *)
(*                                                                         *)
(* A critical section is one action.  A call that takes several locks one  *)
(* after the other (clearAll, saveRules, loadRules, shouldBlock) is        *)
(* several actions, and the other threads run in between.  The thread that *)
(* changes the rules makes at most MaxCalls calls.                         *)
(***************************************************************************)
EXTENDS Naturals, Sequences, FiniteSets, SequencesExt

CONSTANTS
  Checkers,       \* the threads that call shouldBlock
  IPs, Ports, AppTypes,
  Domains,        \* the texts without '*' that may name a domain
  Patterns,       \* those with a '*'
  Bracketed,      \* those of both that begin with '['
  IPText(_),      \* ipToString
  IPOf(_),        \* parseIP
  PortText(_),    \* a port as saveRules prints it
  PortOf(_),      \* std::stoi cut to 16 bits, Throws when stoi throws
  Throws,
  Matches(_, _),  \* domainMatchesPattern on both in lower case
  HandWritten,    \* rule files written by hand, as sequences of lines
  Rulings,        \* the rules the managing thread blocks and unblocks
  Queries,        \* what the checkers ask about
  MaxCalls

Kinds == {"ip", "app", "domain", "pattern", "port"}

Rule == ({"ip"} \X IPs) \cup ({"app"} \X AppTypes) \cup ({"domain"} \X Domains)
        \cup ({"pattern"} \X Patterns) \cup ({"port"} \X Ports)

Query == [src_ip : IPs, dst_port : Ports, app : AppTypes, domain : Domains]

Texts == Domains \cup Patterns

(* Neither a blank line nor the beginning of a section.                    *)
PlainTexts == Texts \ (Bracketed \cup {""})

Headers == {"[BLOCKED_IPS]", "[BLOCKED_APPS]", "[BLOCKED_DOMAINS]", "[BLOCKED_PORTS]"}

ASSUME RuleAssumption ==
  /\ Domains \cap Patterns = {} /\ Bracketed \subseteq Texts \ {""}
  /\ Texts \cap Headers = {} /\ AppTypes \subseteq PlainTexts
  /\ \A i \in IPs : IPText(i) \in PlainTexts /\ IPOf(IPText(i)) = i
  /\ \A p \in Ports : PortText(p) \in PlainTexts /\ PortOf(PortText(p)) = p
  /\ \A t \in Texts : IPOf(t) \in IPs /\ PortOf(t) \in Ports \cup {Throws}
  /\ Throws \notin Ports
  /\ \A d \in Domains, p \in Patterns : Matches(d, p) \in BOOLEAN
  /\ \A f \in HandWritten : f \in Seq(Texts \cup Headers)
  /\ Rulings \subseteq Rule /\ Queries \subseteq Query
  /\ MaxCalls \in Nat

VARIABLES
  held,      \* rules: blocked_ips_, blocked_apps_, blocked_domains_ and
             \* blocked_ports_; patterns: domain_patterns_, a vector
  todo,      \* what is left of the managing thread's call
  section,   \* current_section of loadRules
  file,      \* the lines of the rules file
  calls,     \* calls made by the managing thread
  check,     \* per checker: its shouldBlock call
  saved      \* history: the rules when saveRules was called

ruleVars == <<held, todo, section, file, calls, check, saved>>

InForce == held.rules \cup {<<"pattern", p>> : p \in ToSet(held.patterns)}

Empty == [rules |-> {}, patterns |-> <<>>]

(* throughout and ever are history: the rules in force during all, and     *)
(* during some, of the check.                                              *)
NoCheck == [at |-> "idle", answer |-> "none"]

Checking(c) == check[c].at # "idle"

RulesInit ==
  /\ held = Empty
  /\ todo = <<>> /\ section = "" /\ calls = 0
  /\ file \in HandWritten
  /\ check = [c \in Checkers |-> NoCheck]
  /\ saved = <<>>
-----------------------------------------------------------------------------
(* What the checks under way notice of a change.                           *)
Witnessed ==
  check' = [c \in Checkers |->
              IF Checking(c)
              THEN [check[c] EXCEPT !.throughout = @ \cap InForce',
                                    !.ever = @ \cup InForce']
              ELSE check[c]]

(* Variant: a pattern is stored among the names.                           *)
WithStar(h, r) == [h EXCEPT !.rules = @ \cup {r}]

(* block<kind>: a set insertion, but a pattern is pushed once more.        *)
With(h, r) ==
  IF r[1] = "pattern" THEN [h EXCEPT !.patterns = Append(@, r[2])]
  ELSE [h EXCEPT !.rules = @ \cup {r}]

(* find and erase: past the first copy of p, everything moves down by one. *)
(* (RemoveFirst of SequencesExt, in a form the provers can open.)          *)
WithoutFirst(s, p) ==
  IF p \in ToSet(s)
  THEN [i \in 1 .. Len(s) - 1 |-> IF \E j \in 1 .. i : s[j] = p THEN s[i + 1] ELSE s[i]]
  ELSE s

(* unblock<kind> removes the first copy of a pattern.                      *)
Without(h, r) ==
  IF r[1] = "pattern" THEN [h EXCEPT !.patterns = WithoutFirst(@, r[2])]
  ELSE [h EXCEPT !.rules = @ \ {r}]

Begins == todo = <<>> /\ calls < MaxCalls /\ calls' = calls + 1

Block(r) ==
  /\ Begins /\ held' = With(held, r) /\ Witnessed
  /\ UNCHANGED <<todo, section, file, saved>>

Unblock(r) ==
  /\ Begins /\ held' = Without(held, r) /\ Witnessed
  /\ UNCHANGED <<todo, section, file, saved>>

ClearAll ==
  /\ Begins
  /\ todo' = <<<<"clear", {"ip"}>>, <<"clear", {"app"}>>,
               <<"clear", {"domain", "pattern"}>>, <<"clear", {"port"}>>>>
  /\ UNCHANGED <<held, section, file, check, saved>>

ClearSection ==
  /\ todo # <<>> /\ Head(todo)[1] = "clear"
  /\ held' = [rules    |-> {r \in held.rules : r[1] \notin Head(todo)[2]},
              patterns |-> IF "pattern" \in Head(todo)[2] THEN <<>> ELSE held.patterns]
  /\ todo' = Tail(todo)
  /\ Witnessed
  /\ UNCHANGED <<section, file, calls, saved>>
-----------------------------------------------------------------------------
(* Opening the file empties it.                                            *)
SaveRules ==
  /\ Begins
  /\ file' = <<>>
  /\ todo' = <<<<"save", "[BLOCKED_IPS]">>, <<"save", "[BLOCKED_APPS]">>,
               <<"save", "[BLOCKED_DOMAINS]">>, <<"save", "[BLOCKED_PORTS]">>>>
  /\ saved' = held
  /\ UNCHANGED <<held, section, check>>

Values(kind) == {r[2] : r \in {x \in held.rules : x[1] = kind}}

(* Variant: the patterns are not written.                                  *)
LinesWithoutPatterns(header) ==
  CASE header = "[BLOCKED_IPS]"     -> SetToSeqs({IPText(i) : i \in Values("ip")})
    [] header = "[BLOCKED_APPS]"    -> SetToSeqs(Values("app"))
    [] header = "[BLOCKED_DOMAINS]" -> SetToSeqs(Values("domain"))
    [] header = "[BLOCKED_PORTS]"   -> SetToSeqs({PortText(p) : p \in Values("port")})

(* The lines of a section, in the order the hash set happens to have; the  *)
(* blank line between sections is left out, as loadRules skips it.         *)
Lines(header) ==
  CASE header = "[BLOCKED_IPS]"     -> SetToSeqs({IPText(i) : i \in Values("ip")})
    [] header = "[BLOCKED_APPS]"    -> SetToSeqs(Values("app"))
    [] header = "[BLOCKED_DOMAINS]" -> {s \o held.patterns : s \in SetToSeqs(Values("domain"))}
    [] header = "[BLOCKED_PORTS]"   -> SetToSeqs({PortText(p) : p \in Values("port")})

SaveSection ==
  /\ todo # <<>> /\ Head(todo)[1] = "save"
  /\ \E lines \in Lines(Head(todo)[2]) :
       file' = file \o <<Head(todo)[2]>> \o lines
  /\ todo' = Tail(todo)
  /\ UNCHANGED <<held, section, calls, check, saved>>
-----------------------------------------------------------------------------
LoadRules ==
  /\ Begins
  /\ todo' = [i \in 1 .. Len(file) |-> <<"load", file[i]>>]
  /\ section' = ""
  /\ UNCHANGED <<held, file, check, saved>>

DomainRule(d) == IF d \in Patterns THEN <<"pattern", d>> ELSE <<"domain", d>>

(* What a line of a section stands for: no rule if it is an unknown        *)
(* application or outside the four sections.                               *)
Read(sec, line) ==
  CASE sec = "[BLOCKED_IPS]"     -> <<"ip", IPOf(line)>>
    [] sec = "[BLOCKED_APPS]"    -> <<"app", line>>
    [] sec = "[BLOCKED_DOMAINS]" -> DomainRule(line)
    [] sec = "[BLOCKED_PORTS]"   -> <<"port", PortOf(line)>>
    [] OTHER                     -> <<"none", line>>

(* One turn of the loop, on the rules and the section reached.             *)
ReadLine(st, line) ==
  CASE line = "" -> st
    [] line \in Headers \cup Bracketed -> [st EXCEPT !.section = line]
    [] line \notin Headers \cup Bracketed \cup {""} /\ Read(st.section, line) \in Rule ->
         [st EXCEPT !.held = With(@, Read(st.section, line))]
    [] OTHER -> st

Malformed(line) ==
  /\ section = "[BLOCKED_PORTS]" /\ line \notin Headers \cup Bracketed \cup {""}
  /\ PortOf(line) = Throws

(* std::stoi may throw out of the loop: the rest of the file is not read,  *)
(* and the rules read so far stay.                                         *)
LoadLine ==
  /\ todo # <<>> /\ Head(todo)[1] = "load"
  /\ LET line == Head(todo)[2]
         st   == ReadLine([held |-> held, section |-> section], line)
     IN  IF Malformed(line)
         THEN todo' = <<>> /\ UNCHANGED <<held, section>>
         ELSE todo' = Tail(todo) /\ held' = st.held /\ section' = st.section
  /\ Witnessed
  /\ UNCHANGED <<file, calls, saved>>

Manage ==
  \/ \E r \in Rulings : Block(r) \/ Unblock(r)
  \/ ClearAll \/ ClearSection
  \/ SaveRules \/ SaveSection
  \/ LoadRules \/ LoadLine
-----------------------------------------------------------------------------
(* shouldBlock: IP, port, application, domain, each under its own lock.    *)
Ask(c, q) ==
  /\ ~Checking(c)
  /\ check' = [check EXCEPT ![c] =
       [at |-> "ip", answer |-> "none", query |-> q,
        throughout |-> InForce, ever |-> InForce]]

(* Variant: an empty name is looked up like any other.                     *)
HitsUnnamed(kind, q) ==
  CASE kind = "ip"     -> <<"ip", q.src_ip>> \in held.rules
    [] kind = "port"   -> <<"port", q.dst_port>> \in held.rules
    [] kind = "app"    -> <<"app", q.app>> \in held.rules
    [] kind = "domain" -> \/ <<"domain", q.domain>> \in held.rules
                          \/ \E p \in ToSet(held.patterns) : Matches(q.domain, p)

(* Variant: the patterns are not looked at.                                *)
HitsExactly(kind, q) ==
  CASE kind = "ip"     -> <<"ip", q.src_ip>> \in held.rules
    [] kind = "port"   -> <<"port", q.dst_port>> \in held.rules
    [] kind = "app"    -> <<"app", q.app>> \in held.rules
    [] kind = "domain" -> q.domain # "" /\ <<"domain", q.domain>> \in held.rules

Hits(kind, q) ==
  CASE kind = "ip"     -> <<"ip", q.src_ip>> \in held.rules
    [] kind = "port"   -> <<"port", q.dst_port>> \in held.rules
    [] kind = "app"    -> <<"app", q.app>> \in held.rules
    [] kind = "domain" -> /\ q.domain # ""
                          /\ \/ <<"domain", q.domain>> \in held.rules
                             \/ \E p \in ToSet(held.patterns) : Matches(q.domain, p)

After(kind) ==
  CASE kind = "ip" -> "port" [] kind = "port" -> "app"
    [] kind = "app" -> "domain" [] kind = "domain" -> "idle"

CheckSection(c) ==
  /\ Checking(c)
  /\ LET kind == check[c].at
         hit  == Hits(kind, check[c].query)
     IN  check' = [check EXCEPT
           ![c].at = IF hit THEN "idle" ELSE After(kind),
           ![c].answer = IF hit THEN kind
                         ELSE IF kind = "domain" THEN "allow" ELSE "none"]
  /\ UNCHANGED <<held, todo, section, file, calls, saved>>

RulesNext ==
  \/ Manage
  \/ \E c \in Checkers, q \in Queries :
       Ask(c, q) /\ UNCHANGED <<held, todo, section, file, calls, saved>>
  \/ \E c \in Checkers : CheckSection(c)

RulesSpec == RulesInit /\ [][RulesNext]_ruleVars
-----------------------------------------------------------------------------
Steps == ({"clear"} \X SUBSET Kinds) \cup ({"save"} \X Headers)
         \cup ({"load"} \X (Texts \cup Headers))

Call == [at : {"idle", "ip", "port", "app", "domain"},
         answer : {"none", "allow", "ip", "port", "app", "domain"},
         query : Query, throughout : SUBSET Rule, ever : SUBSET Rule]

HeldOK(h) ==
  /\ h \in [rules : SUBSET Rule, patterns : Seq(Patterns)]
  /\ IsFiniteSet(h.rules) /\ \A r \in h.rules : r[1] # "pattern"

(* Every variable has its type, and patterns are kept apart from names.    *)
RulesTypeOK ==
  /\ HeldOK(held)
  /\ todo \in Seq(Steps) /\ file \in Seq(Texts \cup Headers)
  /\ calls \in 0 .. MaxCalls
  /\ check \in [Checkers -> Call \cup {NoCheck}]

(* What a rule means, whatever section holds it.                           *)
Blocks(r, q) ==
  \/ r = <<"ip", q.src_ip>> \/ r = <<"port", q.dst_port>> \/ r = <<"app", q.app>>
  \/ /\ q.domain # ""
     /\ \/ r = <<"domain", q.domain>>
        \/ r[1] = "pattern" /\ Matches(q.domain, r[2])

(* A packet let through was matched by no rule that was in force during    *)
(* the whole of shouldBlock, however rules came and went meanwhile.        *)
SteadyRulesApply ==
  \A c \in Checkers : check[c].answer = "allow" =>
    \A r \in check[c].throughout : ~Blocks(r, check[c].query)

(* A packet is only blocked for a rule that was in force at some moment of *)
(* the call, and of the kind the reason names.                             *)
NoPhantomBlock ==
  \A c \in Checkers : check[c].answer \in Kinds =>
    \E r \in check[c].ever :
      /\ Blocks(r, check[c].query)
      /\ check[c].answer = (IF r[1] = "pattern" THEN "domain" ELSE r[1])

(* A file that saveRules has finished gives loadRules, in an empty manager, *)
(* the rules that were saved, unless one of them is a domain or a pattern   *)
(* that reads as a blank line or as a section header.                      *)
SavedRulesComeBack ==
  /\ todo = <<>> /\ saved # <<>>
  /\ \A d \in Bracketed \cup {""} :
       <<"domain", d>> \notin saved.rules /\ d \notin ToSet(saved.patterns)
  => FoldLeft(ReadLine, [held |-> Empty, section |-> ""], file).held = saved

(* "// Unblock a domain": when unblockDomain returns, the domain or        *)
(* pattern is blocked no more.                                             *)
UnblockUnblocks ==
  [][\A r \in Rulings : Unblock(r) => r \notin InForce']_ruleVars
=============================================================================
