----------------------------- MODULE RuleProofs -----------------------------
(***************************************************************************)
(* Theorems about RuleManager, for any rules, any matching of patterns,    *)
(* any number of checkers and any number of calls.                         *)
(***************************************************************************)
EXTENDS RuleManager, Induction, SequenceTheorems, TLAPS

(* The kinds of rules a check has not looked at yet.                       *)
Ahead(at) ==
  CASE at = "ip" -> {"ip", "port", "app", "domain"}
    [] at = "port" -> {"port", "app", "domain"}
    [] at = "app" -> {"app", "domain"}
    [] at = "domain" -> {"domain"}
    [] at = "idle" -> {}

Section(r) == IF r[1] = "pattern" THEN "domain" ELSE r[1]

(* A check under way has seen the rules in force now, and the rules in     *)
(* force throughout do not match in the sections it has passed; its answer *)
(* says so of all sections, or names a rule it has seen.                   *)
CheckSound(k) ==
  /\ k.at # "idle" => k.throughout \subseteq InForce /\ InForce \subseteq k.ever
  /\ k.answer \in {"none", "allow"} =>
       \A r \in k.throughout : Section(r) \notin Ahead(k.at) => ~Blocks(r, k.query)
  /\ k.answer # "none" => k.at = "idle"
  /\ k.answer \in Kinds =>
       \E r \in k.ever : Blocks(r, k.query) /\ k.answer = Section(r)

ChecksSound == \A c \in Checkers : check[c] # NoCheck => CheckSound(check[c])

LEMMA WithType ==
  ASSUME NEW h, HeldOK(h), NEW r \in Rule PROVE HeldOK(With(h, r))
<1>1. CASE r[1] = "pattern"
  <2>1. r[2] \in Patterns
    BY <1>1 DEF Rule
  <2>. QED
    BY <1>1, <2>1 DEF HeldOK, With
<1>2. CASE r[1] # "pattern"
  <2>1. IsFiniteSet(h.rules \cup {r})
    BY FS_AddElement DEF HeldOK
  <2>. QED
    BY <1>2, <2>1 DEF HeldOK, With
<1>. QED
  BY <1>1, <1>2

LEMMA WithoutType ==
  ASSUME NEW h, HeldOK(h), NEW r \in Rule PROVE HeldOK(Without(h, r))
<1>1. ASSUME NEW s \in Seq(Patterns), NEW p PROVE WithoutFirst(s, p) \in Seq(Patterns)
  <2>1. CASE p \in ToSet(s)
    <3>1. Len(s) \in Nat /\ Len(s) > 0
      BY <2>1 DEF ToSet
    <3>2. \A i \in 1 .. Len(s) - 1 :
            (IF \E j \in 1 .. i : s[j] = p THEN s[i + 1] ELSE s[i]) \in Patterns
      BY <3>1
    <3>. QED
      BY <2>1, <3>1, <3>2 DEF WithoutFirst
  <2>. QED
    BY <2>1 DEF WithoutFirst
<1>2. IsFiniteSet(h.rules \ {r})
  BY FS_RemoveElement DEF HeldOK
<1>. QED
  BY <1>1, <1>2 DEF HeldOK, Without

LEMMA InForceType == HeldOK(held) => InForce \subseteq Rule
BY DEF HeldOK, InForce, Rule, ToSet

LEMMA SectionOfRule ==
  \A r \in Rule : Section(r) \in {"ip", "port", "app", "domain"}
BY DEF Rule, Section

(* A look at a section finds out whether a rule in force there matches.    *)
LEMMA HitsRule ==
  ASSUME HeldOK(held), NEW q \in Query, NEW kind \in {"ip", "port", "app", "domain"}
  PROVE  Hits(kind, q) <=> \E r \in InForce : Section(r) = kind /\ Blocks(r, q)
<1>1. ASSUME Hits(kind, q) PROVE \E r \in InForce : Section(r) = kind /\ Blocks(r, q)
  <2>1. CASE kind # "domain"
    BY <1>1, <2>1 DEF Hits, InForce, Section, Blocks, Query
  <2>2. CASE kind = "domain" /\ <<"domain", q.domain>> \in held.rules
    BY <1>1, <2>2 DEF Hits, InForce, Section, Blocks, Query
  <2>3. CASE kind = "domain" /\ <<"domain", q.domain>> \notin held.rules
    <3>1. PICK p \in ToSet(held.patterns) : Matches(q.domain, p) /\ q.domain # ""
      BY <1>1, <2>3 DEF Hits
    <3>2. <<"pattern", p>> \in InForce /\ Section(<<"pattern", p>>) = "domain"
      BY <3>1 DEF InForce, Section
    <3>3. Blocks(<<"pattern", p>>, q)
      BY <3>1 DEF Blocks
    <3>. QED
      BY <2>3, <3>2, <3>3
  <2>. QED
    BY <2>1, <2>2, <2>3
<1>2. ASSUME NEW r \in InForce, Section(r) = kind, Blocks(r, q) PROVE Hits(kind, q)
  <2>1. CASE r \in held.rules
    <3>1. r[1] # "pattern" /\ r[1] = kind
      BY <1>2, <2>1 DEF HeldOK, Section
    <3>2. CASE r = <<"ip", q.src_ip>>
      BY <2>1, <3>1, <3>2 DEF Hits
    <3>3. CASE r = <<"port", q.dst_port>>
      BY <2>1, <3>1, <3>3 DEF Hits
    <3>4. CASE r = <<"app", q.app>>
      BY <2>1, <3>1, <3>4 DEF Hits
    <3>5. CASE q.domain # "" /\ r = <<"domain", q.domain>>
      BY <2>1, <3>1, <3>5 DEF Hits
    <3>. QED
      BY <1>2, <3>1, <3>2, <3>3, <3>4, <3>5 DEF Blocks
  <2>2. CASE \E p \in ToSet(held.patterns) : r = <<"pattern", p>>
    <3>1. PICK p \in ToSet(held.patterns) : r = <<"pattern", p>>
      BY <2>2
    <3>2. r[1] = "pattern" /\ r[2] = p /\ kind = "domain"
      BY <1>2, <3>1 DEF Section
    <3>3. q.domain # "" /\ Matches(q.domain, p)
      BY <1>2, <3>1, <3>2 DEF Blocks
    <3>. QED
      BY <3>2, <3>3 DEF Hits
  <2>. QED
    BY <2>1, <2>2 DEF InForce
<1>. QED
  BY <1>1, <1>2

LEMMA WitnessedSound ==
  ASSUME check \in [Checkers -> Call \cup {NoCheck}], ChecksSound,
         HeldOK(held'), Witnessed
  PROVE  check' \in [Checkers -> Call \cup {NoCheck}] /\ ChecksSound'
<1>1. InForce' \subseteq Rule
  BY InForceType, HeldOK(held') DEF InForce, HeldOK, Rule, ToSet
<1>. SUFFICES ASSUME NEW c \in Checkers
              PROVE  /\ check'[c] \in Call \cup {NoCheck}
                     /\ check'[c] # NoCheck => CheckSound(check[c])'
  BY DEF Witnessed, ChecksSound
<1>2. CASE Checking(c)
  <2>1. check[c] \in Call /\ check[c] # NoCheck
    BY <1>2 DEF Checking, NoCheck
  <2>2. check'[c] = [check[c] EXCEPT !.throughout = @ \cap InForce', !.ever = @ \cup InForce']
    BY <1>2 DEF Witnessed
  <2>3. check'[c] \in Call
    BY <1>1, <2>1, <2>2 DEF Call
  <2>4. /\ check'[c].at = check[c].at /\ check'[c].answer = check[c].answer
        /\ check'[c].query = check[c].query
        /\ check'[c].throughout = check[c].throughout \cap InForce'
        /\ check'[c].ever = check[c].ever \cup InForce'
    BY <2>1, <2>2 DEF Call
  <2>5. CheckSound(check[c])
    BY <2>1 DEF ChecksSound
  <2>6. CheckSound(check[c])'
    BY <2>4, <2>5 DEF CheckSound
  <2>. QED
    BY <2>3, <2>6
<1>3. CASE ~Checking(c)
  <2>1. check'[c] = check[c] /\ check[c].at = "idle"
    BY <1>3 DEF Witnessed, Checking
  <2>2. check[c] # NoCheck => CheckSound(check[c])
    BY DEF ChecksSound
  <2>. QED
    BY <2>1, <2>2 DEF CheckSound
<1>. QED
  BY <1>2, <1>3

LEMMA AskSound ==
  ASSUME check \in [Checkers -> Call \cup {NoCheck}], ChecksSound,
         HeldOK(held), NEW c \in Checkers, NEW q \in Query, Ask(c, q),
         held' = held
  PROVE  check' \in [Checkers -> Call \cup {NoCheck}] /\ ChecksSound'
<1>. DEFINE k == [at |-> "ip", answer |-> "none", query |-> q,
                  throughout |-> InForce, ever |-> InForce]
<1>1. check' = [check EXCEPT ![c] = k]
  BY DEF Ask
<1>2. InForce \subseteq Rule /\ InForce' = InForce
  BY InForceType DEF InForce
<1>3. k \in Call
  BY <1>2 DEF Call
<1>4. \A r \in InForce : Section(r) \in Ahead("ip")
  BY <1>2, SectionOfRule DEF Ahead
<1>5. k.answer = "none" /\ k.at = "ip" /\ k.throughout = InForce /\ k.ever = InForce
  OBVIOUS
<1>6. CheckSound(k)
  BY <1>4, <1>5 DEF CheckSound, Kinds
<1>7. ASSUME NEW d \in Checkers, check'[d] # NoCheck PROVE CheckSound(check[d])'
  <2>1. CheckSound(check'[d])
    BY <1>1, <1>6, <1>7 DEF ChecksSound
  <2>. QED
    BY <1>2, <2>1 DEF CheckSound
<1>. QED
  BY <1>1, <1>3, <1>7 DEF ChecksSound

LEMMA SectionSound ==
  ASSUME check \in [Checkers -> Call \cup {NoCheck}], ChecksSound,
         HeldOK(held), NEW c \in Checkers, CheckSection(c)
  PROVE  check' \in [Checkers -> Call \cup {NoCheck}] /\ ChecksSound'
<1>. DEFINE k == check[c]
            hit == Hits(k.at, k.query)
            l == check'[c]
<1>1. k \in Call /\ k # NoCheck /\ k.at # "idle" /\ held' = held
  BY DEF CheckSection, Checking, NoCheck
<1>2. k.at \in {"ip", "port", "app", "domain"} /\ k.query \in Query
  BY <1>1 DEF Call
<1>3. CheckSound(k)
  BY <1>1 DEF ChecksSound
<1>4. k.throughout \subseteq InForce /\ InForce \subseteq k.ever
  BY <1>1, <1>3 DEF CheckSound
<1>5. /\ check' = [check EXCEPT ![c] = l]
      /\ l = [k EXCEPT !.at = IF hit THEN "idle" ELSE After(k.at),
                       !.answer = IF hit THEN k.at
                                  ELSE IF k.at = "domain" THEN "allow" ELSE "none"]
  BY DEF CheckSection
<1>6. /\ l.query = k.query /\ l.throughout = k.throughout /\ l.ever = k.ever
      /\ l.at = (IF hit THEN "idle" ELSE After(k.at))
      /\ l.answer = (IF hit THEN k.at ELSE IF k.at = "domain" THEN "allow" ELSE "none")
  BY <1>1, <1>5 DEF Call
<1>7. l \in Call
  BY <1>1, <1>2, <1>5 DEF Call, After
<1>8. InForce' = InForce
  BY <1>1 DEF InForce
<1>9. CheckSound(l)
  <2>1. CASE hit
    <3>1. PICK r \in InForce : Section(r) = k.at /\ Blocks(r, k.query)
      BY <1>2, <2>1, HitsRule
    <3>. QED
      BY <1>2, <1>4, <1>6, <2>1, <3>1 DEF CheckSound
  <2>2. CASE ~hit
    <3>1. \A r \in InForce : Section(r) = k.at => ~Blocks(r, k.query)
      BY <1>2, <2>2, HitsRule
    <3>2. \A r \in k.throughout : Section(r) \notin Ahead(k.at) => ~Blocks(r, k.query)
      BY <1>1, <1>3 DEF CheckSound
    <3>3. \A s \in {"ip", "port", "app", "domain"} :
            s \notin Ahead(l.at) => s \notin Ahead(k.at) \/ s = k.at
      BY <1>2, <1>6, <2>2 DEF Ahead, After
    <3>4. \A r \in l.throughout : Section(r) \notin Ahead(l.at) => ~Blocks(r, l.query)
      <4>1. k.throughout \subseteq Rule
        BY <1>1 DEF Call
      <4>. QED
        BY <1>4, <1>6, <3>1, <3>2, <3>3, <4>1, SectionOfRule
    <3>5. l.answer # "none" => l.at = "idle"
      BY <1>2, <1>6, <2>2 DEF After
    <3>. QED
      BY <1>4, <1>6, <2>2, <3>4, <3>5 DEF CheckSound, Kinds
  <2>. QED
    BY <2>1, <2>2
<1>10. ASSUME NEW d \in Checkers, check'[d] # NoCheck PROVE CheckSound(check[d])'
  <2>1. CheckSound(check'[d])
    BY <1>5, <1>9, <1>10 DEF ChecksSound
  <2>. QED
    BY <1>8, <2>1 DEF CheckSound
<1>. QED
  BY <1>5, <1>7, <1>10 DEF ChecksSound
-----------------------------------------------------------------------------
(* What stays to be done, and what the file holds.                         *)
StepsOK == todo \in Seq(Steps) /\ file \in Seq(Texts \cup Headers) /\ calls \in 0 .. MaxCalls

LEMMA BeginsType == StepsOK /\ Begins => calls' \in 0 .. MaxCalls
<1>1. MaxCalls \in Nat
  BY RuleAssumption
<1>2. calls \in 0 .. MaxCalls /\ calls < MaxCalls => calls + 1 \in 0 .. MaxCalls
  BY <1>1
<1>. QED
  BY <1>2 DEF StepsOK, Begins

LEMMA TodoTail ==
  StepsOK /\ todo # <<>> => Tail(todo) \in Seq(Steps) /\ Head(todo) \in Steps
BY DEF StepsOK

LEMMA ValuesFinite ==
  ASSUME HeldOK(held), NEW kind PROVE IsFiniteSet(Values(kind))
<1>. DEFINE R == {r \in held.rules : r[1] = kind}
            f == [r \in R |-> r[2]]
<1>1. IsFiniteSet(R)
  BY FS_Subset DEF HeldOK
<1>2. f \in Surjection(R, Values(kind))
  BY DEF Values, Surjection
<1>. QED
  BY <1>1, <1>2, FS_Surjection

(* The orders in which a finite set may be written are sequences.          *)
LEMMA OrdersOfSet ==
  ASSUME NEW S, IsFiniteSet(S), NEW T, S \subseteq T, NEW s \in SetToSeqs(S)
  PROVE  s \in Seq(T)
<1>1. Cardinality(S) \in Nat
  BY FS_CardinalityType
<1>2. s \in [1 .. Cardinality(S) -> S]
  BY DEF SetToSeqs
<1>3. s \in [1 .. Cardinality(S) -> T]
  BY <1>2
<1>. QED
  BY <1>1, <1>3

LEMMA LinesType ==
  ASSUME HeldOK(held), NEW h \in Headers, NEW s \in Lines(h)
  PROVE  s \in Seq(Texts)
<1>1. CASE h = "[BLOCKED_IPS]"
  <2>. DEFINE S == {IPText(i) : i \in Values("ip")}
              f == [i \in Values("ip") |-> IPText(i)]
  <2>1. f \in Surjection(Values("ip"), S)
    BY DEF Surjection
  <2>2. IsFiniteSet(S)
    BY <2>1, ValuesFinite, FS_Surjection
  <2>3. Values("ip") \subseteq IPs
    BY DEF Values, HeldOK, Rule
  <2>4. S \subseteq Texts
    BY <2>3, RuleAssumption DEF PlainTexts
  <2>5. s \in SetToSeqs(S)
    BY <1>1 DEF Lines
  <2>. QED
    BY <2>2, <2>4, <2>5, OrdersOfSet
<1>2. CASE h = "[BLOCKED_APPS]"
  <2>1. Values("app") \subseteq Texts
    <3>1. Values("app") \subseteq AppTypes
      BY DEF Values, HeldOK, Rule
    <3>2. AppTypes \subseteq Texts
      BY RuleAssumption DEF PlainTexts
    <3>. QED
      BY <3>1, <3>2
  <2>2. s \in SetToSeqs(Values("app"))
    BY <1>2 DEF Lines
  <2>. QED
    BY <2>1, <2>2, ValuesFinite, OrdersOfSet
<1>3. CASE h = "[BLOCKED_DOMAINS]"
  <2>1. Values("domain") \subseteq Texts
    BY DEF Values, HeldOK, Rule, Texts
  <2>2. PICK t \in SetToSeqs(Values("domain")) : s = t \o held.patterns
    BY <1>3 DEF Lines
  <2>3. t \in Seq(Texts)
    BY <2>1, <2>2, ValuesFinite, OrdersOfSet
  <2>4. held.patterns \in Seq(Texts)
    BY DEF HeldOK, Texts
  <2>. QED
    BY <2>2, <2>3, <2>4
<1>4. CASE h = "[BLOCKED_PORTS]"
  <2>. DEFINE S == {PortText(n) : n \in Values("port")}
              f == [n \in Values("port") |-> PortText(n)]
  <2>1. f \in Surjection(Values("port"), S)
    BY DEF Surjection
  <2>2. IsFiniteSet(S)
    BY <2>1, ValuesFinite, FS_Surjection
  <2>3. Values("port") \subseteq Ports
    BY DEF Values, HeldOK, Rule
  <2>4. S \subseteq Texts
    BY <2>3, RuleAssumption DEF PlainTexts
  <2>5. s \in SetToSeqs(S)
    BY <1>4 DEF Lines
  <2>. QED
    BY <2>2, <2>4, <2>5, OrdersOfSet
<1>. QED
  BY <1>1, <1>2, <1>3, <1>4 DEF Headers

(* A line of a file adds a rule or none.                                   *)
LEMMA ReadLineType ==
  ASSUME NEW h, HeldOK(h), NEW sec, NEW line
  PROVE  HeldOK(ReadLine([held |-> h, section |-> sec], line).held)
<1>. DEFINE st == [held |-> h, section |-> sec]
<1>1. CASE ReadLine(st, line) = st \/ ReadLine(st, line) = [st EXCEPT !.section = line]
  BY <1>1
<1>2. CASE /\ Read(sec, line) \in Rule
           /\ ReadLine(st, line) = [st EXCEPT !.held = With(h, Read(sec, line))]
  <2>1. HeldOK(With(h, Read(sec, line)))
    BY <1>2, WithType
  <2>. QED
    BY <1>2, <2>1
<1>3. \/ ReadLine(st, line) = st \/ ReadLine(st, line) = [st EXCEPT !.section = line]
      \/ /\ Read(sec, line) \in Rule
         /\ ReadLine(st, line) = [st EXCEPT !.held = With(h, Read(sec, line))]
  <2>1. st.held = h /\ st.section = sec
    OBVIOUS
  <2>2. CASE line = ""
    <3>1. line \notin Headers \cup Bracketed
      BY <2>2, RuleAssumption DEF Headers
    <3>. QED
      BY <2>2, <3>1 DEF ReadLine
  <2>3. CASE line # "" /\ line \in Headers \cup Bracketed
    BY <2>3 DEF ReadLine
  <2>4. CASE line \notin Headers \cup Bracketed \cup {""} /\ Read(sec, line) \in Rule
    BY <2>1, <2>4 DEF ReadLine
  <2>5. CASE line \notin Headers \cup Bracketed \cup {""} /\ Read(sec, line) \notin Rule
    BY <2>1, <2>5 DEF ReadLine
  <2>. QED
    BY <2>2, <2>3, <2>4, <2>5
<1>. QED
  BY <1>1, <1>2, <1>3
-----------------------------------------------------------------------------
RulesInv == RulesTypeOK /\ ChecksSound

LEMMA InvParts ==
  RulesInv <=> /\ HeldOK(held) /\ StepsOK
               /\ check \in [Checkers -> Call \cup {NoCheck}] /\ ChecksSound
BY DEF RulesInv, RulesTypeOK, StepsOK

LEMMA InitSound == RulesInit => RulesInv
<1>. SUFFICES ASSUME RulesInit PROVE RulesInv
  OBVIOUS
<1>1. HeldOK(held)
  <2>1. IsFiniteSet({}) /\ <<>> \in Seq(Patterns)
    BY FS_EmptySet
  <2>2. held.rules = {} /\ held.patterns = <<>>
    BY DEF RulesInit, Empty
  <2>3. held \in [rules : SUBSET Rule, patterns : Seq(Patterns)]
    BY <2>1 DEF RulesInit, Empty
  <2>. QED
    BY <2>1, <2>2, <2>3 DEF HeldOK
<1>2. StepsOK
  <2>1. 0 \in 0 .. MaxCalls
    <3>1. MaxCalls \in Nat
      BY RuleAssumption
    <3>. QED
      BY <3>1
  <2>2. file \in Seq(Texts \cup Headers)
    BY RuleAssumption DEF RulesInit
  <2>3. <<>> \in Seq(Steps)
    OBVIOUS
  <2>. QED
    BY <2>1, <2>2, <2>3 DEF RulesInit, StepsOK
<1>3. check \in [Checkers -> Call \cup {NoCheck}] /\ ChecksSound
  BY DEF RulesInit, ChecksSound
<1>. QED
  BY <1>1, <1>2, <1>3, InvParts

(* A step of the managing thread, while checks are under way.              *)
LEMMA ManageSound == RulesInv /\ Manage => RulesInv'
<1>. SUFFICES ASSUME RulesInv, Manage PROVE RulesInv'
  OBVIOUS
<1>1. /\ HeldOK(held) /\ StepsOK
      /\ check \in [Checkers -> Call \cup {NoCheck}] /\ ChecksSound
  BY InvParts
<1>. SUFFICES /\ HeldOK(held') /\ StepsOK'
              /\ check' \in [Checkers -> Call \cup {NoCheck}] /\ ChecksSound'
  BY DEF RulesInv, RulesTypeOK, StepsOK
<1>2. held' = held /\ check' = check => 
        check' \in [Checkers -> Call \cup {NoCheck}] /\ ChecksSound' /\ HeldOK(held')
  BY <1>1 DEF ChecksSound, CheckSound, InForce
<1>3. ASSUME NEW r \in Rulings, Block(r) \/ Unblock(r)
      PROVE  /\ HeldOK(held') /\ StepsOK'
             /\ check' \in [Checkers -> Call \cup {NoCheck}] /\ ChecksSound'
  <2>1. r \in Rule
    BY RuleAssumption
  <2>2. HeldOK(With(held, r)) /\ HeldOK(Without(held, r))
    BY <1>1, <2>1, WithType, WithoutType
  <2>3. HeldOK(held') /\ Witnessed
    BY <1>3, <2>2 DEF Block, Unblock
  <2>4. StepsOK'
    BY <1>1, <1>3, BeginsType DEF Block, Unblock, StepsOK
  <2>. QED
    BY <1>1, <2>3, <2>4, WitnessedSound
<1>4. CASE ClearAll
  <2>1. todo' \in Seq(Steps)
    BY <1>4 DEF ClearAll, Steps, Kinds
  <2>. QED
    BY <1>1, <1>2, <1>4, <2>1, BeginsType DEF ClearAll, StepsOK
<1>5. CASE ClearSection
  <2>1. HeldOK(held')
    <3>. DEFINE kept == {r \in held.rules : r[1] \notin Head(todo)[2]}
    <3>1. IsFiniteSet(kept)
      BY <1>1, FS_Subset DEF HeldOK
    <3>. QED
      BY <1>1, <1>5, <3>1 DEF ClearSection, HeldOK
  <2>2. StepsOK' /\ Witnessed
    BY <1>1, <1>5, TodoTail DEF ClearSection, StepsOK
  <2>. QED
    BY <1>1, <2>1, <2>2, WitnessedSound
<1>6. CASE SaveRules
  <2>1. todo' \in Seq(Steps)
    BY <1>6 DEF SaveRules, Steps, Headers
  <2>2. file' \in Seq(Texts \cup Headers)
    BY <1>6 DEF SaveRules
  <2>. QED
    BY <1>1, <1>2, <1>6, <2>1, <2>2, BeginsType DEF SaveRules, StepsOK
<1>7. CASE SaveSection
  <2>1. Head(todo)[2] \in Headers
    BY <1>1, <1>7, TodoTail DEF SaveSection, Steps
  <2>2. PICK lines \in Lines(Head(todo)[2]) : file' = file \o <<Head(todo)[2]>> \o lines
    BY <1>7 DEF SaveSection
  <2>3. lines \in Seq(Texts \cup Headers)
    <3>1. lines \in Seq(Texts)
      BY <1>1, <2>1, <2>2, LinesType
    <3>. QED
      BY <3>1
  <2>4. file' \in Seq(Texts \cup Headers)
    BY <1>1, <2>1, <2>2, <2>3 DEF StepsOK
  <2>. QED
    BY <1>1, <1>2, <1>7, <2>4, TodoTail DEF SaveSection, StepsOK
<1>8. CASE LoadRules
  <2>1. todo' \in Seq(Steps)
    <3>1. \A i \in 1 .. Len(file) : <<"load", file[i]>> \in Steps
      BY <1>1 DEF StepsOK, Steps
    <3>2. Len(file) \in Nat
      BY <1>1 DEF StepsOK
    <3>3. todo' \in [1 .. Len(file) -> Steps]
      BY <1>8, <3>1 DEF LoadRules
    <3>. QED
      BY <3>2, <3>3
  <2>. QED
    BY <1>1, <1>2, <1>8, <2>1, BeginsType DEF LoadRules, StepsOK
<1>9. CASE LoadLine
  <2>1. HeldOK(held')
    BY <1>1, <1>9, ReadLineType DEF LoadLine
  <2>2. StepsOK' /\ Witnessed
    <3>1. todo' \in Seq(Steps)
      <4>1. todo' = <<>> \/ todo' = Tail(todo)
        BY <1>9 DEF LoadLine
      <4>2. Tail(todo) \in Seq(Steps)
        BY <1>1, <1>9, TodoTail DEF LoadLine
      <4>3. <<>> \in Seq(Steps)
        OBVIOUS
      <4>. QED
        BY <4>1, <4>2, <4>3
    <3>. QED
      BY <1>1, <1>9, <3>1 DEF LoadLine, StepsOK
  <2>. QED
    BY <1>1, <2>1, <2>2, WitnessedSound
<1>. QED
  BY <1>3, <1>4, <1>5, <1>6, <1>7, <1>8, <1>9 DEF Manage

LEMMA RulesInvariant == RulesSpec => []RulesInv
<1>1. RulesInv /\ [RulesNext]_ruleVars => RulesInv'
  <2>. SUFFICES ASSUME RulesInv, [RulesNext]_ruleVars PROVE RulesInv'
    OBVIOUS
  <2>1. /\ HeldOK(held) /\ StepsOK
        /\ check \in [Checkers -> Call \cup {NoCheck}] /\ ChecksSound
    BY InvParts
  <2>2. CASE Manage
    BY <2>2, ManageSound
  <2>3. ASSUME NEW c \in Checkers, NEW q \in Queries, Ask(c, q),
               UNCHANGED <<held, todo, section, file, calls, saved>>
        PROVE  RulesInv'
    <3>1. q \in Query
      BY RuleAssumption
    <3>2. check' \in [Checkers -> Call \cup {NoCheck}] /\ ChecksSound'
      BY <2>1, <2>3, <3>1, AskSound
    <3>. QED
      BY <2>1, <2>3, <3>2 DEF RulesInv, RulesTypeOK, StepsOK
  <2>4. ASSUME NEW c \in Checkers, CheckSection(c) PROVE RulesInv'
    <3>1. check' \in [Checkers -> Call \cup {NoCheck}] /\ ChecksSound'
      BY <2>1, <2>4, SectionSound
    <3>. QED
      BY <2>1, <2>4, <3>1 DEF CheckSection, RulesInv, RulesTypeOK, StepsOK
  <2>5. CASE UNCHANGED ruleVars
    BY <2>1, <2>5 DEF ruleVars, RulesInv, RulesTypeOK, ChecksSound, CheckSound, InForce
  <2>. QED
    BY <2>2, <2>3, <2>4, <2>5 DEF RulesNext
<1>. QED
  BY <1>1, InitSound, PTL DEF RulesSpec

(* Every variable has its type: whatever is blocked, unblocked, cleared,   *)
(* saved and loaded, patterns stay in the vector and names in the sets.    *)
THEOREM RulesTypeCorrect == RulesSpec => []RulesTypeOK
<1>1. RulesInv => RulesTypeOK
  BY DEF RulesInv
<1>. QED
  BY <1>1, RulesInvariant, PTL

(* shouldBlock lets nothing through that a rule matches which was in force *)
(* during the whole of the call, for any number of checkers.               *)
THEOREM SteadyRulesAlwaysApply == RulesSpec => []SteadyRulesApply
<1>1. RulesInv => SteadyRulesApply
  <2>. SUFFICES ASSUME RulesInv, NEW c \in Checkers, check[c].answer = "allow",
                       NEW r \in check[c].throughout
                PROVE  ~Blocks(r, check[c].query)
    BY DEF SteadyRulesApply
  <2>1. check[c] # NoCheck
    BY DEF NoCheck
  <2>2. CheckSound(check[c])
    BY <2>1 DEF RulesInv, ChecksSound
  <2>3. check[c].at = "idle"
    BY <2>2 DEF CheckSound
  <2>. QED
    BY <2>2, <2>3 DEF CheckSound, Ahead
<1>. QED
  BY <1>1, RulesInvariant, PTL

(* shouldBlock blocks nothing but for a rule that matches, of the kind it  *)
(* gives as the reason, in force at some moment of the call.               *)
THEOREM NoBlockIsPhantom == RulesSpec => []NoPhantomBlock
<1>1. RulesInv => NoPhantomBlock
  <2>. SUFFICES ASSUME RulesInv, NEW c \in Checkers, check[c].answer \in Kinds
                PROVE  \E r \in check[c].ever :
                         /\ Blocks(r, check[c].query)
                         /\ check[c].answer = (IF r[1] = "pattern" THEN "domain" ELSE r[1])
    BY DEF NoPhantomBlock
  <2>1. check[c] # NoCheck
    BY DEF NoCheck, Kinds
  <2>2. CheckSound(check[c])
    BY <2>1 DEF RulesInv, ChecksSound
  <2>. QED
    BY <2>2 DEF CheckSound, Section
<1>. QED
  BY <1>1, RulesInvariant, PTL
-----------------------------------------------------------------------------
(* Reading a file back, line after line, into an empty manager: a fold     *)
(* over the sets of line numbers, each time from the last line.            *)
Blank == [held |-> Empty, section |-> ""]
ReadBack(f) == FoldLeft(ReadLine, Blank, f)

ReadEquation(g, f) ==
  g = [s \in SUBSET (DOMAIN f) |->
         IF s = {} THEN Blank ELSE ReadLine(g[s \ {Max(s)}], f[Max(s)])]

ReadOver(f) == CHOOSE g : ReadEquation(g, f)

LEMMA ReadBackIsReadOver ==
  ASSUME NEW f
  PROVE  ReadBack(f) = ReadOver(f)[DOMAIN f]
BY DEF ReadBack, FoldLeft, MapThenFoldSet, ReadOver, ReadEquation

LEMMA LastOf ==
  ASSUME NEW n \in Nat, NEW s \in SUBSET (1 .. n), s # {}
  PROVE  Max(s) \in s /\ \A k \in s : k <= Max(s)
<1>. DEFINE T == {n - k : k \in s}
<1>1. T \in SUBSET Nat /\ T # {}
  <2>1. \A k \in s : k \in Nat /\ k <= n /\ n - k \in Nat
    OBVIOUS
  <2>2. PICK k \in s : TRUE
    OBVIOUS
  <2>. QED
    BY <2>1, <2>2
<1>2. PICK m \in T : \A k \in T : m <= k
  <2>. HIDE DEF T
  <2>. QED
    BY <1>1, LeastNatural
<1>3. PICK x \in s : m = n - x
  BY <1>2
<1>4. \A k \in s : k <= x
  <2>1. \A k \in s : n - x <= n - k /\ k \in Nat
    BY <1>2, <1>3
  <2>2. x \in Nat
    BY <1>3
  <2>. QED
    BY <2>1, <2>2
<1>5. \A y \in s : x >= y
  BY <1>4
<1>6. \A k \in s : Max(s) >= k /\ Max(s) \in s
  BY <1>5 DEF Max
<1>. QED
  BY <1>6

LEMMA LastNumber ==
  ASSUME NEW n \in Nat
  PROVE  Max(1 .. n + 1) = n + 1 /\ (1 .. n + 1) \ {n + 1} = 1 .. n
<1>1. Max(1 .. n + 1) \in 1 .. n + 1 /\ \A k \in 1 .. n + 1 : k <= Max(1 .. n + 1)
  <2>1. n + 1 \in Nat /\ 1 .. n + 1 # {}
    BY 1 \in 1 .. n + 1
  <2>. QED
    BY <2>1, LastOf
<1>. QED
  BY <1>1

(* The fold is defined: by induction over the number of lines.             *)
LEMMA ReadOverDefined ==
  ASSUME NEW S, NEW f \in Seq(S)
  PROVE  \E g : ReadEquation(g, f)
<1>. DEFINE D == DOMAIN f
            body(g, s) == IF s = {} THEN Blank ELSE ReadLine(g[s \ {Max(s)}], f[Max(s)])
            upTo(m, g) == \A s \in SUBSET D : Cardinality(s) <= m => g[s] = body(g, s)
            C == {m \in Nat : \E g : upTo(m, g)}
<1>0. D = 1 .. Len(f) /\ Len(f) \in Nat /\ IsFiniteSet(D)
  BY FS_Interval
<1>1. \A s \in SUBSET D : Cardinality(s) \in Nat /\ (Cardinality(s) = 0 <=> s = {})
  BY <1>0, FS_Subset, FS_CardinalityType, FS_EmptySet
<1>2. ASSUME NEW s \in SUBSET D, s # {}
      PROVE  /\ s \ {Max(s)} \in SUBSET D
             /\ Cardinality(s \ {Max(s)}) = Cardinality(s) - 1
  <2>1. Max(s) \in s
    BY <1>0, <1>2, LastOf
  <2>. QED
    BY <1>0, <2>1, FS_Subset, FS_RemoveElement
<1>3. 0 \in C
  <2>1. upTo(0, [s \in SUBSET D |-> Blank])
    BY <1>1
  <2>. QED
    BY <2>1
<1>4. ASSUME NEW m \in Nat, m \in C PROVE m + 1 \in C
  <2>1. PICK g : upTo(m, g)
    BY <1>4
  <2>. DEFINE h == [s \in SUBSET D |-> IF Cardinality(s) <= m THEN g[s] ELSE body(g, s)]
  <2>2. ASSUME NEW s \in SUBSET D, Cardinality(s) <= m + 1
        PROVE  h[s] = body(g, s)
    BY <2>1, <2>2
  <2>3. ASSUME NEW s \in SUBSET D, Cardinality(s) <= m + 1
        PROVE  body(h, s) = body(g, s)
    <3>1. CASE s = {}
      BY <3>1
    <3>2. CASE s # {}
      <4>. DEFINE r == s \ {Max(s)}
      <4>1. r \in SUBSET D /\ Cardinality(r) <= m
        BY <1>1, <1>2, <2>3, <3>2
      <4>2. h[r] = g[r]
        BY <4>1
      <4>. QED
        BY <3>2, <4>2
    <3>. QED
      BY <3>1, <3>2
  <2>4. upTo(m + 1, h)
    BY <2>2, <2>3
  <2>. HIDE DEF upTo, h
  <2>. QED
    BY <2>4
<1>5. Cardinality(D) \in C
  <2>1. Cardinality(D) \in Nat
    BY <1>0, FS_CardinalityType
  <2>. HIDE DEF C
  <2>. QED
    BY <1>3, <1>4, <2>1, InductiveSet
<1>6. PICK g : upTo(Cardinality(D), g)
  BY <1>5
<1>7. \A s \in SUBSET D : g[s] = body(g, s)
  BY <1>0, <1>6, FS_Subset
<1>. DEFINE h == [s \in SUBSET D |-> g[s]]
<1>8. \A s \in SUBSET D : body(h, s) = body(g, s)
  BY <1>2
<1>9. ReadEquation(h, f)
  BY <1>7, <1>8 DEF ReadEquation
<1>. QED
  BY <1>9

LEMMA ReadUnfolds ==
  ASSUME NEW S, NEW f \in Seq(S), NEW s \in SUBSET (DOMAIN f)
  PROVE  ReadOver(f)[s] =
           IF s = {} THEN Blank ELSE ReadLine(ReadOver(f)[s \ {Max(s)}], f[Max(s)])
<1>1. ReadEquation(ReadOver(f), f)
  BY ReadOverDefined DEF ReadOver
<1>. QED
  BY <1>1 DEF ReadEquation

LEMMA ReadNothing == ReadBack(<<>>) = Blank
<1>1. <<>> \in Seq({}) /\ DOMAIN <<>> = {}
  OBVIOUS
<1>2. ReadOver(<<>>)[{}] = Blank
  BY <1>1, ReadUnfolds
<1>. QED
  BY <1>1, <1>2, ReadBackIsReadOver

LEMMA ReadOneMore ==
  ASSUME NEW S, NEW f \in Seq(S), NEW x \in S
  PROVE  ReadBack(Append(f, x)) = ReadLine(ReadBack(f), x)
<1>. DEFINE g == Append(f, x)
            n == Len(f)
            C == {k \in Nat : k <= n => ReadOver(g)[1 .. k] = ReadOver(f)[1 .. k]}
<1>1. /\ n \in Nat /\ g \in Seq(S) /\ DOMAIN f = 1 .. n /\ DOMAIN g = 1 .. n + 1
      /\ g[n + 1] = x /\ \A k \in 1 .. n : g[k] = f[k]
  OBVIOUS
<1>. HIDE DEF g, n
<1>2. \A k \in Nat : k + 1 <= n => ReadOver(f)[1 .. k + 1] = ReadLine(ReadOver(f)[1 .. k], f[k + 1])
  <2>. SUFFICES ASSUME NEW k \in Nat, k + 1 <= n
                PROVE  ReadOver(f)[1 .. k + 1] = ReadLine(ReadOver(f)[1 .. k], f[k + 1])
    OBVIOUS
  <2>1. 1 .. k + 1 \in SUBSET (DOMAIN f) /\ 1 .. k + 1 # {}
    <3>1. 1 \in 1 .. k + 1
      OBVIOUS
    <3>2. 1 .. k + 1 \subseteq DOMAIN f
      BY <1>1
    <3>. QED
      BY <3>1, <3>2
  <2>2. PICK s : s = 1 .. k + 1
    OBVIOUS
  <2>3. ReadOver(f)[s] = ReadLine(ReadOver(f)[s \ {Max(s)}], f[Max(s)])
    BY <2>1, <2>2, ReadUnfolds
  <2>4. Max(s) = k + 1 /\ s \ {k + 1} = 1 .. k
    BY <2>2, LastNumber
  <2>. QED
    BY <2>2, <2>3, <2>4
<1>3. \A k \in Nat : k + 1 <= n + 1 => ReadOver(g)[1 .. k + 1] = ReadLine(ReadOver(g)[1 .. k], g[k + 1])
  <2>. SUFFICES ASSUME NEW k \in Nat, k + 1 <= n + 1
                PROVE  ReadOver(g)[1 .. k + 1] = ReadLine(ReadOver(g)[1 .. k], g[k + 1])
    OBVIOUS
  <2>1. 1 .. k + 1 \in SUBSET (DOMAIN g) /\ 1 .. k + 1 # {}
    <3>1. 1 \in 1 .. k + 1
      OBVIOUS
    <3>2. 1 .. k + 1 \subseteq DOMAIN g
      BY <1>1
    <3>. QED
      BY <3>1, <3>2
  <2>2. PICK s : s = 1 .. k + 1
    OBVIOUS
  <2>3. ReadOver(g)[s] = ReadLine(ReadOver(g)[s \ {Max(s)}], g[Max(s)])
    BY <1>1, <2>1, <2>2, ReadUnfolds
  <2>4. Max(s) = k + 1 /\ s \ {k + 1} = 1 .. k
    BY <2>2, LastNumber
  <2>. QED
    BY <2>2, <2>3, <2>4
<1>4. 0 \in C
  <2>1. 1 .. 0 = {} /\ {} \in SUBSET (DOMAIN f) /\ {} \in SUBSET (DOMAIN g)
    OBVIOUS
  <2>2. ReadOver(f)[{}] = Blank
    BY <2>1, ReadUnfolds
  <2>3. ReadOver(g)[{}] = Blank
    BY <1>1, <2>1, ReadUnfolds
  <2>. QED
    BY <2>1, <2>2, <2>3
<1>5. ASSUME NEW k \in Nat, k \in C PROVE k + 1 \in C
  <2>. SUFFICES ASSUME k + 1 <= n
                PROVE  ReadOver(g)[1 .. k + 1] = ReadOver(f)[1 .. k + 1]
    OBVIOUS
  <2>1. k <= n /\ k + 1 <= n + 1 /\ k + 1 \in 1 .. n
    BY <1>1
  <2>2. ReadOver(g)[1 .. k] = ReadOver(f)[1 .. k] /\ g[k + 1] = f[k + 1]
    BY <1>1, <1>5, <2>1
  <2>. QED
    BY <1>2, <1>3, <2>1, <2>2
<1>6. n \in C
  <2>. HIDE DEF C
  <2>. QED
    BY <1>1, <1>4, <1>5, InductiveSet
<1>7. ReadOver(g)[1 .. n] = ReadOver(f)[1 .. n]
  BY <1>1, <1>6
<1>8. ReadOver(g)[1 .. n + 1] = ReadLine(ReadOver(g)[1 .. n], x)
  BY <1>1, <1>3
<1>9. ReadBack(g) = ReadOver(g)[1 .. n + 1] /\ ReadBack(f) = ReadOver(f)[1 .. n]
  BY <1>1, ReadBackIsReadOver
<1>. QED
  BY <1>7, <1>8, <1>9 DEF g
-----------------------------------------------------------------------------
(* The lines of s, read after f, take the manager through the states st.   *)
Follows(st, s) == \A n \in 1 .. Len(s) : st[n] = ReadLine(st[n - 1], s[n])

LEMMA LongerPrefix ==
  ASSUME NEW S, NEW f \in Seq(S), NEW s \in Seq(S)
  PROVE  /\ f \o SubSeq(s, 1, 0) = f /\ f \o SubSeq(s, 1, Len(s)) = f \o s
         /\ \A n \in 1 .. Len(s) :
              /\ f \o SubSeq(s, 1, n - 1) \in Seq(S)
              /\ f \o SubSeq(s, 1, n) = Append(f \o SubSeq(s, 1, n - 1), s[n])
<1>1. SubSeq(s, 1, 0) = <<>> /\ f \o <<>> = f /\ SubSeq(s, 1, Len(s)) = s
  OBVIOUS
<1>. SUFFICES ASSUME NEW n \in 1 .. Len(s)
              PROVE  /\ f \o SubSeq(s, 1, n - 1) \in Seq(S)
                     /\ f \o SubSeq(s, 1, n) = Append(f \o SubSeq(s, 1, n - 1), s[n])
  BY <1>1
<1>. DEFINE a == f \o SubSeq(s, 1, n)
            b == Append(f \o SubSeq(s, 1, n - 1), s[n])
<1>2. /\ SubSeq(s, 1, n) \in Seq(S) /\ Len(SubSeq(s, 1, n)) = n
      /\ SubSeq(s, 1, n - 1) \in Seq(S) /\ Len(SubSeq(s, 1, n - 1)) = n - 1
      /\ \A i \in 1 .. n : SubSeq(s, 1, n)[i] = s[i]
      /\ \A i \in 1 .. n - 1 : SubSeq(s, 1, n - 1)[i] = s[i]
      /\ s[n] \in S
  OBVIOUS
<1>3. f \o SubSeq(s, 1, n - 1) \in Seq(S)
  BY <1>2
<1>4. SubSeq(s, 1, n) = Append(SubSeq(s, 1, n - 1), s[n])
  BY <1>2
<1>5. PICK p \in Seq(S) : p = SubSeq(s, 1, n - 1)
  BY <1>2
<1>6. f \o Append(p, s[n]) = Append(f \o p, s[n])
  BY <1>2
<1>. QED
  BY <1>3, <1>4, <1>5, <1>6

LEMMA ReadOn ==
  ASSUME NEW S, NEW f \in Seq(S), NEW s \in Seq(S), NEW st,
         st[0] = ReadBack(f), Follows(st, s)
  PROVE  ReadBack(f \o s) = st[Len(s)]
<1>. DEFINE upTo(n) == f \o SubSeq(s, 1, n)
            C == {n \in Nat : n <= Len(s) => ReadBack(upTo(n)) = st[n]}
<1>1. 0 \in C
  BY LongerPrefix
<1>2. ASSUME NEW n \in Nat, n \in C PROVE n + 1 \in C
  <2>. SUFFICES ASSUME n + 1 <= Len(s) PROVE ReadBack(upTo(n + 1)) = st[n + 1]
    OBVIOUS
  <2>1. n + 1 \in 1 .. Len(s) /\ (n + 1) - 1 = n /\ ReadBack(upTo(n)) = st[n]
    BY <1>2
  <2>2. upTo((n + 1) - 1) \in Seq(S) /\ upTo(n + 1) = Append(upTo((n + 1) - 1), s[n + 1])
    BY <2>1, LongerPrefix
  <2>3. upTo(n) \in Seq(S) /\ upTo(n + 1) = Append(upTo(n), s[n + 1]) /\ s[n + 1] \in S
    BY <2>1, <2>2
  <2>. HIDE DEF upTo
  <2>4. ReadBack(upTo(n + 1)) = ReadLine(ReadBack(upTo(n)), s[n + 1])
    BY <2>3, ReadOneMore
  <2>5. st[n + 1] = ReadLine(st[(n + 1) - 1], s[n + 1])
    BY <2>1 DEF Follows
  <2>. QED
    BY <2>1, <2>4, <2>5
<1>3. Len(s) \in C
  <2>1. Len(s) \in Nat
    OBVIOUS
  <2>. HIDE DEF C
  <2>. QED
    BY <1>1, <1>2, <2>1, InductiveSet
<1>4. ReadBack(f \o SubSeq(s, 1, Len(s))) = st[Len(s)]
  BY <1>3
<1>5. f \o SubSeq(s, 1, Len(s)) = f \o s
  BY LongerPrefix
<1>. QED
  BY <1>4, <1>5

LEMMA PlainLine ==
  ASSUME NEW h, NEW sec, NEW line \in PlainTexts, Read(sec, line) \in Rule
  PROVE  ReadLine([held |-> h, section |-> sec], line) =
           [held |-> With(h, Read(sec, line)), section |-> sec]
<1>1. line \notin Headers \cup Bracketed \cup {""} /\ line # ""
  BY RuleAssumption DEF PlainTexts
<1>. DEFINE st == [held |-> h, section |-> sec]
<1>2. st.section = sec /\ st.held = h
  OBVIOUS
<1>3. ReadLine(st, line) = [st EXCEPT !.held = With(@, Read(sec, line))]
  BY <1>1, <1>2 DEF ReadLine
<1>4. [st EXCEPT !.held = With(@, Read(sec, line))] =
        [held |-> With(h, Read(sec, line)), section |-> sec]
  OBVIOUS
<1>. QED
  BY <1>3, <1>4

(* Reading f leaves the rules R and the patterns P, in section sec.        *)
ReadsTo(f, R, P, sec) ==
  ReadBack(f) = [held |-> [rules |-> R, patterns |-> P], section |-> sec]

(* A header begins its section, whatever was read before.                  *)
LEMMA HeaderBack ==
  ASSUME NEW S, NEW f \in Seq(S), NEW line \in Headers, line \in S, NEW R, NEW P, NEW sec,
         ReadsTo(f, R, P, sec)
  PROVE  ReadsTo(f \o <<line>>, R, P, line)
<1>1. f \o <<line>> = Append(f, line)
  OBVIOUS
<1>2. ReadBack(Append(f, line)) = ReadLine(ReadBack(f), line)
  BY ReadOneMore
<1>3. line # ""
  BY DEF Headers
<1>. DEFINE st == [held |-> [rules |-> R, patterns |-> P], section |-> sec]
<1>4. ReadLine(st, line) = [st EXCEPT !.section = line]
  BY <1>3 DEF ReadLine
<1>. QED
  BY <1>1, <1>2, <1>4 DEF ReadsTo

(* Lines that stand for rules other than patterns: all of them come back.  *)
LEMMA RulesBack ==
  ASSUME NEW S, NEW f \in Seq(S), NEW s \in Seq(S), NEW R, NEW P, NEW sec,
         ReadsTo(f, R, P, sec),
         \A n \in 1 .. Len(s) : /\ s[n] \in PlainTexts /\ Read(sec, s[n]) \in Rule
                                /\ Read(sec, s[n])[1] # "pattern"
  PROVE  ReadsTo(f \o s, R \cup {Read(sec, s[n]) : n \in 1 .. Len(s)}, P, sec)
<1>. DEFINE at(n) == [rules |-> R \cup {Read(sec, s[i]) : i \in 1 .. n}, patterns |-> P]
            st == [n \in 0 .. Len(s) |-> [held |-> at(n), section |-> sec]]
<1>1. Len(s) \in Nat
  OBVIOUS
<1>2. ASSUME NEW n \in 1 .. Len(s)
      PROVE  st[n] = ReadLine(st[n - 1], s[n])
  <2>. DEFINE r == Read(sec, s[n])
  <2>1. r \in Rule /\ r[1] # "pattern" /\ s[n] \in PlainTexts
    OBVIOUS
  <2>2. {Read(sec, s[i]) : i \in 1 .. n} = {Read(sec, s[i]) : i \in 1 .. n - 1} \cup {r}
    <3>1. 1 .. n = (1 .. n - 1) \cup {n}
      BY <1>1
    <3>. QED
      BY <3>1
  <2>3. With(at(n - 1), r) = at(n)
    BY <2>1, <2>2 DEF With
  <2>4. st[n - 1] = [held |-> at(n - 1), section |-> sec] /\ st[n] = [held |-> at(n), section |-> sec]
    BY <1>1
  <2>. HIDE DEF at, st
  <2>5. ReadLine([held |-> at(n - 1), section |-> sec], s[n]) =
          [held |-> With(at(n - 1), r), section |-> sec]
    BY <2>1, PlainLine
  <2>. QED
    BY <2>3, <2>4, <2>5
<1>3. st[0] = ReadBack(f)
  <2>1. R \cup {Read(sec, s[i]) : i \in 1 .. 0} = R
    OBVIOUS
  <2>2. at(0) = [rules |-> R, patterns |-> P]
    BY <2>1
  <2>3. st[0] = [held |-> at(0), section |-> sec]
    BY <1>1
  <2>. QED
    BY <2>2, <2>3 DEF ReadsTo
<1>4. st[Len(s)] = [held |-> at(Len(s)), section |-> sec]
  BY <1>1
<1>5. Follows(st, s)
  BY <1>2 DEF Follows
<1>. HIDE DEF st
<1>6. ReadBack(f \o s) = st[Len(s)]
  BY <1>3, <1>5, ReadOn
<1>. QED
  BY <1>4, <1>6 DEF ReadsTo

(* And the lines of patterns, in their order.                              *)
LEMMA PatternsBack ==
  ASSUME NEW S, NEW f \in Seq(S), NEW s \in Seq(S), NEW R,
         ReadsTo(f, R, <<>>, "[BLOCKED_DOMAINS]"),
         s \in Seq(Patterns), \A n \in 1 .. Len(s) : s[n] \in PlainTexts
  PROVE  ReadsTo(f \o s, R, s, "[BLOCKED_DOMAINS]")
<1>. DEFINE at(n) == [rules |-> R, patterns |-> SubSeq(s, 1, n)]
            st == [n \in 0 .. Len(s) |-> [held |-> at(n), section |-> "[BLOCKED_DOMAINS]"]]
<1>1. Len(s) \in Nat /\ SubSeq(s, 1, 0) = <<>> /\ SubSeq(s, 1, Len(s)) = s
  OBVIOUS
<1>2. ASSUME NEW n \in 1 .. Len(s)
      PROVE  st[n] = ReadLine(st[n - 1], s[n])
  <2>. DEFINE r == Read("[BLOCKED_DOMAINS]", s[n])
  <2>1. s[n] \in Patterns /\ s[n] \in PlainTexts
    OBVIOUS
  <2>2. r = <<"pattern", s[n]>> /\ r \in Rule
    BY <2>1 DEF Read, DomainRule, Rule
  <2>3. SubSeq(s, 1, n) = Append(SubSeq(s, 1, n - 1), s[n])
    <3>1. <<>> \o SubSeq(s, 1, n) = Append(<<>> \o SubSeq(s, 1, n - 1), s[n])
      BY LongerPrefix
    <3>2. SubSeq(s, 1, n) \in Seq(S) /\ SubSeq(s, 1, n - 1) \in Seq(S)
      OBVIOUS
    <3>. QED
      BY <3>1, <3>2
  <2>4. With(at(n - 1), r) = at(n)
    <3>1. r[1] = "pattern" /\ r[2] = s[n]
      BY <2>2
    <3>2. With(at(n - 1), r) = [at(n - 1) EXCEPT !.patterns = Append(@, s[n])]
      BY <3>1 DEF With
    <3>. QED
      BY <2>3, <3>2
  <2>5. /\ st[n - 1] = [held |-> at(n - 1), section |-> "[BLOCKED_DOMAINS]"]
        /\ st[n] = [held |-> at(n), section |-> "[BLOCKED_DOMAINS]"]
    BY <1>1
  <2>. HIDE DEF at, st
  <2>6. ReadLine([held |-> at(n - 1), section |-> "[BLOCKED_DOMAINS]"], s[n]) =
          [held |-> With(at(n - 1), r), section |-> "[BLOCKED_DOMAINS]"]
    BY <2>1, <2>2, PlainLine
  <2>. QED
    BY <2>4, <2>5, <2>6
<1>3. st[0] = ReadBack(f)
  BY <1>1 DEF ReadsTo
<1>4. st[Len(s)] = [held |-> at(Len(s)), section |-> "[BLOCKED_DOMAINS]"]
  BY <1>1
<1>5. Follows(st, s)
  BY <1>2 DEF Follows
<1>. HIDE DEF st
<1>6. ReadBack(f \o s) = st[Len(s)]
  BY <1>3, <1>5, ReadOn
<1>. QED
  BY <1>1, <1>4, <1>6 DEF ReadsTo

(* An order of a finite set has all of it.                                 *)
LEMMA OrderHasAll ==
  ASSUME NEW S, IsFiniteSet(S), NEW s \in SetToSeqs(S)
  PROVE  s \in Seq(S) /\ {s[n] : n \in 1 .. Len(s)} = S
<1>1. Cardinality(S) \in Nat
  BY FS_CardinalityType
<1>. DEFINE D == 1 .. Cardinality(S)
<1>2. s \in [D -> S] /\ \A i, j \in D : i # j => s[i] # s[j]
  BY DEF SetToSeqs
<1>3. IsFiniteSet(D) /\ Cardinality(D) = Cardinality(S)
  BY <1>1, FS_Interval
<1>4. s \in Injection(D, S)
  BY <1>2 DEF Injection, IsInjective
<1>5. s \in Surjection(D, S)
  BY <1>3, <1>4, FS_Injection
<1>6. s \in Seq(S) /\ Len(s) = Cardinality(S)
  BY <1>1, <1>2
<1>. QED
  BY <1>2, <1>5, <1>6 DEF Surjection
-----------------------------------------------------------------------------
(* The kinds of rules in the first k sections, what these sections hold of *)
(* the rules h, and the sections saveRules has yet to write.               *)
KindsBy(k) ==
  CASE k = 0 -> {} [] k = 1 -> {"ip"} [] k = 2 -> {"ip", "app"}
    [] k = 3 -> {"ip", "app", "domain"} [] k = 4 -> {"ip", "app", "domain", "port"}

Partial(h, k) == [rules    |-> {r \in h.rules : r[1] \in KindsBy(k)},
                  patterns |-> IF k >= 3 THEN h.patterns ELSE <<>>]

SectionAt(k) ==
  CASE k = 1 -> "[BLOCKED_IPS]" [] k = 2 -> "[BLOCKED_APPS]"
    [] k = 3 -> "[BLOCKED_DOMAINS]" [] k = 4 -> "[BLOCKED_PORTS]"

SectionsLeft(k) == [i \in 1 .. 4 - k |-> <<"save", SectionAt(k + i)>>]

Nameable(h) ==
  \A d \in Bracketed \cup {""} : <<"domain", d>> \notin h.rules /\ d \notin ToSet(h.patterns)

(* The file holds the first k sections of the rules being saved.           *)
HoldsBack(k) ==
  Nameable(saved) =>
    \E sec : ReadBack(file) = [held |-> Partial(saved, k), section |-> sec]

NoSaves == \A i \in 1 .. Len(todo) : todo[i][1] # "save"

SaveInv ==
  saved # <<>> =>
    /\ HeldOK(saved)
    /\ \/ NoSaves /\ HoldsBack(4)
       \/ \E k \in 0 .. 3 : todo = SectionsLeft(k) /\ held = saved /\ HoldsBack(k)

(* The rules of a kind; how t prints their values in section h.            *)
OfKind(kind) == {r \in held.rules : r[1] = kind}
Printed(t, kind) == {t[v] : v \in Values(kind)}
ReadsBack(h, kind, t) ==
  \A v \in Values(kind) : t[v] \in PlainTexts /\ Read(h, t[v]) = <<kind, v>>

(* A section without patterns comes back.                                  *)
LEMMA SectionBack ==
  ASSUME HeldOK(held), NEW f \in Seq(Texts \cup Headers), NEW h \in Headers,
         NEW R, NEW P, NEW sec,
         ReadsTo(f, R, P, sec),
         NEW kind \in {"ip", "app", "domain", "port"}, NEW t,
         ReadsBack(h, kind, t),
         NEW s \in SetToSeqs(Printed(t, kind))
  PROVE  /\ ReadsTo((f \o <<h>>) \o s, R \cup OfKind(kind), P, h)
         /\ s \in Seq(Texts \cup Headers)
<1>. DEFINE S == Printed(t, kind)
            T == Texts \cup Headers
            g == f \o <<h>>
<1>1. IsFiniteSet(S)
  <2>. DEFINE e == [v \in Values(kind) |-> t[v]]
  <2>1. e \in Surjection(Values(kind), S)
    BY DEF Surjection, Printed
  <2>. QED
    BY <2>1, ValuesFinite, FS_Surjection
<1>2. s \in Seq(S) /\ {s[n] : n \in 1 .. Len(s)} = S
  BY <1>1, OrderHasAll
<1>3. S \subseteq PlainTexts /\ S \subseteq T
  BY DEF PlainTexts, Printed, ReadsBack
<1>4. s \in Seq(T)
  BY <1>2, <1>3
<1>5. g \in Seq(T) /\ h \in T
  OBVIOUS
<1>6. ReadsTo(g, R, P, h)
  BY <1>5, HeaderBack
<1>7. \A v \in Values(kind) : <<kind, v>> \in held.rules
  <2>1. \A r \in held.rules : r[1] = kind => r = <<kind, r[2]>>
    BY DEF HeldOK, Rule
  <2>. QED
    BY <2>1 DEF Values
<1>8. OfKind(kind) = {<<kind, v>> : v \in Values(kind)}
  <2>1. \A r \in held.rules : r[1] = kind => r = <<kind, r[2]>> /\ r[2] \in Values(kind)
    BY DEF HeldOK, Rule, Values
  <2>. QED
    BY <1>7, <2>1 DEF OfKind
<1>9. \A n \in 1 .. Len(s) : \E v \in Values(kind) : s[n] = t[v]
  BY <1>2 DEF Printed
<1>10. \A v \in Values(kind) : \E n \in 1 .. Len(s) : s[n] = t[v]
  BY <1>2 DEF Printed
<1>11. \A n \in 1 .. Len(s) : /\ s[n] \in PlainTexts /\ Read(h, s[n]) \in Rule
                              /\ Read(h, s[n])[1] # "pattern"
  <2>. SUFFICES ASSUME NEW n \in 1 .. Len(s)
                PROVE  /\ s[n] \in PlainTexts /\ Read(h, s[n]) \in Rule
                       /\ Read(h, s[n])[1] # "pattern"
    OBVIOUS
  <2>1. PICK v \in Values(kind) : s[n] = t[v]
    BY <1>9
  <2>2. Read(h, s[n]) = <<kind, v>> /\ s[n] \in PlainTexts
    BY <2>1 DEF ReadsBack
  <2>3. <<kind, v>> \in Rule
    BY <1>7 DEF HeldOK
  <2>. QED
    BY <2>2, <2>3
<1>12. {Read(h, s[n]) : n \in 1 .. Len(s)} = {<<kind, v>> : v \in Values(kind)}
  BY <1>9, <1>10 DEF ReadsBack
<1>. HIDE DEF g
<1>13. ReadsTo(g \o s, R \cup {Read(h, s[n]) : n \in 1 .. Len(s)}, P, h)
  BY <1>4, <1>5, <1>6, <1>11, RulesBack
<1>. QED
  BY <1>4, <1>8, <1>12, <1>13 DEF g

LEMMA PartialMore ==
  ASSUME NEW k \in 0 .. 3, NEW kind, KindsBy(k + 1) = KindsBy(k) \cup {kind}
  PROVE  Partial(held, k + 1) =
           [rules    |-> Partial(held, k).rules \cup OfKind(kind),
            patterns |-> IF k >= 2 THEN held.patterns ELSE <<>>]
<1>1. {r \in held.rules : r[1] \in KindsBy(k + 1)} =
        {r \in held.rules : r[1] \in KindsBy(k)} \cup OfKind(kind)
  BY DEF OfKind
<1>2. k + 1 >= 3 <=> k >= 2
  OBVIOUS
<1>. QED
  BY <1>1, <1>2 DEF Partial

LEMMA SaveSectionBack ==
  ASSUME HeldOK(held), Nameable(held), NEW f \in Seq(Texts \cup Headers), NEW k \in 0 .. 3,
         NEW sec, ReadBack(f) = [held |-> Partial(held, k), section |-> sec],
         NEW s \in Lines(SectionAt(k + 1))
  PROVE  \E sec1 : ReadBack((f \o <<SectionAt(k + 1)>>) \o s) =
                     [held |-> Partial(held, k + 1), section |-> sec1]
<1>0. PICK h, R, P :
        /\ h = SectionAt(k + 1)
        /\ R = Partial(held, k).rules /\ P = Partial(held, k).patterns
        /\ ReadsTo(f, R, P, sec)
  BY DEF Partial, ReadsTo
<1>2. CASE k = 0
  <2>. DEFINE t == [v \in Values("ip") |-> IPText(v)]
  <2>1. h = "[BLOCKED_IPS]" /\ h \in Headers /\ KindsBy(k + 1) = KindsBy(k) \cup {"ip"}
    BY <1>0, <1>2 DEF SectionAt, KindsBy, Headers
  <2>2. ReadsBack(h, "ip", t)
    <3>1. Values("ip") \subseteq IPs
      BY DEF Values, HeldOK, Rule
    <3>. QED
      BY <2>1, <3>1, RuleAssumption DEF Read, ReadsBack
  <2>3. s \in SetToSeqs(Printed(t, "ip"))
    <3>1. Printed(t, "ip") = {IPText(i) : i \in Values("ip")}
      BY DEF Printed
    <3>. QED
      BY <1>0, <2>1, <3>1 DEF Lines
  <2>. HIDE DEF t
  <2>4. ReadsTo((f \o <<h>>) \o s, R \cup OfKind("ip"), P, h)
    BY <1>0, <2>1, <2>2, <2>3, SectionBack
  <2>5. Partial(held, k + 1) = [rules |-> R \cup OfKind("ip"),
                                patterns |-> P]
    <3>1. P = IF k >= 2 THEN held.patterns ELSE <<>>
      BY <1>0, <1>2 DEF Partial
    <3>. QED
      BY <1>0, <2>1, <3>1, PartialMore
  <2>. QED
    BY <1>0, <2>4, <2>5 DEF ReadsTo
<1>3. CASE k = 1
  <2>. DEFINE t == [v \in Values("app") |-> v]
  <2>1. h = "[BLOCKED_APPS]" /\ h \in Headers /\ KindsBy(k + 1) = KindsBy(k) \cup {"app"}
    BY <1>0, <1>3 DEF SectionAt, KindsBy, Headers
  <2>2. ReadsBack(h, "app", t)
    <3>1. Values("app") \subseteq AppTypes
      BY DEF Values, HeldOK, Rule
    <3>. QED
      BY <2>1, <3>1, RuleAssumption DEF Read, ReadsBack
  <2>3. s \in SetToSeqs(Printed(t, "app"))
    <3>1. Printed(t, "app") = Values("app")
      BY DEF Printed
    <3>. QED
      BY <1>0, <2>1, <3>1 DEF Lines
  <2>. HIDE DEF t
  <2>4. ReadsTo((f \o <<h>>) \o s, R \cup OfKind("app"), P, h)
    BY <1>0, <2>1, <2>2, <2>3, SectionBack
  <2>5. Partial(held, k + 1) = [rules |-> R \cup OfKind("app"),
                                patterns |-> P]
    <3>1. P = IF k >= 2 THEN held.patterns ELSE <<>>
      BY <1>0, <1>3 DEF Partial
    <3>. QED
      BY <1>0, <2>1, <3>1, PartialMore
  <2>. QED
    BY <1>0, <2>4, <2>5 DEF ReadsTo
<1>4. CASE k = 2
  <2>. DEFINE t == [v \in Values("domain") |-> v]
  <2>1. h = "[BLOCKED_DOMAINS]" /\ h \in Headers /\ KindsBy(k + 1) = KindsBy(k) \cup {"domain"}
    BY <1>0, <1>4 DEF SectionAt, KindsBy, Headers
  <2>2. ReadsBack(h, "domain", t)
    <3>1. \A v \in Values("domain") : v \in Domains /\ <<"domain", v>> \in held.rules
      <4>1. \A r \in held.rules : r[1] = "domain" => r = <<"domain", r[2]>> /\ r[2] \in Domains
        BY DEF HeldOK, Rule
      <4>. QED
        BY <4>1 DEF Values
    <3>2. \A v \in Values("domain") : v \notin Patterns /\ v \in PlainTexts
      BY <3>1, RuleAssumption DEF Nameable, PlainTexts, Texts
    <3>. QED
      BY <2>1, <3>2 DEF Read, DomainRule, ReadsBack
  <2>3. PICK ds \in SetToSeqs(Values("domain")) : s = ds \o held.patterns
    BY <1>0, <2>1 DEF Lines
  <2>4. Printed(t, "domain") = Values("domain")
    BY DEF Printed
  <2>5. P = <<>> /\ ds \in SetToSeqs(Printed(t, "domain"))
    <3>1. P = <<>>
      BY <1>0, <1>4 DEF Partial
    <3>. QED
      BY <2>3, <2>4, <3>1
  <2>. HIDE DEF t
  <2>6. /\ ReadsTo((f \o <<h>>) \o ds, R \cup OfKind("domain"), P, h)
        /\ ds \in Seq(Texts \cup Headers)
    BY <1>0, <2>1, <2>2, <2>5, SectionBack
  <2>7. /\ held.patterns \in Seq(Patterns) /\ held.patterns \in Seq(Texts \cup Headers)
        /\ \A n \in 1 .. Len(held.patterns) : held.patterns[n] \in PlainTexts
    <3>1. held.patterns \in Seq(Patterns)
      BY DEF HeldOK
    <3>2. \A n \in 1 .. Len(held.patterns) : held.patterns[n] \in ToSet(held.patterns)
      BY <3>1 DEF ToSet
    <3>3. \A n \in 1 .. Len(held.patterns) : held.patterns[n] \in Patterns
      BY <3>1
    <3>4. \A n \in 1 .. Len(held.patterns) : held.patterns[n] \in PlainTexts
      BY <3>2, <3>3 DEF Nameable, PlainTexts, Texts
    <3>5. held.patterns \in Seq(Texts \cup Headers)
      BY <3>1 DEF Texts
    <3>. QED
      BY <3>1, <3>4, <3>5
  <2>8. PICK u : u = (f \o <<h>>) \o ds
    OBVIOUS
  <2>9. u \in Seq(Texts \cup Headers) /\ (f \o <<h>>) \o s = u \o held.patterns
    <3>1. PICK g \in Seq(Texts \cup Headers) : g = f \o <<h>>
      <4>1. <<h>> \in Seq(Texts \cup Headers)
        BY <2>1
      <4>2. f \o <<h>> \in Seq(Texts \cup Headers)
        BY <4>1
      <4>. QED
        BY <4>2
    <3>2. u = g \o ds /\ u \in Seq(Texts \cup Headers)
      BY <2>6, <2>8, <3>1
    <3>3. g \o (ds \o held.patterns) = (g \o ds) \o held.patterns
      <4>1. PICK p \in Seq(Texts \cup Headers) : p = held.patterns
        BY <2>7
      <4>2. PICK e \in Seq(Texts \cup Headers) : e = ds
        BY <2>6
      <4>3. (g \o e) \o p = g \o (e \o p)
        BY ConcatAssociative
      <4>. QED
        BY <4>1, <4>2, <4>3
    <3>. QED
      BY <2>3, <3>1, <3>2, <3>3
  <2>10. ReadsTo(u \o held.patterns, R \cup OfKind("domain"), held.patterns, "[BLOCKED_DOMAINS]")
    <3>1. PICK R1 : R1 = R \cup OfKind("domain")
      OBVIOUS
    <3>2. ReadsTo(u, R1, <<>>, "[BLOCKED_DOMAINS]")
      BY <2>1, <2>5, <2>6, <2>8, <3>1
    <3>3. ReadsTo(u \o held.patterns, R1, held.patterns, "[BLOCKED_DOMAINS]")
      BY <2>7, <2>9, <3>2, PatternsBack
    <3>. QED
      BY <3>1, <3>3
  <2>11. Partial(held, k + 1) = [rules |-> R \cup OfKind("domain"),
                                patterns |-> held.patterns]
    <3>1. held.patterns = IF k >= 2 THEN held.patterns ELSE <<>>
      BY <1>4
    <3>. QED
      BY <1>0, <2>1, <3>1, PartialMore
  <2>. QED
    BY <1>0, <2>9, <2>10, <2>11 DEF ReadsTo
<1>5. CASE k = 3
  <2>. DEFINE t == [v \in Values("port") |-> PortText(v)]
  <2>1. h = "[BLOCKED_PORTS]" /\ h \in Headers /\ KindsBy(k + 1) = KindsBy(k) \cup {"port"}
    BY <1>0, <1>5 DEF SectionAt, KindsBy, Headers
  <2>2. ReadsBack(h, "port", t)
    <3>1. Values("port") \subseteq Ports
      BY DEF Values, HeldOK, Rule
    <3>. QED
      BY <2>1, <3>1, RuleAssumption DEF Read, ReadsBack
  <2>3. s \in SetToSeqs(Printed(t, "port"))
    <3>1. Printed(t, "port") = {PortText(p) : p \in Values("port")}
      BY DEF Printed
    <3>. QED
      BY <1>0, <2>1, <3>1 DEF Lines
  <2>. HIDE DEF t
  <2>4. ReadsTo((f \o <<h>>) \o s, R \cup OfKind("port"), P, h)
    BY <1>0, <2>1, <2>2, <2>3, SectionBack
  <2>5. Partial(held, k + 1) = [rules |-> R \cup OfKind("port"),
                                patterns |-> P]
    <3>1. P = IF k >= 2 THEN held.patterns ELSE <<>>
      BY <1>0, <1>5 DEF Partial
    <3>. QED
      BY <1>0, <2>1, <3>1, PartialMore
  <2>. QED
    BY <1>0, <2>4, <2>5 DEF ReadsTo
<1>6. k = 0 \/ k = 1 \/ k = 2 \/ k = 3
  OBVIOUS
<1>. QED
  BY <1>2, <1>3, <1>4, <1>5, <1>6
-----------------------------------------------------------------------------
(* A step that neither saves nor touches the file.                         *)
LEMMA SaveElsewhere ==
  ASSUME SaveInv, NoSaves => NoSaves', NoSaves \/ (held' = held /\ todo' = todo),
         file' = file, saved' = saved
  PROVE  SaveInv'
<1>1. (Nameable(saved))' <=> Nameable(saved)
  BY DEF Nameable
<1>2. ASSUME NEW k \in 0 .. 4, HoldsBack(k) PROVE HoldsBack(k)'
  BY <1>2 DEF HoldsBack, Nameable
<1>. SUFFICES ASSUME saved # <<>> PROVE SaveInv'
  BY DEF SaveInv
<1>3. HeldOK(saved')
  BY DEF SaveInv
<1>4. CASE NoSaves /\ HoldsBack(4)
  <2>1. NoSaves' /\ HoldsBack(4)'
    BY <1>2, <1>4
  <2>. QED
    BY <1>3, <2>1 DEF SaveInv
<1>5. ASSUME NEW k \in 0 .. 3, todo = SectionsLeft(k), held = saved, HoldsBack(k)
      PROVE  SaveInv'
  <2>1. todo[1] = <<"save", SectionAt(k + 1)>> /\ Len(todo) = 4 - k
    BY <1>5 DEF SectionsLeft
  <2>2. ~ NoSaves
    BY <2>1 DEF NoSaves
  <2>3. todo' = SectionsLeft(k) /\ held' = saved' /\ HoldsBack(k)'
    BY <1>2, <1>5, <2>2
  <2>4. \E n \in 0 .. 3 : todo' = SectionsLeft(n) /\ held' = saved' /\ HoldsBack(n)'
    BY <2>3
  <2>. QED
    BY <1>3, <2>4 DEF SaveInv
<1>. QED
  BY <1>4, <1>5 DEF SaveInv

LEMMA SaveStarts ==
  ASSUME RulesInv, SaveRules PROVE SaveInv'
<1>1. HeldOK(saved') /\ held' = saved'
  BY InvParts DEF SaveRules
<1>2. todo' = SectionsLeft(0)
  <2>1. SectionsLeft(0) = <<<<"save", "[BLOCKED_IPS]">>, <<"save", "[BLOCKED_APPS]">>,
               <<"save", "[BLOCKED_DOMAINS]">>, <<"save", "[BLOCKED_PORTS]">>>>
    BY DEF SectionsLeft, SectionAt
  <2>. QED
    BY <2>1 DEF SaveRules
<1>3. HoldsBack(0)'
  <2>1. file' = <<>>
    BY DEF SaveRules
  <2>2. Partial(saved', 0) = Empty
    BY DEF Partial, KindsBy, Empty
  <2>3. ReadBack(file') = [held |-> Partial(saved', 0), section |-> ""]
    BY <2>1, <2>2, ReadNothing DEF Blank
  <2>. QED
    BY <2>3 DEF HoldsBack, Nameable
<1>. QED
  BY <1>1, <1>2, <1>3 DEF SaveInv

LEMMA LeftSections ==
  ASSUME NEW k \in 0 .. 3
  PROVE  /\ SectionsLeft(k) # <<>> /\ Head(SectionsLeft(k)) = <<"save", SectionAt(k + 1)>>
         /\ Tail(SectionsLeft(k)) = SectionsLeft(k + 1)
<1>1. /\ Len(SectionsLeft(k)) = 4 - k /\ SectionsLeft(k) \in Seq({"save"} \X Headers)
      /\ SectionsLeft(k + 1) \in Seq({"save"} \X Headers) /\ Len(SectionsLeft(k + 1)) = 3 - k
  <2>1. \A n \in 1 .. 4 : SectionAt(n) \in Headers
    BY DEF SectionAt, Headers
  <2>. QED
    BY <2>1 DEF SectionsLeft
<1>2. Head(SectionsLeft(k)) = <<"save", SectionAt(k + 1)>>
  BY <1>1 DEF SectionsLeft
<1>3. \A i \in 1 .. 3 - k : SectionsLeft(k)[i + 1] = SectionsLeft(k + 1)[i]
  BY DEF SectionsLeft
<1>4. /\ Tail(SectionsLeft(k)) \in Seq({"save"} \X Headers)
      /\ Len(Tail(SectionsLeft(k))) = 3 - k
      /\ \A i \in 1 .. 3 - k : Tail(SectionsLeft(k))[i] = SectionsLeft(k)[i + 1]
  BY <1>1
<1>5. Tail(SectionsLeft(k)) = SectionsLeft(k + 1)
  BY <1>1, <1>3, <1>4
<1>. QED
  BY <1>1, <1>2, <1>5

LEMMA SaveGoesOn ==
  ASSUME RulesInv, SaveInv, SaveSection PROVE SaveInv'
<1>. SUFFICES ASSUME saved # <<>> PROVE SaveInv'
  BY DEF SaveInv, SaveSection
<1>1. ~ NoSaves
  <2>1. todo \in Seq(Steps) /\ todo # <<>> /\ Head(todo)[1] = "save"
    BY InvParts DEF StepsOK, SaveSection
  <2>2. 1 \in 1 .. Len(todo) /\ todo[1][1] = "save"
    BY <2>1
  <2>. QED
    BY <2>2 DEF NoSaves
<1>2. PICK k \in 0 .. 3 : todo = SectionsLeft(k) /\ held = saved /\ HoldsBack(k)
  BY <1>1 DEF SaveInv
<1>3. /\ Head(todo) = <<"save", SectionAt(k + 1)>>
      /\ todo' = SectionsLeft(k + 1) /\ held' = held /\ saved' = saved
  BY <1>2, LeftSections DEF SaveSection
<1>4. HeldOK(saved') /\ held' = saved'
  BY <1>2, <1>3 DEF SaveInv
<1>5. PICK s \in Lines(SectionAt(k + 1)) : file' = (file \o <<SectionAt(k + 1)>>) \o s
  BY <1>3 DEF SaveSection
<1>6. HoldsBack(k + 1)'
  <2>. SUFFICES ASSUME Nameable(saved)
                PROVE  \E sec : ReadBack(file') = [held |-> Partial(held, k + 1), section |-> sec]
    BY <1>2, <1>3 DEF HoldsBack, Nameable
  <2>1. PICK sec : ReadBack(file) = [held |-> Partial(held, k), section |-> sec]
    BY <1>2 DEF HoldsBack
  <2>2. PICK f \in Seq(Texts \cup Headers) : f = file
    BY InvParts DEF StepsOK
  <2>3. HeldOK(held) /\ Nameable(held)
    BY <1>2, InvParts
  <2>4. ReadBack(f) = [held |-> Partial(held, k), section |-> sec]
    BY <2>1, <2>2
  <2>5. \E sec1 : ReadBack((f \o <<SectionAt(k + 1)>>) \o s) =
                    [held |-> Partial(held, k + 1), section |-> sec1]
    BY <2>3, <2>4, SaveSectionBack
  <2>. QED
    BY <1>5, <2>2, <2>5
<1>7. CASE k = 3
  <2>1. k + 1 = 4
    BY <1>7
  <2>2. todo' = <<>>
    BY <1>3, <2>1 DEF SectionsLeft
  <2>3. NoSaves' /\ HoldsBack(4)'
    BY <1>6, <2>1, <2>2 DEF NoSaves
  <2>. QED
    BY <1>4, <2>3 DEF SaveInv
<1>8. CASE k # 3
  <2>1. PICK n \in 0 .. 3 : n = k + 1
    BY <1>8
  <2>2. todo' = SectionsLeft(n) /\ held' = saved' /\ HoldsBack(n)'
    BY <1>3, <1>4, <1>6, <2>1
  <2>. QED
    BY <1>4, <2>2 DEF SaveInv
<1>. QED
  BY <1>7, <1>8

LEMMA ManageSaves == RulesInv /\ SaveInv /\ Manage => SaveInv'
<1>. SUFFICES ASSUME RulesInv, SaveInv, Manage PROVE SaveInv'
  OBVIOUS
<1>1. todo \in Seq(Steps) /\ Len(file) \in Nat
  BY InvParts DEF StepsOK
<1>2. todo = <<>> => NoSaves
  BY DEF NoSaves
<1>3. ASSUME NEW r \in Rulings, Block(r) \/ Unblock(r) PROVE SaveInv'
  <2>1. /\ todo = <<>> /\ todo' = todo /\ file' = file /\ saved' = saved
    BY <1>3 DEF Block, Unblock, Begins
  <2>2. NoSaves /\ NoSaves'
    BY <1>2, <2>1 DEF NoSaves
  <2>. QED
    BY <2>1, <2>2, SaveElsewhere
<1>4. CASE ClearAll
  <2>1. /\ todo = <<>> /\ file' = file /\ saved' = saved
    BY <1>4 DEF ClearAll, Begins
  <2>2. NoSaves'
    BY <1>4 DEF ClearAll, NoSaves
  <2>. QED
    BY <1>2, <2>1, <2>2, SaveElsewhere
<1>5. ASSUME todo # <<>>, Head(todo)[1] # "save", todo' = Tail(todo) \/ todo' = <<>>,
             file' = file, saved' = saved
      PROVE  SaveInv'
  <2>1. SaveInv /\ saved # <<>> => NoSaves
    BY <1>5, LeftSections DEF SaveInv
  <2>2. ASSUME NoSaves PROVE NoSaves'
    <3>1. CASE todo' = <<>>
      BY <3>1 DEF NoSaves
    <3>2. CASE todo' = Tail(todo)
      BY <1>1, <1>5, <2>2, <3>2 DEF NoSaves
    <3>. QED
      BY <1>5, <3>1, <3>2
  <2>3. CASE saved = <<>>
    BY <1>5, <2>3 DEF SaveInv
  <2>4. CASE saved # <<>>
    BY <1>5, <2>1, <2>2, <2>4, SaveElsewhere
  <2>. QED
    BY <2>3, <2>4
<1>6. CASE ClearSection
  <2>1. /\ todo # <<>> /\ Head(todo)[1] # "save" /\ todo' = Tail(todo)
        /\ file' = file /\ saved' = saved
    BY <1>6 DEF ClearSection
  <2>. QED
    BY <1>5, <2>1
<1>7. CASE SaveRules
  BY <1>7, SaveStarts
<1>8. CASE SaveSection
  BY <1>8, SaveGoesOn
<1>9. CASE LoadRules
  <2>1. /\ todo = <<>> /\ file' = file /\ saved' = saved
    BY <1>9 DEF LoadRules, Begins
  <2>2. NoSaves'
    <3>1. todo' = [i \in 1 .. Len(file) |-> <<"load", file[i]>>]
      BY <1>9 DEF LoadRules
    <3>2. Len(todo') = Len(file) /\ \A i \in 1 .. Len(file) : todo'[i] = <<"load", file[i]>>
      BY <1>1, <3>1
    <3>3. \A i \in 1 .. Len(todo') : todo'[i][1] # "save"
      BY <3>2
    <3>. QED
      BY <3>3 DEF NoSaves
  <2>. QED
    BY <1>2, <2>1, <2>2, SaveElsewhere
<1>10. CASE LoadLine
  <2>1. /\ todo # <<>> /\ Head(todo)[1] # "save" /\ (todo' = Tail(todo) \/ todo' = <<>>)
        /\ file' = file /\ saved' = saved
    BY <1>10 DEF LoadLine
  <2>. QED
    BY <1>5, <2>1
<1>. QED
  BY <1>3, <1>4, <1>6, <1>7, <1>8, <1>9, <1>10 DEF Manage

LEMMA SaveInvariant == RulesSpec => []SaveInv
<1>1. RulesInit => SaveInv
  BY DEF RulesInit, SaveInv
<1>2. RulesInv /\ SaveInv /\ [RulesNext]_ruleVars => SaveInv'
  <2>. SUFFICES ASSUME RulesInv, SaveInv, [RulesNext]_ruleVars PROVE SaveInv'
    OBVIOUS
  <2>1. CASE Manage
    BY <2>1, ManageSaves
  <2>2. CASE UNCHANGED <<held, todo, file, saved>>
    <3>1. NoSaves => NoSaves'
      BY <2>2 DEF NoSaves
    <3>. QED
      BY <2>2, <3>1, SaveElsewhere
  <2>3. Manage \/ UNCHANGED <<held, todo, file, saved>>
    BY DEF RulesNext, ruleVars, CheckSection
  <2>. QED
    BY <2>1, <2>2, <2>3
<1>. QED
  BY <1>1, <1>2, RulesInvariant, PTL DEF RulesSpec

(* What saveRules has written to the end gives loadRules back the rules    *)
(* that were in the manager when it began, in any order the hash sets have *)
(* them in, with as many copies of a pattern as were held, in their order. *)
THEOREM SavedRulesAlwaysComeBack == RulesSpec => []SavedRulesComeBack
<1>1. RulesInv /\ SaveInv => SavedRulesComeBack
  <2>. SUFFICES ASSUME RulesInv, SaveInv, todo = <<>>, saved # <<>>, Nameable(saved)
                PROVE  ReadBack(file).held = saved
    BY DEF SavedRulesComeBack, Nameable, ReadBack, Blank
  <2>1. HeldOK(saved)
    BY DEF SaveInv
  <2>2. HoldsBack(4)
    BY LeftSections DEF SaveInv
  <2>3. ReadBack(file).held = Partial(saved, 4)
    BY <2>2 DEF HoldsBack
  <2>4. Partial(saved, 4) = saved
    <3>1. saved = [rules |-> saved.rules, patterns |-> saved.patterns]
      BY <2>1 DEF HeldOK
    <3>2. \A r \in saved.rules : r[1] \in KindsBy(4)
      BY <2>1 DEF HeldOK, Rule, KindsBy
    <3>3. {r \in saved.rules : r[1] \in KindsBy(4)} = saved.rules
      BY <3>2
    <3>. QED
      BY <3>1, <3>3 DEF Partial
  <2>. QED
    BY <2>3, <2>4
<1>. QED
  BY <1>1, RulesInvariant, SaveInvariant, PTL
=============================================================================
