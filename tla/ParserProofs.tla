---------------------------- MODULE ParserProofs ----------------------------
(***************************************************************************)
(* The parser, for files of any length and plans of any size.              *)
(*                                                                         *)
(* First what it owns: the texts of two tokens while it runs, and no copy  *)
(* that the plan does not hold.  Then what it reads: a text grows by a     *)
(* token at its end, and with it grow the sorted sets that DslGrammar      *)
(* builds lines, cases and expectations from; so at every step the plan is *)
(* that of the text so far, but for what the statement leaves open, and    *)
(* the open line is the beginning of a legal one.  Between the two, that   *)
(* the parser comes to an end: every step brings it nearer.                *)
(***************************************************************************)
EXTENDS DslGrammar, FiniteSetTheorems, SequenceTheorems, TLAPS

USE ParserAssumption

Cases == [url : Positions, body : {0} \cup Positions, assertions : Seq(Assertions)]

-----------------------------------------------------------------------------
(* The texts of a plan *)

LEMMA OneText ==
  ASSUME NEW p
  PROVE  Range(<<p>>) = {p}
BY DEF Range

LEMMA TwoTexts ==
  ASSUME NEW p, NEW q
  PROVE  Range(<<p, q>>) = {p, q}
BY DEF Range

LEMMA AppendedRange ==
  ASSUME NEW S, NEW s \in Seq(S), NEW x \in S
  PROVE  /\ Append(s, x) \in Seq(S) /\ Len(Append(s, x)) = Len(s) + 1
         /\ Range(Append(s, x)) = Range(s) \cup {x}
<1>1. /\ Append(s, x) \in Seq(S) /\ Len(Append(s, x)) = Len(s) + 1
      /\ DOMAIN Append(s, x) = 1 .. Len(s) + 1 /\ DOMAIN s = 1 .. Len(s)
      /\ Append(s, x)[Len(s) + 1] = x
      /\ \A i \in 1 .. Len(s) : Append(s, x)[i] = s[i]
  OBVIOUS
<1>2. Len(s) \in Nat
  OBVIOUS
<1>3. ASSUME NEW y PROVE y \in Range(Append(s, x)) <=> y \in Range(s) \cup {x}
  <2>1. y \in Range(Append(s, x)) <=> \E i \in 1 .. Len(s) + 1 : Append(s, x)[i] = y
    BY <1>1 DEF Range
  <2>2. y \in Range(s) <=> \E i \in 1 .. Len(s) : s[i] = y
    BY <1>1 DEF Range
  <2>3. \A i : i \in 1 .. Len(s) + 1 <=> i \in 1 .. Len(s) \/ i = Len(s) + 1
    BY <1>2
  <2> QED
    BY <2>1, <2>2, <2>3, <1>1
<1> QED
  BY <1>1, <1>3

LEMMA PlanTextsOf ==
  ASSUME NEW plan \in Seq(Cases)
  PROVE  \A p : p \in PlanTexts(plan) <=> \E i \in DOMAIN plan : p \in CaseTexts(plan[i])
BY DEF PlanTexts, Range

\* A plan with one case more.
LEMMA TextsOfNewCase ==
  ASSUME NEW plan \in Seq(Cases), NEW url \in Positions
  PROVE  LET new == [url |-> url, body |-> 0, assertions |-> << >>]
         IN  /\ Append(plan, new) \in Seq(Cases)
             /\ PlanTexts(Append(plan, new)) = PlanTexts(plan) \cup {url}
<1> DEFINE new == [url |-> url, body |-> 0, assertions |-> << >>]
<1>1. new \in Cases
  BY DEF Cases
<1>2. CaseTexts(new) = {url}
  <2>1. Range(new.assertions) = {}
    BY DEF Range
  <2>2. url # 0
    BY DEF Positions
  <2> QED
    BY <2>1, <2>2 DEF CaseTexts
<1>3. Append(plan, new) \in Seq(Cases) /\ Range(Append(plan, new)) = Range(plan) \cup {new}
  BY <1>1, AppendedRange
<1>4. PlanTexts(Append(plan, new)) = PlanTexts(plan) \cup CaseTexts(new)
  <2> HIDE DEF new
  <2> QED
    BY <1>3 DEF PlanTexts
<1> QED
  BY <1>2, <1>3, <1>4

\* A plan in which one case is replaced.
LEMMA TextsOfChangedCase ==
  ASSUME NEW plan \in Seq(Cases), NEW i \in DOMAIN plan, NEW c \in Cases
  PROVE  /\ [plan EXCEPT ![i] = c] \in Seq(Cases)
         /\ Len([plan EXCEPT ![i] = c]) = Len(plan)
         /\ \A p : p \in PlanTexts([plan EXCEPT ![i] = c]) <=>
                      \/ p \in CaseTexts(c)
                      \/ \E j \in DOMAIN plan \ {i} : p \in CaseTexts(plan[j])
<1> DEFINE new == [plan EXCEPT ![i] = c]
<1>1. new \in Seq(Cases) /\ Len(new) = Len(plan) /\ DOMAIN new = DOMAIN plan
  OBVIOUS
<1>2. new[i] = c /\ \A j \in DOMAIN plan \ {i} : new[j] = plan[j]
  OBVIOUS
<1>3. \A p : p \in PlanTexts(new) <=> \E j \in DOMAIN new : p \in CaseTexts(new[j])
  <2> HIDE DEF new
  <2> QED
    BY <1>1, PlanTextsOf
<1> QED
  <2> HIDE DEF new
  <2>1. \A p : p \in PlanTexts(new) <=>
                  \/ p \in CaseTexts(c)
                  \/ \E j \in DOMAIN plan \ {i} : p \in CaseTexts(plan[j])
    BY <1>1, <1>2, <1>3
  <2> QED
    BY <1>1, <2>1 DEF new

\* An assertion more in a case.
LEMMA TextsOfNewAssertion ==
  ASSUME NEW c \in Cases, NEW a \in Assertions
  PROVE  LET new == [c EXCEPT !.assertions = Append(@, a)]
         IN  /\ new \in Cases /\ new.url = c.url /\ new.body = c.body
             /\ new.assertions = Append(c.assertions, a)
             /\ CaseTexts(new) = CaseTexts(c) \cup AssertionTexts(a)
<1> DEFINE new == [c EXCEPT !.assertions = Append(@, a)]
<1>1. /\ Append(c.assertions, a) \in Seq(Assertions)
      /\ Range(Append(c.assertions, a)) = Range(c.assertions) \cup {a}
  <2>1. c.assertions \in Seq(Assertions)
    BY DEF Cases
  <2> QED
    BY <2>1, AppendedRange
<1>2. /\ new \in Cases /\ new.url = c.url /\ new.body = c.body
      /\ new.assertions = Append(c.assertions, a)
  BY <1>1 DEF Cases
<1>3. CaseTexts(new) = CaseTexts(c) \cup AssertionTexts(a)
  <2> HIDE DEF new
  <2> QED
    BY <1>1, <1>2 DEF CaseTexts
<1> QED
  BY <1>2, <1>3

\* Another body in a case, or none.
LEMMA TextsOfNewBody ==
  ASSUME NEW c \in Cases, NEW b \in {0} \cup Positions
  PROVE  LET new == [c EXCEPT !.body = b]
         IN  /\ new \in Cases /\ new.url = c.url /\ new.body = b
             /\ new.assertions = c.assertions
             /\ CaseTexts(new) = (CaseTexts([c EXCEPT !.body = 0]) \cup {b}) \ {0}
             /\ CaseTexts(c) = (CaseTexts([c EXCEPT !.body = 0]) \cup {c.body}) \ {0}
<1> DEFINE new == [c EXCEPT !.body = b]
           none == [c EXCEPT !.body = 0]
<1>1. /\ new \in Cases /\ new.url = c.url /\ new.body = b
      /\ new.assertions = c.assertions
      /\ none.url = c.url /\ none.body = 0 /\ none.assertions = c.assertions
      /\ c.assertions \in Seq(Assertions)
  BY DEF Cases
<1>2. 0 \notin UNION {AssertionTexts(a) : a \in Range(c.assertions)}
  <2>1. ASSUME NEW a \in Range(c.assertions) PROVE 0 \notin AssertionTexts(a)
    <3>1. a \in Assertions
      BY <1>1 DEF Range
    <3>2. Range(a.from) \subseteq Positions
      <4>1. a.from \in {<<p>> : p \in Positions} \cup Positions \X Positions
        BY <3>1 DEF Assertions
      <4>2. CASE a.from \in {<<p>> : p \in Positions}
        BY <4>2, OneText
      <4>3. CASE a.from \in Positions \X Positions
        <5>1. PICK p \in Positions, q \in Positions : a.from = <<p, q>>
          BY <4>3
        <5> QED
          BY <5>1, TwoTexts
      <4> QED
        BY <4>1, <4>2, <4>3
    <3> QED
      BY <3>2 DEF AssertionTexts, Positions
  <2> QED
    BY <2>1
<1>3. /\ CaseTexts(new) = (CaseTexts(none) \cup {b}) \ {0}
      /\ CaseTexts(c) = (CaseTexts(none) \cup {c.body}) \ {0}
  <2> HIDE DEF new, none
  <2> QED
    BY <1>1, <1>2 DEF CaseTexts
<1> QED
  BY <1>1, <1>3

-----------------------------------------------------------------------------
(* The inductive invariant *)

\* The file is bounded, and nothing is read after its end or after an error.
TokensGood(s) ==
    /\ s \in Seq(Kinds)
    /\ Len(s) <= MaxTokens + 2
    /\ Len(s) > MaxTokens => s[Len(s)] \in {"BODY_RAW", "ERROR", "EOF"}
    /\ Len(s) > MaxTokens + 1 => s[Len(s)] = "EOF"

\* The texts of the current and the previous token.
Held(s) == {p \in {Len(s), Len(s) - 1} : p \in DOMAIN s /\ s[p] # "EOF"}

TokensKnown == TokensGood(seen) /\ live = IF pc \in Ended THEN {} ELSE Held(seen)

Untouched == seen = << >> /\ cases = << >> /\ copies = {}

\* What a function relies on when it reads on.
InExpect   == {"assertion", "code", "contains", "string", "header_name", "header_value"}
PlaceKnown ==
    /\ pc \in PCs /\ outOfMemory \in BOOLEAN
    /\ pc \in {"file", "create", "unread"} => Untouched
    /\ pc \notin {"file", "create", "unread", "rejected"} => seen # << >>
    /\ pc = "url" => CaseFits
    /\ pc \in InExpect \cup {"raw"} => last # 0
    /\ pc \in InExpect => ExpectFits
    /\ pc = "header_value" => previous \in DOMAIN seen /\ seen[previous] # "BODY_RAW"

\* Every text of a case is of a token before the current one, and only its
\* body is the rest of a line.
Older(p, s)         == p \in Positions /\ p < Len(s)
GoodAssertion(a, s) == \A p \in Range(a.from) : Older(p, s) /\ s[p] # "BODY_RAW"
GoodCase(c, s) ==
    /\ Older(c.url, s) /\ s[c.url] # "BODY_RAW"
    /\ c.body # 0 => Older(c.body, s) /\ s[c.body] = "BODY_RAW"
    /\ Len(c.assertions) <= MaxAssertions
    /\ \A a \in Range(c.assertions) : GoodAssertion(a, s)

BodiesApart(plan) == \A i, j \in DOMAIN plan :
                        i # j => plan[i].body = 0 \/ plan[i].body # plan[j].body

PlanGood(plan, s) == /\ plan \in Seq(Cases) /\ Len(plan) <= MaxCases
                     /\ \A i \in DOMAIN plan : GoodCase(plan[i], s)
                     /\ BodiesApart(plan)

\* The plan holds every copy but that of the name of a header.
Pending     == IF pc = "header_value" THEN {previous} ELSE {}
CopiesKnown ==
    /\ pc = "failed" => copies \subseteq PlanTexts(cases)
    /\ pc \in {"unread", "rejected"} => cases = << >> /\ copies = {}
    /\ pc \notin {"failed", "unread", "rejected"} => copies = PlanTexts(cases) \cup Pending

ParserInv == TokensKnown /\ PlaceKnown /\ PlanGood(cases, seen) /\ CopiesKnown

-----------------------------------------------------------------------------
(* What follows from the invariant *)

LEMMA TextsAreOlder ==
  ASSUME NEW plan, NEW s, PlanGood(plan, s)
  PROVE  \A p \in PlanTexts(plan) : Older(p, s)
<1> SUFFICES ASSUME NEW i \in DOMAIN plan, NEW p \in CaseTexts(plan[i])
             PROVE  Older(p, s)
  BY PlanTextsOf DEF PlanGood
<1>1. GoodCase(plan[i], s)
  BY DEF PlanGood
<1>2. CASE p \in {plan[i].url, plan[i].body} \ {0}
  BY <1>1, <1>2 DEF GoodCase
<1>3. CASE \E a \in Range(plan[i].assertions) : p \in AssertionTexts(a)
  <2>1. PICK a \in Range(plan[i].assertions) : p \in AssertionTexts(a)
    BY <1>3
  <2>2. p \in Range(a.from)
    BY <2>1 DEF AssertionTexts
  <2> QED
    BY <1>1, <2>1, <2>2 DEF GoodCase, GoodAssertion
<1> QED
  BY <1>2, <1>3 DEF CaseTexts

LEMMA ZeroIsNoText ==
  ASSUME NEW plan, NEW s, PlanGood(plan, s)
  PROVE  0 \notin PlanTexts(plan) /\ \A j \in DOMAIN plan : 0 \notin CaseTexts(plan[j])
<1>1. 0 \notin PlanTexts(plan)
  BY TextsAreOlder DEF Older, Positions
<1> QED
  BY <1>1, PlanTextsOf DEF PlanGood

LEMMA InvImpliesTypeOK ==
  ASSUME ParserInv
  PROVE  TypeOK
<1>1. seen \in Seq(Kinds) /\ Len(seen) <= MaxTokens + 2 /\ pc \in PCs /\ outOfMemory \in BOOLEAN
  BY DEF ParserInv, TokensKnown, TokensGood, PlaceKnown
<1>2. DOMAIN seen \subseteq Positions
  BY <1>1 DEF Positions
<1>3. live \subseteq Positions
  BY <1>2 DEF ParserInv, TokensKnown, Held
<1>4. copies \subseteq Positions
  <2>1. PlanTexts(cases) \subseteq Positions
    BY TextsAreOlder DEF ParserInv, Older
  <2>2. Pending \subseteq Positions
    BY <1>2 DEF Pending, ParserInv, PlaceKnown
  <2> QED
    BY <2>1, <2>2 DEF ParserInv, CopiesKnown
<1>5. Len(cases) <= MaxCases
  BY DEF ParserInv, PlanGood
<1>6. ASSUME NEW i \in DOMAIN cases
      PROVE  /\ cases[i].url \in Positions
             /\ cases[i].body \in {0} \cup Positions
             /\ Len(cases[i].assertions) <= MaxAssertions
             /\ Range(cases[i].assertions) \subseteq Assertions
  <2>1. cases[i] \in Cases /\ GoodCase(cases[i], seen)
    BY DEF ParserInv, PlanGood
  <2>2. cases[i].assertions \in Seq(Assertions)
    BY <2>1 DEF Cases
  <2>3. Range(cases[i].assertions) \subseteq Assertions
    BY <2>2 DEF Range
  <2> QED
    BY <2>1, <2>3 DEF Cases, GoodCase
<1> QED
  BY <1>1, <1>3, <1>4, <1>5, <1>6 DEF TypeOK

LEMMA InvImpliesTokensOwned ==
  ASSUME ParserInv
  PROVE  TokensOwned
BY DEF ParserInv, TokensKnown, Held, TokensOwned, current, previous

LEMMA InvImpliesNothingKept ==
  ASSUME ParserInv
  PROVE  NothingKept
BY DEF ParserInv, CopiesKnown, Pending, NothingKept

-----------------------------------------------------------------------------
(* The beginning *)

LEMMA InitInv ==
  ASSUME Init
  PROVE  ParserInv
<1>1. seen = << >> /\ cases = << >> /\ copies = {} /\ live = {} /\ pc = "file"
  BY DEF Init
<1>2. TokensKnown
  BY <1>1 DEF TokensKnown, TokensGood, Held, Ended
<1>4. PlaceKnown
  BY DEF Init, PlaceKnown, PCs, Untouched, InExpect
<1>5. PlanGood(cases, seen)
  BY <1>1 DEF PlanGood, BodiesApart
<1>6. CopiesKnown
  <2>1. PlanTexts(cases) = {}
    BY <1>1 DEF PlanTexts, Range
  <2> QED
    BY <1>1, <2>1 DEF CopiesKnown, Pending
<1> QED
  BY <1>2, <1>4, <1>5, <1>6 DEF ParserInv

-----------------------------------------------------------------------------
(* Reading a token *)

LEMMA Advanced ==
  ASSUME TokensGood(seen), live = Held(seen), advance_parser,
         seen # << >> => seen[Len(seen)] \notin {"ERROR", "EOF"}
  PROVE  /\ TokensGood(seen') /\ live' = Held(seen')
         /\ \E kind \in Kinds : seen' = Append(seen, kind)
<1>1. PICK kind \in NextKinds :
         /\ seen' = Append(seen, kind)
         /\ live' = (live \ {previous}) \cup (IF kind = "EOF" THEN {} ELSE {current + 1})
  BY DEF advance_parser, Outdated
<1>2. seen \in Seq(Kinds) /\ Len(seen) \in Nat /\ DOMAIN seen = 1 .. Len(seen)
  BY DEF TokensGood
<1>3. kind \in Kinds
  BY DEF NextKinds, Kinds
<1>4. /\ seen' \in Seq(Kinds) /\ Len(seen') = Len(seen) + 1 /\ DOMAIN seen' = 1 .. Len(seen) + 1
      /\ seen'[Len(seen) + 1] = kind
      /\ \A i \in 1 .. Len(seen) : seen'[i] = seen[i]
  BY <1>1, <1>2, <1>3
<1>5. TokensGood(seen')
  <2>1. CASE seen # << >> /\ check("BODY_STMT")
    <3>1. kind \in {"BODY_RAW", "ERROR"}
      BY <2>1 DEF NextKinds
    <3>2. Len(seen) <= MaxTokens
      BY <2>1 DEF TokensGood, check, current
    <3> QED
      BY <1>2, <1>4, <3>1, <3>2 DEF TokensGood
  <2>2. CASE ~ (seen # << >> /\ check("BODY_STMT")) /\ Len(seen) >= MaxTokens
    <3>1. kind = "EOF"
      BY <2>2 DEF NextKinds
    <3>2. Len(seen) <= MaxTokens + 1
      <4>1. CASE seen = << >>
        BY <4>1
      <4>2. CASE seen # << >>
        BY <4>2 DEF TokensGood
      <4> QED
        BY <4>1, <4>2
    <3> QED
      BY <1>2, <1>4, <3>1, <3>2 DEF TokensGood
  <2>3. CASE Len(seen) < MaxTokens
    BY <1>2, <1>4, <2>3 DEF TokensGood
  <2> QED
    BY <1>2, <2>1, <2>2, <2>3
<1>6. live' = Held(seen')
  <2>1. live \ {previous} = {p \in {Len(seen)} : p \in DOMAIN seen /\ seen[p] # "EOF"}
    BY <1>2 DEF Held, previous
  <2>2. Held(seen') = {p \in {Len(seen)} : p \in DOMAIN seen /\ seen[p] # "EOF"}
                      \cup (IF kind = "EOF" THEN {} ELSE {Len(seen) + 1})
    <3>1. Len(seen') - 1 = Len(seen)
      BY <1>2, <1>4
    <3> QED
      BY <1>2, <1>4, <3>1 DEF Held
  <2> QED
    BY <1>1, <2>1, <2>2 DEF current
<1> QED
  BY <1>1, <1>3, <1>5, <1>6

-----------------------------------------------------------------------------
(* The plan while tokens are read and texts are added *)

LEMMA PlanLater ==
  ASSUME NEW plan, NEW s \in Seq(Kinds), NEW kind \in Kinds, PlanGood(plan, s)
  PROVE  PlanGood(plan, Append(s, kind))
<1> DEFINE t == Append(s, kind)
<1>1. Len(t) = Len(s) + 1 /\ Len(s) \in Nat /\ \A i \in 1 .. Len(s) : t[i] = s[i]
  OBVIOUS
<1>2. ASSUME NEW p, Older(p, s) PROVE Older(p, t) /\ t[p] = s[p]
  BY <1>1, <1>2 DEF Older, Positions
<1>3. ASSUME NEW i \in DOMAIN plan PROVE GoodCase(plan[i], t)
  <2>1. GoodCase(plan[i], s)
    BY DEF PlanGood
  <2>2. \A a \in Range(plan[i].assertions) : GoodAssertion(a, t)
    BY <1>2, <2>1 DEF GoodCase, GoodAssertion
  <2> QED
    BY <1>2, <2>1, <2>2 DEF GoodCase
<1> QED
  BY <1>3 DEF PlanGood

LEMMA PlanWithCase ==
  ASSUME NEW plan, NEW s, NEW url, PlanGood(plan, s), Len(plan) < MaxCases,
         Older(url, s), s[url] # "BODY_RAW"
  PROVE  LET new == Append(plan, [url |-> url, body |-> 0, assertions |-> << >>])
         IN  PlanGood(new, s) /\ PlanTexts(new) = PlanTexts(plan) \cup {url}
<1> DEFINE c   == [url |-> url, body |-> 0, assertions |-> << >>]
           new == Append(plan, c)
<1>1. plan \in Seq(Cases) /\ Len(plan) \in Nat /\ url \in Positions
  BY DEF PlanGood, Older
<1>2. new \in Seq(Cases) /\ PlanTexts(new) = PlanTexts(plan) \cup {url}
  BY <1>1, TextsOfNewCase
<1>3. /\ Len(new) = Len(plan) + 1 /\ DOMAIN new = 1 .. Len(plan) + 1
      /\ new[Len(plan) + 1] = c /\ \A i \in DOMAIN plan : new[i] = plan[i]
      /\ DOMAIN plan = 1 .. Len(plan)
  BY <1>1
<1>4. c.url = url /\ c.body = 0 /\ c.assertions = << >>
  OBVIOUS
<1>5. GoodCase(c, s)
  <2>1. Range(c.assertions) = {} /\ Len(c.assertions) = 0
    BY DEF Range
  <2> QED
    BY <2>1, <1>4 DEF GoodCase
<1> HIDE DEF c, new
<1>6. \A i \in DOMAIN new : GoodCase(new[i], s)
  BY <1>1, <1>3, <1>5 DEF PlanGood
<1>7. BodiesApart(new)
  <2> SUFFICES ASSUME NEW i \in DOMAIN new, NEW j \in DOMAIN new, i # j, new[i].body # 0
               PROVE  new[i].body # new[j].body
    BY DEF BodiesApart
  <2>1. i \in DOMAIN plan /\ new[i] = plan[i]
    BY <1>1, <1>3, <1>4
  <2>2. CASE j \in DOMAIN plan
    BY <1>3, <2>1, <2>2 DEF PlanGood, BodiesApart
  <2>3. CASE j = Len(plan) + 1
    BY <1>3, <1>4, <2>3
  <2> QED
    BY <1>1, <1>3, <2>2, <2>3
<1>8. PlanGood(new, s)
  BY <1>1, <1>2, <1>3, <1>6, <1>7 DEF PlanGood
<1> QED
  BY <1>2, <1>8 DEF c, new

WithBody(plan, i, b)      == [plan EXCEPT ![i].body = b]
WithAssertion(plan, i, a) == [plan EXCEPT ![i].assertions = Append(@, a)]

\* A case changed so that it has the body it had.
LEMMA PlanWithAssertion ==
  ASSUME NEW plan, NEW s, NEW i \in DOMAIN plan, NEW a \in Assertions, PlanGood(plan, s),
         Len(plan[i].assertions) < MaxAssertions, GoodAssertion(a, s)
  PROVE  /\ PlanGood(WithAssertion(plan, i, a), s)
         /\ PlanTexts(WithAssertion(plan, i, a)) = PlanTexts(plan) \cup AssertionTexts(a)
<1> DEFINE c   == [plan[i] EXCEPT !.assertions = Append(@, a)]
           new == [plan EXCEPT ![i] = c]
<1>1. plan \in Seq(Cases) /\ plan[i] \in Cases
  BY DEF PlanGood
<1>2. /\ c \in Cases /\ c.url = plan[i].url /\ c.body = plan[i].body
      /\ c.assertions = Append(plan[i].assertions, a)
      /\ CaseTexts(c) = CaseTexts(plan[i]) \cup AssertionTexts(a)
  BY <1>1, TextsOfNewAssertion
<1>3. WithAssertion(plan, i, a) = new
  BY <1>1 DEF WithAssertion
<1>4. /\ DOMAIN new = DOMAIN plan /\ new[i] = c
      /\ \A j \in DOMAIN plan \ {i} : new[j] = plan[j]
  BY <1>1
<1> HIDE DEF c
<1>5. /\ new \in Seq(Cases) /\ Len(new) = Len(plan)
      /\ \A p : p \in PlanTexts(new) <=> \/ p \in CaseTexts(c)
                                         \/ \E j \in DOMAIN plan \ {i} : p \in CaseTexts(plan[j])
  BY <1>1, <1>2, TextsOfChangedCase
<1> HIDE DEF new
<1>6. PlanTexts(new) = PlanTexts(plan) \cup AssertionTexts(a)
  BY <1>1, <1>2, <1>5, PlanTextsOf
<1>7. GoodCase(c, s)
  <2>1. GoodCase(plan[i], s)
    BY DEF PlanGood
  <2>2. plan[i].assertions \in Seq(Assertions)
    BY <1>1 DEF Cases
  <2>3. Range(c.assertions) = Range(plan[i].assertions) \cup {a}
    BY <1>2, <2>2, AppendedRange
  <2>4. Len(c.assertions) = Len(plan[i].assertions) + 1 /\ Len(plan[i].assertions) \in Nat
    BY <1>2, <2>2
  <2> QED
    BY <1>2, <2>1, <2>3, <2>4 DEF GoodCase
<1>8. \A j \in DOMAIN new : GoodCase(new[j], s)
  BY <1>4, <1>7 DEF PlanGood
<1>9. BodiesApart(new)
  <2>1. \A j \in DOMAIN new : new[j].body = plan[j].body
    BY <1>2, <1>4
  <2> QED
    BY <1>4, <2>1 DEF BodiesApart, PlanGood
<1>10. PlanGood(new, s)
  BY <1>5, <1>8, <1>9 DEF PlanGood
<1> QED
  BY <1>3, <1>6, <1>10

NewBody(b, plan, s) ==
    \/ b = 0
    \/ /\ Older(b, s) /\ s[b] = "BODY_RAW"
       /\ \A j \in DOMAIN plan : plan[j].body # b

\* The old body of the case is no other text of the plan, so that freeing it
\* takes nothing from the plan that is still there.
LEMMA PlanWithBody ==
  ASSUME NEW plan, NEW s, NEW i \in DOMAIN plan, NEW b, PlanGood(plan, s), NewBody(b, plan, s)
  PROVE  /\ PlanGood(WithBody(plan, i, b), s)
         /\ PlanTexts(WithBody(plan, i, b)) = (PlanTexts(plan) \ {plan[i].body}) \cup ({b} \ {0})
<1> DEFINE c    == [plan[i] EXCEPT !.body = b]
           none == [plan[i] EXCEPT !.body = 0]
           new  == [plan EXCEPT ![i] = c]
<1>0. /\ b \in {0} \cup Positions
      /\ b # 0 => /\ Older(b, s) /\ s[b] = "BODY_RAW"
                  /\ \A j \in DOMAIN plan : plan[j].body # b
  BY DEF NewBody, Older
<1>1. plan \in Seq(Cases) /\ plan[i] \in Cases /\ GoodCase(plan[i], s)
  BY DEF PlanGood
<1>2. /\ c \in Cases /\ c.url = plan[i].url /\ c.body = b /\ c.assertions = plan[i].assertions
      /\ CaseTexts(c) = (CaseTexts(none) \cup {b}) \ {0}
      /\ CaseTexts(plan[i]) = (CaseTexts(none) \cup {plan[i].body}) \ {0}
  BY <1>0, <1>1, TextsOfNewBody
<1>3. /\ none \in Cases /\ none.url = plan[i].url /\ none.body = 0
      /\ none.assertions = plan[i].assertions
  BY <1>1, TextsOfNewBody
<1>4. WithBody(plan, i, b) = new
  BY <1>1 DEF WithBody
<1>5. /\ DOMAIN new = DOMAIN plan /\ new[i] = c
      /\ \A j \in DOMAIN plan \ {i} : new[j] = plan[j]
  BY <1>1
<1> HIDE DEF c, none
<1>6. /\ new \in Seq(Cases) /\ Len(new) = Len(plan)
      /\ \A p : p \in PlanTexts(new) <=> \/ p \in CaseTexts(c)
                                         \/ \E j \in DOMAIN plan \ {i} : p \in CaseTexts(plan[j])
  BY <1>1, <1>2, TextsOfChangedCase
<1> HIDE DEF new
<1>7. ASSUME NEW j \in DOMAIN plan, NEW p \in CaseTexts(plan[j]), s[p] = "BODY_RAW"
      PROVE  p = plan[j].body
  <2>1. GoodCase(plan[j], s)
    BY DEF PlanGood
  <2>2. ASSUME NEW a \in Range(plan[j].assertions), p \in AssertionTexts(a) PROVE FALSE
    <3>1. p \in Range(a.from)
      BY <2>2 DEF AssertionTexts
    <3> QED
      BY <1>7, <2>1, <3>1 DEF GoodCase, GoodAssertion
  <2>3. p \in {plan[j].url, plan[j].body}
    BY <2>2 DEF CaseTexts
  <2> QED
    BY <1>7, <2>1, <2>3 DEF GoodCase
<1>8. ASSUME NEW p, p \in PlanTexts(new), p # b PROVE p \in PlanTexts(plan) /\ p # plan[i].body
  <2>1. CASE p \in CaseTexts(c)
    <3>1. p \in CaseTexts(none) /\ p # 0
      BY <1>2, <1>8, <2>1
    <3>2. p \in CaseTexts(plan[i])
      BY <1>2, <3>1
    <3>3. p # plan[i].body
      <4>1. SUFFICES ASSUME p = plan[i].body PROVE FALSE
        OBVIOUS
      <4>2. s[p] = "BODY_RAW"
        BY <1>1, <3>1, <4>1 DEF GoodCase
      <4>3. p \in {none.url} \cup UNION {AssertionTexts(a) : a \in Range(none.assertions)}
        BY <1>3, <3>1 DEF CaseTexts
      <4>4. p # plan[i].url
        BY <1>1, <4>2 DEF GoodCase
      <4>5. PICK a \in Range(plan[i].assertions) : p \in AssertionTexts(a)
        BY <1>3, <4>3, <4>4
      <4>6. p \in Range(a.from)
        BY <4>5 DEF AssertionTexts
      <4> QED
        BY <1>1, <4>2, <4>5, <4>6 DEF GoodCase, GoodAssertion
    <3> QED
      BY <1>1, <3>2, <3>3, PlanTextsOf
  <2>2. CASE \E j \in DOMAIN plan \ {i} : p \in CaseTexts(plan[j])
    <3>1. PICK j \in DOMAIN plan \ {i} : p \in CaseTexts(plan[j])
      BY <2>2
    <3>2. p # 0
      BY <3>1, ZeroIsNoText
    <3>3. p # plan[i].body
      <4>1. SUFFICES ASSUME p = plan[i].body PROVE FALSE
        OBVIOUS
      <4>2. s[p] = "BODY_RAW"
        BY <1>1, <3>2, <4>1 DEF GoodCase
      <4>3. p = plan[j].body
        BY <1>7, <3>1, <4>2
      <4> QED
        BY <3>1, <3>2, <4>1, <4>3 DEF PlanGood, BodiesApart
    <3> QED
      BY <1>1, <3>1, <3>3, PlanTextsOf
  <2> QED
    BY <1>6, <1>8, <2>1, <2>2
<1>9. ASSUME NEW p, p \in PlanTexts(plan), p # plan[i].body PROVE p \in PlanTexts(new)
  <2>1. PICK j \in DOMAIN plan : p \in CaseTexts(plan[j])
    BY <1>1, <1>9, PlanTextsOf
  <2>2. p # 0
    BY <1>9, ZeroIsNoText
  <2>3. CASE j = i
    BY <1>2, <1>6, <1>9, <2>1, <2>2, <2>3
  <2>4. CASE j # i
    BY <1>6, <2>1, <2>4
  <2> QED
    BY <2>3, <2>4
<1>10. b \in PlanTexts(new) <=> b # 0
  <2>1. b # 0 => b \in PlanTexts(new)
    BY <1>2, <1>6
  <2>2. 0 \notin CaseTexts(c)
    BY <1>2
  <2>3. \A j \in DOMAIN plan : 0 \notin CaseTexts(plan[j])
    BY ZeroIsNoText
  <2> QED
    BY <1>6, <2>1, <2>2, <2>3
<1>11. b # 0 => b # plan[i].body
  BY <1>0
<1>12. PlanTexts(new) = (PlanTexts(plan) \ {plan[i].body}) \cup ({b} \ {0})
  <2>1. ASSUME NEW p
        PROVE  p \in PlanTexts(new) <=> p \in (PlanTexts(plan) \ {plan[i].body}) \cup ({b} \ {0})
    <3>1. 0 \notin PlanTexts(plan)
      BY ZeroIsNoText
    <3>2. CASE p = b
      BY <1>10, <1>11, <3>1, <3>2
    <3>3. CASE p # b
      BY <1>8, <1>9, <3>3
    <3> QED
      BY <3>2, <3>3
  <2> QED
    BY <2>1
<1>13. GoodCase(c, s)
  BY <1>0, <1>1, <1>2 DEF GoodCase
<1>14. \A j \in DOMAIN new : GoodCase(new[j], s)
  BY <1>5, <1>13 DEF PlanGood
<1>15. BodiesApart(new)
  <2> SUFFICES ASSUME NEW j \in DOMAIN plan, NEW k \in DOMAIN plan, j # k, new[j].body # 0
               PROVE  new[j].body # new[k].body
    BY <1>5 DEF BodiesApart
  <2>1. CASE j = i
    BY <1>0, <1>2, <1>5, <2>1
  <2>2. CASE k = i
    BY <1>0, <1>2, <1>5, <2>2
  <2>3. CASE j # i /\ k # i
    BY <1>5, <2>3 DEF PlanGood, BodiesApart
  <2> QED
    BY <2>1, <2>2, <2>3
<1>16. PlanGood(new, s)
  BY <1>6, <1>14, <1>15 DEF PlanGood
<1> QED
  BY <1>4, <1>12, <1>16

-----------------------------------------------------------------------------
(* Steps that only read, and steps that give up *)

Reading == pc \notin Ended \cup {"file", "create", "failed"}

LEMMA AfterReading ==
  ASSUME ParserInv, Reading, advance_parser, seen[Len(seen)] \notin {"ERROR", "EOF"}
  PROVE  /\ TokensGood(seen') /\ live' = Held(seen') /\ seen' # << >>
         /\ Len(seen') = Len(seen) + 1 /\ DOMAIN seen' = 1 .. Len(seen) + 1
         /\ \A i \in DOMAIN seen : seen'[i] = seen[i]
         /\ PlanGood(cases, seen')
         /\ current \in DOMAIN seen /\ Older(current, seen') /\ seen'[current] = seen[current]
         /\ Len(seen) \in Nat
<1>1. TokensGood(seen) /\ live = Held(seen) /\ seen # << >> /\ PlanGood(cases, seen)
  BY DEF ParserInv, TokensKnown, PlaceKnown, Reading, Ended
<1>2. seen \in Seq(Kinds) /\ Len(seen) \in Nat /\ DOMAIN seen = 1 .. Len(seen) /\ Len(seen) > 0
  BY <1>1 DEF TokensGood
<1>3. TokensGood(seen') /\ live' = Held(seen')
  BY <1>1, Advanced
<1>4. PICK kind \in Kinds : seen' = Append(seen, kind)
  BY <1>1, Advanced
<1>5. /\ Len(seen') = Len(seen) + 1 /\ DOMAIN seen' = 1 .. Len(seen) + 1
      /\ \A i \in DOMAIN seen : seen'[i] = seen[i]
  BY <1>2, <1>4
<1>6. PlanGood(cases, seen')
  BY <1>1, <1>2, <1>4, PlanLater
<1>7. current \in DOMAIN seen /\ Older(current, seen')
  <2>1. Len(seen) <= MaxTokens + 2
    BY <1>1 DEF TokensGood
  <2> QED
    BY <1>2, <1>5, <2>1 DEF current, Older, Positions
<1> QED
  BY <1>2, <1>3, <1>5, <1>6, <1>7

LEMMA ReadOverInv ==
  ASSUME ParserInv, Reading, pc # "header_value", seen[Len(seen)] \notin {"ERROR", "EOF"},
         NEW next \in PCs \ (Ended \cup {"file", "create"}), ReadOver(next),
         next = "url" => CaseFits,
         next \in InExpect \cup {"raw"} => last # 0,
         next \in InExpect => ExpectFits,
         next # "header_value"
  PROVE  ParserInv'
<1>1. /\ TokensGood(seen') /\ live' = Held(seen') /\ seen' # << >> /\ PlanGood(cases, seen')
  BY AfterReading DEF ReadOver
<1>2. pc' = next /\ cases' = cases /\ copies' = copies /\ outOfMemory' = outOfMemory
  BY DEF ReadOver
<1>3. next \notin Ended /\ next \notin {"file", "create", "unread", "rejected", "header_value"}
  BY DEF Ended
<1>4. TokensKnown'
  BY <1>1, <1>2, <1>3 DEF TokensKnown
<1>5. PlaceKnown'
  <2>1. last' = last /\ ExpectFits' = ExpectFits /\ CaseFits' = CaseFits
    BY <1>2 DEF last, ExpectFits, CaseFits
  <2>2. outOfMemory \in BOOLEAN
    BY DEF ParserInv, PlaceKnown
  <2>3. pc' \in PCs /\ outOfMemory' \in BOOLEAN
    BY <1>2, <2>2
  <2> QED
    BY <1>1, <1>2, <1>3, <2>1, <2>3 DEF PlaceKnown
<1>6. PlanGood(cases, seen)'
  BY <1>1, <1>2
<1>7. CopiesKnown'
  <2>1. copies = PlanTexts(cases)
    BY DEF ParserInv, CopiesKnown, Pending, Reading, Ended
  <2> QED
    BY <1>2, <1>3, <2>1 DEF CopiesKnown, Pending
<1> QED
  BY <1>4, <1>5, <1>6, <1>7 DEF ParserInv

\* The plan may have lost what the copies have lost, and no token is read.
LEMMA FailedInv ==
  ASSUME ParserInv, pc' = "failed", outOfMemory' \in BOOLEAN, seen' # << >>,
         TokensGood(seen'), live' = Held(seen'), PlanGood(cases', seen'),
         copies' \subseteq PlanTexts(cases')
  PROVE  ParserInv'
<1>1. TokensKnown'
  BY DEF TokensKnown, Ended
<1>2. PlaceKnown'
  BY DEF PlaceKnown, PCs, InExpect
<1>3. CopiesKnown'
  BY DEF CopiesKnown
<1> QED
  BY <1>1, <1>2, <1>3 DEF ParserInv

LEMMA GiveUpInv ==
  ASSUME ParserInv, Reading, pc # "header_value", GiveUp
  PROVE  ParserInv'
<1>1. /\ TokensGood(seen) /\ live = Held(seen) /\ seen # << >> /\ outOfMemory \in BOOLEAN
      /\ PlanGood(cases, seen)
  BY DEF ParserInv, TokensKnown, PlaceKnown, Reading, Ended
<1>2. copies = PlanTexts(cases)
  BY DEF ParserInv, CopiesKnown, Pending, Reading, Ended
<1> QED
  BY <1>1, <1>2, FailedInv DEF GiveUp, parser_error

\* A text or a number is added and the statement is complete.
LEMMA AddedInv ==
  ASSUME ParserInv, pc' = "end_of_line", outOfMemory' = outOfMemory, seen' # << >>,
         TokensGood(seen'), live' = Held(seen'), PlanGood(cases', seen'),
         copies' = PlanTexts(cases')
  PROVE  ParserInv'
<1>1. TokensKnown'
  BY DEF TokensKnown, Ended
<1>2. PlaceKnown'
  BY DEF ParserInv, PlaceKnown, PCs, InExpect
<1>3. CopiesKnown'
  BY DEF CopiesKnown, Pending
<1> QED
  BY <1>1, <1>2, <1>3 DEF ParserInv

-----------------------------------------------------------------------------
(* One lemma for each function *)

LEMMA BeginInv ==
  ASSUME ParserInv, read_file \/ dsl_parser_create
  PROVE  ParserInv'
<1>1. CASE read_file
  <2>1. /\ pc = "file" /\ pc' \in {"create", "unread"}
        /\ UNCHANGED <<seen, live, cases, copies, outOfMemory>>
    BY <1>1 DEF read_file
  <2>2. Untouched /\ live = {} /\ Held(seen) = {} /\ outOfMemory \in BOOLEAN
    BY <2>1 DEF ParserInv, TokensKnown, PlaceKnown, Untouched, Ended, Held
  <2>3. TokensKnown'
    BY <2>1, <2>2 DEF ParserInv, TokensKnown
  <2>4. PlaceKnown'
    BY <2>1, <2>2 DEF PlaceKnown, Untouched, PCs, Ended, InExpect
  <2>5. PlanGood(cases, seen)'
    BY <2>1 DEF ParserInv
  <2>6. CopiesKnown'
    BY <2>1, <2>2 DEF ParserInv, CopiesKnown, Untouched, Pending
  <2> QED
    BY <2>3, <2>4, <2>5, <2>6 DEF ParserInv
<1>2. CASE dsl_parser_create
  <2>1. pc = "create" /\ UNCHANGED <<cases, copies>>
    BY <1>2 DEF dsl_parser_create
  <2>2. Untouched /\ live = Held(seen) /\ live = {} /\ outOfMemory \in BOOLEAN /\ TokensGood(seen)
    BY <2>1 DEF ParserInv, TokensKnown, PlaceKnown, Untouched, Ended, Held
  <2>3. PlanTexts(cases) = {}
    BY <2>2 DEF Untouched, PlanTexts, Range
  <2>4. CASE advance_parser /\ pc' = "statement" /\ UNCHANGED outOfMemory
    <3>1. TokensGood(seen') /\ live' = Held(seen') /\ \E kind \in Kinds : seen' = Append(seen, kind)
      BY <2>2, <2>4, Advanced DEF Untouched
    <3>2. seen' # << >>
      BY <2>2, <3>1 DEF Untouched
    <3>3. TokensKnown'
      BY <2>4, <3>1 DEF TokensKnown, Ended
    <3>4. PlaceKnown'
      BY <2>2, <2>4, <3>2 DEF PlaceKnown, PCs, InExpect
    <3>5. PlanGood(cases, seen)'
      BY <2>1, <2>2 DEF PlanGood, BodiesApart, Untouched
    <3>6. CopiesKnown'
      BY <2>1, <2>2, <2>3, <2>4 DEF CopiesKnown, Untouched, Pending
    <3> QED
      BY <3>3, <3>4, <3>5, <3>6 DEF ParserInv
  <2>5. CASE pc' = "rejected" /\ outOfMemory' = TRUE /\ UNCHANGED <<seen, live>>
    <3>1. TokensKnown'
      BY <2>2, <2>5 DEF TokensKnown, Ended
    <3>2. PlaceKnown'
      BY <2>5 DEF PlaceKnown, PCs, Ended, InExpect
    <3>3. PlanGood(cases, seen)'
      BY <2>1, <2>5 DEF ParserInv
    <3>4. CopiesKnown'
      BY <2>1, <2>2, <2>5 DEF CopiesKnown, Untouched
    <3> QED
      BY <3>1, <3>2, <3>3, <3>4 DEF ParserInv
  <2> QED
    BY <1>2, <2>4, <2>5 DEF dsl_parser_create
<1> QED
  BY <1>1, <1>2

LEMMA StatementInv ==
  ASSUME ParserInv,
         \/ parse_blank \/ parse_request_stmt \/ parse_body_stmt \/ parse_expect_stmt
         \/ parse_statement_error
  PROVE  ParserInv'
<1>1. pc = "statement" /\ Reading
  BY DEF parse_blank, parse_request_stmt, parse_body_stmt, parse_expect_stmt,
         parse_statement_error, Reading, Ended
<1>2. CASE parse_blank
  BY <1>1, <1>2, ReadOverInv DEF parse_blank, check, current, PCs, Ended, InExpect
<1>3. CASE parse_request_stmt
  BY <1>1, <1>3, ReadOverInv, GiveUpInv DEF parse_request_stmt, check, current, PCs, Ended, InExpect
<1>4. CASE parse_body_stmt
  BY <1>1, <1>4, ReadOverInv, GiveUpInv DEF parse_body_stmt, check, current, PCs, Ended, InExpect
<1>5. CASE parse_expect_stmt
  BY <1>1, <1>5, ReadOverInv, GiveUpInv DEF parse_expect_stmt, check, current, PCs, Ended, InExpect
<1>6. CASE parse_statement_error
  BY <1>1, <1>6, GiveUpInv DEF parse_statement_error
<1> QED
  BY <1>2, <1>3, <1>4, <1>5, <1>6

LEMMA LineEndInv ==
  ASSUME ParserInv, end_of_line \/ parse_program \/ parse_assertion
  PROVE  ParserInv'
<1>1. CASE end_of_line
  <2>1. pc = "end_of_line" /\ Reading
    BY <1>1 DEF end_of_line, Reading, Ended
  <2>2. CASE check("NEWLINE") /\ ReadOver("statement")
    BY <2>1, <2>2, ReadOverInv DEF check, current, PCs, Ended, InExpect
  <2>3. CASE pc' = "statement" /\ UNCHANGED <<seen, live, cases, copies, outOfMemory>>
    <3>1. TokensKnown'
      BY <2>1, <2>3 DEF ParserInv, TokensKnown, Ended
    <3>2. PlaceKnown'
      BY <2>1, <2>3 DEF ParserInv, PlaceKnown, PCs, InExpect
    <3>3. CopiesKnown'
      BY <2>1, <2>3 DEF ParserInv, CopiesKnown, Pending
    <3>4. PlanGood(cases, seen)'
      BY <2>3 DEF ParserInv
    <3> QED
      BY <3>1, <3>2, <3>3, <3>4 DEF ParserInv
  <2>4. CASE GiveUp
    BY <2>1, <2>4, GiveUpInv
  <2> QED
    BY <1>1, <2>2, <2>3, <2>4 DEF end_of_line
<1>2. CASE parse_program
  <2>1. /\ pc = "statement" /\ pc' = "parsed"
        /\ UNCHANGED <<seen, live, cases, copies, outOfMemory>>
    BY <1>2 DEF parse_program
  <2>2. TokensKnown'
    BY <2>1 DEF ParserInv, TokensKnown, Ended
  <2>3. PlaceKnown'
    BY <2>1 DEF ParserInv, PlaceKnown, PCs, InExpect
  <2>4. CopiesKnown'
    BY <2>1 DEF ParserInv, CopiesKnown, Pending
  <2>5. PlanGood(cases, seen)'
    BY <2>1 DEF ParserInv
  <2> QED
    BY <2>2, <2>3, <2>4, <2>5 DEF ParserInv
<1>3. CASE parse_assertion
  <2>1. pc = "assertion" /\ Reading /\ last # 0 /\ ExpectFits
    BY <1>3 DEF parse_assertion, Reading, Ended, ParserInv, PlaceKnown, InExpect
  <2> QED
    BY <1>3, <2>1, ReadOverInv, GiveUpInv
       DEF parse_assertion, check, current, PCs, Ended, InExpect
<1> QED
  BY <1>1, <1>2, <1>3

LEMMA UrlInv ==
  ASSUME ParserInv, request_url
  PROVE  ParserInv'
<1>1. pc = "url" /\ Reading /\ CaseFits /\ outOfMemory \in BOOLEAN
  BY DEF request_url, Reading, Ended, ParserInv, PlaceKnown
<1>2. copies = PlanTexts(cases)
  BY <1>1 DEF ParserInv, CopiesKnown, Pending
<1>3. CASE check("IDENT") /\ advance_parser
  <2>1. seen[current] = "IDENT"
    BY <1>3 DEF check
  <2>2. /\ TokensGood(seen') /\ live' = Held(seen') /\ seen' # << >> /\ PlanGood(cases, seen')
        /\ Older(current, seen') /\ seen'[current] = "IDENT"
    BY <1>1, <1>3, <2>1, AfterReading DEF current
  <2> DEFINE new == Append(cases, [url |-> current, body |-> 0, assertions |-> << >>])
  <2>3. PlanGood(new, seen') /\ PlanTexts(new) = PlanTexts(cases) \cup {current}
    BY <1>1, <2>2, PlanWithCase DEF CaseFits, last
  <2> HIDE DEF new
  <2>4. CASE Copied(current, new, "end_of_line")
    BY <1>2, <2>2, <2>3, <2>4, AddedInv DEF Copied
  <2>5. CASE NotCopied(cases, copies)
    BY <1>2, <2>2, <2>5, FailedInv DEF NotCopied, parser_error
  <2> QED
    BY <1>1, <1>3, <2>1, <2>4, <2>5 DEF request_url, GiveUp, check, new
<1>4. CASE GiveUp
  BY <1>1, <1>4, GiveUpInv
<1> QED
  BY <1>3, <1>4 DEF request_url

LEMMA BodyInv ==
  ASSUME ParserInv, body_raw
  PROVE  ParserInv'
<1>1. pc = "raw" /\ Reading /\ last # 0 /\ outOfMemory \in BOOLEAN
  BY DEF body_raw, Reading, Ended, ParserInv, PlaceKnown, InExpect
<1>2. copies = PlanTexts(cases)
  BY <1>1 DEF ParserInv, CopiesKnown, Pending
<1>3. last \in DOMAIN cases /\ CaseAbove = last
  BY <1>1 DEF last, CaseAbove, ParserInv, PlanGood
<1>4. CASE check("BODY_RAW") /\ advance_parser
  <2>1. seen[current] = "BODY_RAW"
    BY <1>4 DEF check
  <2>2. /\ TokensGood(seen') /\ live' = Held(seen') /\ seen' # << >> /\ PlanGood(cases, seen')
        /\ Older(current, seen') /\ seen'[current] = "BODY_RAW" /\ current \in Positions
        /\ current \in Nat /\ current > 0
    BY <1>1, <1>4, <2>1, AfterReading DEF current, Older, Positions
  <2>3. \A j \in DOMAIN cases : cases[j].body # current
    <3> SUFFICES ASSUME NEW j \in DOMAIN cases, cases[j].body = current PROVE FALSE
      OBVIOUS
    <3>1. GoodCase(cases[j], seen)
      BY DEF ParserInv, PlanGood
    <3> QED
      BY <2>2, <3>1 DEF GoodCase, Older, current
  <2> DEFINE old  == cases[last].body
             new  == WithBody(cases, last, current)
             none == WithBody(cases, last, 0)
  <2>4. /\ PlanGood(new, seen')
        /\ PlanTexts(new) = (PlanTexts(cases) \ {old}) \cup ({current} \ {0})
    <3>1. NewBody(current, cases, seen')
      BY <2>2, <2>3 DEF NewBody
    <3>2. PlanGood(cases, seen')
      BY <2>2
    <3> QED
      BY ONLY <1>3, <3>1, <3>2, PlanWithBody
  <2>5. PlanGood(none, seen') /\ PlanTexts(none) = (PlanTexts(cases) \ {old}) \cup ({0} \ {0})
    <3>1. NewBody(0, cases, seen')
      BY DEF NewBody
    <3>2. PlanGood(cases, seen')
      BY <2>2
    <3> QED
      BY ONLY <1>3, <3>1, <3>2, PlanWithBody
  <2> HIDE DEF new, none, old
  <2>6. CASE /\ copies' = (copies \ {old}) \cup {current} /\ cases' = new
             /\ pc' = "end_of_line" /\ UNCHANGED outOfMemory
    BY <1>2, <2>2, <2>4, <2>6, AddedInv
  <2>7. CASE NotCopied(none, copies \ {old})
    BY <1>2, <2>2, <2>5, <2>7, FailedInv DEF NotCopied, parser_error
  <2> QED
    BY <1>1, <1>3, <1>4, <2>1, <2>6, <2>7 DEF body_raw, GiveUp, check, new, none, old, WithBody
<1>5. CASE GiveUp
  BY <1>1, <1>5, GiveUpInv
<1> QED
  BY <1>4, <1>5 DEF body_raw

\* The assertion of the statement, of one text or a name and a value.
LEMMA AssertingGood ==
  ASSUME ParserInv, last # 0, ExpectFits, PlanGood(cases, seen'),
         NEW type \in {"status", "body", "header"},
         NEW from \in {<<p>> : p \in Positions} \cup Positions \X Positions,
         \A p \in Range(from) : Older(p, seen') /\ seen'[p] # "BODY_RAW"
  PROVE  /\ PlanGood(Asserting(type, from), seen')
         /\ PlanTexts(Asserting(type, from)) =
               PlanTexts(cases) \cup AssertionTexts([type |-> type, from |-> from])
<1> DEFINE a == [type |-> type, from |-> from]
<1>1. last \in DOMAIN cases /\ CaseAbove = last
  BY DEF last, CaseAbove, ParserInv, PlanGood
<1>2. a \in Assertions
  BY DEF Assertions
<1>3. GoodAssertion(a, seen')
  BY DEF GoodAssertion
<1>4. Len(cases[last].assertions) < MaxAssertions
  BY DEF ExpectFits
<1>5. Asserting(type, from) = WithAssertion(cases, last, a)
  BY <1>1 DEF Asserting, WithAssertion
<1> HIDE DEF a
<1>6. /\ PlanGood(WithAssertion(cases, last, a), seen')
      /\ PlanTexts(WithAssertion(cases, last, a)) = PlanTexts(cases) \cup AssertionTexts(a)
  BY <1>1, <1>2, <1>3, <1>4, PlanWithAssertion
<1> QED
  BY <1>5, <1>6 DEF a

LEMMA StatusInv ==
  ASSUME ParserInv, parse_status_assertion
  PROVE  ParserInv'
<1>1. pc = "code" /\ Reading /\ last # 0 /\ ExpectFits /\ outOfMemory \in BOOLEAN
  BY DEF parse_status_assertion, Reading, Ended, ParserInv, PlaceKnown, InExpect
<1>2. copies = PlanTexts(cases)
  BY <1>1 DEF ParserInv, CopiesKnown, Pending
<1>3. CASE check("INT") /\ advance_parser
  <2>1. seen[current] = "INT"
    BY <1>3 DEF check
  <2>2. /\ TokensGood(seen') /\ live' = Held(seen') /\ seen' # << >> /\ PlanGood(cases, seen')
        /\ Older(current, seen') /\ seen'[current] = "INT" /\ current \in Positions
    BY <1>1, <1>3, <2>1, AfterReading DEF current, Older
  <2>3. <<current>> \in {<<p>> : p \in Positions} \cup Positions \X Positions
    BY <2>2
  <2>4. \A p \in Range(<<current>>) : Older(p, seen') /\ seen'[p] # "BODY_RAW"
    BY <2>2, OneText
  <2>5. /\ PlanGood(Asserting("status", <<current>>), seen')
        /\ PlanTexts(Asserting("status", <<current>>)) =
              PlanTexts(cases) \cup AssertionTexts([type |-> "status", from |-> <<current>>])
    BY <1>1, <2>2, <2>3, <2>4, AssertingGood
  <2>6. AssertionTexts([type |-> "status", from |-> <<current>>]) = {}
    BY DEF AssertionTexts
  <2>7. CASE /\ cases' = Asserting("status", <<current>>) /\ pc' = "end_of_line"
             /\ UNCHANGED <<copies, outOfMemory>>
    BY <1>2, <2>2, <2>5, <2>6, <2>7, AddedInv
  <2> QED
    BY <1>1, <1>3, <2>1, <2>7 DEF parse_status_assertion, check, GiveUp
<1>4. CASE GiveUp
  BY <1>1, <1>4, GiveUpInv
<1> QED
  BY <1>3, <1>4 DEF parse_status_assertion

LEMMA BodyAssertionInv ==
  ASSUME ParserInv, parse_body_assertion
  PROVE  ParserInv'
<1>1. pc \in {"contains", "string"} /\ Reading /\ last # 0 /\ ExpectFits /\ outOfMemory \in BOOLEAN
  BY DEF parse_body_assertion, Reading, Ended, ParserInv, PlaceKnown, InExpect
<1>2. copies = PlanTexts(cases)
  BY <1>1 DEF ParserInv, CopiesKnown, Pending
<1>3. CASE pc = "contains" /\ consume("CONTAINS", "string")
  BY <1>1, <1>3, ReadOverInv, GiveUpInv DEF consume, check, current, PCs, Ended, InExpect
<1>4. CASE check("STRING") /\ advance_parser
  <2>1. seen[current] = "STRING"
    BY <1>4 DEF check
  <2>2. /\ TokensGood(seen') /\ live' = Held(seen') /\ seen' # << >> /\ PlanGood(cases, seen')
        /\ Older(current, seen') /\ seen'[current] = "STRING" /\ current \in Positions
    BY <1>1, <1>4, <2>1, AfterReading DEF current, Older
  <2>3. <<current>> \in {<<p>> : p \in Positions} \cup Positions \X Positions
    BY <2>2
  <2>4. \A p \in Range(<<current>>) : Older(p, seen') /\ seen'[p] # "BODY_RAW"
    BY <2>2, OneText
  <2> DEFINE new == Asserting("body", <<current>>)
  <2>5. /\ PlanGood(new, seen')
        /\ PlanTexts(new) =
              PlanTexts(cases) \cup AssertionTexts([type |-> "body", from |-> <<current>>])
    BY <1>1, <2>2, <2>3, <2>4, AssertingGood
  <2>6. AssertionTexts([type |-> "body", from |-> <<current>>]) = {current}
    BY OneText DEF AssertionTexts
  <2> HIDE DEF new
  <2>7. CASE Copied(current, new, "end_of_line")
    BY <1>2, <2>2, <2>5, <2>6, <2>7, AddedInv DEF Copied
  <2>8. CASE NotCopied(new, copies)
    BY <1>2, <2>2, <2>5, <2>6, <2>8, FailedInv DEF NotCopied, parser_error
  <2> QED
    BY <1>1, <1>3, <1>4, <2>1, <2>7, <2>8 DEF parse_body_assertion, GiveUp, check, new
<1>5. CASE GiveUp
  BY <1>1, <1>5, GiveUpInv

<1> QED
  BY <1>3, <1>4, <1>5 DEF parse_body_assertion

\* While the value of a header is read, the copy of its name is the one copy
\* that the plan does not hold.
LEMMA HeaderNameInv ==
  ASSUME ParserInv, parse_header_name
  PROVE  ParserInv'
<1>1. pc = "header_name" /\ Reading /\ last # 0 /\ ExpectFits /\ outOfMemory \in BOOLEAN
  BY DEF parse_header_name, Reading, Ended, ParserInv, PlaceKnown, InExpect
<1>2. copies = PlanTexts(cases)
  BY <1>1 DEF ParserInv, CopiesKnown, Pending
<1>3. CASE check("IDENT") /\ advance_parser
  <2>1. seen[current] = "IDENT"
    BY <1>3 DEF check
  <2>2. /\ TokensGood(seen') /\ live' = Held(seen') /\ seen' # << >> /\ PlanGood(cases, seen')
        /\ seen'[current] = "IDENT" /\ current \in DOMAIN seen'
        /\ Len(seen') = current + 1 /\ current \in Nat
    BY <1>1, <1>3, <2>1, AfterReading DEF current
  <2>3. CASE Copied(current, cases, "header_value")
    <3>1. /\ pc' = "header_value" /\ cases' = cases /\ copies' = copies \cup {current}
          /\ outOfMemory' = outOfMemory
      BY <2>3 DEF Copied
    <3>2. previous' = current
      BY <2>2 DEF previous
    <3>3. TokensKnown'
      BY <2>2, <3>1 DEF TokensKnown, Ended
    <3>4. PlaceKnown'
      <4>1. last' # 0 /\ ExpectFits'
        BY <1>1, <3>1 DEF last, ExpectFits
      <4> QED
        BY <1>1, <2>2, <3>1, <3>2, <4>1 DEF PlaceKnown, PCs, InExpect
    <3>5. CopiesKnown'
      BY <1>2, <3>1, <3>2 DEF CopiesKnown, Pending
    <3>6. PlanGood(cases, seen)'
      BY <2>2, <3>1
    <3> QED
      BY <3>3, <3>4, <3>5, <3>6 DEF ParserInv
  <2>4. CASE NotCopied(cases, copies)
    BY <1>2, <2>2, <2>4, FailedInv DEF NotCopied, parser_error
  <2> QED
    BY <1>1, <1>3, <2>1, <2>3, <2>4 DEF parse_header_name, GiveUp, check
<1>4. CASE GiveUp
  BY <1>1, <1>4, GiveUpInv
<1> QED
  BY <1>3, <1>4 DEF parse_header_name

LEMMA HeaderInv ==
  ASSUME ParserInv, parse_header_assertion
  PROVE  ParserInv'
<1>1. pc = "header_value" /\ Reading /\ last # 0 /\ ExpectFits /\ outOfMemory \in BOOLEAN
  BY DEF parse_header_assertion, Reading, Ended, ParserInv, PlaceKnown, InExpect
<1>2. copies = PlanTexts(cases) \cup {previous}
  BY <1>1 DEF ParserInv, CopiesKnown, Pending
<1>3. previous \in DOMAIN seen /\ seen[previous] # "BODY_RAW" /\ seen # << >>
  BY <1>1 DEF ParserInv, PlaceKnown
<1>4. TokensGood(seen) /\ live = Held(seen) /\ PlanGood(cases, seen)
  BY <1>1 DEF ParserInv, TokensKnown, Ended
<1>5. WithoutName(previous) \subseteq PlanTexts(cases)
  BY <1>2 DEF WithoutName
<1>6. CASE seen[current] \in HeaderValues /\ advance_parser
  <2>1. seen[current] \notin {"ERROR", "EOF", "BODY_RAW"}
    BY <1>6 DEF HeaderValues
  <2>2. /\ TokensGood(seen') /\ live' = Held(seen') /\ seen' # << >> /\ PlanGood(cases, seen')
        /\ Older(current, seen') /\ seen'[current] # "BODY_RAW" /\ current \in Positions
        /\ \A i \in DOMAIN seen : seen'[i] = seen[i]
        /\ Len(seen') = Len(seen) + 1
    BY <1>1, <1>6, <2>1, AfterReading DEF current, Older
  <2>3. Older(previous, seen') /\ seen'[previous] # "BODY_RAW" /\ previous \in Positions
    <3>1. Len(seen) \in Nat /\ Len(seen) <= MaxTokens + 2 /\ DOMAIN seen = 1 .. Len(seen)
      BY <1>4 DEF TokensGood
    <3>2. previous \in Positions /\ previous < Len(seen')
      BY <1>3, <2>2, <3>1 DEF previous, Positions
    <3> QED
      BY <1>3, <2>2, <3>2 DEF Older
  <2> DEFINE from == <<previous, current>>
             new  == Asserting("header", from)
  <2>4. from \in {<<p>> : p \in Positions} \cup Positions \X Positions
    BY <2>2, <2>3
  <2>5. Range(from) = {previous, current}
    BY TwoTexts
  <2>6. \A p \in Range(from) : Older(p, seen') /\ seen'[p] # "BODY_RAW"
    BY <2>2, <2>3, <2>5
  <2>7. /\ PlanGood(new, seen')
        /\ PlanTexts(new) = PlanTexts(cases) \cup AssertionTexts([type |-> "header", from |-> from])
    <3> HIDE DEF from
    <3> QED
      BY <1>1, <2>2, <2>4, <2>6, AssertingGood
  <2>8. AssertionTexts([type |-> "header", from |-> from]) = {previous, current}
    BY <2>5 DEF AssertionTexts
  <2> HIDE DEF new
  <2>9. CASE Copied(current, new, "end_of_line")
    BY <1>2, <2>2, <2>7, <2>8, <2>9, AddedInv DEF Copied
  <2>10. CASE NotCopied(cases, WithoutName(previous))
    BY <1>5, <2>2, <2>10, FailedInv DEF NotCopied, parser_error
  <2> QED
    BY <1>1, <1>6, <2>1, <2>9, <2>10 DEF parse_header_assertion, new
<1>7. CASE /\ parser_error /\ copies' = WithoutName(previous)
           /\ UNCHANGED <<seen, live, cases, outOfMemory>>
  BY <1>1, <1>3, <1>4, <1>5, <1>7, FailedInv DEF parser_error
<1> QED
  BY <1>6, <1>7 DEF parse_header_assertion

LEMMA ReturnInv ==
  ASSUME ParserInv, return_plan \/ return_error
  PROVE  ParserInv'
<1>1. pc \in {"parsed", "failed"} /\ live' = live \ {current, previous} /\ seen' = seen
      /\ outOfMemory' = outOfMemory
  BY DEF return_plan, return_error, dsl_parser_destroy
<1>2. TokensGood(seen) /\ live = Held(seen) /\ seen # << >> /\ outOfMemory \in BOOLEAN
  BY <1>1 DEF ParserInv, TokensKnown, PlaceKnown, Ended
<1>3. live' = {}
  BY <1>1, <1>2 DEF Held, current, previous
<1>4. CASE return_plan
  <2>1. pc = "parsed" /\ pc' = "accepted" /\ UNCHANGED <<cases, copies>>
    BY <1>4 DEF return_plan
  <2>2. TokensKnown'
    BY <1>1, <1>2, <1>3, <2>1 DEF TokensKnown, Ended
  <2>3. PlaceKnown'
    BY <1>1, <1>2, <2>1 DEF PlaceKnown, PCs, Ended, InExpect
  <2>4. CopiesKnown'
    BY <2>1 DEF ParserInv, CopiesKnown, Pending
  <2>5. PlanGood(cases, seen)'
    BY <1>1, <2>1 DEF ParserInv
  <2> QED
    BY <2>2, <2>3, <2>4, <2>5 DEF ParserInv
<1>5. CASE return_error
  <2>1. pc = "failed" /\ pc' = "rejected" /\ copies' = copies \ PlanTexts(cases) /\ cases' = << >>
    BY <1>5 DEF return_error, free_run_plan
  <2>2. TokensKnown'
    BY <1>1, <1>2, <1>3, <2>1 DEF TokensKnown, Ended
  <2>3. PlaceKnown'
    BY <1>1, <1>2, <2>1 DEF PlaceKnown, PCs, Ended, InExpect
  <2>4. CopiesKnown'
    BY <2>1 DEF ParserInv, CopiesKnown
  <2>5. PlanGood(cases, seen)'
    BY <2>1 DEF PlanGood, BodiesApart
  <2> QED
    BY <2>2, <2>3, <2>4, <2>5 DEF ParserInv
<1> QED
  BY <1>4, <1>5

-----------------------------------------------------------------------------
(* The theorems *)

LEMMA StutterInv ==
  ASSUME ParserInv, UNCHANGED vars
  PROVE  ParserInv'
<1>1. /\ pc' = pc /\ seen' = seen /\ live' = live /\ cases' = cases /\ copies' = copies
      /\ outOfMemory' = outOfMemory
  BY DEF vars
<1>2. TokensKnown'
  BY <1>1 DEF ParserInv, TokensKnown
<1>3. PlaceKnown'
  <2>1. /\ last' = last /\ ExpectFits' = ExpectFits /\ CaseFits' = CaseFits
        /\ previous' = previous /\ Untouched' = Untouched
    BY <1>1 DEF last, ExpectFits, CaseFits, previous, Untouched
  <2> QED
    BY <1>1, <2>1 DEF ParserInv, PlaceKnown
<1>4. CopiesKnown'
  BY <1>1 DEF ParserInv, CopiesKnown, Pending, previous
<1>5. PlanGood(cases, seen)'
  BY <1>1 DEF ParserInv
<1> QED
  BY <1>2, <1>3, <1>4, <1>5 DEF ParserInv

LEMMA NextInv ==
  ASSUME ParserInv, [Next]_vars
  PROVE  ParserInv'
BY BeginInv, StatementInv, LineEndInv, UrlInv, BodyInv, StatusInv, BodyAssertionInv,
   HeaderNameInv, HeaderInv, ReturnInv, StutterInv DEF Next

LEMMA ParserInvariant == Spec => []ParserInv
<1>1. Init => ParserInv
  BY InitInv
<1>2. ParserInv /\ [Next]_vars => ParserInv'
  BY NextInv
<1> QED
  BY <1>1, <1>2, PTL DEF Spec

\* A plan never has more cases, and a case never more expectations, than its
\* arrays hold (MAX_REQUEST_CASES, MAX_CASE_ASSERTIONS), however long the
\* file: the limits are looked at before the place is taken.
THEOREM PlanFits == Spec => []TypeOK
<1>1. ParserInv => TypeOK
  BY InvImpliesTypeOK
<1> QED
  BY <1>1, ParserInvariant, PTL

\* Of the tokens of a file of any length the parser holds the texts of two,
\* and of none when dsl_parse_run_plan_file has returned.
THEOREM TwoTokensHeld == Spec => []TokensOwned
<1>1. ParserInv => TokensOwned
  BY InvImpliesTokensOwned
<1> QED
  BY <1>1, ParserInvariant, PTL

\* No copy of a text is lost: the plan holds every one, and free_run_plan
\* leaves none behind after an error, wherever it struck.
THEOREM NoCopyLost == Spec => []NothingKept
<1>1. ParserInv => NothingKept
  BY InvImpliesNothingKept
<1> QED
  BY <1>1, ParserInvariant, PTL

-----------------------------------------------------------------------------
(* The parser comes to an end *)

\* How far the parser is from its end: six steps for a token that is still to
\* come, and the steps that read none.
Rank(label) == CASE label \in Ended                 -> 0
                 [] label \in {"parsed", "failed"}  -> 1
                 [] label = "statement"             -> 2
                 [] label = "create"                -> 4
                 [] label = "file"                  -> 5
                 [] OTHER                           -> 3

StepsLeft == 6 * (MaxTokens + 2 - Len(seen)) + Rank(pc)

LEMMA RankOf ==
  ASSUME NEW label \in PCs
  PROVE  /\ Rank(label) \in 0 .. 5
         /\ label \in Ended => Rank(label) = 0
         /\ label \in {"parsed", "failed"} => Rank(label) = 1
         /\ label = "statement" => Rank(label) = 2
         /\ label = "create" => Rank(label) = 4
         /\ label = "file" => Rank(label) = 5
         /\ label \notin Ended \cup {"parsed", "failed", "statement", "create", "file"} => Rank(label) = 3
BY DEF Rank, PCs, Ended

LEMMA StepsLeftIs ==
  ASSUME ParserInv
  PROVE  StepsLeft \in Nat
<1>1. pc \in PCs /\ seen \in Seq(Kinds) /\ Len(seen) \in Nat /\ Len(seen) <= MaxTokens + 2
  BY DEF ParserInv, PlaceKnown, TokensKnown, TokensGood
<1>2. Rank(pc) \in 0 .. 5
  BY <1>1, RankOf
<1> QED
  BY <1>1, <1>2, ParserAssumption DEF StepsLeft

\* A step reads a token, or it only goes on to a label of lower rank.
LEMMA StepDescends ==
  ASSUME ParserInv, Next
  PROVE  \/ advance_parser /\ pc \in PCs \ (Ended \cup {"parsed", "failed", "file"})
                           /\ pc' \in PCs \ {"file", "create"}
         \/ seen' = seen /\ pc' \in PCs /\ Rank(pc') < Rank(pc)
<1> DEFINE Reads == advance_parser /\ pc \in PCs \ (Ended \cup {"parsed", "failed", "file"})
                                   /\ pc' \in PCs \ {"file", "create"}
           Falls == seen' = seen /\ pc' \in PCs /\ Rank(pc') < Rank(pc)
<1> SUFFICES Reads \/ Falls
  OBVIOUS
<1>1. CASE read_file
  <2>1. pc = "file" /\ pc' \in {"create", "unread"} /\ seen' = seen
    BY <1>1 DEF read_file
  <2> QED
    BY <2>1, RankOf DEF PCs, Ended
<1>2. CASE dsl_parser_create
  <2>1. CASE advance_parser /\ pc = "create" /\ pc' = "statement"
    BY <2>1 DEF PCs, Ended
  <2>2. CASE pc = "create" /\ pc' = "rejected" /\ seen' = seen
    BY <2>2, RankOf DEF PCs, Ended
  <2> QED
    BY <1>2, <2>1, <2>2 DEF dsl_parser_create
<1>3. CASE parse_program
  BY <1>3, RankOf DEF parse_program, PCs, Ended
<1>4. CASE return_plan \/ return_error
  BY <1>4, RankOf DEF return_plan, return_error, PCs, Ended
<1> DEFINE Labels == PCs \ (Ended \cup {"parsed", "failed", "file", "create"})
<1>5. ASSUME NEW next \in PCs \ {"file", "create"}, pc \in Labels, ReadOver(next) PROVE Reads
  BY <1>5 DEF ReadOver
<1>6. ASSUME pc \in Labels, pc' = "failed", seen' = seen PROVE Falls
  BY <1>6, RankOf DEF PCs, Ended
<1>7. ASSUME pc \in Labels, advance_parser, pc' \in {"failed", "end_of_line", "header_value"} PROVE Reads
  BY <1>7 DEF PCs
<1>8. ASSUME pc \in Labels, GiveUp PROVE Falls
  BY <1>6, <1>8 DEF GiveUp, parser_error
<1> DEFINE N == {"statement", "url", "raw", "assertion", "failed", "code", "contains", "header_name", "string"}
<1>9. N \subseteq PCs \ {"file", "create"}
  BY DEF PCs
<1>10. CASE parse_blank \/ parse_request_stmt \/ parse_body_stmt \/ parse_expect_stmt
            \/ parse_statement_error
  <2>1. pc = "statement" /\ pc \in Labels
    BY <1>10 DEF parse_blank, parse_request_stmt, parse_body_stmt, parse_expect_stmt,
                 parse_statement_error, PCs, Ended
  <2>2. GiveUp \/ \E next \in N : ReadOver(next)
    BY <1>10 DEF parse_blank, parse_request_stmt, parse_body_stmt, parse_expect_stmt,
                 parse_statement_error
  <2> QED
    BY <2>1, <2>2, <1>5, <1>8, <1>9
<1>11. CASE parse_assertion
  <2>1. pc \in Labels
    BY <1>11 DEF parse_assertion, PCs, Ended
  <2>2. GiveUp \/ \E next \in N : ReadOver(next)
    BY <1>11 DEF parse_assertion
  <2> QED
    BY <2>1, <2>2, <1>5, <1>8, <1>9
<1>12. CASE end_of_line
  <2>1. pc = "end_of_line" /\ pc \in Labels
    BY <1>12 DEF end_of_line, PCs, Ended
  <2>2. CASE pc' = "statement" /\ seen' = seen
    BY <2>1, <2>2, RankOf DEF PCs, Ended
  <2>3. CASE GiveUp \/ ReadOver("statement")
    BY <2>1, <2>3, <1>5, <1>8, <1>9
  <2> QED
    BY <1>12, <2>2, <2>3 DEF end_of_line
<1>13. CASE request_url \/ body_raw \/ parse_status_assertion \/ parse_header_name
            \/ parse_header_assertion
  <2>1. pc \in Labels
    BY <1>13 DEF request_url, body_raw, parse_status_assertion, parse_header_name,
                 parse_header_assertion, PCs, Ended
  <2>2. \/ pc' = "failed" /\ seen' = seen
        \/ advance_parser /\ pc' \in {"failed", "end_of_line", "header_value"}
    BY <1>13 DEF request_url, body_raw, parse_status_assertion, parse_header_name,
                 parse_header_assertion, Copied, NotCopied, GiveUp, parser_error
  <2> QED
    BY <2>1, <2>2, <1>6, <1>7
<1>14. CASE parse_body_assertion
  <2>1. pc \in Labels
    BY <1>14 DEF parse_body_assertion, PCs, Ended
  <2>2. \/ pc' = "failed" /\ seen' = seen
        \/ advance_parser /\ pc' \in {"failed", "end_of_line", "header_value"}
        \/ ReadOver("string")
    BY <1>14 DEF parse_body_assertion, Copied, NotCopied, GiveUp, parser_error, consume
  <2> QED
    BY <2>1, <2>2, <1>5, <1>6, <1>7, <1>9
<1> QED
  BY <1>1, <1>2, <1>3, <1>4, <1>10, <1>11, <1>12, <1>13, <1>14 DEF Next

LEMMA Descends ==
  ASSUME ParserInv, Next
  PROVE  StepsLeft' < StepsLeft
<1>1. seen \in Seq(Kinds) /\ Len(seen) \in Nat /\ MaxTokens \in Nat /\ pc \in PCs
  BY ParserAssumption DEF ParserInv, PlaceKnown, TokensKnown, TokensGood
<1>2. PICK n \in Nat, m \in Nat : n = Len(seen) /\ m = MaxTokens
  BY <1>1
<1>3. PICK r \in 0 .. 5 : r = Rank(pc)
  BY <1>1, RankOf
<1>4. StepsLeft = 6 * (m + 2 - n) + r
  BY <1>2, <1>3 DEF StepsLeft
<1>5. CASE /\ advance_parser /\ pc \in PCs \ (Ended \cup {"parsed", "failed", "file"})
           /\ pc' \in PCs \ {"file", "create"}
  <2>1. PICK kind : kind \in Kinds /\ seen' = Append(seen, kind)
    BY <1>5 DEF advance_parser, NextKinds, Kinds
  <2>2. Len(seen') = n + 1
    BY <1>1, <1>2, <2>1
  <2>3. PICK q \in 0 .. 3 : q = Rank(pc')
    BY <1>5, RankOf
  <2>4. r >= 2
    BY <1>3, <1>5, RankOf
  <2>5. StepsLeft' = 6 * (m + 2 - (n + 1)) + q
    BY <1>2, <2>2, <2>3 DEF StepsLeft
  <2> QED
    BY <1>4, <2>4, <2>5
<1>6. CASE seen' = seen /\ pc' \in PCs /\ Rank(pc') < Rank(pc)
  <2>1. PICK q \in 0 .. 5 : q = Rank(pc')
    BY <1>6, RankOf
  <2>2. StepsLeft' = 6 * (m + 2 - n) + q
    BY <1>2, <1>6, <2>1 DEF StepsLeft
  <2> QED
    BY <1>3, <1>4, <1>6, <2>1, <2>2
<1> QED
  BY <1>5, <1>6, StepDescends

\* Every step of the parser brings it nearer to its end: no file of any length
\* makes it loop, and it takes at most six steps for a token
\* (parse_program, parse_statement, expect_end_of_statement).
THEOREM ParserDescends == Spec => [](StepsLeft \in Nat) /\ [][StepsLeft' < StepsLeft]_vars
<1>1. ParserInv => StepsLeft \in Nat
  BY StepsLeftIs
<1>2. ParserInv /\ [Next]_vars => [StepsLeft' < StepsLeft]_vars
  BY Descends
<1> QED
  BY <1>1, <1>2, ParserInvariant, PTL DEF Spec

-----------------------------------------------------------------------------
(* Sorted sets of numbers *)

Numbers(S)  == S \subseteq Nat /\ IsFiniteSet(S)
Below(S, x) == {y \in S : y < x}

LEMMA WiderSeq ==
  ASSUME NEW A, NEW B, A \subseteq B, NEW s \in Seq(A)
  PROVE  s \in Seq(B)
<1>1. Len(s) \in Nat /\ DOMAIN s = 1 .. Len(s) /\ s = [i \in 1 .. Len(s) |-> s[i]]
  OBVIOUS
<1>2. \A i \in 1 .. Len(s) : s[i] \in B
  BY <1>1
<1>3. s \in [1 .. Len(s) -> B]
  BY <1>1, <1>2
<1> QED
  BY <1>1, <1>3

LEMMA RankGrows ==
  ASSUME NEW S, Numbers(S), NEW x \in S
  PROVE  /\ Cardinality(S) \in Nat
         /\ IsFiniteSet(Below(S, x)) /\ Cardinality(Below(S, x)) \in 0 .. Cardinality(S) - 1
         /\ \A y \in S : x < y => Cardinality(Below(S, x)) < Cardinality(Below(S, y))
<1>1. ASSUME NEW T \in SUBSET S
      PROVE  IsFiniteSet(T) /\ Cardinality(T) \in Nat /\ Cardinality(T) <= Cardinality(S)
  BY FS_Subset, FS_CardinalityType DEF Numbers
<1>2. Cardinality(S) \in Nat
  BY FS_CardinalityType DEF Numbers
<1> DEFINE B == Below(S, x)
<1>3. B \in SUBSET S /\ x \notin B /\ B \cup {x} \in SUBSET S
  <2>1. ~ (x < x)
    BY DEF Numbers
  <2> QED
    BY <2>1 DEF Below
<1>4. IsFiniteSet(B) /\ Cardinality(B) \in Nat /\ Cardinality(B \cup {x}) = Cardinality(B) + 1
  BY <1>1, <1>3, FS_AddElement
<1>5. Cardinality(B) + 1 <= Cardinality(S)
  BY <1>1, <1>3, <1>4
<1>6. ASSUME NEW y \in S, x < y
      PROVE  Cardinality(B) < Cardinality(Below(S, y))
  <2>1. B \cup {x} \in SUBSET Below(S, y) /\ Below(S, y) \in SUBSET S
    <3>1. ASSUME NEW z \in B PROVE z \in Below(S, y)
      <4>1. z \in S /\ z < x /\ z \in Nat /\ x \in Nat /\ y \in Nat
        BY DEF Below, Numbers
      <4> QED
        BY <1>6, <4>1 DEF Below
    <3>2. x \in Below(S, y) /\ Below(S, y) \in SUBSET S
      BY <1>6 DEF Below
    <3> QED
      BY <3>1, <3>2
  <2>2. IsFiniteSet(Below(S, y)) /\ Cardinality(Below(S, y)) \in Nat
    BY <1>1, <2>1
  <2>3. Cardinality(B \cup {x}) <= Cardinality(Below(S, y))
    BY <2>1, <2>2, FS_Subset
  <2> QED
    BY <1>4, <2>2, <2>3
<1> QED
  BY <1>2, <1>4, <1>5, <1>6

LEMMA RankDetermines ==
  ASSUME NEW S, Numbers(S), NEW x \in S, NEW y \in S,
         Cardinality(Below(S, x)) = Cardinality(Below(S, y))
  PROVE  x = y
<1>1. Cardinality(Below(S, x)) \in Nat /\ Cardinality(Below(S, y)) \in Nat
  BY RankGrows
<1>2. ~ (x < y) /\ ~ (y < x)
  BY <1>1, RankGrows
<1> QED
  BY <1>2 DEF Numbers

\* Ranks are distinct, so as many as there are numbers: each is taken.
LEMMA RankTaken ==
  ASSUME NEW S, Numbers(S), NEW k \in 1 .. Cardinality(S)
  PROVE  \E x \in S : Cardinality(Below(S, x)) = k - 1
<1> DEFINE n == Cardinality(S)
           f == [x \in S |-> Cardinality(Below(S, x)) + 1]
<1>1. n \in Nat
  BY FS_CardinalityType DEF Numbers
<1>2. f \in [S -> 1 .. n]
  <2>1. ASSUME NEW x \in S PROVE Cardinality(Below(S, x)) + 1 \in 1 .. n
    <3>1. Cardinality(Below(S, x)) \in 0 .. n - 1
      BY RankGrows
    <3> QED
      BY <1>1, <3>1
  <2> QED
    BY <2>1
<1>3. \A x, y \in S : f[x] = f[y] => x = y
  <2> SUFFICES ASSUME NEW x \in S, NEW y \in S, f[x] = f[y] PROVE x = y
    OBVIOUS
  <2>1. Cardinality(Below(S, x)) \in Nat /\ Cardinality(Below(S, y)) \in Nat
    BY RankGrows
  <2>2. Cardinality(Below(S, x)) = Cardinality(Below(S, y))
    BY <2>1
  <2> QED
    BY <2>2, RankDetermines
<1>4. f \in Injection(S, 1 .. n)
  <2> HIDE DEF f
  <2> QED
    BY <1>2, <1>3 DEF Injection, IsInjective
<1>5. IsFiniteSet(1 .. n) /\ Cardinality(1 .. n) = n
  BY <1>1, FS_Interval
<1>6. f \in Surjection(S, 1 .. n)
  <2> HIDE DEF f
  <2> QED
    BY <1>4, <1>5, FS_Injection DEF Numbers
<1>7. PICK x \in S : f[x] = k
  <2> HIDE DEF f
  <2> QED
    BY <1>6 DEF Surjection
<1>8. Cardinality(Below(S, x)) \in Nat
  BY RankGrows
<1> QED
  BY <1>7, <1>8

LEMMA SortedIs ==
  ASSUME NEW S, Numbers(S)
  PROVE  /\ Cardinality(S) \in Nat
         /\ Sorted(S) \in Seq(S) /\ Len(Sorted(S)) = Cardinality(S)
         /\ DOMAIN Sorted(S) = 1 .. Cardinality(S)
         /\ \A k \in 1 .. Cardinality(S) :
               Sorted(S)[k] \in S /\ Cardinality(Below(S, Sorted(S)[k])) = k - 1
<1>1. Cardinality(S) \in Nat
  BY FS_CardinalityType DEF Numbers
<1>2. ASSUME NEW k \in 1 .. Cardinality(S)
      PROVE  Sorted(S)[k] \in S /\ Cardinality(Below(S, Sorted(S)[k])) = k - 1
  <2>1. \E x \in S : Cardinality({y \in S : y < x}) = k - 1
    BY RankTaken DEF Below
  <2>2. Sorted(S)[k] = CHOOSE x \in S : Cardinality({y \in S : y < x}) = k - 1
    BY DEF Sorted
  <2> QED
    BY <2>1, <2>2 DEF Below
<1>3. DOMAIN Sorted(S) = 1 .. Cardinality(S) /\ Sorted(S) = [k \in 1 .. Cardinality(S) |-> Sorted(S)[k]]
  BY DEF Sorted
<1>4. Sorted(S) \in [1 .. Cardinality(S) -> S]
  <2>1. \A k \in 1 .. Cardinality(S) : Sorted(S)[k] \in S
    BY <1>2
  <2> QED
    BY <1>3, <2>1
<1> QED
  BY <1>1, <1>2, <1>3, <1>4

LEMMA SortedAscends ==
  ASSUME NEW S, Numbers(S)
  PROVE  /\ \A i, j \in 1 .. Cardinality(S) : i < j => Sorted(S)[i] < Sorted(S)[j]
         /\ \A x \in S : \E k \in 1 .. Cardinality(S) : Sorted(S)[k] = x
<1> DEFINE s == Sorted(S)
           n == Cardinality(S)
<1>1. n \in Nat /\ \A k \in 1 .. n : s[k] \in S /\ Cardinality(Below(S, s[k])) = k - 1
  BY SortedIs
<1> HIDE DEF s, n
<1>2. ASSUME NEW i \in 1 .. n, NEW j \in 1 .. n, i < j PROVE s[i] < s[j]
  <2>1. s[i] \in S /\ s[j] \in S /\ s[i] \in Nat /\ s[j] \in Nat
    BY <1>1 DEF Numbers
  <2>2. Cardinality(Below(S, s[i])) < Cardinality(Below(S, s[j]))
    BY <1>1, <1>2
  <2>3. ~ (s[j] < s[i])
    <3> SUFFICES ASSUME s[j] < s[i] PROVE FALSE
      OBVIOUS
    <3>1. Cardinality(Below(S, s[j])) < Cardinality(Below(S, s[i]))
      BY <2>1, RankGrows
    <3> QED
      BY <1>1, <2>2, <3>1
  <2>4. s[i] # s[j]
    BY <1>1, <2>2
  <2> QED
    BY <2>1, <2>3, <2>4
<1>3. ASSUME NEW x \in S PROVE \E k \in 1 .. n : s[k] = x
  <2> DEFINE k == Cardinality(Below(S, x)) + 1
  <2>1. Cardinality(Below(S, x)) \in 0 .. n - 1
    BY RankGrows DEF n
  <2>2. k \in 1 .. n /\ k - 1 = Cardinality(Below(S, x))
    BY <1>1, <2>1
  <2>3. s[k] \in S /\ Cardinality(Below(S, s[k])) = Cardinality(Below(S, x))
    BY <1>1, <2>2
  <2>4. s[k] = x
    BY <2>3, RankDetermines
  <2> QED
    BY <2>2, <2>4
<1> QED
  BY <1>2, <1>3 DEF s, n

\* A number larger than all others comes last.
LEMMA SortedGrows ==
  ASSUME NEW S, Numbers(S), NEW x \in Nat, \A y \in S : y < x
  PROVE  /\ Sorted(S \cup {x}) = Append(Sorted(S), x)
         /\ Numbers(S \cup {x}) /\ Cardinality(S \cup {x}) = Cardinality(S) + 1
<1> DEFINE T == S \cup {x}
           n == Cardinality(S)
<1>1. x \notin S /\ Numbers(T) /\ Cardinality(T) = n + 1 /\ n \in Nat
  BY FS_AddElement, FS_CardinalityType DEF Numbers
<1>2. ASSUME NEW y \in S PROVE Below(T, y) = Below(S, y)
  <2>1. ~ (x < y)
    BY DEF Numbers
  <2> QED
    BY <2>1 DEF Below
<1>3. Below(T, x) = S
  <2>1. ~ (x < x)
    OBVIOUS
  <2> QED
    BY <2>1 DEF Below
<1>4. /\ \A k \in 1 .. n : Sorted(S)[k] \in S /\ Cardinality(Below(S, Sorted(S)[k])) = k - 1
      /\ Sorted(S) \in Seq(S) /\ Len(Sorted(S)) = n
  BY SortedIs
<1>5. /\ \A k \in 1 .. n + 1 : Sorted(T)[k] \in T /\ Cardinality(Below(T, Sorted(T)[k])) = k - 1
      /\ Sorted(T) \in Seq(T) /\ Len(Sorted(T)) = n + 1
  <2> HIDE DEF T
  <2> QED
    BY <1>1, SortedIs
<1> HIDE DEF T, n
<1>6. ASSUME NEW k \in 1 .. n PROVE Sorted(T)[k] = Sorted(S)[k]
  <2>1. k \in 1 .. n + 1
    BY <1>1
  <2>2. Sorted(S)[k] \in S /\ Cardinality(Below(S, Sorted(S)[k])) = k - 1
    BY <1>4
  <2>3. Sorted(S)[k] \in T /\ Cardinality(Below(T, Sorted(S)[k])) = k - 1
    BY <1>2, <2>2 DEF T
  <2>4. Sorted(T)[k] \in T /\ Cardinality(Below(T, Sorted(T)[k])) = k - 1
    BY <1>5, <2>1
  <2> QED
    BY <1>1, <2>3, <2>4, RankDetermines
<1>7. Sorted(T)[n + 1] = x
  <2>1. n + 1 \in 1 .. n + 1 /\ (n + 1) - 1 = n
    BY <1>1
  <2>2. Sorted(T)[n + 1] \in T /\ Cardinality(Below(T, Sorted(T)[n + 1])) = n
    BY <1>5, <2>1
  <2>3. x \in T /\ Cardinality(Below(T, x)) = n
    BY <1>3 DEF T, n
  <2> QED
    BY <1>1, <2>2, <2>3, RankDetermines
<1>8. Sorted(T) = Append(Sorted(S), x)
  <2> DEFINE s == Append(Sorted(S), x)
  <2>1. Sorted(S) \in Seq(Nat)
    BY <1>4, WiderSeq DEF Numbers
  <2>2. s \in Seq(Nat) /\ Len(s) = n + 1 /\ s[n + 1] = x /\ \A k \in 1 .. n : s[k] = Sorted(S)[k]
    BY <1>4, <2>1
  <2>3. Sorted(T) \in Seq(Nat)
    BY <1>1, <1>5, WiderSeq DEF Numbers
  <2> HIDE DEF s
  <2>4. \A k \in 1 .. n + 1 : Sorted(T)[k] = s[k]
    <3>1. \A k \in 1 .. n + 1 : k \in 1 .. n \/ k = n + 1
      BY <1>1
    <3> QED
      BY <1>6, <1>7, <2>2, <3>1
  <2>5. Sorted(T) = s
    BY <1>5, <2>2, <2>3, <2>4
  <2> QED
    BY <2>5 DEF s
<1> QED
  BY <1>1, <1>8 DEF T, n

LEMMA NumbersOfText ==
  ASSUME NEW n \in Nat, NEW S, S \subseteq 0 .. n
  PROVE  Numbers(S)
<1>1. IsFiniteSet(0 .. n)
  BY FS_Interval
<1>2. S \in SUBSET (0 .. n)
  OBVIOUS
<1>3. IsFiniteSet(S)
  BY <1>1, <1>2, FS_Subset
<1>4. S \subseteq Nat
  OBVIOUS
<1> QED
  BY <1>3, <1>4 DEF Numbers

-----------------------------------------------------------------------------
(* A text with one token more *)

LEMMA AtGrows ==
  ASSUME NEW text \in Seq(Kinds), NEW x \in Kinds, NEW kind
  PROVE  /\ At(text, kind) \subseteq 1 .. Len(text)
         /\ Numbers(At(text, kind))
         /\ At(Append(text, x), kind) = At(text, kind) \cup (IF x = kind THEN {Len(text) + 1} ELSE {})
<1> DEFINE n == Len(text)
           t == Append(text, x)
<1>1. /\ n \in Nat /\ DOMAIN text = 1 .. n /\ DOMAIN t = 1 .. n + 1 /\ t[n + 1] = x
      /\ \A i \in 1 .. n : t[i] = text[i]
  OBVIOUS
<1>2. At(text, kind) \subseteq 1 .. n
  BY <1>1 DEF At
<1>3. Numbers(At(text, kind))
  BY <1>1, <1>2, NumbersOfText
<1> HIDE DEF t, n
<1>4. ASSUME NEW i PROVE i \in At(t, kind) <=> i \in At(text, kind) \cup (IF x = kind THEN {n + 1} ELSE {})
  <2>1. i \in 1 .. n + 1 <=> i \in 1 .. n \/ i = n + 1
    BY <1>1
  <2>2. n + 1 \notin 1 .. n
    BY <1>1
  <2> QED
    BY <1>1, <2>1, <2>2 DEF At
<1> QED
  BY <1>2, <1>3, <1>4 DEF n, t

LEMMA MethodsOf ==
  ASSUME NEW text \in Seq(Kinds)
  PROVE  /\ Methods(text) \in Seq(1 .. Len(text)) /\ Len(Methods(text)) \in Nat
         /\ DOMAIN Methods(text) = 1 .. Len(Methods(text))
         /\ \A i, j \in 1 .. Len(Methods(text)) : i < j => Methods(text)[i] < Methods(text)[j]
         /\ \A i \in 1 .. Len(Methods(text)) : Methods(text)[i] \in At(text, "METHOD")
         /\ Len(Methods(text)) = 0 <=> At(text, "METHOD") = {}
<1> DEFINE S == At(text, "METHOD")
<1>1. S \subseteq 1 .. Len(text) /\ Numbers(S)
  BY AtGrows DEF Kinds
<1>2. /\ Sorted(S) \in Seq(S) /\ Len(Sorted(S)) = Cardinality(S) /\ Cardinality(S) \in Nat
      /\ \A k \in 1 .. Cardinality(S) : Sorted(S)[k] \in S
  BY <1>1, SortedIs
<1>3. Sorted(S) \in Seq(1 .. Len(text))
  BY <1>1, <1>2, WiderSeq
<1>4. \A i, j \in 1 .. Cardinality(S) : i < j => Sorted(S)[i] < Sorted(S)[j]
  BY <1>1, SortedAscends
<1>5. Cardinality(S) = 0 <=> S = {}
  BY <1>1, FS_EmptySet DEF Numbers
<1> HIDE DEF S
<1>6. Methods(text) = Sorted(S)
  BY DEF Methods, S
<1> QED
  BY <1>2, <1>3, <1>4, <1>5, <1>6 DEF S

LEMMA MethodsGrow ==
  ASSUME NEW text \in Seq(Kinds), NEW x \in Kinds
  PROVE  Methods(Append(text, x)) = IF x = "METHOD" THEN Append(Methods(text), Len(text) + 1)
                                    ELSE Methods(text)
<1> DEFINE S == At(text, "METHOD")
<1>1. S \subseteq 1 .. Len(text) /\ Numbers(S)
  BY AtGrows
<1>2. At(Append(text, x), "METHOD") = S \cup (IF x = "METHOD" THEN {Len(text) + 1} ELSE {})
  BY AtGrows
<1>3. Len(text) + 1 \in Nat /\ \A y \in S : y < Len(text) + 1
  BY <1>1
<1>4. Sorted(S \cup {Len(text) + 1}) = Append(Sorted(S), Len(text) + 1)
  <2> HIDE DEF S
  <2> QED
    BY <1>1, <1>3, SortedGrows
<1>5. CASE x = "METHOD"
  BY <1>2, <1>4, <1>5 DEF Methods
<1>6. CASE x # "METHOD"
  <2>1. At(Append(text, x), "METHOD") = At(text, "METHOD")
    BY <1>2, <1>6
  <2> QED
    BY <1>6, <2>1 DEF Methods
<1> QED
  BY <1>5, <1>6

LEMMA CaseTokensIs ==
  ASSUME NEW text \in Seq(Kinds), NEW k \in 1 .. Len(Methods(text))
  PROVE  LET m == Methods(text)
         IN  CaseTokens(text, k) = m[k] .. IF k = Len(m) THEN Len(text) ELSE m[k + 1] - 1
<1> DEFINE m == Methods(text)
           b == m \o <<Len(text) + 1>>
<1>1. m \in Seq(Nat) /\ Len(m) \in Nat /\ Len(text) \in Nat
  BY MethodsOf, WiderSeq
<1> HIDE DEF m
<1>2. \A i \in 1 .. Len(m) : b[i] = m[i]
  BY <1>1
<1>3. b[Len(m) + 1] = Len(text) + 1
  BY <1>1
<1>4. CaseTokens(text, k) = b[k] .. b[k + 1] - 1
  BY DEF CaseTokens, m
<1>5. k \in 1 .. Len(m) /\ (k # Len(m) => k + 1 \in 1 .. Len(m))
  BY <1>1 DEF m
<1> HIDE DEF b
<1>6. CASE k = Len(m)
  BY <1>1, <1>2, <1>3, <1>4, <1>5, <1>6 DEF m
<1>7. CASE k # Len(m)
  BY <1>1, <1>2, <1>4, <1>5, <1>7 DEF m
<1> QED
  BY <1>6, <1>7

\* The tokens of a kind in a case.
Of(text, kind, k) == At(text, kind) \cap CaseTokens(text, k)

LEMMA OfIsNumbers ==
  ASSUME NEW text \in Seq(Kinds), NEW kind, NEW k
  PROVE  Of(text, kind, k) \subseteq 1 .. Len(text) /\ Numbers(Of(text, kind, k))
<1>1. At(text, kind) \subseteq 1 .. Len(text) /\ Len(text) \in Nat
  BY AtGrows DEF Kinds
<1>2. Of(text, kind, k) \subseteq 1 .. Len(text)
  BY <1>1 DEF Of
<1> QED
  BY <1>1, <1>2, NumbersOfText

LEMMA OfGrows ==
  ASSUME NEW text \in Seq(Kinds), NEW x \in Kinds, NEW kind \in Kinds \ {"METHOD"},
         NEW k \in 1 .. Len(Methods(Append(text, x)))
  PROVE  /\ x = "METHOD" /\ k = Len(Methods(text)) + 1 => Of(Append(text, x), kind, k) = {}
         /\ k <= Len(Methods(text)) =>
               Of(Append(text, x), kind, k) =
                  Of(text, kind, k) \cup (IF x = kind /\ k = Len(Methods(text)) THEN {Len(text) + 1}
                                          ELSE {})
<1> DEFINE n == Len(text)
           t == Append(text, x)
           m == Methods(text)
<1>1. n \in Nat /\ t \in Seq(Kinds) /\ Len(t) = n + 1
  OBVIOUS
<1>2. /\ At(text, kind) \subseteq 1 .. n
      /\ At(t, kind) = At(text, kind) \cup (IF x = kind THEN {n + 1} ELSE {})
  BY AtGrows
<1>3. /\ m \in Seq(Nat) /\ Len(m) \in Nat /\ \A i \in 1 .. Len(m) : m[i] \in 1 .. n
  <2>1. m \in Seq(1 .. n)
    BY MethodsOf
  <2>2. m \in Seq(Nat)
    BY <2>1, WiderSeq
  <2> QED
    BY <2>1, <2>2
<1>4. Methods(t) = IF x = "METHOD" THEN Append(m, n + 1) ELSE m
  BY MethodsGrow
<1>5. k \in 1 .. Len(Methods(t))
  OBVIOUS
<1> HIDE DEF n, t, m
<1>6. CaseTokens(t, k) = Methods(t)[k] .. IF k = Len(Methods(t)) THEN n + 1 ELSE Methods(t)[k + 1] - 1
  BY <1>1, <1>5, CaseTokensIs
<1>7. k \in 1 .. Len(m) => CaseTokens(text, k) = m[k] .. IF k = Len(m) THEN n ELSE m[k + 1] - 1
  BY CaseTokensIs DEF m, n
<1>8. CASE x = "METHOD"
  <2>1. /\ Methods(t) = Append(m, n + 1) /\ Len(Methods(t)) = Len(m) + 1
        /\ Methods(t)[Len(m) + 1] = n + 1 /\ \A i \in 1 .. Len(m) : Methods(t)[i] = m[i]
    BY <1>1, <1>3, <1>4, <1>8
  <2>2. At(t, kind) = At(text, kind)
    BY <1>2, <1>8
  <2>3. CASE k = Len(m) + 1
    <3>1. CaseTokens(t, k) = n + 1 .. n + 1
      BY <1>6, <2>1, <2>3
    <3> QED
      BY <1>1, <1>2, <1>3, <2>2, <2>3, <3>1 DEF Of, t, m
  <2>4. CASE k \in 1 .. Len(m)
    <3>1. CaseTokens(t, k) = CaseTokens(text, k)
      <4>1. k # Len(m) => k + 1 \in 1 .. Len(m)
        BY <1>3, <2>4
      <4>2. k # Len(Methods(t))
        BY <1>3, <2>1, <2>4
      <4>3. CASE k = Len(m)
        BY <1>1, <1>3, <1>6, <1>7, <2>1, <2>4, <4>2, <4>3
      <4>4. CASE k # Len(m)
        BY <1>1, <1>3, <1>6, <1>7, <2>1, <2>4, <4>1, <4>2, <4>4
      <4> QED
        BY <4>3, <4>4
    <3> QED
      BY <1>3, <1>8, <2>2, <2>4, <3>1 DEF Of, t, m
  <2>5. k = Len(m) + 1 \/ k \in 1 .. Len(m)
    BY <1>3, <1>5, <2>1
  <2> QED
    BY <2>3, <2>4, <2>5
<1>9. CASE x # "METHOD"
  <2>1. Methods(t) = m /\ k \in 1 .. Len(m)
    BY <1>4, <1>5, <1>9
  <2>2. CASE k = Len(m)
    <3>1. CaseTokens(t, k) = m[k] .. n + 1 /\ CaseTokens(text, k) = m[k] .. n /\ m[k] \in 1 .. n
      BY <1>3, <1>6, <1>7, <2>1, <2>2
    <3>2. ASSUME NEW i PROVE i \in Of(t, kind, k) <=> i \in Of(text, kind, k) \cup (IF x = kind THEN {n + 1} ELSE {})
      <4>1. i \in m[k] .. n + 1 <=> i \in m[k] .. n \/ i = n + 1
        BY <1>1, <3>1
      <4> QED
        BY <1>1, <1>2, <3>1, <4>1 DEF Of
    <3> QED
      BY <1>9, <2>2, <3>2 DEF n, m, t
  <2>3. CASE k # Len(m)
    <3>1. k + 1 \in 1 .. Len(m)
      BY <1>3, <2>1, <2>3
    <3>2. CaseTokens(t, k) = m[k] .. m[k + 1] - 1 /\ CaseTokens(text, k) = m[k] .. m[k + 1] - 1
      BY <1>6, <1>7, <2>1, <2>3
    <3>3. n + 1 \notin m[k] .. m[k + 1] - 1
      BY <1>1, <1>3, <3>1
    <3> QED
      BY <1>2, <1>9, <2>3, <3>2, <3>3 DEF Of, n, m, t
  <2> QED
    BY <2>2, <2>3
<1> QED
  BY <1>8, <1>9

\* A token leaves the tokens of a kind in a case as they are when it is of
\* another kind or belongs to a later case.
Spares(text, x, kind, k) == x # kind \/ k # Len(Methods(text))

LEMMA CaseStays ==
  ASSUME NEW text \in Seq(Kinds), NEW x \in Kinds, NEW k \in 1 .. Len(Methods(text))
  PROVE  k \in 1 .. Len(Methods(Append(text, x))) /\ k <= Len(Methods(text))
         /\ Methods(Append(text, x))[k] = Methods(text)[k]
<1>1. /\ Len(Methods(text)) \in Nat /\ Methods(text) \in Seq(Nat) /\ Len(text) + 1 \in Nat
      /\ Methods(Append(text, x)) =
            IF x = "METHOD" THEN Append(Methods(text), Len(text) + 1) ELSE Methods(text)
  <2>1. 1 .. Len(text) \subseteq Nat
    OBVIOUS
  <2> QED
    BY <2>1, MethodsOf, MethodsGrow, WiderSeq
<1>2. CASE x = "METHOD"
  BY <1>1, <1>2
<1>3. CASE x # "METHOD"
  BY <1>1, <1>3
<1> QED
  BY <1>2, <1>3

LEMMA OfSpared ==
  ASSUME NEW text \in Seq(Kinds), NEW x \in Kinds, NEW kind \in Kinds \ {"METHOD"},
         NEW k \in 1 .. Len(Methods(text)), Spares(text, x, kind, k)
  PROVE  Of(Append(text, x), kind, k) = Of(text, kind, k)
<1>1. k \in 1 .. Len(Methods(Append(text, x))) /\ k <= Len(Methods(text))
  BY CaseStays
<1>2. Of(Append(text, x), kind, k) =
         Of(text, kind, k) \cup (IF x = kind /\ k = Len(Methods(text)) THEN {Len(text) + 1} ELSE {})
  BY <1>1, OfGrows
<1>3. ~ (x = kind /\ k = Len(Methods(text)))
  BY DEF Spares
<1> QED
  BY ONLY <1>2, <1>3

LEMMA OfTaken ==
  ASSUME NEW text \in Seq(Kinds), NEW kind \in Kinds \ {"METHOD"},
         NEW k \in 1 .. Len(Methods(text)), k = Len(Methods(text))
  PROVE  Of(Append(text, kind), kind, k) = Of(text, kind, k) \cup {Len(text) + 1}
<1>1. k \in 1 .. Len(Methods(Append(text, kind))) /\ k <= Len(Methods(text)) /\ kind \in Kinds
  BY CaseStays
<1>2. Of(Append(text, kind), kind, k) =
         Of(text, kind, k) \cup (IF kind = kind /\ k = Len(Methods(text)) THEN {Len(text) + 1} ELSE {})
  BY <1>1, OfGrows
<1> QED
  BY <1>2

LEMMA OfNew ==
  ASSUME NEW text \in Seq(Kinds), NEW kind \in Kinds \ {"METHOD"},
         NEW k, k = Len(Methods(text)) + 1
  PROVE  Of(Append(text, "METHOD"), kind, k) = {}
<1>1. "METHOD" \in Kinds
  BY DEF Kinds
<1>2. /\ Len(Methods(text)) \in Nat /\ Methods(text) \in Seq(Nat)
      /\ Methods(Append(text, "METHOD")) = Append(Methods(text), Len(text) + 1)
  <2>1. 1 .. Len(text) \subseteq Nat
    OBVIOUS
  <2> QED
    BY <1>1, <2>1, MethodsOf, MethodsGrow, WiderSeq
<1>3. k \in 1 .. Len(Methods(Append(text, "METHOD")))
  <2>1. Len(Append(Methods(text), Len(text) + 1)) = Len(Methods(text)) + 1
    BY <1>2
  <2> QED
    BY <1>2, <2>1
<1> QED
  BY <1>1, <1>3, OfGrows

\* What a token needs to stand where it does.
Fits(text, x) ==
    LET m == Methods(text)
    IN  /\ x = "METHOD" => Len(m) < MaxCases
        /\ x \in {"EXPECT", "BODY_STMT"} => Len(m) > 0
        /\ x = "EXPECT" => Cardinality(Of(text, "EXPECT", Len(m))) < MaxAssertions

LEMMA InContextGrows ==
  ASSUME NEW text \in Seq(Kinds), NEW x \in Kinds
  PROVE  InContext(Append(text, x)) <=> InContext(text) /\ Fits(text, x)
<1> DEFINE n == Len(text)
           t == Append(text, x)
           m == Methods(text)
           k0 == Len(m)
<1>1. n \in Nat /\ k0 \in Nat /\ DOMAIN m = 1 .. k0 /\ m \in Seq(Nat)
  BY MethodsOf, WiderSeq
<1>2. Methods(t) = IF x = "METHOD" THEN Append(m, n + 1) ELSE m
  BY MethodsGrow
<1>3. ASSUME NEW kind \in Kinds
      PROVE  /\ At(text, kind) \subseteq 1 .. n
             /\ At(t, kind) = At(text, kind) \cup (IF x = kind THEN {n + 1} ELSE {})
  BY AtGrows
<1>4. {"METHOD", "EXPECT", "BODY_STMT"} \subseteq Kinds
  BY DEF Kinds
<1>5. k0 = 0 <=> At(text, "METHOD") = {}
  BY MethodsOf
<1>6. ASSUME NEW k \in 1 .. Len(Methods(t))
      PROVE  /\ x = "METHOD" /\ k = k0 + 1 => Of(t, "EXPECT", k) = {}
             /\ k <= k0 => Of(t, "EXPECT", k) =
                              Of(text, "EXPECT", k) \cup (IF x = "EXPECT" /\ k = k0 THEN {n + 1}
                                                          ELSE {})
  BY <1>4, OfGrows
<1>7. ASSUME NEW k PROVE /\ Of(text, "EXPECT", k) \subseteq 1 .. n
                         /\ IsFiniteSet(Of(text, "EXPECT", k))
                         /\ Cardinality(Of(text, "EXPECT", k)) \in Nat
  BY OfIsNumbers, FS_CardinalityType DEF Numbers
<1>8. Fits(text, x) <=> /\ x = "METHOD" => k0 < MaxCases
                        /\ x \in {"EXPECT", "BODY_STMT"} => k0 > 0
                        /\ x = "EXPECT" => Cardinality(Of(text, "EXPECT", k0)) < MaxAssertions
  BY DEF Fits
<1> DEFINE Few(s)   == Len(Methods(s)) <= MaxCases
           Owned(s) == \A i \in At(s, "EXPECT") \cup At(s, "BODY_STMT") :
                          \E j \in At(s, "METHOD") : j < i
           Small(s) == \A k \in DOMAIN Methods(s) : Cardinality(Of(s, "EXPECT", k)) <= MaxAssertions
<1>9. \A s : InContext(s) <=> Few(s) /\ Owned(s) /\ Small(s)
  BY DEF InContext, Of
<1> HIDE DEF t, m, k0, n
<1>10. Few(t) <=> Few(text) /\ (x = "METHOD" => k0 < MaxCases)
  <2>1. Few(text) <=> k0 <= MaxCases
    BY DEF k0, m
  <2>2. Len(Methods(t)) = IF x = "METHOD" THEN k0 + 1 ELSE k0
    BY <1>1, <1>2 DEF k0
  <2> QED
    BY <1>1, <2>1, <2>2
<1>11. Owned(t) <=> Owned(text) /\ (x \in {"EXPECT", "BODY_STMT"} => k0 > 0)
  <2> DEFINE E(s) == At(s, "EXPECT") \cup At(s, "BODY_STMT")
             M(s) == At(s, "METHOD")
  <2>1. /\ E(text) \subseteq 1 .. n /\ M(text) \subseteq 1 .. n
        /\ E(t) = E(text) \cup (IF x \in {"EXPECT", "BODY_STMT"} THEN {n + 1} ELSE {})
        /\ M(t) = M(text) \cup (IF x = "METHOD" THEN {n + 1} ELSE {})
    BY <1>3, <1>4
  <2>2. k0 > 0 <=> M(text) # {}
    BY <1>1, <1>5
  <2>3. \A s : Owned(s) <=> \A i \in E(s) : \E j \in M(s) : j < i
    OBVIOUS
  <2> HIDE DEF E, M, Owned
  <2>4. ASSUME Owned(t) PROVE Owned(text)
    <3> SUFFICES ASSUME NEW i \in E(text) PROVE \E j \in M(text) : j < i
      BY <2>3
    <3>1. PICK j \in M(t) : j < i
      BY <2>1, <2>3, <2>4
    <3>2. j # n + 1
      BY <1>1, <2>1, <3>1
    <3> QED
      BY <2>1, <3>1, <3>2
  <2>5. ASSUME Owned(t), x \in {"EXPECT", "BODY_STMT"} PROVE k0 > 0
    <3>1. PICK j \in M(t) : j < n + 1
      BY <2>1, <2>3, <2>5
    <3>2. j \in M(text)
      BY <1>1, <2>1, <2>5, <3>1
    <3> QED
      BY <2>2, <3>2
  <2>6. ASSUME Owned(text), x \in {"EXPECT", "BODY_STMT"} => k0 > 0 PROVE Owned(t)
    <3> SUFFICES ASSUME NEW i \in E(t) PROVE \E j \in M(t) : j < i
      BY <2>3
    <3>1. CASE i \in E(text)
      BY <2>1, <2>3, <2>6, <3>1
    <3>2. CASE i = n + 1 /\ x \in {"EXPECT", "BODY_STMT"}
      <4>1. PICK j \in M(text) : TRUE
        BY <2>2, <2>6, <3>2
      <4>2. j < n + 1 /\ j \in M(t)
        BY <1>1, <2>1
      <4> QED
        BY <3>2, <4>2
    <3> QED
      BY <2>1, <3>1, <3>2
  <2> QED
    BY <2>4, <2>5, <2>6
<1>12. ASSUME k0 > 0 \/ x # "EXPECT"
       PROVE  Small(t) <=> /\ Small(text)
                           /\ x = "EXPECT" => Cardinality(Of(text, "EXPECT", k0)) < MaxAssertions
  <2> DEFINE c(s, k) == Cardinality(Of(s, "EXPECT", k))
  <2>1. ASSUME NEW k \in 1 .. k0
        PROVE  c(t, k) = IF x = "EXPECT" /\ k = k0 THEN c(text, k) + 1 ELSE c(text, k)
    <3>1. k \in 1 .. Len(Methods(t)) /\ k <= k0
      BY <1>1, <1>2 DEF k0
    <3>2. CASE x = "EXPECT" /\ k = k0
      <4>1. Of(t, "EXPECT", k) = Of(text, "EXPECT", k) \cup {n + 1}
        BY <1>6, <3>1, <3>2
      <4>2. n + 1 \notin Of(text, "EXPECT", k)
        BY <1>1, <1>7
      <4> QED
        BY <1>7, <3>2, <4>1, <4>2, FS_AddElement
    <3>3. CASE ~ (x = "EXPECT" /\ k = k0)
      BY <1>6, <3>1, <3>3
    <3> QED
      BY <3>2, <3>3
  <2>2. x = "METHOD" => c(t, k0 + 1) = 0
    <3>1. x = "METHOD" => k0 + 1 \in 1 .. Len(Methods(t))
      BY <1>1, <1>2 DEF k0
    <3> QED
      BY <1>6, <3>1, FS_EmptySet
  <2>3. DOMAIN Methods(t) = IF x = "METHOD" THEN 1 .. k0 + 1 ELSE 1 .. k0
    BY <1>1, <1>2 DEF k0
  <2>4. \A k : c(text, k) \in Nat
    BY <1>7
  <2>5. Small(text) <=> \A k \in 1 .. k0 : c(text, k) <= MaxAssertions
    BY <1>1 DEF m
  <2>6. Small(t) <=> \A k \in DOMAIN Methods(t) : c(t, k) <= MaxAssertions
    OBVIOUS
  <2>7. c(text, k0) = Cardinality(Of(text, "EXPECT", k0))
    OBVIOUS
  <2> HIDE DEF c, Small
  <2>8. Small(t) <=> \A k \in 1 .. k0 : c(t, k) <= MaxAssertions
    <3>1. CASE x = "METHOD"
      <4>1. \A k \in 1 .. k0 + 1 : k \in 1 .. k0 \/ k = k0 + 1
        BY <1>1
      <4>2. 1 .. k0 \subseteq 1 .. k0 + 1
        BY <1>1
      <4> QED
        BY <2>2, <2>3, <2>6, <3>1, <4>1, <4>2
    <3>2. CASE x # "METHOD"
      BY <2>3, <2>6, <3>2
    <3> QED
      BY <3>1, <3>2
  <2>9. CASE x # "EXPECT"
    BY <2>1, <2>5, <2>8, <2>9
  <2>10. CASE x = "EXPECT"
    <3>1. k0 \in 1 .. k0
      BY <1>1, <1>12, <2>10
    <3>2. ASSUME Small(t) PROVE Small(text) /\ c(text, k0) < MaxAssertions
      <4>1. \A k \in 1 .. k0 : c(text, k) <= MaxAssertions
        BY <2>1, <2>4, <2>8, <3>2
      <4>2. c(text, k0) + 1 <= MaxAssertions
        BY <2>1, <2>8, <2>10, <3>1, <3>2
      <4> QED
        BY <2>4, <2>5, <4>1, <4>2
    <3>3. ASSUME Small(text), c(text, k0) < MaxAssertions PROVE Small(t)
      <4> SUFFICES ASSUME NEW k \in 1 .. k0 PROVE c(t, k) <= MaxAssertions
        BY <2>8
      <4> QED
        BY <2>1, <2>4, <2>5, <3>3
    <3> QED
      BY <2>7, <2>10, <3>2, <3>3
  <2> QED
    BY <2>9, <2>10
<1> HIDE DEF Few, Owned, Small
<1>13. CASE x = "EXPECT" /\ ~ (k0 > 0)
  BY <1>8, <1>9, <1>11, <1>13 DEF t
<1>14. CASE k0 > 0 \/ x # "EXPECT"
  BY <1>8, <1>9, <1>10, <1>11, <1>12, <1>14 DEF t
<1> QED
  BY <1>13, <1>14

-----------------------------------------------------------------------------
(* Lines *)

Finished(text) == Range(Front(Lines(text)))
OpenLine(text) == Last(Lines(text))

LEMMA BreaksOf ==
  ASSUME NEW text \in Seq(Kinds)
  PROVE  LET b == Sorted({0} \cup At(text, "NEWLINE"))
         IN  /\ b \in Seq(0 .. Len(text)) /\ Len(b) \in Nat \ {0}
             /\ Breaks(text) = Append(b, Len(text) + 1)
             /\ \A k \in 1 .. Len(b) : /\ b[k] \in 0 .. Len(text)
                                       /\ k # Len(b) => b[k + 1] - 1 \in 0 .. Len(text)
<1> DEFINE S == {0} \cup At(text, "NEWLINE")
<1>1. S \subseteq 0 .. Len(text) /\ Len(text) \in Nat
  BY AtGrows DEF Kinds
<1>2. Numbers(S) /\ Len(text) + 1 \in Nat /\ \A y \in S : y < Len(text) + 1
  BY <1>1, NumbersOfText
<1>3. 0 \in S /\ {0, Len(text) + 1} \cup At(text, "NEWLINE") = S \cup {Len(text) + 1}
  OBVIOUS
<1> HIDE DEF S
<1>4. Sorted(S) \in Seq(0 .. Len(text)) /\ Len(Sorted(S)) = Cardinality(S) /\ Cardinality(S) \in Nat
  BY <1>1, <1>2, SortedIs, WiderSeq
<1>5. Cardinality(S) # 0
  BY <1>2, <1>3, FS_EmptySet DEF Numbers
<1>6. Breaks(text) = Append(Sorted(S), Len(text) + 1)
  BY <1>2, <1>3, SortedGrows DEF Breaks
<1> DEFINE b == Sorted(S)
<1> HIDE DEF b
<1>7. \A i, j \in 1 .. Len(b) : i < j => b[i] < b[j]
  BY <1>2, <1>4, SortedAscends DEF b
<1>8. b \in Seq(0 .. Len(text)) /\ Len(b) \in Nat
  BY <1>4 DEF b
<1>9. ASSUME NEW k \in 1 .. Len(b)
      PROVE  /\ b[k] \in 0 .. Len(text)
             /\ k # Len(b) => b[k + 1] - 1 \in 0 .. Len(text)
  <2>1. b[k] \in 0 .. Len(text)
    BY <1>8
  <2>2. ASSUME k # Len(b) PROVE b[k + 1] - 1 \in 0 .. Len(text)
    <3>1. k + 1 \in 1 .. Len(b) /\ k < k + 1
      BY <1>8, <2>2
    <3>2. b[k + 1] \in 0 .. Len(text) /\ b[k] < b[k + 1]
      BY <1>7, <1>8, <3>1
    <3> QED
      BY <1>1, <2>1, <3>2
  <2> QED
    BY <2>1, <2>2
<1> QED
  BY <1>4, <1>5, <1>6, <1>9 DEF S, b

LEMMA Slices ==
  ASSUME NEW text \in Seq(Kinds), NEW x \in Kinds, NEW a \in 1 .. Len(text) + 1
  PROVE  /\ \A b \in 0 .. Len(text) : /\ SubSeq(text, a, b) \in Seq(Kinds)
                                      /\ SubSeq(Append(text, x), a, b) = SubSeq(text, a, b)
         /\ SubSeq(Append(text, x), a, Len(text) + 1) = Append(SubSeq(text, a, Len(text)), x)
<1> DEFINE n == Len(text)
           t == Append(text, x)
<1>1. /\ n \in Nat /\ t \in Seq(Kinds) /\ Len(t) = n + 1 /\ t[n + 1] = x
      /\ \A i \in 1 .. n : t[i] = text[i] /\ text[i] \in Kinds
  OBVIOUS
<1> HIDE DEF n, t
<1>2. ASSUME NEW b \in 0 .. n
      PROVE  /\ SubSeq(text, a, b) \in Seq(Kinds) /\ SubSeq(t, a, b) = SubSeq(text, a, b)
             /\ Len(SubSeq(text, a, b)) = IF a <= b THEN b - a + 1 ELSE 0
             /\ \A i \in 1 .. b - a + 1 : SubSeq(text, a, b)[i] = text[a + i - 1]
  <2>1. a \in Int /\ b \in Int /\ a \in 1 .. n + 1
    BY <1>1 DEF n
  <2>2. \A i \in a .. b : i \in 1 .. n
    BY <1>1, <2>1
  <2>3. \A i \in a .. b : text[i] \in Kinds /\ t[i] \in Kinds
    BY <1>1, <2>2
  <2>4. /\ SubSeq(text, a, b) \in Seq(Kinds)
        /\ Len(SubSeq(text, a, b)) = IF a <= b THEN b - a + 1 ELSE 0
        /\ \A i \in 1 .. b - a + 1 : SubSeq(text, a, b)[i] = text[a + i - 1]
    BY <2>1, <2>3, SubSeqProperties
  <2>5. /\ SubSeq(t, a, b) \in Seq(Kinds)
        /\ Len(SubSeq(t, a, b)) = IF a <= b THEN b - a + 1 ELSE 0
        /\ \A i \in 1 .. b - a + 1 : SubSeq(t, a, b)[i] = t[a + i - 1]
    BY <2>1, <2>3, SubSeqProperties
  <2>6. \A i \in 1 .. b - a + 1 : t[a + i - 1] = text[a + i - 1]
    <3> SUFFICES ASSUME NEW i \in 1 .. b - a + 1 PROVE t[a + i - 1] = text[a + i - 1]
      OBVIOUS
    <3>1. a + i - 1 \in 1 .. n
      BY <1>1, <2>1
    <3> QED
      BY <1>1, <3>1
  <2>7. \A i \in 1 .. Len(SubSeq(text, a, b)) : SubSeq(t, a, b)[i] = SubSeq(text, a, b)[i]
    BY <2>1, <2>4, <2>5, <2>6
  <2>8. SubSeq(t, a, b) = SubSeq(text, a, b)
    BY <2>4, <2>5, <2>7, SeqEqual
  <2> QED
    BY <2>4, <2>8
<1>3. SubSeq(t, a, n + 1) = Append(SubSeq(text, a, n), x)
  <2> DEFINE r == SubSeq(text, a, n)
             u == SubSeq(t, a, n + 1)
  <2>1. a \in Int /\ n \in Int /\ a \in 1 .. n + 1 /\ n \in 0 .. n
    BY <1>1 DEF n
  <2>2. r \in Seq(Kinds) /\ Len(r) = n - a + 1 /\ \A i \in 1 .. n - a + 1 : r[i] = text[a + i - 1]
    BY <1>2, <2>1
  <2>3. \A i \in a .. n + 1 : t[i] \in Kinds
    BY <1>1, <2>1
  <2>4. u \in Seq(Kinds) /\ Len(u) = n - a + 2 /\ \A i \in 1 .. n - a + 2 : u[i] = t[a + i - 1]
    <3> DEFINE e == n + 1
    <3>1. e \in Int /\ e - a + 1 = n - a + 2 /\ a <= e /\ u = SubSeq(t, a, e)
      BY <1>1, <2>1
    <3>2. \A i \in a .. e : t[i] \in Kinds
      BY <2>3
    <3> HIDE DEF e, u
    <3>3. /\ u \in Seq(Kinds) /\ Len(u) = IF a <= e THEN e - a + 1 ELSE 0
          /\ \A i \in 1 .. e - a + 1 : u[i] = t[a + i - 1]
      BY <2>1, <3>1, <3>2, SubSeqProperties
    <3> QED
      BY <3>1, <3>3
  <2> HIDE DEF r, u
  <2>5. /\ Append(r, x) \in Seq(Kinds) /\ Len(Append(r, x)) = n - a + 2
        /\ Append(r, x)[n - a + 2] = x /\ \A i \in 1 .. n - a + 1 : Append(r, x)[i] = r[i]
    BY <1>1, <2>1, <2>2
  <2>6. \A i \in 1 .. Len(u) : u[i] = Append(r, x)[i]
    <3> SUFFICES ASSUME NEW i \in 1 .. n - a + 2 PROVE u[i] = Append(r, x)[i]
      BY <2>4
    <3>1. CASE i = n - a + 2
      <4>1. a + i - 1 = n + 1
        BY <1>1, <2>1, <3>1
      <4> QED
        BY <1>1, <2>4, <2>5, <3>1, <4>1
    <3>2. CASE i \in 1 .. n - a + 1
      <4>1. a + i - 1 \in 1 .. n
        BY <1>1, <2>1, <3>2
      <4> QED
        BY <1>1, <2>2, <2>4, <2>5, <3>2, <4>1
    <3>3. i = n - a + 2 \/ i \in 1 .. n - a + 1
      <4>1. n - a + 1 \in Nat
        BY <1>1, <2>1
      <4> QED
        BY <1>1, <2>1, <4>1
    <3> QED
      BY <3>1, <3>2, <3>3
  <2>7. u = Append(r, x)
    BY <2>4, <2>5, <2>6, SeqEqual
  <2> QED
    BY <2>7 DEF u, r
<1> QED
  BY <1>2, <1>3 DEF n, t

LEMMA FrontAndLast ==
  ASSUME NEW S, NEW s \in Seq(S), Len(s) > 0
  PROVE  /\ Front(s) \in Seq(S) /\ Len(Front(s)) = Len(s) - 1
         /\ \A i \in 1 .. Len(s) - 1 : Front(s)[i] = s[i]
         /\ Range(Front(s)) = {s[i] : i \in 1 .. Len(s) - 1}
         /\ Range(s) = Range(Front(s)) \cup {Last(s)}
<1> DEFINE n == Len(s)
           f == Front(s)
<1>1. n \in Nat /\ n > 0 /\ DOMAIN s = 1 .. n /\ \A i \in 1 .. n : s[i] \in S
  OBVIOUS
<1>2. f \in Seq(S) /\ Len(f) = n - 1 /\ \A i \in 1 .. n - 1 : f[i] = s[i]
  <2>1. 1 \in Int /\ n - 1 \in Int /\ \A i \in 1 .. n - 1 : s[i] \in S
    BY <1>1
  <2>2. /\ f \in Seq(S) /\ Len(f) = IF 1 <= n - 1 THEN n - 1 - 1 + 1 ELSE 0
        /\ \A i \in 1 .. n - 1 - 1 + 1 : f[i] = s[1 + i - 1]
    BY <2>1, SubSeqProperties DEF Front
  <2> HIDE DEF f, n
  <2>3. n - 1 - 1 + 1 = n - 1 /\ \A i \in 1 .. n - 1 : 1 + i - 1 = i
    BY <1>1
  <2> QED
    BY <1>1, <2>2, <2>3
<1> HIDE DEF f, n
<1>3. Range(f) = {s[i] : i \in 1 .. n - 1}
  <2>1. DOMAIN f = 1 .. n - 1
    BY <1>2
  <2> QED
    BY <1>2, <2>1 DEF Range
<1>4. Range(s) = {s[i] : i \in 1 .. n - 1} \cup {s[n]}
  <2>1. \A i : i \in 1 .. n <=> i \in 1 .. n - 1 \/ i = n
    BY <1>1
  <2> QED
    BY <1>1, <2>1 DEF Range
<1> QED
  BY <1>2, <1>3, <1>4 DEF f, n, Last

LEMMA FrontOfAppend ==
  ASSUME NEW S, NEW s \in Seq(S), NEW x \in S
  PROVE  Front(Append(s, x)) = s /\ Last(Append(s, x)) = x
<1> DEFINE t == Append(s, x)
<1>1. t \in Seq(S) /\ Len(t) = Len(s) + 1 /\ t[Len(s) + 1] = x /\ Len(s) \in Nat
      /\ \A i \in 1 .. Len(s) : t[i] = s[i]
  OBVIOUS
<1> HIDE DEF t
<1>2. /\ Front(t) \in Seq(S) /\ Len(Front(t)) = Len(s)
      /\ \A i \in 1 .. Len(s) : Front(t)[i] = t[i]
  <2>1. Len(t) > 0 /\ Len(t) - 1 = Len(s)
    BY <1>1
  <2> QED
    BY <1>1, <2>1, FrontAndLast
<1>3. Front(t) = s
  BY <1>1, <1>2, SeqEqual
<1> QED
  BY <1>1, <1>3 DEF t, Last

LEMMA LinesOf ==
  ASSUME NEW text \in Seq(Kinds)
  PROVE  LET b == Sorted({0} \cup At(text, "NEWLINE"))
         IN  /\ Lines(text) \in Seq(Seq(Kinds)) /\ Len(Lines(text)) = Len(b)
             /\ \A k \in 1 .. Len(b) :
                   Lines(text)[k] =
                      SubSeq(text, b[k] + 1, IF k = Len(b) THEN Len(text) ELSE b[k + 1] - 1)
<1> DEFINE b == Sorted({0} \cup At(text, "NEWLINE"))
           n == Len(text)
           end(k) == IF k = Len(b) THEN n ELSE b[k + 1] - 1
<1>1. /\ b \in Seq(0 .. n) /\ Len(b) \in Nat \ {0} /\ Breaks(text) = Append(b, n + 1)
      /\ \A k \in 1 .. Len(b) : b[k] \in 0 .. n /\ (k # Len(b) => b[k + 1] - 1 \in 0 .. n)
  BY BreaksOf
<1> HIDE DEF b
<1>2. n \in Nat /\ \A i \in 1 .. n : text[i] \in Kinds
  OBVIOUS
<1> DEFINE c == Append(b, n + 1)
<1>3. Len(c) = Len(b) + 1 /\ c[Len(b) + 1] = n + 1 /\ \A k \in 1 .. Len(b) : c[k] = b[k] /\ b[k] \in 0 .. n
  <2>1. b \in Seq(Nat)
    BY <1>1, <1>2, WiderSeq
  <2> HIDE DEF n
  <2> QED
    BY <1>1, <1>2, <2>1
<1> HIDE DEF c, n
<1>4. Lines(text) = [k \in 1 .. Len(c) - 1 |-> SubSeq(text, c[k] + 1, c[k + 1] - 1)]
  BY <1>1 DEF Lines, c
<1>5. Len(c) - 1 = Len(b)
  BY <1>1, <1>3
<1>6. ASSUME NEW k \in 1 .. Len(b)
      PROVE  c[k] + 1 = b[k] + 1 /\ c[k + 1] - 1 = end(k) /\ end(k) \in 0 .. n /\ b[k] + 1 \in 1 .. n + 1
  <2>1. CASE k = Len(b)
    <3>1. c[k] = b[k] /\ b[k] \in 0 .. n /\ c[k + 1] = n + 1 /\ end(k) = n
      BY <1>3, <2>1
    <3> QED
      BY <1>2, <3>1
  <2>2. CASE k # Len(b)
    <3>1. k + 1 \in 1 .. Len(b)
      BY <1>1, <2>2
    <3>2. end(k) = b[k + 1] - 1 /\ end(k) \in 0 .. n
      BY <1>1, <2>2
    <3>3. c[k] = b[k] /\ b[k] \in 0 .. n
      BY <1>3
    <3>4. c[k + 1] = b[k + 1]
      BY <1>3, <3>1
    <3> HIDE DEF end
    <3>5. b[k] + 1 \in 1 .. n + 1
      BY <1>2, <3>3
    <3> QED
      BY <3>2, <3>3, <3>4, <3>5
  <2> QED
    BY <2>1, <2>2
<1>7. ASSUME NEW k \in 1 .. Len(b) PROVE SubSeq(text, b[k] + 1, end(k)) \in Seq(Kinds)
  <2>1. b[k] + 1 \in 1 .. n + 1 /\ end(k) \in 0 .. n
    BY <1>6
  <2>2. "EOF" \in Kinds
    BY DEF Kinds
  <2> HIDE DEF end
  <2> QED
    BY <2>1, <2>2, Slices DEF n
<1>8. Lines(text) = [k \in 1 .. Len(b) |-> SubSeq(text, b[k] + 1, end(k))]
  BY <1>4, <1>5, <1>6
<1>9. Len(b) \in Nat
  BY <1>1
<1>10. Lines(text) \in [1 .. Len(b) -> Seq(Kinds)]
  <2> HIDE DEF end
  <2> QED
    BY <1>7, <1>8
<1>11. /\ Lines(text) \in Seq(Seq(Kinds)) /\ Len(Lines(text)) = Len(b)
       /\ \A k \in 1 .. Len(b) : Lines(text)[k] = SubSeq(text, b[k] + 1, end(k))
  <2> DEFINE K == Seq(Kinds)
             m == Len(b)
             l == Lines(text)
  <2> HIDE DEF end, K, m, l
  <2>1. l \in [1 .. m -> K] /\ m \in Nat
    BY <1>9, <1>10 DEF K, m, l
  <2>2. l \in Seq(K) /\ Len(l) = m
    BY <2>1
  <2>3. \A k \in 1 .. m : l[k] = SubSeq(text, b[k] + 1, end(k))
    BY <1>8 DEF m, l
  <2> QED
    BY <2>2, <2>3 DEF K, m, l
<1> QED
  BY <1>11 DEF b, n

LEMMA LinesAre ==
  ASSUME NEW text \in Seq(Kinds)
  PROVE  /\ OpenLine(text) \in Seq(Kinds) /\ Len(Lines(text)) \in Nat \ {0}
         /\ Finished(text) = {Lines(text)[k] : k \in 1 .. Len(Lines(text)) - 1}
         /\ OpenLine(text) = Lines(text)[Len(Lines(text))]
         /\ Range(Lines(text)) = Finished(text) \cup {OpenLine(text)}
<1> DEFINE l == Lines(text)
           K == Seq(Kinds)
<1>1. l \in Seq(K) /\ Len(l) \in Nat \ {0}
  BY LinesOf, BreaksOf
<1> HIDE DEF l, K
<1>2. Len(l) > 0 /\ l[Len(l)] \in K
  BY <1>1
<1>3. /\ Range(Front(l)) = {l[k] : k \in 1 .. Len(l) - 1}
      /\ Range(l) = Range(Front(l)) \cup {Last(l)}
  BY <1>1, <1>2, FrontAndLast
<1>4. Last(l) = l[Len(l)]
  BY DEF Last
<1> QED
  BY <1>1, <1>2, <1>3, <1>4 DEF Finished, OpenLine, l, K

LEMMA LinesGrow ==
  ASSUME NEW text \in Seq(Kinds), NEW x \in Kinds
  PROVE  /\ x # "NEWLINE" => /\ Finished(Append(text, x)) = Finished(text)
                             /\ OpenLine(Append(text, x)) = Append(OpenLine(text), x)
         /\ x = "NEWLINE" => /\ Finished(Append(text, x)) = Finished(text) \cup {OpenLine(text)}
                             /\ OpenLine(Append(text, x)) = << >>
<1> DEFINE t == Append(text, x)
           n == Len(text)
           b == Sorted({0} \cup At(text, "NEWLINE"))
           c == Sorted({0} \cup At(t, "NEWLINE"))
           l == Lines(text)
           k == Lines(t)
           m == Len(b)
<1>1. t \in Seq(Kinds) /\ Len(t) = n + 1 /\ n \in Nat
  OBVIOUS
<1>2. /\ b \in Seq(0 .. n) /\ m \in Nat \ {0}
      /\ \A i \in 1 .. m : b[i] \in 0 .. n /\ (i # m => b[i + 1] - 1 \in 0 .. n)
  BY BreaksOf
<1>3. /\ Len(l) = m
      /\ \A i \in 1 .. m : l[i] = SubSeq(text, b[i] + 1, IF i = m THEN n ELSE b[i + 1] - 1)
  BY LinesOf
<1>4. /\ Len(k) = Len(c)
      /\ \A i \in 1 .. Len(c) :
            k[i] = SubSeq(t, c[i] + 1, IF i = Len(c) THEN Len(t) ELSE c[i + 1] - 1)
  <2> HIDE DEF t
  <2> QED
    BY <1>1, LinesOf
<1>5. c = IF x = "NEWLINE" THEN Append(b, n + 1) ELSE b
  <2> DEFINE S == {0} \cup At(text, "NEWLINE")
  <2>1. S \subseteq 0 .. n
    BY AtGrows DEF Kinds
  <2>2. Numbers(S) /\ n + 1 \in Nat /\ \A y \in S : y < n + 1
    BY <1>1, <2>1, NumbersOfText
  <2>3. {0} \cup At(t, "NEWLINE") = S \cup (IF x = "NEWLINE" THEN {n + 1} ELSE {})
    BY AtGrows
  <2> HIDE DEF S
  <2>4. Sorted(S \cup {n + 1}) = Append(Sorted(S), n + 1)
    BY <2>2, SortedGrows
  <2>5. CASE x = "NEWLINE"
    BY <2>3, <2>4, <2>5 DEF S
  <2>6. CASE x # "NEWLINE"
    <3>1. {0} \cup At(t, "NEWLINE") = {0} \cup At(text, "NEWLINE")
      BY <2>3, <2>6 DEF S
    <3>2. c = b
      BY ONLY <3>1
    <3> QED
      BY <2>6, <3>2
  <2> QED
    BY <2>5, <2>6
<1>6. /\ Finished(text) = {l[i] : i \in 1 .. m - 1} /\ OpenLine(text) = l[m]
  BY <1>3, LinesAre
<1>7. /\ Finished(t) = {k[i] : i \in 1 .. Len(c) - 1} /\ OpenLine(t) = k[Len(c)]
  <2> HIDE DEF t
  <2> QED
    BY <1>1, <1>4, LinesAre
<1> HIDE DEF t, n, b, c, l, k, m
<1>8. ASSUME NEW i \in 1 .. m, i # m
      PROVE  SubSeq(t, b[i] + 1, b[i + 1] - 1) = l[i]
  <2>1. b[i] + 1 \in 1 .. n + 1 /\ b[i + 1] - 1 \in 0 .. n
    <3>1. b[i] \in 0 .. n /\ b[i + 1] - 1 \in 0 .. n
      BY <1>2, <1>8
    <3> QED
      BY <1>1, <3>1
  <2>2. SubSeq(t, b[i] + 1, b[i + 1] - 1) = SubSeq(text, b[i] + 1, b[i + 1] - 1)
    BY <2>1, Slices DEF t, n
  <2> QED
    BY <1>3, <1>8, <2>2
<1>9. /\ SubSeq(t, b[m] + 1, n) = l[m]
      /\ SubSeq(t, b[m] + 1, n + 1) = Append(l[m], x)
  <2>1. m \in 1 .. m /\ b[m] + 1 \in 1 .. n + 1 /\ n \in 0 .. n
    BY <1>1, <1>2
  <2>2. l[m] = SubSeq(text, b[m] + 1, n)
    BY <1>3, <2>1
  <2> QED
    BY <2>1, <2>2, Slices DEF t, n
<1>10. SubSeq(t, n + 2, n + 1) = << >>
  <2>1. n + 2 \in Int /\ n + 1 \in Int /\ n + 1 < n + 2
    BY <1>1
  <2> QED
    BY <2>1, SubSeqEmpty
<1>11. Len(b) = m
  BY DEF m
<1>12. CASE x # "NEWLINE"
  <2>1. c = b /\ Len(c) = m
    BY <1>5, <1>11, <1>12
  <2>2. k[m] = Append(l[m], x)
    <3>1. m \in 1 .. m
      BY <1>2
    <3> QED
      BY <1>1, <1>4, <1>9, <2>1, <3>1
  <2>3. ASSUME NEW i \in 1 .. m - 1 PROVE k[i] = l[i]
    <3>1. i \in 1 .. m /\ i # m
      BY <1>2
    <3> QED
      BY <1>4, <1>8, <2>1, <3>1
  <2>4. {k[i] : i \in 1 .. m - 1} = {l[i] : i \in 1 .. m - 1}
    BY <2>3
  <2> QED
    BY <1>6, <1>7, <1>12, <2>1, <2>2, <2>4 DEF t
<1>13. CASE x = "NEWLINE"
  <2>1. /\ Len(c) = m + 1 /\ c[m + 1] = n + 1 /\ \A i \in 1 .. m : c[i] = b[i]
    <3>1. b \in Seq(Nat)
      <4>1. 0 .. n \subseteq Nat
        BY <1>1
      <4> QED
        BY <1>2, <4>1, WiderSeq
    <3> QED
      BY <1>1, <1>5, <1>11, <1>13, <3>1
  <2>2. k[m + 1] = << >>
    <3>1. m + 1 \in 1 .. m + 1 /\ n + 1 + 1 = n + 2
      BY <1>1, <1>2
    <3> QED
      BY <1>1, <1>4, <1>10, <2>1, <3>1
  <2>3. k[m] = l[m]
    <3>1. m \in 1 .. m + 1 /\ m # m + 1 /\ m \in 1 .. m /\ n + 1 - 1 = n
      BY <1>1, <1>2
    <3>2. k[m] = SubSeq(t, c[m] + 1, c[m + 1] - 1)
      BY <1>4, <2>1, <3>1
    <3>3. c[m] + 1 = b[m] + 1 /\ c[m + 1] - 1 = n
      BY <1>1, <2>1, <3>1
    <3> QED
      BY <1>9, <3>2, <3>3
  <2>4. ASSUME NEW i \in 1 .. m - 1 PROVE k[i] = l[i]
    <3>1. i \in 1 .. m /\ i # m /\ i \in 1 .. m + 1 /\ i # m + 1 /\ i + 1 \in 1 .. m
      BY <1>2
    <3> QED
      BY <1>4, <1>8, <2>1, <3>1
  <2>5. {k[i] : i \in 1 .. m} = {l[i] : i \in 1 .. m - 1} \cup {l[m]}
    <3>1. \A i : i \in 1 .. m <=> i \in 1 .. m - 1 \/ i = m
      BY <1>2
    <3> QED
      BY <2>3, <2>4, <3>1
  <2>6. Len(c) - 1 = m
    BY <1>2, <2>1
  <2> QED
    BY <1>6, <1>7, <1>13, <2>1, <2>2, <2>5, <2>6 DEF t
<1> QED
  BY <1>12, <1>13

LEMMA LinesOfNothing ==
  ASSUME NEW text \in Seq(Kinds), text = << >>
  PROVE  Finished(text) = {} /\ OpenLine(text) = << >>
<1> DEFINE b == Sorted({0} \cup At(text, "NEWLINE"))
<1>1. Len(text) = 0 /\ At(text, "NEWLINE") = {}
  BY DEF At
<1>2. Len(Sorted({0})) = 1
  <2>1. IsFiniteSet({0}) /\ Cardinality({0}) = 1
    BY FS_Singleton
  <2>2. Numbers({0})
    BY <2>1 DEF Numbers
  <2> QED
    BY <2>1, <2>2, SortedIs
<1>3. {0} \cup At(text, "NEWLINE") = {0}
  BY <1>1
<1>4. Len(b) = 1
  BY ONLY <1>2, <1>3
<1>5. \A k \in 1 .. Len(b) : b[k] \in 0 .. Len(text)
  BY BreaksOf
<1>6. /\ Len(Lines(text)) = Len(b)
      /\ \A k \in 1 .. Len(b) :
            Lines(text)[k] = SubSeq(text, b[k] + 1, IF k = Len(b) THEN Len(text) ELSE b[k + 1] - 1)
  BY LinesOf
<1> HIDE DEF b
<1>7. Lines(text)[1] = SubSeq(text, 1, 0)
  <2>1. b[1] = 0 /\ Lines(text)[1] = SubSeq(text, b[1] + 1, 0)
    BY <1>1, <1>4, <1>5, <1>6
  <2>2. b[1] + 1 = 1
    BY <2>1
  <2> QED
    BY <2>1, <2>2
<1>8. Lines(text)[1] = << >>
  <2>1. 1 \in Int /\ 0 \in Int /\ 0 < 1
    OBVIOUS
  <2>2. SubSeq(text, 1, 0) = << >>
    BY <2>1, SubSeqEmpty
  <2> QED
    BY <1>7, <2>2
<1>9. /\ Finished(text) = {Lines(text)[k] : k \in 1 .. Len(Lines(text)) - 1}
      /\ OpenLine(text) = Lines(text)[Len(Lines(text))]
  BY LinesAre
<1> QED
  BY <1>4, <1>6, <1>8, <1>9

-----------------------------------------------------------------------------
(* A case and the text it stands for *)

\* Enough of the text is there to know the expectation that begins at e.
Complete(text, e) == \/ text[e + 1] = "STATUS" /\ e + 2 <= Len(text)
                     \/ text[e + 1] \in {"BODY", "HEADER"} /\ e + 3 <= Len(text)

Expects(text, k)    == Sorted(Of(text, "EXPECT", k))
LastExpect(text, k) == Expects(text, k)[Cardinality(Of(text, "EXPECT", k))]

Matches(a, text, e) == a = Expectation(text, e) /\ Complete(text, e)

\* The case is the k-th of the text, but for as many expectations as are open.
CaseSoFar(c, text, k, open) ==
    /\ c.url = Methods(text)[k] + 1
    /\ c.body = Max({0} \cup Of(text, "BODY_RAW", k))
    /\ Len(c.assertions) + open = Cardinality(Of(text, "EXPECT", k))
    /\ \A j \in 1 .. Len(c.assertions) : Matches(c.assertions[j], text, Expects(text, k)[j])

LEMMA MatchesLater ==
  ASSUME NEW text \in Seq(Kinds), NEW x \in Kinds, NEW e \in 1 .. Len(text), NEW a,
         Matches(a, text, e)
  PROVE  Matches(a, Append(text, x), e)
<1> DEFINE n == Len(text)
           t == Append(text, x)
<1>1. n \in Nat /\ Len(t) = n + 1 /\ \A i \in 1 .. n : t[i] = text[i]
  OBVIOUS
<1>2. Complete(text, e) /\ a = Expectation(text, e)
  BY DEF Matches
<1>8. Complete(text, e)
  BY <1>2
<1>9. \/ text[e + 1] = "STATUS" /\ e + 2 <= Len(text)
      \/ text[e + 1] \in {"BODY", "HEADER"} /\ e + 3 <= Len(text)
  BY ONLY <1>8, Zenon DEF Complete
<1>3. e + 1 \in 1 .. n
  BY <1>1, <1>2 DEF Complete
<1>4. t[e + 1] = text[e + 1]
  BY <1>1, <1>3
<1> HIDE DEF t, n
<1>5. Complete(t, e)
  <2>0. \/ text[e + 1] = "STATUS" /\ e + 2 <= n
        \/ text[e + 1] \in {"BODY", "HEADER"} /\ e + 3 <= n
    BY ONLY <1>9 DEF n
  <2>2. e + 2 <= n => e + 2 <= Len(t)
    BY <1>1
  <2>3. e + 3 <= n => e + 3 <= Len(t)
    BY <1>1
  <2> QED
    BY <1>4, <2>0, <2>2, <2>3 DEF Complete
<1>6. Expectation(t, e) = Expectation(text, e)
  BY <1>4 DEF Expectation
<1> QED
  BY <1>2, <1>5, <1>6 DEF Matches, t

LEMMA ExpectsAre ==
  ASSUME NEW text \in Seq(Kinds), NEW k
  PROVE  /\ Cardinality(Of(text, "EXPECT", k)) \in Nat
         /\ \A j \in 1 .. Cardinality(Of(text, "EXPECT", k)) : Expects(text, k)[j] \in 1 .. Len(text)
         /\ Expects(text, k) \in Seq(Nat) /\ Len(Expects(text, k)) = Cardinality(Of(text, "EXPECT", k))
<1> DEFINE S == Of(text, "EXPECT", k)
<1>1. S \subseteq 1 .. Len(text) /\ Numbers(S)
  BY OfIsNumbers
<1> HIDE DEF S
<1>2. /\ Cardinality(S) \in Nat /\ Sorted(S) \in Seq(S) /\ Len(Sorted(S)) = Cardinality(S)
      /\ \A j \in 1 .. Cardinality(S) : Sorted(S)[j] \in S
  BY <1>1, SortedIs
<1>3. Sorted(S) \in Seq(Nat)
  BY <1>1, <1>2, WiderSeq DEF Numbers
<1> QED
  BY <1>1, <1>2, <1>3 DEF S, Expects

\* A token that is of no interest to the case.
LEMMA CaseSoFarKept ==
  ASSUME NEW text \in Seq(Kinds), NEW x \in Kinds, NEW k \in 1 .. Len(Methods(text)),
         NEW c, NEW open \in {0, 1}, Len(c.assertions) \in Nat, CaseSoFar(c, text, k, open),
         Spares(text, x, "EXPECT", k), Spares(text, x, "BODY_RAW", k)
  PROVE  /\ CaseSoFar(c, Append(text, x), k, open)
         /\ Of(Append(text, x), "EXPECT", k) = Of(text, "EXPECT", k)
         /\ Expects(Append(text, x), k) = Expects(text, k)
         /\ LastExpect(Append(text, x), k) = LastExpect(text, k)
<1> DEFINE t == Append(text, x)
<1>2. k \in 1 .. Len(Methods(t)) /\ Methods(t)[k] = Methods(text)[k] /\ k <= Len(Methods(text))
  BY CaseStays
<1>3. "EXPECT" \in Kinds \ {"METHOD"} /\ "BODY_RAW" \in Kinds \ {"METHOD"}
  BY DEF Kinds
<1>4. Of(t, "EXPECT", k) = Of(text, "EXPECT", k)
  BY <1>3, OfSpared
<1>5. Of(t, "BODY_RAW", k) = Of(text, "BODY_RAW", k)
  BY <1>3, OfSpared
<1> HIDE DEF t
<1>6. Expects(t, k) = Expects(text, k)
  BY ONLY <1>4 DEF Expects
<1>7. LastExpect(t, k) = LastExpect(text, k)
  BY <1>4, <1>6 DEF LastExpect
<1>8. ASSUME NEW j \in 1 .. Len(c.assertions)
      PROVE  Matches(c.assertions[j], t, Expects(t, k)[j])
  <2>1. Matches(c.assertions[j], text, Expects(text, k)[j])
    BY DEF CaseSoFar
  <2>2. Cardinality(Of(text, "EXPECT", k)) \in Nat
    BY ExpectsAre
  <2>3. Len(c.assertions) + open = Cardinality(Of(text, "EXPECT", k))
    BY DEF CaseSoFar
  <2>4. j \in 1 .. Cardinality(Of(text, "EXPECT", k))
    BY <2>2, <2>3
  <2>5. Expects(text, k)[j] \in 1 .. Len(text)
    BY <2>4, ExpectsAre
  <2> QED
    BY <1>6, <2>1, <2>5, MatchesLater DEF t
<1>9. CaseSoFar(c, t, k, open)
  BY <1>2, <1>4, <1>5, <1>8 DEF CaseSoFar
<1> QED
  BY <1>4, <1>6, <1>7, <1>9 DEF t

\* EXPECT opens an expectation of the last case.
LEMMA ExpectOpens ==
  ASSUME NEW text \in Seq(Kinds), NEW k, k = Len(Methods(text)), k > 0,
         NEW c, Len(c.assertions) \in Nat, CaseSoFar(c, text, k, 0)
  PROVE  /\ CaseSoFar(c, Append(text, "EXPECT"), k, 1)
         /\ LastExpect(Append(text, "EXPECT"), k) = Len(text) + 1
<1> DEFINE t == Append(text, "EXPECT")
           n == Len(text)
           S == Of(text, "EXPECT", k)
<1>0. "EXPECT" \in Kinds \ {"METHOD"} /\ "BODY_RAW" \in Kinds \ {"METHOD"}
  BY DEF Kinds
<1>1. Methods(t) = Methods(text) /\ Len(Methods(text)) \in Nat /\ k \in 1 .. Len(Methods(text))
  BY <1>0, MethodsOf, MethodsGrow
<1>2. Of(t, "EXPECT", k) = S \cup {n + 1} /\ Of(t, "BODY_RAW", k) = Of(text, "BODY_RAW", k)
  <2>1. Of(t, "EXPECT", k) = Of(text, "EXPECT", k) \cup {Len(text) + 1}
    BY <1>0, <1>1, OfTaken
  <2>2. Spares(text, "EXPECT", "BODY_RAW", k) /\ "EXPECT" \in Kinds
    BY <1>0 DEF Spares
  <2>3. Of(t, "BODY_RAW", k) = Of(text, "BODY_RAW", k)
    BY <1>0, <1>1, <2>2, OfSpared
  <2> QED
    BY <2>1, <2>3
<1>3. n \in Nat /\ S \subseteq 1 .. n /\ Numbers(S) /\ Cardinality(S) \in Nat
  BY OfIsNumbers, ExpectsAre
<1> HIDE DEF t, n, S
<1>4. /\ Sorted(S \cup {n + 1}) = Append(Sorted(S), n + 1)
      /\ Cardinality(S \cup {n + 1}) = Cardinality(S) + 1
  <2>1. n + 1 \in Nat /\ \A y \in S : y < n + 1
    BY <1>3
  <2> QED
    BY <1>3, <2>1, SortedGrows
<1>5. Expects(text, k) = Sorted(S) /\ Expects(t, k) = Append(Sorted(S), n + 1)
  BY <1>2, <1>4 DEF Expects, S
<1>6. Sorted(S) \in Seq(Nat) /\ Len(Sorted(S)) = Cardinality(S)
  BY <1>5, ExpectsAre DEF S
<1>7. /\ \A j \in 1 .. Cardinality(S) : Expects(t, k)[j] = Expects(text, k)[j]
      /\ Expects(t, k)[Cardinality(S) + 1] = n + 1
  BY <1>3, <1>5, <1>6
<1>8. Len(c.assertions) = Cardinality(S)
  BY <1>3 DEF CaseSoFar, S
<1>9. ASSUME NEW j \in 1 .. Len(c.assertions)
      PROVE  Matches(c.assertions[j], t, Expects(t, k)[j])
  <2>1. Matches(c.assertions[j], text, Expects(text, k)[j])
    BY DEF CaseSoFar
  <2>2. Expects(text, k)[j] \in 1 .. Len(text)
    BY <1>8, ExpectsAre DEF S
  <2>3. Matches(c.assertions[j], t, Expects(text, k)[j])
    BY <1>0, <2>1, <2>2, MatchesLater DEF t
  <2> QED
    BY <1>7, <1>8, <2>3
<1>10. CaseSoFar(c, t, k, 1)
  <2>1. c.url = Methods(t)[k] + 1 /\ c.body = Max({0} \cup Of(t, "BODY_RAW", k))
    BY <1>1, <1>2 DEF CaseSoFar
  <2>2. Len(c.assertions) + 1 = Cardinality(Of(t, "EXPECT", k))
    BY <1>2, <1>4, <1>8
  <2> QED
    BY <1>9, <2>1, <2>2 DEF CaseSoFar
<1>11. LastExpect(t, k) = n + 1
  BY <1>2, <1>4, <1>7 DEF LastExpect
<1> QED
  BY <1>10, <1>11 DEF t, n

\* The assertion of the statement closes it.
LEMMA ExpectCloses ==
  ASSUME NEW text \in Seq(Kinds), NEW k, NEW c \in Cases, NEW a \in Assertions,
         CaseSoFar(c, text, k, 1), Matches(a, text, LastExpect(text, k))
  PROVE  CaseSoFar([c EXCEPT !.assertions = Append(@, a)], text, k, 0)
<1> DEFINE d == [c EXCEPT !.assertions = Append(@, a)]
           n == Cardinality(Of(text, "EXPECT", k))
<1>1. /\ d.url = c.url /\ d.body = c.body /\ d.assertions = Append(c.assertions, a)
      /\ c.assertions \in Seq(Assertions)
  BY TextsOfNewAssertion DEF Cases
<1>2. n \in Nat
  BY ExpectsAre
<1>3. Len(c.assertions) + 1 = n /\ Len(c.assertions) \in Nat
  BY <1>1 DEF CaseSoFar
<1> HIDE DEF d, n
<1>4. /\ Len(d.assertions) = n /\ d.assertions[n] = a
      /\ \A j \in 1 .. n - 1 : d.assertions[j] = c.assertions[j]
  BY <1>1, <1>3
<1>5. ASSUME NEW j \in 1 .. n PROVE Matches(d.assertions[j], text, Expects(text, k)[j])
  <2>1. CASE j = n
    BY <1>4, <2>1 DEF LastExpect, n
  <2>2. CASE j # n
    <3>1. j \in 1 .. n - 1 /\ n - 1 = Len(c.assertions)
      BY <1>2, <1>3, <2>2
    <3> QED
      BY <1>4, <3>1 DEF CaseSoFar
  <2> QED
    BY <2>1, <2>2
<1>6. CaseSoFar(d, text, k, 0)
  BY <1>1, <1>2, <1>4, <1>5 DEF CaseSoFar, n
<1> QED
  BY <1>6 DEF d

LEMMA GreatestIs ==
  ASSUME NEW S, S \subseteq Nat, NEW x \in S, \A y \in S : y <= x
  PROVE  Max(S) = x
<1>1. \E m \in S : \A y \in S : m >= y
  OBVIOUS
<1>2. Max(S) \in S /\ \A y \in S : Max(S) >= y
  BY <1>1 DEF Max
<1> DEFINE m == Max(S)
<1>3. m \in Nat /\ x \in Nat /\ m >= x /\ m <= x
  BY <1>2
<1> HIDE DEF m
<1>4. m = x
  BY <1>3
<1> QED
  BY <1>4 DEF m

\* The rest of a BODY line replaces the body of the last case.
LEMMA BodyReplaces ==
  ASSUME NEW text \in Seq(Kinds), NEW k, k = Len(Methods(text)), k > 0,
         NEW c \in Cases, CaseSoFar(c, text, k, 0)
  PROVE  CaseSoFar([c EXCEPT !.body = Len(text) + 1], Append(text, "BODY_RAW"), k, 0)
<1> DEFINE t == Append(text, "BODY_RAW")
           n == Len(text)
           d == [c EXCEPT !.body = n + 1]
<1>0. "EXPECT" \in Kinds \ {"METHOD"} /\ "BODY_RAW" \in Kinds \ {"METHOD"}
  BY DEF Kinds
<1>1. Methods(t) = Methods(text) /\ Len(Methods(text)) \in Nat /\ k \in 1 .. Len(Methods(text))
  BY <1>0, MethodsOf, MethodsGrow
<1>2. /\ Of(t, "EXPECT", k) = Of(text, "EXPECT", k)
      /\ Of(t, "BODY_RAW", k) = Of(text, "BODY_RAW", k) \cup {n + 1}
  <2>1. Of(t, "BODY_RAW", k) = Of(text, "BODY_RAW", k) \cup {Len(text) + 1}
    BY <1>0, <1>1, OfTaken
  <2>2. Spares(text, "BODY_RAW", "EXPECT", k) /\ "BODY_RAW" \in Kinds
    BY <1>0 DEF Spares
  <2>3. Of(t, "EXPECT", k) = Of(text, "EXPECT", k)
    BY <1>0, <1>1, <2>2, OfSpared
  <2> QED
    BY <2>1, <2>3
<1>3. n \in Nat /\ Of(text, "BODY_RAW", k) \subseteq 1 .. n
  BY OfIsNumbers
<1>4. d.url = c.url /\ d.body = n + 1 /\ d.assertions = c.assertions /\ Len(c.assertions) \in Nat
  BY DEF Cases
<1> HIDE DEF t, d, n
<1>5. Max({0} \cup Of(t, "BODY_RAW", k)) = n + 1
  <2> DEFINE S == {0} \cup Of(t, "BODY_RAW", k)
  <2>1. S \subseteq Nat /\ n + 1 \in S /\ \A y \in S : y <= n + 1
    BY <1>2, <1>3
  <2> HIDE DEF S
  <2>2. Max(S) = n + 1
    BY <2>1, GreatestIs
  <2> QED
    BY <2>2 DEF S
<1>6. Expects(t, k) = Expects(text, k)
  BY ONLY <1>2 DEF Expects
<1>7. ASSUME NEW j \in 1 .. Len(c.assertions)
      PROVE  Matches(c.assertions[j], t, Expects(t, k)[j])
  <2>1. Matches(c.assertions[j], text, Expects(text, k)[j])
    BY DEF CaseSoFar
  <2>2. Len(c.assertions) = Cardinality(Of(text, "EXPECT", k))
    BY <1>4, ExpectsAre DEF CaseSoFar
  <2>3. Expects(text, k)[j] \in 1 .. Len(text)
    BY <2>2, ExpectsAre
  <2> QED
    BY <1>0, <1>6, <2>1, <2>3, MatchesLater DEF t
<1>8. CaseSoFar(d, t, k, 0)
  BY <1>1, <1>2, <1>4, <1>5, <1>7 DEF CaseSoFar
<1> QED
  BY <1>8 DEF d, t, n

\* A method opens a case without body and expectations.
LEMMA CaseOpens ==
  ASSUME NEW text \in Seq(Kinds), NEW k, k = Len(Methods(text)) + 1
  PROVE  /\ CaseSoFar([url |-> Len(text) + 2, body |-> 0, assertions |-> << >>],
                      Append(text, "METHOD"), k, 0)
         /\ Len(Methods(Append(text, "METHOD"))) = k
<1> DEFINE t == Append(text, "METHOD")
           n == Len(text)
           c == [url |-> n + 2, body |-> 0, assertions |-> << >>]
<1>0. "EXPECT" \in Kinds \ {"METHOD"} /\ "BODY_RAW" \in Kinds \ {"METHOD"} /\ "METHOD" \in Kinds
  BY DEF Kinds
<1>1. Methods(t) = Append(Methods(text), n + 1) /\ Len(Methods(text)) \in Nat /\ n \in Nat
  BY <1>0, MethodsOf, MethodsGrow
<1>2. Methods(text) \in Seq(Nat)
  <2>1. 1 .. n \subseteq Nat
    OBVIOUS
  <2> QED
    BY <2>1, MethodsOf, WiderSeq
<1>3. c.url = n + 2 /\ c.body = 0 /\ c.assertions = << >>
  OBVIOUS
<1>4. Of(t, "EXPECT", k) = {} /\ Of(t, "BODY_RAW", k) = {}
  BY <1>0, OfNew
<1> HIDE DEF t, c, n
<1>5. Methods(t)[k] = n + 1 /\ Len(Methods(t)) = k
  BY <1>1, <1>2
<1>6. Max({0}) = 0
  BY GreatestIs
<1>7. Cardinality({}) = 0
  BY FS_EmptySet
<1>8. CaseSoFar(c, t, k, 0)
  <2>1. c.url = Methods(t)[k] + 1
    BY <1>1, <1>3, <1>5
  <2>2. c.body = Max({0} \cup Of(t, "BODY_RAW", k))
    BY <1>3, <1>4, <1>6
  <2>3. Len(c.assertions) = 0
    BY <1>3
  <2>4. Len(c.assertions) + 0 = Cardinality(Of(t, "EXPECT", k))
    <3>1. Cardinality(Of(t, "EXPECT", k)) = 0
      BY ONLY <1>4, <1>7
    <3> QED
      BY <2>3, <3>1
  <2>5. \A j \in 1 .. Len(c.assertions) : Matches(c.assertions[j], t, Expects(t, k)[j])
    BY <2>3
  <2> QED
    BY <2>1, <2>2, <2>4, <2>5 DEF CaseSoFar
<1> QED
  BY <1>5, <1>8 DEF c, t, n

-----------------------------------------------------------------------------
(* The plan and the text it stands for *)

\* The case of a method is not in the plan before its URL is read.
Extra(label)           == IF label = "url" THEN 1 ELSE 0
OpenIn(label, plan, k) == IF label \in InExpect /\ k = Len(plan) THEN 1 ELSE 0

\* What has been read of the expectation that begins at e.
Begun(label, text, e) ==
    LET n == Len(text)
    IN  /\ label = "assertion"    => e = n
        /\ label = "code"         => e = n - 1 /\ text[e + 1] = "STATUS"
        /\ label = "contains"     => e = n - 1 /\ text[e + 1] = "BODY"
        /\ label = "string"       => e = n - 2 /\ text[e + 1] = "BODY"
        /\ label = "header_name"  => e = n - 1 /\ text[e + 1] = "HEADER"
        /\ label = "header_value" => e = n - 2 /\ text[e + 1] = "HEADER"

NewCase(url) == [url |-> url, body |-> 0, assertions |-> << >>]

PlanSoFar(label, text, plan) ==
    /\ Len(Methods(text)) = Len(plan) + Extra(label)
    /\ \A k \in 1 .. Len(plan) : CaseSoFar(plan[k], text, k, OpenIn(label, plan, k))
    /\ label = "url" => CaseSoFar(NewCase(Len(text) + 1), text, Len(plan) + 1, 0)
    /\ label \in InExpect => Len(plan) > 0 /\ Begun(label, text, LastExpect(text, Len(plan)))

LEMMA PlanIs ==
  ASSUME NEW text \in Seq(Kinds), NEW plan \in Seq(Cases), NEW label,
         label \notin InExpect \cup {"url"}, PlanSoFar(label, text, plan)
  PROVE  plan = Plan(text)
<1> DEFINE n == Len(plan)
<1>1. n \in Nat /\ Len(Methods(text)) = n
  BY DEF PlanSoFar, Extra
<1>2. DOMAIN Methods(text) = 1 .. n
  BY <1>1, MethodsOf
<1>3. ASSUME NEW k \in 1 .. n PROVE plan[k] = PlanCase(text, k)
  <2> DEFINE c == plan[k]
             m == Cardinality(Of(text, "EXPECT", k))
  <2>1. c \in Cases /\ CaseSoFar(c, text, k, 0)
    BY DEF PlanSoFar, OpenIn
  <2>2. m \in Nat /\ Expects(text, k) \in Seq(Nat) /\ Len(Expects(text, k)) = m
    BY ExpectsAre
  <2>3. c.assertions \in Seq(Assertions) /\ Len(c.assertions) \in Nat
    BY <2>1 DEF Cases
  <2>4. c = [url |-> c.url, body |-> c.body, assertions |-> c.assertions]
    BY <2>1 DEF Cases
  <2> HIDE DEF c, m
  <2>5. Len(c.assertions) = m
    BY <2>1, <2>3 DEF CaseSoFar, m
  <2>6. c.assertions = [j \in 1 .. m |-> Expectation(text, Expects(text, k)[j])]
    <3>1. \A j \in 1 .. m : c.assertions[j] = Expectation(text, Expects(text, k)[j])
      BY <2>1, <2>5 DEF CaseSoFar, Matches
    <3>2. DOMAIN c.assertions = 1 .. m /\ c.assertions = [j \in DOMAIN c.assertions |-> c.assertions[j]]
      BY <2>3, <2>5
    <3> QED
      BY <3>1, <3>2
  <2>7. DOMAIN Expects(text, k) = 1 .. m
    BY <2>2
  <2>8. c.url = Methods(text)[k] + 1 /\ c.body = Max({0} \cup Of(text, "BODY_RAW", k))
    BY <2>1 DEF CaseSoFar
  <2>9. PlanCase(text, k) =
           [url |-> Methods(text)[k] + 1, body |-> Max({0} \cup Of(text, "BODY_RAW", k)),
            assertions |-> [j \in DOMAIN Expects(text, k) |-> Expectation(text, Expects(text, k)[j])]]
    BY DEF PlanCase, Expects, Of
  <2>10. c = PlanCase(text, k)
    BY <2>4, <2>6, <2>7, <2>8, <2>9
  <2> QED
    BY <2>10 DEF c
<1>4. plan = [k \in 1 .. n |-> plan[k]]
  OBVIOUS
<1> HIDE DEF n
<1>5. Plan(text) = [k \in 1 .. n |-> PlanCase(text, k)]
  BY <1>2 DEF Plan
<1> QED
  BY <1>3, <1>4, <1>5

LEMMA CaseKept ==
  ASSUME NEW text \in Seq(Kinds), NEW x \in Kinds, NEW plan \in Seq(Cases), NEW label,
         PlanSoFar(label, text, plan), NEW k \in 1 .. Len(plan),
         Spares(text, x, "EXPECT", k), Spares(text, x, "BODY_RAW", k)
  PROVE  /\ CaseSoFar(plan[k], Append(text, x), k, OpenIn(label, plan, k))
         /\ LastExpect(Append(text, x), k) = LastExpect(text, k)
<1>1. Len(plan) \in Nat /\ plan[k] \in Cases
  OBVIOUS
<1>2. k \in 1 .. Len(Methods(text))
  BY <1>1 DEF PlanSoFar, Extra
<1>3. Len(plan[k].assertions) \in Nat
  BY <1>1 DEF Cases
<1>4. OpenIn(label, plan, k) \in {0, 1}
  BY DEF OpenIn
<1>5. CaseSoFar(plan[k], text, k, OpenIn(label, plan, k))
  BY DEF PlanSoFar
<1> QED
  BY <1>2, <1>3, <1>4, <1>5, CaseSoFarKept

LEMMA SamePlaces ==
  ASSUME NEW text \in Seq(Kinds), NEW x \in Kinds \ {"METHOD"}
  PROVE  Methods(Append(text, x)) = Methods(text)
BY MethodsGrow

\* A token that leaves the plan as it is: a blank, the end of a line, the
\* word BODY before its rest.
Plain == Kinds \ {"EXPECT", "BODY_RAW", "METHOD"}

LEMMA PlainKeepsPlan ==
  ASSUME NEW text \in Seq(Kinds), NEW x \in Plain, NEW plan \in Seq(Cases),
         NEW label, PlanSoFar(label, text, plan),
         NEW next, label \notin InExpect \cup {"url"}, next \notin InExpect \cup {"url"}
  PROVE  PlanSoFar(next, Append(text, x), plan)
<1>1. ASSUME NEW k \in 1 .. Len(plan)
      PROVE  CaseSoFar(plan[k], Append(text, x), k, OpenIn(next, plan, k))
  <2>1. Spares(text, x, "EXPECT", k) /\ Spares(text, x, "BODY_RAW", k)
    BY DEF Spares, Plain
  <2>2. OpenIn(next, plan, k) = OpenIn(label, plan, k)
    BY DEF OpenIn
  <2> QED
    BY <2>1, <2>2, CaseKept DEF Plain
<1>2. Methods(Append(text, x)) = Methods(text)
  BY SamePlaces DEF Plain
<1> QED
  BY <1>1, <1>2 DEF PlanSoFar, Extra

LEMMA MethodOfPlan ==
  ASSUME NEW text \in Seq(Kinds), NEW plan \in Seq(Cases),
         NEW label, PlanSoFar(label, text, plan), label \notin InExpect \cup {"url"}
  PROVE  PlanSoFar("url", Append(text, "METHOD"), plan)
<1> DEFINE t == Append(text, "METHOD")
<1>0. "METHOD" \in Kinds
  BY DEF Kinds
<1>1. Len(plan) \in Nat /\ Len(Methods(text)) = Len(plan)
  BY DEF PlanSoFar, Extra
<1>2. ASSUME NEW k \in 1 .. Len(plan) PROVE CaseSoFar(plan[k], t, k, OpenIn("url", plan, k))
  <2>1. Spares(text, "METHOD", "EXPECT", k) /\ Spares(text, "METHOD", "BODY_RAW", k)
    BY DEF Spares
  <2>2. OpenIn("url", plan, k) = OpenIn(label, plan, k)
    BY DEF OpenIn, InExpect
  <2> QED
    BY <1>0, <2>1, <2>2, CaseKept
<1> DEFINE k == Len(plan) + 1
<1>3. k = Len(Methods(text)) + 1
  BY <1>1
<1> HIDE DEF k
<1>4. CaseSoFar(NewCase(Len(text) + 2), t, k, 0) /\ Len(Methods(t)) = k
  BY <1>3, CaseOpens DEF NewCase
<1>5. Len(t) + 1 = Len(text) + 2
  <2>1. Len(t) = Len(text) + 1 /\ Len(text) \in Nat
    BY <1>0
  <2> QED
    BY <2>1
<1> HIDE DEF t
<1>6. CaseSoFar(NewCase(Len(t) + 1), t, Len(plan) + 1, 0)
  BY <1>4, <1>5 DEF k
<1>7. Len(Methods(t)) = Len(plan) + Extra("url")
  BY <1>4 DEF k, Extra
<1>8. PlanSoFar("url", t, plan)
  BY <1>2, <1>6, <1>7 DEF PlanSoFar, InExpect
<1> QED
  BY <1>8 DEF t

LEMMA UrlOfPlan ==
  ASSUME NEW text \in Seq(Kinds), NEW plan \in Seq(Cases), PlanSoFar("url", text, plan),
         Len(text) + 1 \in Positions,
         NEW next, next \notin InExpect \cup {"url"}
  PROVE  PlanSoFar(next, Append(text, "IDENT"), Append(plan, NewCase(Len(text) + 1)))
<1> DEFINE t   == Append(text, "IDENT")
           c   == NewCase(Len(text) + 1)
           new == Append(plan, c)
           m   == Len(plan) + 1
<1>0. "IDENT" \in Kinds \ {"METHOD"} /\ "IDENT" \in Kinds
  BY DEF Kinds
<1>1. Len(plan) \in Nat /\ Len(Methods(text)) = m
  BY DEF PlanSoFar, Extra
<1>2. c \in Cases
  BY DEF NewCase, Cases
<1>3. Len(c.assertions) = 0
  BY DEF NewCase
<1>4. CaseSoFar(c, text, m, 0)
  BY DEF PlanSoFar
<1> HIDE DEF c
<1>5. new \in Seq(Cases) /\ Len(new) = m /\ new[m] = c /\ \A k \in 1 .. Len(plan) : new[k] = plan[k]
  BY <1>2
<1> HIDE DEF new, m
<1>6. ASSUME NEW k \in 1 .. Len(plan) PROVE CaseSoFar(new[k], t, k, OpenIn(next, new, k))
  <2>1. Spares(text, "IDENT", "EXPECT", k) /\ Spares(text, "IDENT", "BODY_RAW", k)
    BY DEF Spares
  <2>2. OpenIn(next, new, k) = OpenIn("url", plan, k)
    BY DEF OpenIn, InExpect
  <2>3. CaseSoFar(plan[k], t, k, OpenIn("url", plan, k))
    BY <1>0, <2>1, CaseKept
  <2> QED
    BY <1>5, <2>2, <2>3
<1>7. CaseSoFar(new[m], t, m, OpenIn(next, new, m))
  <2>1. Spares(text, "IDENT", "EXPECT", m) /\ Spares(text, "IDENT", "BODY_RAW", m)
    BY DEF Spares
  <2>2. m \in 1 .. Len(Methods(text))
    BY <1>1 DEF m
  <2>3. CaseSoFar(c, t, m, 0)
    BY <1>0, <1>3, <1>4, <2>1, <2>2, CaseSoFarKept
  <2>4. OpenIn(next, new, m) = 0
    BY DEF OpenIn
  <2> QED
    BY <1>5, <2>3, <2>4
<1>8. ASSUME NEW k \in 1 .. Len(new) PROVE CaseSoFar(new[k], t, k, OpenIn(next, new, k))
  <2>1. k \in 1 .. Len(plan) \/ k = m
    BY <1>1, <1>5 DEF m
  <2> QED
    BY <1>6, <1>7, <2>1
<1>9. Len(Methods(t)) = Len(new) + Extra(next)
  <2>1. Methods(t) = Methods(text)
    BY <1>0, SamePlaces
  <2> QED
    BY <1>1, <1>5, <2>1 DEF Extra, m
<1>10. PlanSoFar(next, t, new)
  BY <1>8, <1>9 DEF PlanSoFar
<1> QED
  BY <1>10 DEF t, new, c

LEMMA ExpectOfPlan ==
  ASSUME NEW text \in Seq(Kinds), NEW plan \in Seq(Cases), Len(plan) # 0,
         NEW label, PlanSoFar(label, text, plan), label \notin InExpect \cup {"url"}
  PROVE  PlanSoFar("assertion", Append(text, "EXPECT"), plan)
<1> DEFINE t == Append(text, "EXPECT")
           m == Len(plan)
<1>0. "EXPECT" \in Kinds \ {"METHOD"} /\ "EXPECT" \in Kinds
  BY DEF Kinds
<1>1. m \in Nat /\ m > 0 /\ Len(Methods(text)) = m /\ Methods(t) = Methods(text)
  BY <1>0, SamePlaces DEF PlanSoFar, Extra
<1>2. ASSUME NEW k \in 1 .. m PROVE CaseSoFar(plan[k], t, k, OpenIn("assertion", plan, k))
  <2>1. CASE k = m
    <3>1. CaseSoFar(plan[m], text, m, 0) /\ Len(plan[m].assertions) \in Nat
      <4>1. plan[m] \in Cases /\ OpenIn(label, plan, m) = 0
        BY <1>1 DEF OpenIn
      <4>2. CaseSoFar(plan[m], text, m, 0)
        BY <1>1, <4>1 DEF PlanSoFar
      <4> QED
        BY <4>1, <4>2 DEF Cases
    <3>2. CaseSoFar(plan[m], t, m, 1)
      BY <1>1, <3>1, ExpectOpens
    <3>3. OpenIn("assertion", plan, m) = 1
      BY DEF OpenIn, InExpect
    <3> QED
      BY <2>1, <3>2, <3>3
  <2>2. CASE k # m
    <3>1. Spares(text, "EXPECT", "EXPECT", k) /\ Spares(text, "EXPECT", "BODY_RAW", k)
      BY <1>1, <2>2 DEF Spares
    <3>2. OpenIn("assertion", plan, k) = OpenIn(label, plan, k)
      BY <2>2 DEF OpenIn
    <3> QED
      BY <1>0, <3>1, <3>2, CaseKept
  <2> QED
    BY <2>1, <2>2
<1>3. LastExpect(t, m) = Len(t)
  <2>1. CaseSoFar(plan[m], text, m, 0) /\ Len(plan[m].assertions) \in Nat
    <3>1. plan[m] \in Cases /\ OpenIn(label, plan, m) = 0
      BY <1>1 DEF OpenIn
    <3>2. CaseSoFar(plan[m], text, m, 0)
      BY <1>1, <3>1 DEF PlanSoFar
    <3> QED
      BY <3>1, <3>2 DEF Cases
  <2>2. LastExpect(t, m) = Len(text) + 1
    BY <1>1, <2>1, ExpectOpens
  <2>3. Len(t) = Len(text) + 1
    BY <1>0
  <2> QED
    BY <2>2, <2>3
<1> HIDE DEF t
<1>4. Begun("assertion", t, LastExpect(t, m))
  BY <1>3 DEF Begun
<1>5. Len(Methods(t)) = Len(plan) + Extra("assertion")
  BY <1>1 DEF Extra
<1>6. PlanSoFar("assertion", t, plan)
  BY <1>1, <1>2, <1>4, <1>5 DEF PlanSoFar
<1> QED
  BY <1>6 DEF t

\* The next token of an expectation.
GoesOn(label, x, next) == \/ label = "assertion" /\ x = "STATUS" /\ next = "code"
                          \/ label = "assertion" /\ x = "BODY" /\ next = "contains"
                          \/ label = "assertion" /\ x = "HEADER" /\ next = "header_name"
                          \/ label = "contains" /\ x = "CONTAINS" /\ next = "string"
                          \/ label = "header_name" /\ x = "IDENT" /\ next = "header_value"

LEMMA ExpectPlace ==
  ASSUME NEW text \in Seq(Kinds), NEW k, NEW c, CaseSoFar(c, text, k, 1),
         Len(c.assertions) \in Nat
  PROVE  LastExpect(text, k) \in 1 .. Len(text)
<1>1. Len(c.assertions) + 1 = Cardinality(Of(text, "EXPECT", k))
  BY DEF CaseSoFar
<1> DEFINE m == Cardinality(Of(text, "EXPECT", k))
<1> HIDE DEF m
<1>2. m \in 1 .. m
  BY <1>1 DEF m
<1>3. Expects(text, k)[m] \in 1 .. Len(text)
  BY <1>2, ExpectsAre DEF m
<1> QED
  BY <1>3 DEF LastExpect, m

LEMMA BegunLater ==
  ASSUME NEW text \in Seq(Kinds), NEW x \in Kinds, NEW e \in 1 .. Len(text),
         NEW label, NEW next, Begun(label, text, e), GoesOn(label, x, next)
  PROVE  Begun(next, Append(text, x), e)
<1> DEFINE t == Append(text, x)
           n == Len(text)
<1>1. Len(t) = n + 1 /\ t[n + 1] = x /\ n \in Nat /\ \A i \in 1 .. n : t[i] = text[i]
  OBVIOUS
<1> HIDE DEF t
<1>2. CASE label = "assertion"
  <2>1. e = n
    BY <1>2 DEF Begun
  <2>2. e = Len(t) - 1 /\ t[e + 1] = x
    BY <1>1, <2>1
  <2> QED
    BY <1>2, <2>2 DEF Begun, GoesOn, t
<1>3. CASE label \in {"contains", "header_name"}
  <2>1. e = n - 1 /\ text[e + 1] = (IF label = "contains" THEN "BODY" ELSE "HEADER")
    BY <1>3 DEF Begun
  <2>2. e + 1 = n /\ n \in 1 .. n
    BY <1>1, <2>1
  <2>3. e = Len(t) - 2 /\ t[e + 1] = (IF label = "contains" THEN "BODY" ELSE "HEADER")
    BY <1>1, <2>1, <2>2
  <2> QED
    BY <1>3, <2>3 DEF Begun, GoesOn, t
<1> QED
  BY <1>2, <1>3 DEF GoesOn

LEMMA ExpectGoesOn ==
  ASSUME NEW text \in Seq(Kinds), NEW x \in Kinds, NEW plan \in Seq(Cases),
         NEW label \in InExpect, NEW next \in InExpect,
         PlanSoFar(label, text, plan), GoesOn(label, x, next)
  PROVE  PlanSoFar(next, Append(text, x), plan)
<1> DEFINE t == Append(text, x)
           m == Len(plan)
<1>0. x \in Plain
  BY DEF GoesOn, Plain, Kinds
<1>1. /\ m \in Nat /\ m > 0 /\ Len(Methods(text)) = m /\ m \in 1 .. m
      /\ Begun(label, text, LastExpect(text, m))
  BY DEF PlanSoFar, Extra, InExpect
<1>2. ASSUME NEW k \in 1 .. m
      PROVE  /\ CaseSoFar(plan[k], t, k, OpenIn(next, plan, k))
             /\ LastExpect(t, k) = LastExpect(text, k)
  <2>1. Spares(text, x, "EXPECT", k) /\ Spares(text, x, "BODY_RAW", k)
    BY <1>0 DEF Spares, Plain
  <2>2. OpenIn(next, plan, k) = OpenIn(label, plan, k)
    BY DEF OpenIn
  <2> QED
    BY <2>1, <2>2, CaseKept
<1>3. LastExpect(text, m) \in 1 .. Len(text)
  <2>1. plan[m] \in Cases /\ OpenIn(label, plan, m) = 1
    BY <1>1 DEF OpenIn
  <2>2. CaseSoFar(plan[m], text, m, 1)
    BY <1>1, <2>1 DEF PlanSoFar
  <2>3. Len(plan[m].assertions) \in Nat
    BY <2>1 DEF Cases
  <2> QED
    BY <2>2, <2>3, ExpectPlace
<1>4. Begun(next, t, LastExpect(t, m))
  <2>1. Begun(next, t, LastExpect(text, m))
    BY <1>1, <1>3, BegunLater
  <2> QED
    BY <1>1, <1>2, <2>1
<1>5. Methods(t) = Methods(text)
  BY <1>0, SamePlaces DEF Plain
<1> HIDE DEF t
<1>6. PlanSoFar(next, t, plan)
  BY <1>1, <1>2, <1>4, <1>5 DEF PlanSoFar, Extra, InExpect
<1> QED
  BY <1>6 DEF t

\* The assertion that a complete expectation becomes.
Becomes(label, n, a) ==
    \/ label = "code"         /\ a = [type |-> "status", from |-> <<n + 1>>]
    \/ label = "string"       /\ a = [type |-> "body",   from |-> <<n + 1>>]
    \/ label = "header_value" /\ a = [type |-> "header", from |-> <<n, n + 1>>]

LEMMA BecomesWhatItSays ==
  ASSUME NEW text \in Seq(Kinds), NEW x \in Kinds, NEW e \in 1 .. Len(text), NEW label,
         Begun(label, text, e), NEW a, Becomes(label, Len(text), a)
  PROVE  Matches(a, Append(text, x), e)
<1> DEFINE t == Append(text, x)
           n == Len(text)
<1>1. Len(t) = n + 1 /\ n \in Nat /\ \A i \in 1 .. n : t[i] = text[i]
  OBVIOUS
<1> HIDE DEF t
<1>2. CASE label = "code"
  <2>1. e = n - 1 /\ text[e + 1] = "STATUS" /\ a = [type |-> "status", from |-> <<n + 1>>]
    BY <1>2 DEF Begun, Becomes
  <2>2. e + 1 \in 1 .. n /\ e + 2 = n + 1 /\ e + 2 <= Len(t)
    BY <1>1, <2>1
  <2>3. t[e + 1] = "STATUS"
    BY <1>1, <2>1, <2>2
  <2>4. Complete(t, e)
    BY <2>2, <2>3 DEF Complete
  <2>5. a = Expectation(t, e)
    BY <2>1, <2>2, <2>3 DEF Expectation
  <2> QED
    BY <2>4, <2>5 DEF Matches, t
<1>3. CASE label = "string"
  <2>1. e = n - 2 /\ text[e + 1] = "BODY" /\ a = [type |-> "body", from |-> <<n + 1>>]
    BY <1>3 DEF Begun, Becomes
  <2>2. e + 1 \in 1 .. n /\ e + 3 = n + 1 /\ e + 3 <= Len(t)
    BY <1>1, <2>1
  <2>3. t[e + 1] = "BODY"
    BY <1>1, <2>1, <2>2
  <2>4. Complete(t, e)
    BY <2>2, <2>3 DEF Complete
  <2>5. a = Expectation(t, e)
    BY <2>1, <2>2, <2>3 DEF Expectation
  <2> QED
    BY <2>4, <2>5 DEF Matches, t
<1>4. CASE label = "header_value"
  <2>1. e = n - 2 /\ text[e + 1] = "HEADER" /\ a = [type |-> "header", from |-> <<n, n + 1>>]
    BY <1>4 DEF Begun, Becomes
  <2>2. e + 1 \in 1 .. n /\ e + 2 = n /\ e + 3 = n + 1 /\ e + 3 <= Len(t)
    BY <1>1, <2>1
  <2>3. t[e + 1] = "HEADER"
    BY <1>1, <2>1, <2>2
  <2>4. Complete(t, e)
    BY <2>2, <2>3 DEF Complete
  <2>5. a = Expectation(t, e)
    BY <2>1, <2>2, <2>3 DEF Expectation
  <2> QED
    BY <2>4, <2>5 DEF Matches, t
<1> QED
  BY <1>2, <1>3, <1>4 DEF Becomes

LEMMA ExpectDone ==
  ASSUME NEW text \in Seq(Kinds), NEW x \in Plain, NEW plan \in Seq(Cases),
         NEW label \in InExpect, PlanSoFar(label, text, plan),
         NEW a \in Assertions, Becomes(label, Len(text), a),
         NEW next, next \notin InExpect \cup {"url"}
  PROVE  PlanSoFar(next, Append(text, x), WithAssertion(plan, Len(plan), a))
<1> DEFINE t   == Append(text, x)
           m   == Len(plan)
           c   == plan[m]
           d   == [c EXCEPT !.assertions = Append(@, a)]
           new == WithAssertion(plan, m, a)
<1>1. /\ m \in Nat /\ m > 0 /\ Len(Methods(text)) = m /\ m \in 1 .. m
      /\ Begun(label, text, LastExpect(text, m)) /\ c \in Cases
  BY DEF PlanSoFar, Extra, InExpect
<1>2. /\ Len(new) = m /\ new[m] = d /\ \A k \in 1 .. m : k # m => new[k] = plan[k]
  <2>1. new = [plan EXCEPT ![m] = d]
    BY <1>1 DEF WithAssertion
  <2>2. m \in DOMAIN plan /\ DOMAIN plan = 1 .. m
    BY <1>1
  <2> HIDE DEF d, new
  <2> QED
    BY <2>1, <2>2
<1>3. ASSUME NEW k \in 1 .. m
      PROVE  /\ CaseSoFar(plan[k], t, k, OpenIn(label, plan, k))
             /\ LastExpect(t, k) = LastExpect(text, k)
  <2>1. Spares(text, x, "EXPECT", k) /\ Spares(text, x, "BODY_RAW", k) /\ x \in Kinds
    BY DEF Spares, Plain
  <2> QED
    BY <2>1, CaseKept
<1> HIDE DEF new, d
<1>4. CaseSoFar(d, t, m, 0)
  <2>1. OpenIn(label, plan, m) = 1
    BY DEF OpenIn
  <2>2. CaseSoFar(c, t, m, 1) /\ CaseSoFar(c, text, m, 1)
    BY <1>1, <1>3, <2>1 DEF PlanSoFar
  <2>3. Len(c.assertions) \in Nat
    BY <1>1 DEF Cases
  <2>4. LastExpect(text, m) \in 1 .. Len(text)
    BY <2>2, <2>3, ExpectPlace
  <2>5. Matches(a, t, LastExpect(text, m))
    BY <1>1, <2>4, BecomesWhatItSays DEF Plain
  <2>6. Matches(a, t, LastExpect(t, m)) /\ t \in Seq(Kinds)
    BY <1>1, <1>3, <2>5 DEF Plain
  <2> HIDE DEF t, c
  <2> QED
    BY <1>1, <2>2, <2>6, ExpectCloses DEF d
<1>5. ASSUME NEW k \in 1 .. m PROVE CaseSoFar(new[k], t, k, OpenIn(next, new, k))
  <2>1. OpenIn(next, new, k) = 0
    BY DEF OpenIn
  <2>2. CASE k = m
    BY <1>2, <1>4, <2>1, <2>2
  <2>3. CASE k # m
    <3>1. OpenIn(label, plan, k) = 0 /\ new[k] = plan[k]
      BY <1>2, <2>3 DEF OpenIn
    <3> QED
      BY <1>3, <2>1, <3>1
  <2> QED
    BY <2>2, <2>3
<1>6. Methods(t) = Methods(text)
  BY SamePlaces DEF Plain
<1> HIDE DEF t
<1>7. PlanSoFar(next, t, new)
  BY <1>1, <1>2, <1>5, <1>6 DEF PlanSoFar, Extra
<1> QED
  BY <1>7 DEF t, new

LEMMA BodyOfPlan ==
  ASSUME NEW text \in Seq(Kinds), NEW plan \in Seq(Cases), Len(plan) # 0,
         NEW label, PlanSoFar(label, text, plan), label \notin InExpect \cup {"url"},
         NEW next, next \notin InExpect \cup {"url"}
  PROVE  PlanSoFar(next, Append(text, "BODY_RAW"), WithBody(plan, Len(plan), Len(text) + 1))
<1> DEFINE t   == Append(text, "BODY_RAW")
           m   == Len(plan)
           c   == plan[m]
           d   == [c EXCEPT !.body = Len(text) + 1]
           new == WithBody(plan, m, Len(text) + 1)
<1>0. "BODY_RAW" \in Kinds /\ "BODY_RAW" \in Kinds \ {"METHOD"}
  BY DEF Kinds
<1>1. m \in Nat /\ m > 0 /\ Len(Methods(text)) = m /\ m \in 1 .. m /\ c \in Cases
  BY DEF PlanSoFar, Extra
<1>2. /\ Len(new) = m /\ new[m] = d /\ \A k \in 1 .. m : k # m => new[k] = plan[k]
  BY <1>1 DEF WithBody
<1>3. CaseSoFar(d, t, m, 0)
  <2>1. OpenIn(label, plan, m) = 0
    BY DEF OpenIn
  <2>2. CaseSoFar(c, text, m, 0)
    BY <1>1, <2>1 DEF PlanSoFar
  <2> HIDE DEF c
  <2> QED
    BY <1>1, <2>2, BodyReplaces
<1> HIDE DEF new, d
<1>4. ASSUME NEW k \in 1 .. m PROVE CaseSoFar(new[k], t, k, OpenIn(next, new, k))
  <2>1. OpenIn(next, new, k) = 0 /\ OpenIn(label, plan, k) = 0
    BY DEF OpenIn
  <2>2. CASE k = m
    BY <1>2, <1>3, <2>1, <2>2
  <2>3. CASE k # m
    <3>1. Spares(text, "BODY_RAW", "EXPECT", k) /\ Spares(text, "BODY_RAW", "BODY_RAW", k)
      BY <1>1, <2>3 DEF Spares
    <3>2. CaseSoFar(plan[k], t, k, OpenIn(label, plan, k))
      BY <1>0, <3>1, CaseKept
    <3> QED
      BY <1>2, <2>1, <2>3, <3>2
  <2> QED
    BY <2>2, <2>3
<1>5. Methods(t) = Methods(text)
  BY <1>0, SamePlaces
<1> HIDE DEF t
<1>6. PlanSoFar(next, t, new)
  BY <1>1, <1>2, <1>4, <1>5 DEF PlanSoFar, Extra
<1> QED
  BY <1>6 DEF t, new

LEMMA PlanOfNothing ==
  ASSUME NEW text \in Seq(Kinds), text = << >>, NEW label, label \notin InExpect \cup {"url"}
  PROVE  PlanSoFar(label, text, << >>)
<1>1. At(text, "METHOD") = {}
  BY DEF At
<1>2. Numbers({}) /\ Cardinality({}) = 0
  BY FS_EmptySet DEF Numbers
<1>3. Len(Sorted({})) = 0
  BY <1>2, SortedIs
<1>4. Methods(text) = Sorted({})
  BY ONLY <1>1 DEF Methods
<1>5. Len(Methods(text)) = 0
  BY <1>3, <1>4
<1> QED
  BY <1>5 DEF PlanSoFar, Extra

-----------------------------------------------------------------------------
(* The plan at every step of the parser *)

\* The parser has a token and has met no error.
Parsing == pc \notin {"file", "create", "unread", "failed", "rejected"}

PlanInv == Parsing => PlanSoFar(pc, Front(seen), cases)

LEMMA TextRead ==
  ASSUME ParserInv, Parsing
  PROVE  /\ Front(seen) \in Seq(Kinds) /\ seen[current] \in Kinds
         /\ seen = Append(Front(seen), seen[current])
         /\ Len(Front(seen)) + 1 = current /\ Len(Front(seen)) = previous
         /\ cases \in Seq(Cases)
<1>1. TokensGood(seen) /\ seen # << >> /\ PlanGood(cases, seen)
  BY DEF ParserInv, TokensKnown, PlaceKnown, Parsing
<1>2. seen \in Seq(Kinds) /\ Len(seen) \in Nat /\ Len(seen) > 0 /\ cases \in Seq(Cases)
  BY <1>1 DEF TokensGood, PlanGood
<1>3. /\ Front(seen) \in Seq(Kinds) /\ Len(Front(seen)) = Len(seen) - 1
      /\ \A i \in 1 .. Len(seen) - 1 : Front(seen)[i] = seen[i]
  BY <1>2, FrontAndLast
<1> DEFINE f == Front(seen)
           x == seen[Len(seen)]
<1>4. x \in Kinds
  BY <1>2
<1> HIDE DEF f, x
<1>5. /\ Append(f, x) \in Seq(Kinds) /\ Len(Append(f, x)) = Len(seen)
      /\ \A i \in 1 .. Len(seen) : Append(f, x)[i] = seen[i]
  <2>1. /\ Append(f, x) \in Seq(Kinds) /\ Len(Append(f, x)) = Len(seen) - 1 + 1
        /\ Append(f, x)[Len(seen) - 1 + 1] = x
        /\ \A i \in 1 .. Len(seen) - 1 : Append(f, x)[i] = f[i]
    BY <1>2, <1>3, <1>4 DEF f
  <2>2. Len(seen) - 1 + 1 = Len(seen)
    BY <1>2
  <2>3. \A i \in 1 .. Len(seen) : i \in 1 .. Len(seen) - 1 \/ i = Len(seen)
    BY <1>2
  <2> QED
    BY <1>3, <2>1, <2>2, <2>3 DEF f, x
<1>6. seen = Append(f, x)
  BY <1>2, <1>5, SeqEqual
<1>7. Len(seen) - 1 + 1 = Len(seen)
  BY <1>2
<1> QED
  BY <1>2, <1>3, <1>4, <1>6, <1>7 DEF f, x, current, previous

LEMMA TextGrows ==
  ASSUME ParserInv, Reading, advance_parser, seen[current] \notin {"ERROR", "EOF"}
  PROVE  Front(seen') = Append(Front(seen), seen[current])
<1>1. Parsing /\ TokensGood(seen) /\ live = Held(seen)
  BY DEF ParserInv, TokensKnown, Parsing, Reading, Ended
<1>2. PICK kind \in Kinds : seen' = Append(seen, kind)
  BY <1>1, Advanced DEF current
<1>3. Front(seen') = seen
  BY <1>1, <1>2, FrontOfAppend DEF TokensGood
<1> QED
  BY <1>1, <1>3, TextRead

LEMMA PlanMoved ==
  ASSUME ParserInv, Reading, advance_parser, seen[current] \notin {"ERROR", "EOF"},
         PlanSoFar(pc', Append(Front(seen), seen[current]), cases')
  PROVE  PlanInv'
BY TextGrows DEF PlanInv

LEMMA PlanStep ==
  ASSUME ParserInv, PlanInv, [Next]_vars
  PROVE  PlanInv'
<1> DEFINE text == Front(seen)
           x    == seen[current]
<1>0. ASSUME pc' = "failed" PROVE PlanInv'
  BY <1>0 DEF PlanInv, Parsing
<1>1. GiveUp => pc' = "failed"
  BY DEF GiveUp, parser_error
<1>2. ASSUME NEW plan, NEW left, NotCopied(plan, left) PROVE pc' = "failed"
  BY <1>2 DEF NotCopied, parser_error
<1>3. Parsing => /\ text \in Seq(Kinds) /\ cases \in Seq(Cases) /\ x \in Kinds
                 /\ Len(text) + 1 = current /\ Len(text) = previous /\ PlanSoFar(pc, text, cases)
  BY TextRead DEF PlanInv
<1>4. current \in Positions \/ ~ Parsing
  BY DEF ParserInv, TokensKnown, PlaceKnown, Parsing, TokensGood, current, Positions
<1> HIDE DEF text
<1>5. CASE read_file
  BY <1>5 DEF read_file, PlanInv, Parsing
<1>6. CASE dsl_parser_create
  <2>1. CASE pc' = "rejected"
    BY <2>1 DEF PlanInv, Parsing
  <2>2. CASE advance_parser /\ pc' = "statement" /\ cases' = cases
    <3>1. Untouched /\ TokensGood(seen) /\ live = Held(seen)
      BY <1>6 DEF dsl_parser_create, ParserInv, PlaceKnown, TokensKnown, Ended
    <3>2. PICK kind \in Kinds : seen' = Append(seen, kind)
      BY <2>2, <3>1, Advanced DEF Untouched
    <3>3. Front(seen') = << >> /\ << >> \in Seq(Kinds)
      BY <3>1, <3>2, FrontOfAppend DEF Untouched, TokensGood
    <3>4. PlanSoFar("statement", << >>, << >>)
      BY <3>3, PlanOfNothing DEF InExpect
    <3> QED
      BY <2>2, <3>1, <3>3, <3>4 DEF PlanInv, Untouched
  <2> QED
    BY <1>6, <2>1, <2>2 DEF dsl_parser_create
<1>7. CASE parse_program
  <2>1. pc = "statement" /\ pc' = "parsed" /\ UNCHANGED <<seen, cases>>
    BY <1>7 DEF parse_program
  <2>2. PlanSoFar("statement", text, cases) => PlanSoFar("parsed", text, cases)
    BY DEF PlanSoFar, OpenIn, Extra, InExpect
  <2> QED
    BY <1>3, <2>1, <2>2 DEF PlanInv, Parsing, text
<1>8. CASE parse_blank \/ parse_request_stmt \/ parse_body_stmt \/ parse_expect_stmt \/ parse_statement_error
  <2>1. pc = "statement" /\ Reading /\ Parsing
    BY <1>8 DEF parse_blank, parse_request_stmt, parse_body_stmt, parse_expect_stmt,
                parse_statement_error, Reading, Parsing, Ended
  <2>2. ASSUME NEW next, ReadOver(next), x \in Plain \ {"ERROR", "EOF"},
               next \notin InExpect \cup {"url"}
        PROVE  PlanInv'
    <3>1. PlanSoFar(next, Append(text, x), cases)
      BY <1>3, <2>1, <2>2, PlainKeepsPlan DEF InExpect
    <3> QED
      BY <2>1, <2>2, <3>1, PlanMoved DEF ReadOver, text
  <2>3. CASE parse_blank
    BY <2>2, <2>3 DEF parse_blank, check, Plain, Kinds, InExpect
  <2>4. CASE parse_request_stmt /\ ReadOver("url")
    <3>1. x = "METHOD"
      BY <2>4 DEF parse_request_stmt, check, GiveUp, ReadOver
    <3>2. PlanSoFar("url", Append(text, x), cases)
      BY <1>3, <2>1, <3>1, MethodOfPlan DEF InExpect
    <3> QED
      BY <2>1, <2>4, <3>1, <3>2, PlanMoved DEF ReadOver, text
  <2>5. CASE parse_body_stmt /\ ReadOver("raw")
    BY <2>2, <2>5 DEF parse_body_stmt, check, Plain, Kinds, InExpect
  <2>6. CASE parse_expect_stmt /\ ReadOver("assertion") /\ last # 0
    <3>1. x = "EXPECT"
      BY <2>6 DEF parse_expect_stmt, check
    <3>2. PlanSoFar("assertion", Append(text, x), cases)
      BY <1>3, <2>1, <2>6, <3>1, ExpectOfPlan DEF InExpect, last
    <3> QED
      BY <2>1, <2>6, <3>1, <3>2, PlanMoved DEF ReadOver, text
  <2>7. CASE GiveUp
    BY <1>0, <1>1, <2>7
  <2>8. CASE ReadOver("failed")
    BY <1>0, <2>8 DEF ReadOver
  <2> QED
    BY <1>8, <2>3, <2>4, <2>5, <2>6, <2>7, <2>8
       DEF parse_request_stmt, parse_body_stmt, parse_expect_stmt, parse_statement_error
<1>9. CASE request_url
  <2>1. pc = "url" /\ Reading /\ Parsing
    BY <1>9 DEF request_url, Reading, Parsing, Ended
  <2>2. CASE /\ check("IDENT") /\ advance_parser
             /\ Copied(current, Append(cases, NewCase(current)), "end_of_line")
    <3>1. x = "IDENT" /\ pc' = "end_of_line" /\ cases' = Append(cases, NewCase(Len(text) + 1))
      BY <1>3, <2>1, <2>2 DEF Copied, check
    <3>2. PlanSoFar("end_of_line", Append(text, x), Append(cases, NewCase(Len(text) + 1)))
      BY <1>3, <1>4, <2>1, <3>1, UrlOfPlan DEF InExpect
    <3> QED
      BY <2>1, <2>2, <3>1, <3>2, PlanMoved DEF text
  <2> QED
    BY <1>0, <1>1, <1>2, <1>9, <2>2 DEF request_url, NewCase
<1>10. CASE body_raw
  <2>1. pc = "raw" /\ Reading /\ Parsing /\ Len(cases) # 0
    BY <1>10 DEF body_raw, Reading, Parsing, Ended, ParserInv, PlaceKnown, last
  <2>2. CASE /\ check("BODY_RAW") /\ advance_parser /\ pc' = "end_of_line"
             /\ cases' = WithBody(cases, Len(cases), current)
    <3>1. x = "BODY_RAW" /\ cases' = WithBody(cases, Len(cases), Len(text) + 1)
      BY <1>3, <2>1, <2>2 DEF check
    <3>2. PlanSoFar("end_of_line", Append(text, x), WithBody(cases, Len(cases), Len(text) + 1))
      BY <1>3, <2>1, <3>1, BodyOfPlan DEF InExpect
    <3> QED
      BY <2>1, <2>2, <3>1, <3>2, PlanMoved DEF text
  <2> QED
    BY <1>0, <1>1, <1>2, <1>10, <2>2 DEF body_raw, WithBody, CaseAbove, last
<1>11. ASSUME NEW next \in InExpect, ReadOver(next), pc \in InExpect, GoesOn(pc, x, next)
       PROVE  PlanInv'
  <2>1. Reading /\ Parsing
    BY <1>11 DEF Reading, Parsing, Ended, InExpect
  <2>2. PlanSoFar(next, Append(text, x), cases)
    BY <1>3, <1>11, <2>1, ExpectGoesOn
  <2>3. x \notin {"ERROR", "EOF"}
    BY <1>11 DEF GoesOn
  <2> QED
    BY <1>11, <2>1, <2>2, <2>3, PlanMoved DEF ReadOver, text
<1>12. ASSUME NEW type, NEW from, pc \in InExpect, x \in Plain \ {"ERROR", "EOF"}, advance_parser,
              pc' = "end_of_line", cases' = Asserting(type, from),
              [type |-> type, from |-> from] \in Assertions,
              Becomes(pc, Len(text), [type |-> type, from |-> from])
       PROVE  PlanInv'
  <2>1. Reading /\ Parsing
    BY <1>12 DEF Reading, Parsing, Ended, InExpect
  <2> DEFINE a == [type |-> type, from |-> from]
  <2>2. cases' = WithAssertion(cases, Len(cases), a)
    BY <1>12 DEF Asserting, WithAssertion, CaseAbove, last
  <2>3. a \in Assertions /\ Becomes(pc, Len(text), a)
    BY <1>12
  <2> HIDE DEF a
  <2>4. PlanSoFar("end_of_line", Append(text, x), WithAssertion(cases, Len(cases), a))
    BY <1>3, <1>12, <2>1, <2>3, ExpectDone DEF InExpect
  <2> QED
    BY <1>12, <2>1, <2>2, <2>4, PlanMoved DEF text
<1>13. CASE parse_assertion
  BY <1>0, <1>1, <1>11, <1>13 DEF parse_assertion, check, GoesOn, InExpect
<1>14. CASE parse_status_assertion
  <2>1. pc = "code" /\ Parsing
    BY <1>14 DEF parse_status_assertion, Parsing
  <2>2. CASE check("INT") /\ advance_parser /\ cases' = Asserting("status", <<current>>) /\ pc' = "end_of_line"
    <3>1. [type |-> "status", from |-> <<current>>] \in Assertions
      BY <1>4, <2>1 DEF Assertions
    <3>2. Becomes(pc, Len(text), [type |-> "status", from |-> <<current>>])
      BY <1>3, <2>1 DEF Becomes
    <3> QED
      BY <1>12, <2>1, <2>2, <3>1, <3>2 DEF check, Plain, Kinds, InExpect
  <2> QED
    BY <1>0, <1>1, <1>14, <2>2 DEF parse_status_assertion
<1>15. CASE parse_body_assertion
  <2>1. pc \in {"contains", "string"} /\ Parsing
    BY <1>15 DEF parse_body_assertion, Parsing
  <2>2. CASE pc = "contains" /\ consume("CONTAINS", "string")
    BY <1>0, <1>1, <1>11, <2>2 DEF consume, check, GoesOn, InExpect
  <2>3. CASE /\ pc = "string" /\ check("STRING") /\ advance_parser
             /\ Copied(current, Asserting("body", <<current>>), "end_of_line")
    <3>1. [type |-> "body", from |-> <<current>>] \in Assertions
      BY <1>4, <2>1 DEF Assertions
    <3>2. Becomes(pc, Len(text), [type |-> "body", from |-> <<current>>])
      BY <1>3, <2>1, <2>3 DEF Becomes
    <3> QED
      BY <1>12, <2>3, <3>1, <3>2 DEF check, Plain, Kinds, InExpect, Copied
  <2> QED
    BY <1>0, <1>1, <1>2, <1>15, <2>2, <2>3 DEF parse_body_assertion
<1>16. CASE parse_header_name
  <2>1. CASE check("IDENT") /\ advance_parser /\ Copied(current, cases, "header_value") /\ pc = "header_name"
    <3>1. PlanSoFar("header_value", Append(text, x), cases)
      BY <1>3, <2>1, ExpectGoesOn DEF GoesOn, InExpect, check, Parsing
    <3> QED
      BY <2>1, <3>1, PlanMoved DEF Copied, text, check, Reading, Ended
  <2> QED
    BY <1>0, <1>1, <1>2, <1>16, <2>1 DEF parse_header_name
<1>17. CASE parse_header_assertion
  <2>1. pc = "header_value" /\ Parsing
    BY <1>17 DEF parse_header_assertion, Parsing
  <2>2. CASE /\ x \in HeaderValues /\ advance_parser
             /\ Copied(current, Asserting("header", <<previous, current>>), "end_of_line")
    <3>1. [type |-> "header", from |-> <<previous, current>>] \in Assertions
      <4>1. previous \in Positions
        BY <2>1 DEF ParserInv, TokensKnown, TokensGood, PlaceKnown, previous, Positions
      <4> QED
        BY <1>4, <2>1, <4>1 DEF Assertions
    <3>2. Becomes(pc, Len(text), [type |-> "header", from |-> <<previous, current>>])
      BY <1>3, <2>1 DEF Becomes
    <3> QED
      BY <1>12, <2>1, <2>2, <3>1, <3>2 DEF HeaderValues, Plain, Kinds, InExpect, Copied
  <2> QED
    BY <1>0, <1>2, <1>17, <2>2 DEF parse_header_assertion, parser_error
<1>18. CASE end_of_line
  <2>1. pc = "end_of_line" /\ Parsing /\ Reading
    BY <1>18 DEF end_of_line, Parsing, Reading, Ended
  <2>2. CASE check("NEWLINE") /\ ReadOver("statement")
    <3>1. x = "NEWLINE" /\ x \in Plain
      BY <2>2 DEF check, Plain, Kinds
    <3>2. PlanSoFar("statement", Append(text, x), cases)
      BY <1>3, <2>1, <3>1, PlainKeepsPlan DEF InExpect
    <3> QED
      BY <2>1, <2>2, <3>1, <3>2, PlanMoved DEF ReadOver, text
  <2>3. CASE pc' = "statement" /\ UNCHANGED <<seen, cases>>
    <3>1. PlanSoFar("end_of_line", text, cases) => PlanSoFar("statement", text, cases)
      BY DEF PlanSoFar, OpenIn, Extra, InExpect
    <3> QED
      BY <1>3, <2>1, <2>3, <3>1 DEF PlanInv, text
  <2> QED
    BY <1>0, <1>1, <1>18, <2>2, <2>3 DEF end_of_line
<1>19. CASE return_plan
  <2>1. pc = "parsed" /\ pc' = "accepted" /\ UNCHANGED <<seen, cases>>
    BY <1>19 DEF return_plan
  <2>2. PlanSoFar("parsed", text, cases) => PlanSoFar("accepted", text, cases)
    BY DEF PlanSoFar, OpenIn, Extra, InExpect
  <2> QED
    BY <1>3, <2>1, <2>2 DEF PlanInv, Parsing, text
<1>20. CASE return_error
  BY <1>20 DEF return_error, PlanInv, Parsing
<1>21. CASE UNCHANGED vars
  BY <1>21 DEF vars, PlanInv, Parsing
<1> QED
  BY <1>5, <1>6, <1>7, <1>8, <1>9, <1>10, <1>13, <1>14, <1>15, <1>16, <1>17, <1>18, <1>19, <1>20,
     <1>21 DEF Next

-----------------------------------------------------------------------------
(* The lines at every step of the parser *)

\* The legal lines, token by token.
Shaped(line) ==
    \/ Len(line) = 0
    \/ Len(line) = 2 /\ line[1] = "METHOD" /\ line[2] = "IDENT"
    \/ Len(line) = 2 /\ line[1] = "BODY_STMT" /\ line[2] = "BODY_RAW"
    \/ Len(line) = 3 /\ line[1] = "EXPECT" /\ line[2] = "STATUS" /\ line[3] = "INT"
    \/ /\ Len(line) = 4 /\ line[1] = "EXPECT" /\ line[2] = "BODY"
       /\ line[3] = "CONTAINS" /\ line[4] = "STRING"
    \/ /\ Len(line) = 4 /\ line[1] = "EXPECT" /\ line[2] = "HEADER"
       /\ line[3] = "IDENT" /\ line[4] \in HeaderValues

LEMMA LineShape ==
  ASSUME NEW line \in LegalLines
  PROVE  line \in Seq(Kinds) /\ Shaped(line)
<1>1. CASE line = << >>
  BY <1>1 DEF Shaped
<1>2. CASE line = <<"METHOD", "IDENT">>
  BY <1>2 DEF Shaped, Kinds
<1>3. CASE line = <<"BODY_STMT", "BODY_RAW">>
  BY <1>3 DEF Shaped, Kinds
<1>4. CASE line = <<"EXPECT", "STATUS", "INT">>
  BY <1>4 DEF Shaped, Kinds
<1>5. CASE line = <<"EXPECT", "BODY", "CONTAINS", "STRING">>
  BY <1>5 DEF Shaped, Kinds
<1>6. ASSUME NEW value \in HeaderValues, line = <<"EXPECT", "HEADER", "IDENT", value>>
      PROVE line \in Seq(Kinds) /\ Shaped(line)
  <2>1. value \in Kinds
    BY DEF HeaderValues, Kinds
  <2> QED
    BY <1>6, <2>1 DEF Shaped, Kinds
<1> QED
  BY <1>1, <1>2, <1>3, <1>4, <1>5, <1>6 DEF LegalLines, HeaderValues

LEMMA ShapedIsLegal ==
  ASSUME NEW line \in Seq(Kinds), Shaped(line)
  PROVE  line \in LegalLines
<1>1. ASSUME NEW other \in Seq(Kinds), Len(other) = Len(line),
             \A i \in 1 .. Len(line) : line[i] = other[i]
      PROVE  line = other
  BY <1>1, SeqEqual
<1>2. CASE Len(line) = 0
  BY <1>2 DEF LegalLines
<1>3. CASE Len(line) = 2 /\ line[1] = "METHOD" /\ line[2] = "IDENT"
  <2> DEFINE other == <<"METHOD", "IDENT">>
  <2>1. other \in Seq(Kinds) /\ Len(other) = 2 /\ other[1] = "METHOD" /\ other[2] = "IDENT"
    BY DEF Kinds
  <2>2. other \in LegalLines
    BY DEF LegalLines
  <2> HIDE DEF other
  <2> QED
    BY <1>1, <1>3, <2>1, <2>2
<1>4. CASE Len(line) = 2 /\ line[1] = "BODY_STMT" /\ line[2] = "BODY_RAW"
  <2> DEFINE other == <<"BODY_STMT", "BODY_RAW">>
  <2>1. other \in Seq(Kinds) /\ Len(other) = 2 /\ other[1] = "BODY_STMT" /\ other[2] = "BODY_RAW"
    BY DEF Kinds
  <2>2. other \in LegalLines
    BY DEF LegalLines
  <2> HIDE DEF other
  <2> QED
    BY <1>1, <1>4, <2>1, <2>2
<1>5. CASE Len(line) = 3 /\ line[1] = "EXPECT" /\ line[2] = "STATUS" /\ line[3] = "INT"
  <2> DEFINE other == <<"EXPECT", "STATUS", "INT">>
  <2>1. /\ other \in Seq(Kinds) /\ Len(other) = 3
        /\ other[1] = "EXPECT" /\ other[2] = "STATUS" /\ other[3] = "INT"
    BY DEF Kinds
  <2>2. other \in LegalLines
    BY DEF LegalLines
  <2> HIDE DEF other
  <2> QED
    BY <1>1, <1>5, <2>1, <2>2
<1>6. CASE /\ Len(line) = 4 /\ line[1] = "EXPECT" /\ line[2] = "BODY"
           /\ line[3] = "CONTAINS" /\ line[4] = "STRING"
  <2> DEFINE other == <<"EXPECT", "BODY", "CONTAINS", "STRING">>
  <2>1. /\ other \in Seq(Kinds) /\ Len(other) = 4
        /\ other[1] = "EXPECT" /\ other[2] = "BODY" /\ other[3] = "CONTAINS" /\ other[4] = "STRING"
    BY DEF Kinds
  <2>2. other \in LegalLines
    BY DEF LegalLines
  <2> HIDE DEF other
  <2> QED
    BY <1>1, <1>6, <2>1, <2>2
<1>7. CASE /\ Len(line) = 4 /\ line[1] = "EXPECT" /\ line[2] = "HEADER"
           /\ line[3] = "IDENT" /\ line[4] \in HeaderValues
  <2> DEFINE other == <<"EXPECT", "HEADER", "IDENT", line[4]>>
  <2>1. /\ other \in Seq(Kinds) /\ Len(other) = 4
        /\ other[1] = "EXPECT" /\ other[2] = "HEADER" /\ other[3] = "IDENT" /\ other[4] = line[4]
    BY <1>7 DEF Kinds, HeaderValues
  <2>2. other \in LegalLines
    BY <1>7 DEF LegalLines, HeaderValues
  <2> HIDE DEF other
  <2> QED
    BY <1>1, <1>7, <2>1, <2>2
<1> QED
  BY <1>2, <1>3, <1>4, <1>5, <1>6, <1>7 DEF Shaped

LEMMA PrefixIs ==
  ASSUME NEW s \in Seq(Kinds), NEW t \in Seq(Kinds), IsPrefix(s, t)
  PROVE  Len(s) <= Len(t) /\ \A i \in 1 .. Len(s) : s[i] = t[i]
<1>1. Len(s) <= Len(t) /\ SubSeq(s, 1, Len(s)) = SubSeq(t, 1, Len(s))
  BY DEF IsPrefix
<1>2. 1 \in Int /\ Len(s) \in Int
  OBVIOUS
<1>3. \A i \in 1 .. Len(s) : SubSeq(s, 1, Len(s))[i] = s[i] /\ SubSeq(t, 1, Len(s))[i] = t[i]
  BY <1>1, <1>2
<1> QED
  BY <1>1, <1>3

\* What has been read of the line when a function reads its next token.
Written(label, line) ==
    LET n == Len(line)
    IN  /\ label = "url" => n = 1 /\ line[1] = "METHOD"
        /\ label = "raw" => n = 1 /\ line[1] = "BODY_STMT"
        /\ label = "assertion" => n = 1 /\ line[1] = "EXPECT"
        /\ label = "code" => n = 2 /\ line[1] = "EXPECT" /\ line[2] = "STATUS"
        /\ label = "contains" => n = 2 /\ line[1] = "EXPECT" /\ line[2] = "BODY"
        /\ label = "string" => /\ n = 3 /\ line[1] = "EXPECT" /\ line[2] = "BODY"
                               /\ line[3] = "CONTAINS"
        /\ label = "header_name" => n = 2 /\ line[1] = "EXPECT" /\ line[2] = "HEADER"
        /\ label = "header_value" => /\ n = 3 /\ line[1] = "EXPECT" /\ line[2] = "HEADER"
                                     /\ line[3] = "IDENT"
        /\ label = "end_of_line" => Shaped(line) /\ n > 0
        /\ label \in {"statement", "parsed", "accepted"} => Shaped(line)

\* No legal text goes on like this.
Misplaced(line, x) ==
    IF x \in {"EOF", "NEWLINE"} THEN line \notin LegalLines
    ELSE \A legal \in LegalLines : ~ IsPrefix(Append(line, x), legal)

\* The last token of a line, and the tokens a function accepts.
EndsWith(label, x) == \/ label = "url" /\ x = "IDENT"
                      \/ label = "raw" /\ x = "BODY_RAW"
                      \/ label = "code" /\ x = "INT"
                      \/ label = "string" /\ x = "STRING"
                      \/ label = "header_value" /\ x \in HeaderValues

Accepts(label, x) ==
    \/ EndsWith(label, x)
    \/ label = "assertion" /\ x \in {"STATUS", "BODY", "HEADER"}
    \/ label = "contains" /\ x = "CONTAINS"
    \/ label = "header_name" /\ x = "IDENT"
    \/ label = "end_of_line" /\ x \in {"NEWLINE", "EOF"}
    \/ label = "statement" /\ x \in {"NEWLINE", "EOF", "METHOD", "BODY_STMT", "EXPECT"}

InLine == InExpect \cup {"url", "raw"}

LEMMA UnexpectedMisplaced ==
  ASSUME NEW line \in Seq(Kinds), NEW x \in Kinds,
         NEW label \in InLine \cup {"end_of_line", "statement"}, Written(label, line),
         label = "statement" => Len(line) = 0, ~ Accepts(label, x)
  PROVE  Misplaced(line, x)
<1> DEFINE n == Len(line)
<1>1. n \in Nat
  OBVIOUS
<1>2. CASE x \in {"EOF", "NEWLINE"}
  <2>1. SUFFICES ASSUME line \in LegalLines PROVE FALSE
    BY <1>2 DEF Misplaced
  <2>2. Shaped(line)
    BY <2>1, LineShape
  <2>3. label \in InLine
    BY <1>2 DEF Accepts
  <2> QED
    BY <2>2, <2>3 DEF Shaped, Written, InLine, InExpect
<1>3. CASE x \notin {"EOF", "NEWLINE"}
  <2>1. SUFFICES ASSUME NEW legal \in LegalLines, IsPrefix(Append(line, x), legal) PROVE FALSE
    BY <1>3 DEF Misplaced
  <2> DEFINE p == Append(line, x)
  <2>2. p \in Seq(Kinds) /\ Len(p) = n + 1 /\ p[n + 1] = x /\ \A i \in 1 .. n : p[i] = line[i]
    OBVIOUS
  <2>3. legal \in Seq(Kinds) /\ Shaped(legal)
    BY LineShape
  <2>4. Len(p) <= Len(legal) /\ \A i \in 1 .. Len(p) : p[i] = legal[i]
    BY <2>1, <2>2, <2>3, PrefixIs
  <2> HIDE DEF p
  <2>5. n + 1 <= Len(legal) /\ legal[n + 1] = x /\ \A i \in 1 .. n : legal[i] = line[i]
    BY <1>1, <2>2, <2>4
  <2>6. Len(legal) \in Nat
    BY <2>3
  <2>7. CASE label = "statement"
    <3>1. n = 0 /\ legal[1] = x /\ Len(legal) >= 1
      BY <1>1, <2>5, <2>6, <2>7
    <3>2. legal[1] \in {"METHOD", "BODY_STMT", "EXPECT"}
      BY <2>3, <3>1 DEF Shaped
    <3> QED
      BY <2>7, <3>1, <3>2 DEF Accepts, EndsWith
  <2>8. CASE label = "url"
    <3>0. n = 1 /\ line[1] = "METHOD"
      BY <2>8 DEF Written
    <3>1. n = 1 /\ legal[1] = "METHOD" /\ legal[2] = x /\ Len(legal) >= 2
      BY <1>1, <2>5, <2>6, <3>0
    <3> QED
      BY <2>3, <2>8, <3>1 DEF Shaped, Accepts, EndsWith
  <2>9. CASE label = "raw"
    <3>0. n = 1 /\ line[1] = "BODY_STMT"
      BY <2>9 DEF Written
    <3>1. n = 1 /\ legal[1] = "BODY_STMT" /\ legal[2] = x /\ Len(legal) >= 2
      BY <1>1, <2>5, <2>6, <3>0
    <3> QED
      BY <2>3, <2>9, <3>1 DEF Shaped, Accepts, EndsWith
  <2>10. CASE label = "assertion"
    <3>0. n = 1 /\ line[1] = "EXPECT"
      BY <2>10 DEF Written
    <3>1. n = 1 /\ legal[1] = "EXPECT" /\ legal[2] = x /\ Len(legal) >= 2
      BY <1>1, <2>5, <2>6, <3>0
    <3> QED
      BY <2>3, <2>10, <3>1 DEF Shaped, Accepts, EndsWith
  <2>11. CASE label \in {"code", "contains", "header_name"}
    <3>1. /\ n = 2 /\ legal[1] = "EXPECT" /\ legal[2] = line[2] /\ legal[3] = x /\ Len(legal) >= 3
      BY <1>1, <2>5, <2>6, <2>11 DEF Written
    <3> QED
      BY <2>3, <2>11, <3>1 DEF Shaped, Accepts, EndsWith, Written
  <2>12. CASE label \in {"string", "header_value"}
    <3>1. /\ n = 3 /\ legal[1] = "EXPECT" /\ legal[2] = line[2] /\ legal[4] = x /\ Len(legal) >= 4
      BY <1>1, <2>5, <2>6, <2>12 DEF Written
    <3> QED
      BY <2>3, <2>12, <3>1 DEF Shaped, Accepts, EndsWith, Written, HeaderValues
  <2>13. CASE label = "end_of_line"
    <3>1. /\ Shaped(line) /\ n > 0 /\ n < Len(legal)
      BY <1>1, <2>5, <2>6, <2>13 DEF Written
    <3>2. n >= 2 /\ legal[1] = line[1] /\ legal[2] = line[2]
      <4>1. n >= 2
        BY <3>1 DEF Shaped
      <4> QED
        BY <1>1, <2>5, <4>1
    <3> QED
      BY <2>3, <3>1, <3>2 DEF Shaped
  <2> QED
    BY <2>7, <2>8, <2>9, <2>10, <2>11, <2>12, <2>13 DEF InLine, InExpect
<1> QED
  BY <1>2, <1>3

\* The line after a token it goes on with.
LEMMA LineGoesOn ==
  ASSUME NEW line \in Seq(Kinds), NEW x \in Kinds, NEW label, Written(label, line),
         NEW next, GoesOn(label, x, next)
  PROVE  Written(next, Append(line, x))
<1> DEFINE n == Len(line)
           p == Append(line, x)
<1>1. n \in Nat /\ Len(p) = n + 1 /\ p[n + 1] = x /\ \A i \in 1 .. n : p[i] = line[i]
  OBVIOUS
<1> HIDE DEF p
<1>2. CASE label = "assertion"
  <2>1. n = 1 /\ line[1] = "EXPECT"
    BY <1>2 DEF Written
  <2>2. Len(p) = 2 /\ p[1] = "EXPECT" /\ p[2] = x
    BY <1>1, <2>1
  <2> QED
    BY <1>2, <2>2 DEF Written, GoesOn, p
<1>3. CASE label = "contains"
  <2>1. n = 2 /\ line[1] = "EXPECT" /\ line[2] = "BODY"
    BY <1>3 DEF Written
  <2>2. Len(p) = 3 /\ p[1] = "EXPECT" /\ p[2] = "BODY" /\ p[3] = x
    BY <1>1, <2>1
  <2> QED
    BY <1>3, <2>2 DEF Written, GoesOn, p
<1>4. CASE label = "header_name"
  <2>1. n = 2 /\ line[1] = "EXPECT" /\ line[2] = "HEADER"
    BY <1>4 DEF Written
  <2>2. Len(p) = 3 /\ p[1] = "EXPECT" /\ p[2] = "HEADER" /\ p[3] = x
    BY <1>1, <2>1
  <2> QED
    BY <1>4, <2>2 DEF Written, GoesOn, p
<1> QED
  BY <1>2, <1>3, <1>4 DEF GoesOn

LEMMA LineEnds ==
  ASSUME NEW line \in Seq(Kinds), NEW x \in Kinds, NEW label, Written(label, line),
         EndsWith(label, x)
  PROVE  Written("end_of_line", Append(line, x))
<1> DEFINE n == Len(line)
           p == Append(line, x)
<1>1. n \in Nat /\ Len(p) = n + 1 /\ p[n + 1] = x /\ \A i \in 1 .. n : p[i] = line[i]
  OBVIOUS
<1> HIDE DEF p
<1>2. CASE label = "url"
  <2>1. n = 1 /\ line[1] = "METHOD"
    BY <1>2 DEF Written
  <2>2. Len(p) = 2 /\ p[1] = "METHOD" /\ p[2] = x
    BY <1>1, <2>1
  <2> QED
    BY <1>2, <2>2 DEF Written, EndsWith, Shaped, p
<1>3. CASE label = "raw"
  <2>1. n = 1 /\ line[1] = "BODY_STMT"
    BY <1>3 DEF Written
  <2>2. Len(p) = 2 /\ p[1] = "BODY_STMT" /\ p[2] = x
    BY <1>1, <2>1
  <2> QED
    BY <1>3, <2>2 DEF Written, EndsWith, Shaped, p
<1>4. CASE label = "code"
  <2>1. n = 2 /\ line[1] = "EXPECT" /\ line[2] = "STATUS"
    BY <1>4 DEF Written
  <2>2. Len(p) = 3 /\ p[1] = "EXPECT" /\ p[2] = "STATUS" /\ p[3] = x
    BY <1>1, <2>1
  <2> QED
    BY <1>4, <2>2 DEF Written, EndsWith, Shaped, p
<1>5. CASE label = "string"
  <2>1. n = 3 /\ line[1] = "EXPECT" /\ line[2] = "BODY" /\ line[3] = "CONTAINS"
    BY <1>5 DEF Written
  <2>2. Len(p) = 4 /\ p[1] = "EXPECT" /\ p[2] = "BODY" /\ p[3] = "CONTAINS" /\ p[4] = x
    BY <1>1, <2>1
  <2> QED
    BY <1>5, <2>2 DEF Written, EndsWith, Shaped, p
<1>6. CASE label = "header_value"
  <2>1. n = 3 /\ line[1] = "EXPECT" /\ line[2] = "HEADER" /\ line[3] = "IDENT"
    BY <1>6 DEF Written
  <2>2. Len(p) = 4 /\ p[1] = "EXPECT" /\ p[2] = "HEADER" /\ p[3] = "IDENT" /\ p[4] = x
    BY <1>1, <2>1
  <2> QED
    BY <1>6, <2>2 DEF Written, EndsWith, Shaped, p
<1> QED
  BY <1>2, <1>3, <1>4, <1>5, <1>6 DEF EndsWith

\* The line that a statement begins.
Starts(x, next) == \/ x = "METHOD"    /\ next = "url"
                   \/ x = "BODY_STMT" /\ next = "raw"
                   \/ x = "EXPECT"    /\ next = "assertion"

LEMMA LineStarts ==
  ASSUME NEW line \in Seq(Kinds), Len(line) = 0, NEW x \in Kinds, NEW next, Starts(x, next)
  PROVE  Written(next, Append(line, x))
<1> DEFINE p == Append(line, x)
<1>1. Len(p) = 1 /\ p[1] = x
  OBVIOUS
<1> HIDE DEF p
<1>2. Written(next, p)
  BY <1>1 DEF Written, Starts
<1> QED
  BY <1>2 DEF p

LinesSoFar(label, text, x) ==
    /\ Finished(text) \subseteq LegalLines
    /\ InContext(text)
    /\ Written(label, OpenLine(text))
    /\ label = "statement" => x = "EOF" \/ Len(OpenLine(text)) = 0
    /\ label \in {"parsed", "accepted"} => x = "EOF"

LEMMA LinesOfWord ==
  ASSUME NEW text \in Seq(Kinds), NEW x \in Kinds \ {"NEWLINE"}, NEW label, NEW y,
         LinesSoFar(label, text, y), Fits(text, x),
         NEW next \in InLine \cup {"end_of_line"}, Written(next, Append(OpenLine(text), x)),
         NEW z
  PROVE  LinesSoFar(next, Append(text, x), z)
<1>1. /\ Finished(Append(text, x)) = Finished(text)
      /\ OpenLine(Append(text, x)) = Append(OpenLine(text), x)
  BY LinesGrow
<1>2. InContext(Append(text, x))
  BY InContextGrows DEF LinesSoFar
<1>3. next \notin {"statement", "parsed", "accepted"}
  BY DEF InLine, InExpect
<1> QED
  BY <1>1, <1>2, <1>3 DEF LinesSoFar

LEMMA LinesOfBreak ==
  ASSUME NEW text \in Seq(Kinds), NEW label, NEW y, LinesSoFar(label, text, y),
         Shaped(OpenLine(text)), NEW z
  PROVE  LinesSoFar("statement", Append(text, "NEWLINE"), z)
<1>0. "NEWLINE" \in Kinds
  BY DEF Kinds
<1>1. /\ Finished(Append(text, "NEWLINE")) = Finished(text) \cup {OpenLine(text)}
      /\ OpenLine(Append(text, "NEWLINE")) = << >>
  BY <1>0, LinesGrow
<1>2. OpenLine(text) \in LegalLines
  BY LinesAre, ShapedIsLegal
<1>3. Fits(text, "NEWLINE")
  BY DEF Fits
<1>4. InContext(Append(text, "NEWLINE"))
  BY <1>0, <1>3, InContextGrows DEF LinesSoFar
<1>5. Len(<< >>) = 0
  OBVIOUS
<1>6. Written("statement", << >>)
  BY <1>5 DEF Written, Shaped
<1> QED
  BY <1>1, <1>2, <1>4, <1>5, <1>6 DEF LinesSoFar

LEMMA LinesOfNone ==
  ASSUME NEW text \in Seq(Kinds), text = << >>, NEW z
  PROVE  LinesSoFar("statement", text, z)
<1>1. Finished(text) = {} /\ OpenLine(text) = << >>
  BY LinesOfNothing
<1>2. Len(<< >>) = 0
  OBVIOUS
<1>3. Written("statement", << >>)
  BY <1>2 DEF Written, Shaped
<1>4. InContext(text)
  <2>1. At(text, "METHOD") = {} /\ At(text, "EXPECT") = {} /\ At(text, "BODY_STMT") = {}
    BY DEF At
  <2>2. Numbers({}) /\ Cardinality({}) = 0
    BY FS_EmptySet DEF Numbers
  <2>3. Len(Sorted({})) = 0 /\ Sorted({}) \in Seq({})
    BY <2>2, SortedIs
  <2>4. Methods(text) = Sorted({})
    BY ONLY <2>1 DEF Methods
  <2>5. Len(Methods(text)) = 0 /\ DOMAIN Methods(text) = {}
    BY <2>3, <2>4
  <2> QED
    BY <2>1, <2>5 DEF InContext
<1> QED
  BY <1>1, <1>2, <1>3, <1>4 DEF LinesSoFar

\* Whether a token still fits can be seen from the plan.
Room(plan, x) ==
    /\ x = "METHOD" => Len(plan) < MaxCases
    /\ x \in {"EXPECT", "BODY_STMT"} => Len(plan) > 0
    /\ x = "EXPECT" => Len(plan[Len(plan)].assertions) < MaxAssertions

LEMMA FitsIsRoom ==
  ASSUME NEW text \in Seq(Kinds), NEW plan \in Seq(Cases), NEW label,
         label \notin InExpect \cup {"url"}, PlanSoFar(label, text, plan), NEW x
  PROVE  Fits(text, x) <=> Room(plan, x)
<1>1. Len(plan) \in Nat /\ Len(Methods(text)) = Len(plan)
  BY DEF PlanSoFar, Extra
<1>2. ASSUME Len(plan) > 0
      PROVE  Cardinality(Of(text, "EXPECT", Len(plan))) = Len(plan[Len(plan)].assertions)
  <2> DEFINE m == Len(plan)
             c == plan[m]
  <2>1. m \in 1 .. m /\ c \in Cases /\ OpenIn(label, plan, m) = 0
    BY <1>1, <1>2 DEF OpenIn
  <2>2. CaseSoFar(c, text, m, 0)
    BY <2>1 DEF PlanSoFar
  <2>3. Len(c.assertions) \in Nat
    BY <2>1 DEF Cases
  <2> HIDE DEF c, m
  <2>4. Len(c.assertions) + 0 = Cardinality(Of(text, "EXPECT", m))
    BY <2>2 DEF CaseSoFar
  <2>5. Len(c.assertions) = Cardinality(Of(text, "EXPECT", m))
    BY <2>3, <2>4
  <2> QED
    BY <2>5 DEF c, m
<1> QED
  BY <1>1, <1>2 DEF Fits, Room

-----------------------------------------------------------------------------
(* Texts that no legal file begins with *)

Refused(s) == IF Last(s) = "EOF" THEN ~ Legal(Front(s)) ELSE ~ Viable(s)

LEMMA MisplacedRefused ==
  ASSUME NEW text \in Seq(Kinds), NEW x \in Kinds, Misplaced(OpenLine(text), x)
  PROVE  Refused(Append(text, x))
<1> DEFINE t == Append(text, x)
<1>1. Front(t) = text /\ Last(t) = x
  BY FrontOfAppend
<1>2. CASE x = "EOF"
  <2>1. OpenLine(text) \notin LegalLines
    BY <1>2 DEF Misplaced
  <2>2. OpenLine(text) \in Range(Lines(text))
    BY LinesAre
  <2>3. ~ Legal(text)
    BY <2>1, <2>2 DEF Legal
  <2> HIDE DEF t
  <2>4. Refused(t)
    BY <1>1, <1>2, <2>3 DEF Refused
  <2> QED
    BY <2>4 DEF t
<1>3. CASE x = "NEWLINE"
  <2>1. OpenLine(text) \notin LegalLines
    BY <1>3 DEF Misplaced
  <2>2. OpenLine(text) \in Finished(t)
    BY <1>3, LinesGrow
  <2> HIDE DEF t
  <2>3. ~ Viable(t)
    BY <2>1, <2>2 DEF Viable, Finished
  <2>4. Refused(t)
    BY <1>1, <1>3, <2>3 DEF Refused
  <2> QED
    BY <2>4 DEF t
<1>4. CASE x \notin {"EOF", "NEWLINE"}
  <2>1. \A legal \in LegalLines : ~ IsPrefix(Append(OpenLine(text), x), legal)
    BY <1>4 DEF Misplaced
  <2>2. OpenLine(t) = Append(OpenLine(text), x)
    BY <1>4, LinesGrow
  <2> HIDE DEF t
  <2>3. ~ Viable(t)
    BY <2>1, <2>2 DEF Viable, OpenLine
  <2>4. Refused(t)
    BY <1>1, <1>4, <2>3 DEF Refused
  <2> QED
    BY <2>4 DEF t
<1> QED
  BY <1>2, <1>3, <1>4

LEMMA UnfitRefused ==
  ASSUME NEW text \in Seq(Kinds), NEW x \in Kinds, ~ Fits(text, x)
  PROVE  /\ ~ InContext(Append(text, x))
         /\ Refused(Append(text, x))
         /\ \A y \in Kinds : Refused(Append(Append(text, x), y))
<1> DEFINE t == Append(text, x)
<1>1. ~ InContext(t) /\ t \in Seq(Kinds)
  BY InContextGrows
<1>2. Last(t) = x /\ x # "EOF"
  BY FrontOfAppend DEF Fits
<1> HIDE DEF t
<1>3. Refused(t)
  BY <1>1, <1>2 DEF Refused, Viable
<1>4. ASSUME NEW y \in Kinds PROVE Refused(Append(t, y))
  <2> DEFINE u == Append(t, y)
  <2>1. ~ InContext(u) /\ Front(u) = t /\ Last(u) = y
    BY <1>1, InContextGrows, FrontOfAppend
  <2> HIDE DEF u
  <2>2. Refused(u)
    BY <1>1, <2>1 DEF Refused, Viable, Legal
  <2> QED
    BY <2>2 DEF u
<1> QED
  BY <1>1, <1>3, <1>4 DEF t

-----------------------------------------------------------------------------
(* The lines and the refusals at every step of the parser *)

LineInv    == Parsing => LinesSoFar(pc, Front(seen), seen[current])
RefusalInv == pc \in {"failed", "rejected"} /\ ~ outOfMemory => Refused(seen)

LEMMA LineMoved ==
  ASSUME ParserInv, Reading, advance_parser, seen[current] \notin {"ERROR", "EOF"},
         \A z : LinesSoFar(pc', Append(Front(seen), seen[current]), z),
         pc' \notin {"failed", "rejected"}
  PROVE  LineInv' /\ RefusalInv'
<1>1. Front(seen') = Append(Front(seen), seen[current])
  BY TextGrows
<1>2. LinesSoFar(pc', Front(seen'), seen'[current'])
  BY <1>1
<1> QED
  BY <1>2 DEF LineInv, RefusalInv

LEMMA LineStep ==
  ASSUME ParserInv, PlanInv, LineInv, RefusalInv, [Next]_vars
  PROVE  LineInv' /\ RefusalInv'
<1> DEFINE text == Front(seen)
           x    == seen[current]
           line == OpenLine(text)
<1>1. Parsing => /\ text \in Seq(Kinds) /\ cases \in Seq(Cases) /\ x \in Kinds
                 /\ seen = Append(text, x)
                 /\ PlanSoFar(pc, text, cases) /\ LinesSoFar(pc, text, x)
                 /\ line \in Seq(Kinds) /\ Written(pc, line)
  <2>1. SUFFICES ASSUME Parsing PROVE line \in Seq(Kinds) /\ Written(pc, line)
    BY TextRead DEF PlanInv, LineInv
  <2>2. text \in Seq(Kinds) /\ LinesSoFar(pc, text, x)
    BY <2>1, TextRead DEF LineInv
  <2> QED
    BY <2>2, LinesAre DEF LinesSoFar
<1>2. ASSUME pc' \in {"failed", "rejected"}, outOfMemory' = TRUE PROVE LineInv' /\ RefusalInv'
  BY <1>2 DEF LineInv, RefusalInv, Parsing
<1>3. ASSUME pc' \in {"failed", "rejected"}, Refused(seen') PROVE LineInv' /\ RefusalInv'
  BY <1>3 DEF LineInv, RefusalInv, Parsing
<1>4. ASSUME NEW plan, NEW left, NotCopied(plan, left) PROVE pc' = "failed" /\ outOfMemory' = TRUE
  BY <1>4 DEF NotCopied, parser_error
<1>5. GiveUp => pc' = "failed" /\ seen' = seen
  BY DEF GiveUp, parser_error
<1> HIDE DEF text, line
<1>6. ASSUME Reading, advance_parser, x \in Kinds \ {"NEWLINE", "ERROR", "EOF"}, Fits(text, x),
             pc' \in InLine \cup {"end_of_line"}, Written(pc', Append(line, x))
      PROVE  LineInv' /\ RefusalInv'
  <2>1. Parsing
    BY <1>6 DEF Reading, Parsing, Ended
  <2>2. text \in Seq(Kinds) /\ LinesSoFar(pc, text, x) /\ x \in Kinds \ {"NEWLINE"}
    BY <1>1, <1>6, <2>1
  <2> DEFINE next == pc'
  <2>3. next \in InLine \cup {"end_of_line"} /\ Written(next, Append(OpenLine(text), x))
    BY <1>6 DEF line
  <2>4. next \notin {"failed", "rejected"}
    BY <2>3 DEF InLine, InExpect
  <2> HIDE DEF next
  <2>5. ASSUME NEW z PROVE LinesSoFar(next, Append(text, x), z)
    <3>1. Fits(text, x)
      BY <1>6
    <3> QED
      BY ONLY <2>2, <2>3, <3>1, LinesOfWord
  <2> QED
    BY <1>6, <2>4, <2>5, LineMoved DEF next, text
<1>7. ASSUME pc \in InLine \cup {"end_of_line", "statement"}, ~ Accepts(pc, x),
             seen' = seen, pc' = "failed"
      PROVE  LineInv' /\ RefusalInv'
  <2>1. Parsing
    BY <1>7 DEF Parsing, InLine, InExpect
  <2>2. pc = "statement" => Len(line) = 0
    BY <1>1, <1>7, <2>1 DEF LinesSoFar, Accepts, line
  <2> DEFINE label == pc
  <2>3. /\ label \in InLine \cup {"end_of_line", "statement"} /\ ~ Accepts(label, x)
        /\ Written(label, line)
        /\ label = "statement" => Len(line) = 0
        /\ line \in Seq(Kinds) /\ x \in Kinds /\ text \in Seq(Kinds)
    BY <1>1, <1>7, <2>1, <2>2
  <2> HIDE DEF label, x
  <2>4. Misplaced(line, x)
    BY <2>3, UnexpectedMisplaced
  <2>5. Refused(seen')
    BY <1>1, <1>7, <2>1, <2>3, <2>4, MisplacedRefused DEF line, x
  <2> QED
    BY <1>3, <1>7, <2>5
<1>8. ASSUME Parsing, ~ Fits(text, x), pc' = "failed",
             seen' = seen \/ \E y \in Kinds : seen' = Append(seen, y)
      PROVE  LineInv' /\ RefusalInv'
  <2>1. Refused(seen')
    BY <1>1, <1>8, UnfitRefused
  <2> QED
    BY <1>3, <1>8, <2>1
<1>9. CASE read_file
  BY <1>9 DEF read_file, LineInv, RefusalInv, Parsing
<1>10. CASE dsl_parser_create
  <2>1. CASE pc' = "rejected" /\ outOfMemory' = TRUE
    BY <1>2, <2>1
  <2>2. CASE advance_parser /\ pc' = "statement"
    <3>1. Untouched /\ TokensGood(seen) /\ live = Held(seen)
      BY <1>10 DEF dsl_parser_create, ParserInv, PlaceKnown, TokensKnown, Ended
    <3>2. PICK kind \in Kinds : seen' = Append(seen, kind)
      BY <2>2, <3>1, Advanced DEF Untouched
    <3>3. Front(seen') = << >> /\ << >> \in Seq(Kinds)
      BY <3>1, <3>2, FrontOfAppend DEF Untouched, TokensGood
    <3>4. LinesSoFar("statement", << >>, seen'[current'])
      BY <3>3, LinesOfNone
    <3> QED
      BY <2>2, <3>3, <3>4 DEF LineInv, RefusalInv
  <2> QED
    BY <1>10, <2>1, <2>2 DEF dsl_parser_create
<1>11. CASE parse_program
  <2>1. pc = "statement" /\ x = "EOF" /\ pc' = "parsed" /\ seen' = seen
    BY <1>11 DEF parse_program, check
  <2>2. LinesSoFar("statement", text, x)
    BY <1>1, <2>1 DEF Parsing
  <2>3. LinesSoFar("parsed", text, x)
    BY <2>1, <2>2 DEF LinesSoFar, Written
  <2>4. current' = current
    BY <2>1 DEF current
  <2> QED
    BY <2>1, <2>3, <2>4 DEF LineInv, RefusalInv, text
<1>12. CASE parse_blank \/ parse_request_stmt \/ parse_body_stmt \/ parse_expect_stmt \/ parse_statement_error
  <2>1. pc = "statement" /\ Reading /\ Parsing
    BY <1>12 DEF parse_blank, parse_request_stmt, parse_body_stmt, parse_expect_stmt,
                 parse_statement_error, Reading, Parsing, Ended
  <2>2. PlanSoFar("statement", text, cases) /\ cases \in Seq(Cases) /\ text \in Seq(Kinds)
    BY <1>1, <2>1
  <2>3. Fits(text, x) <=> Room(cases, x)
    BY <2>2, FitsIsRoom DEF InExpect
  <2>4. Len(cases) \in Nat
    BY <2>2
  <2>5. ASSUME NEW next, Starts(x, next), Room(cases, x), ReadOver(next)
        PROVE  LineInv' /\ RefusalInv'
    <3>1. x # "EOF" /\ x \in Kinds \ {"NEWLINE", "ERROR", "EOF"} /\ next \in InLine
      BY <2>5 DEF Starts, Kinds, InLine, InExpect
    <3>2. line \in Seq(Kinds) /\ Len(line) = 0
      BY <1>1, <2>1, <3>1 DEF LinesSoFar, line
    <3>3. Written(next, Append(line, x))
      BY <2>5, <3>1, <3>2, LineStarts
    <3> QED
      BY <1>6, <2>1, <2>3, <2>5, <3>1, <3>3 DEF ReadOver
  <2>6. CASE parse_blank
    <3>1. x = "NEWLINE" /\ ReadOver("statement")
      BY <2>6 DEF parse_blank, check
    <3>2. LinesSoFar("statement", text, x) /\ Shaped(OpenLine(text))
      BY <1>1, <2>1 DEF LinesSoFar, Written
    <3>3. \A z : LinesSoFar("statement", Append(text, x), z)
      BY <2>2, <3>1, <3>2, LinesOfBreak
    <3> QED
      BY <2>1, <3>1, <3>3, LineMoved DEF ReadOver, text
  <2>7. CASE parse_request_stmt
    <3>1. x = "METHOD"
      BY <2>7 DEF parse_request_stmt, check
    <3>2. Room(cases, x) <=> CaseFits
      BY <3>1 DEF Room, CaseFits, last
    <3>3. CASE CaseFits /\ ReadOver("url")
      BY <2>5, <3>1, <3>2, <3>3 DEF Starts
    <3>4. CASE ~ CaseFits /\ GiveUp
      BY <1>5, <1>8, <2>1, <2>3, <3>2, <3>4
    <3> QED
      BY <2>7, <3>3, <3>4 DEF parse_request_stmt
  <2>8. CASE parse_body_stmt
    <3>1. x = "BODY_STMT"
      BY <2>8 DEF parse_body_stmt, check
    <3>2. Room(cases, x) <=> last # 0
      BY <2>4, <3>1 DEF Room, last
    <3>3. CASE last # 0 /\ ReadOver("raw")
      BY <2>5, <3>1, <3>2, <3>3 DEF Starts
    <3>4. CASE last = 0 /\ GiveUp
      BY <1>5, <1>8, <2>1, <2>3, <3>2, <3>4
    <3> QED
      BY <2>8, <3>3, <3>4 DEF parse_body_stmt
  <2>9. CASE parse_expect_stmt
    <3>1. x = "EXPECT"
      BY <2>9 DEF parse_expect_stmt, check
    <3>2. Room(cases, x) <=> last # 0 /\ ExpectFits
      BY <2>4, <3>1 DEF Room, last, ExpectFits
    <3>3. CASE last # 0 /\ ExpectFits /\ ReadOver("assertion")
      BY <2>5, <3>1, <3>2, <3>3 DEF Starts
    <3>4. CASE last # 0 /\ ~ ExpectFits /\ ReadOver("failed")
      <4>1. \E y \in Kinds : seen' = Append(seen, y)
        <5>1. TokensGood(seen) /\ live = Held(seen)
          BY <2>1 DEF ParserInv, TokensKnown, Ended
        <5> QED
          BY <3>1, <3>4, <5>1, Advanced DEF ReadOver, current
      <4> QED
        BY <1>8, <2>1, <2>3, <3>2, <3>4, <4>1 DEF ReadOver
    <3>5. CASE last = 0 /\ GiveUp
      BY <1>5, <1>8, <2>1, <2>3, <3>2, <3>5
    <3> QED
      BY <2>9, <3>3, <3>4, <3>5 DEF parse_expect_stmt
  <2>10. CASE parse_statement_error
    <3>1. ~ Accepts(pc, x) /\ GiveUp
      BY <2>1, <2>10 DEF parse_statement_error, Accepts, EndsWith
    <3> QED
      BY <1>5, <1>7, <2>1, <3>1
  <2> QED
    BY <1>12, <2>6, <2>7, <2>8, <2>9, <2>10
<1>13. ASSUME pc \in InLine, advance_parser, pc' = "end_of_line", EndsWith(pc, x)
       PROVE  LineInv' /\ RefusalInv'
  <2>1. Reading /\ Parsing
    BY <1>13 DEF Reading, Parsing, Ended, InLine, InExpect
  <2>2. x \in Kinds \ {"NEWLINE", "ERROR", "EOF", "METHOD", "BODY_STMT", "EXPECT"}
    BY <1>13 DEF EndsWith, HeaderValues, Kinds
  <2>3. Fits(text, x)
    BY <2>2 DEF Fits
  <2> DEFINE label == pc
  <2>4. line \in Seq(Kinds) /\ Written(label, line) /\ EndsWith(label, x)
    BY <1>1, <1>13, <2>1
  <2> HIDE DEF label
  <2>5. Written("end_of_line", Append(line, x))
    BY <2>2, <2>4, LineEnds
  <2> QED
    BY <1>6, <1>13, <2>1, <2>2, <2>3, <2>5
<1>14. ASSUME pc \in InLine, advance_parser, NEW next, pc' = next, GoesOn(pc, x, next)
       PROVE  LineInv' /\ RefusalInv'
  <2>1. Reading /\ Parsing
    BY <1>14 DEF Reading, Parsing, Ended, InLine, InExpect
  <2>2. x \in Kinds \ {"NEWLINE", "ERROR", "EOF", "METHOD", "BODY_STMT", "EXPECT"} /\ next \in InLine
    BY <1>14 DEF GoesOn, Kinds, InLine, InExpect
  <2>3. Fits(text, x)
    BY <2>2 DEF Fits
  <2> DEFINE label == pc
  <2>4. line \in Seq(Kinds) /\ Written(label, line) /\ GoesOn(label, x, next)
    BY <1>1, <1>14, <2>1
  <2> HIDE DEF label
  <2>5. Written(next, Append(line, x))
    BY <2>2, <2>4, LineGoesOn
  <2> QED
    BY <1>6, <1>14, <2>1, <2>2, <2>3, <2>5
<1>15. CASE request_url
  <2>1. pc = "url"
    BY <1>15 DEF request_url
  <2>2. CASE check("IDENT") /\ advance_parser /\ pc' = "end_of_line"
    BY <1>13, <2>1, <2>2 DEF check, EndsWith, InLine
  <2>3. CASE ~ check("IDENT") /\ GiveUp
    BY <1>5, <1>7, <2>1, <2>3 DEF check, Accepts, EndsWith, InLine
  <2> QED
    BY <1>2, <1>4, <1>15, <2>2, <2>3 DEF request_url, Copied
<1>16. CASE body_raw
  <2>1. pc = "raw"
    BY <1>16 DEF body_raw
  <2>2. CASE check("BODY_RAW") /\ advance_parser /\ pc' = "end_of_line"
    BY <1>13, <2>1, <2>2 DEF check, EndsWith, InLine
  <2>3. CASE ~ check("BODY_RAW") /\ GiveUp
    BY <1>5, <1>7, <2>1, <2>3 DEF check, Accepts, EndsWith, InLine
  <2> QED
    BY <1>2, <1>4, <1>16, <2>2, <2>3 DEF body_raw
<1>17. CASE parse_assertion
  <2>1. pc = "assertion"
    BY <1>17 DEF parse_assertion
  <2>2. ASSUME NEW next, GoesOn(pc, x, next), ReadOver(next) PROVE LineInv' /\ RefusalInv'
    BY <1>14, <2>1, <2>2 DEF ReadOver, InLine, InExpect
  <2>3. CASE x \notin {"STATUS", "BODY", "HEADER"} /\ GiveUp
    BY <1>5, <1>7, <2>1, <2>3 DEF Accepts, EndsWith, InLine, InExpect
  <2> QED
    BY <1>17, <2>1, <2>2, <2>3 DEF parse_assertion, check, GoesOn
<1>18. CASE parse_status_assertion
  <2>1. pc = "code"
    BY <1>18 DEF parse_status_assertion
  <2>2. CASE check("INT") /\ advance_parser /\ pc' = "end_of_line"
    BY <1>13, <2>1, <2>2 DEF check, EndsWith, InLine, InExpect
  <2>3. CASE ~ check("INT") /\ GiveUp
    BY <1>5, <1>7, <2>1, <2>3 DEF check, Accepts, EndsWith, InLine, InExpect
  <2> QED
    BY <1>18, <2>2, <2>3 DEF parse_status_assertion
<1>19. CASE parse_body_assertion
  <2>1. CASE pc = "contains" /\ consume("CONTAINS", "string")
    <3>1. CASE check("CONTAINS") /\ ReadOver("string")
      BY <1>14, <2>1, <3>1 DEF check, GoesOn, ReadOver, InLine, InExpect
    <3>2. CASE ~ check("CONTAINS") /\ GiveUp
      BY <1>5, <1>7, <2>1, <3>2 DEF check, Accepts, EndsWith, InLine, InExpect
    <3> QED
      BY <2>1, <3>1, <3>2 DEF consume
  <2>2. CASE pc = "string" /\ check("STRING") /\ advance_parser /\ pc' = "end_of_line"
    BY <1>13, <2>2 DEF check, EndsWith, InLine, InExpect
  <2>3. CASE pc = "string" /\ ~ check("STRING") /\ GiveUp
    BY <1>5, <1>7, <2>3 DEF check, Accepts, EndsWith, InLine, InExpect
  <2> QED
    BY <1>2, <1>4, <1>19, <2>1, <2>2, <2>3 DEF parse_body_assertion, Copied
<1>20. CASE parse_header_name
  <2>1. pc = "header_name"
    BY <1>20 DEF parse_header_name
  <2>2. CASE check("IDENT") /\ advance_parser /\ pc' = "header_value"
    BY <1>14, <2>1, <2>2 DEF check, GoesOn, InLine, InExpect
  <2>3. CASE ~ check("IDENT") /\ GiveUp
    BY <1>5, <1>7, <2>1, <2>3 DEF check, Accepts, EndsWith, InLine, InExpect
  <2> QED
    BY <1>2, <1>4, <1>20, <2>2, <2>3 DEF parse_header_name, Copied
<1>21. CASE parse_header_assertion
  <2>1. pc = "header_value"
    BY <1>21 DEF parse_header_assertion
  <2>2. CASE x \in HeaderValues /\ advance_parser /\ pc' = "end_of_line"
    BY <1>13, <2>1, <2>2 DEF EndsWith, InLine, InExpect
  <2>3. CASE x \notin HeaderValues /\ parser_error /\ seen' = seen
    BY <1>7, <2>1, <2>3 DEF parser_error, Accepts, EndsWith, InLine, InExpect
  <2> QED
    BY <1>2, <1>4, <1>21, <2>2, <2>3 DEF parse_header_assertion, Copied
<1>22. CASE end_of_line
  <2>1. pc = "end_of_line" /\ Parsing /\ Reading
    BY <1>22 DEF end_of_line, Parsing, Reading, Ended
  <2>2. LinesSoFar("end_of_line", text, x) /\ Shaped(OpenLine(text)) /\ text \in Seq(Kinds)
    BY <1>1, <2>1 DEF LinesSoFar, Written
  <2>3. CASE x = "NEWLINE" /\ ReadOver("statement")
    <3>1. \A z : LinesSoFar("statement", Append(text, x), z)
      BY <2>2, <2>3, LinesOfBreak
    <3> QED
      BY <2>1, <2>3, <3>1, LineMoved DEF ReadOver, text
  <2>4. CASE x = "EOF" /\ pc' = "statement" /\ seen' = seen
    <3>1. LinesSoFar("statement", text, x)
      BY <2>2, <2>4 DEF LinesSoFar, Written
    <3>2. current' = current
      BY <2>4 DEF current
    <3> QED
      BY <2>4, <3>1, <3>2 DEF LineInv, RefusalInv, text
  <2>5. CASE x \notin {"NEWLINE", "EOF"} /\ GiveUp
    BY <1>5, <1>7, <2>1, <2>5 DEF Accepts, EndsWith
  <2> QED
    BY <1>22, <2>3, <2>4, <2>5 DEF end_of_line, check
<1>23. CASE return_plan
  <2>1. pc = "parsed" /\ pc' = "accepted" /\ seen' = seen
    BY <1>23 DEF return_plan
  <2>2. LinesSoFar("parsed", text, x)
    BY <1>1, <2>1 DEF Parsing
  <2>3. LinesSoFar("accepted", text, x)
    BY <2>2 DEF LinesSoFar, Written
  <2>4. current' = current
    BY <2>1 DEF current
  <2> QED
    BY <2>1, <2>3, <2>4 DEF LineInv, RefusalInv, text
<1>24. CASE return_error
  BY <1>24 DEF return_error, LineInv, RefusalInv, Parsing
<1>25. CASE UNCHANGED vars
  BY <1>25 DEF vars, LineInv, RefusalInv, Parsing, current
<1> QED
  BY <1>9, <1>10, <1>11, <1>12, <1>15, <1>16, <1>17, <1>18, <1>19, <1>20, <1>21, <1>22, <1>23, <1>24,
     <1>25 DEF Next

-----------------------------------------------------------------------------
(* What follows for the file and its plan *)

LEMMA GrammarInvariant == Spec => [](PlanInv /\ LineInv /\ RefusalInv)
<1>1. Init => PlanInv /\ LineInv /\ RefusalInv
  BY DEF Init, PlanInv, LineInv, RefusalInv, Parsing
<1>2. ParserInv /\ (PlanInv /\ LineInv /\ RefusalInv) /\ [Next]_vars => (PlanInv /\ LineInv /\ RefusalInv)'
  BY PlanStep, LineStep
<1> QED
  BY <1>1, <1>2, ParserInvariant, PTL DEF Spec

LEMMA RecognizesIs ==
  ASSUME ParserInv, LineInv, RefusalInv
  PROVE  Recognizes
<1> DEFINE text == Front(seen)
           x    == seen[current]
<1>1. Last(seen) = x
  BY DEF Last, current
<1>2. Parsing => text \in Seq(Kinds) /\ LinesSoFar(pc, text, x)
  BY TextRead DEF LineInv
<1>3. ASSUME pc \in {"statement", "parsed", "accepted"}, Parsing
      PROVE  /\ Finished(text) \subseteq LegalLines /\ InContext(text)
             /\ OpenLine(text) \in LegalLines /\ OpenLine(text) \in Seq(Kinds)
             /\ Range(Lines(text)) = Finished(text) \cup {OpenLine(text)}
  <2>1. text \in Seq(Kinds) /\ LinesSoFar(pc, text, x)
    BY <1>2, <1>3
  <2>2. Shaped(OpenLine(text)) /\ OpenLine(text) \in Seq(Kinds)
    BY <1>3, <2>1, LinesAre DEF LinesSoFar, Written
  <2> QED
    BY <2>1, <2>2, LinesAre, ShapedIsLegal DEF LinesSoFar
<1> HIDE DEF text, x
<1>4. ASSUME pc = "statement" PROVE Viable(text)
  <2>1. IsPrefix(OpenLine(text), OpenLine(text))
    BY <1>3, <1>4 DEF IsPrefix, Parsing
  <2> QED
    BY <1>3, <1>4, <2>1 DEF Viable, Finished, OpenLine, Parsing
<1>5. ASSUME pc = "accepted" PROVE x = "EOF" /\ Legal(text)
  <2>1. Parsing
    BY <1>5 DEF Parsing
  <2> QED
    BY <1>2, <1>3, <1>5, <2>1 DEF Legal, LinesSoFar
<1> QED
  BY <1>1, <1>4, <1>5 DEF Recognizes, RefusalInv, Refused, text

LEMMA PlanIsTextIs ==
  ASSUME ParserInv, PlanInv
  PROVE  PlanIsText
<1> SUFFICES ASSUME pc \in {"statement", "parsed", "accepted"} PROVE cases = Plan(Front(seen))
  BY DEF PlanIsText
<1>1. Parsing /\ pc \notin InExpect \cup {"url"}
  BY DEF Parsing, InExpect
<1> DEFINE label == pc
           text  == Front(seen)
<1>2. /\ text \in Seq(Kinds) /\ cases \in Seq(Cases) /\ PlanSoFar(label, text, cases)
      /\ label \notin InExpect \cup {"url"}
  BY <1>1, TextRead DEF PlanInv
<1> HIDE DEF label, text
<1>3. cases = Plan(text)
  BY <1>2, PlanIs
<1> QED
  BY <1>3 DEF text

\* The parser accepts exactly the legal files, whatever their length and
\* whatever the limits of the plan, and refuses one no later than at the
\* first token with which no legal file goes on (dsl_parser.c).
THEOREM AcceptsTheLanguage == Spec => []Recognizes
<1>1. ParserInv /\ (PlanInv /\ LineInv /\ RefusalInv) => Recognizes
  BY RecognizesIs
<1> QED
  BY <1>1, ParserInvariant, GrammarInvariant, PTL

\* The plan of a file of any length is the one its lines stand for: every
\* body and expectation is in the case above it, in order and with the texts
\* of its own tokens (dsl_parser.c: parse_request_stmt,
\* parse_body_stmt, parse_expect_stmt).
THEOREM PlanIsTheText == Spec => []PlanIsText
<1>1. ParserInv /\ (PlanInv /\ LineInv /\ RefusalInv) => PlanIsText
  BY PlanIsTextIs
<1> QED
  BY <1>1, ParserInvariant, GrammarInvariant, PTL

=============================================================================
