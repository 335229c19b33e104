------------------------------ MODULE GetProofs ------------------------------
(***************************************************************************)
(* What GetCommand promises for any command line, server and bounds: the   *)
(* buffers of a transfer, who owns the texts of the expectations, which    *)
(* command lines are taken, what an expectation says of a body or a header *)
(* line, and that the exit code tells the truth.                           *)
(***************************************************************************)
EXTENDS GetCommand, FiniteSetTheorems, SequenceTheorems, WellFoundedInduction, TLAPS

USE CapacityAssumption, ServerAssumption

-----------------------------------------------------------------------------
(* The search of assertion.c *)

\* bytes_contains, which compares at every offset the lengths allow, finds a
\* needle exactly if it is some part of the body: none at the very end is
\* missed, and none behind the end is found.
THEOREM SearchIsInfix ==
  ASSUME NEW h \in Text, NEW n \in Text
  PROVE  bytes_contains(h, n) <=> IsInfix(n, h)
<1> USE DEF Text
<1>1. Len(h) \in Nat /\ Len(n) \in Nat
  BY LenProperties
<1>2. ASSUME n = <<>> PROVE IsInfix(n, h)
  <2>1. SubSeq(h, 1, 0) = <<>>
    BY SubSeqEmpty
  <2> QED
    BY <1>1, <1>2, <2>1 DEF IsInfix
<1>3. ASSUME NEW i \in Offsets(h, n), ComparesEqual(h, i, n), Len(h) >= Len(n)
      PROVE  IsInfix(n, h)
  <2>1. i \in 0 .. Len(h) /\ i + Len(n) \in 0 .. Len(h) /\ i <= i + Len(n)
    BY <1>1, <1>3 DEF Offsets
  <2>2. SubSeq(h, i + 1, i + Len(n)) = n
    BY <1>3 DEF ComparesEqual
  <2> QED
    BY <2>1, <2>2 DEF IsInfix
<1>4. ASSUME NEW i \in 0 .. Len(h), NEW j \in 0 .. Len(h), i <= j, SubSeq(h, i + 1, j) = n, n # <<>>
      PROVE  Len(h) >= Len(n) /\ i \in Offsets(h, n) /\ ComparesEqual(h, i, n)
  <2>1. Len(n) = IF i + 1 <= j THEN j - (i + 1) + 1 ELSE 0
    <3>1. \A k \in i + 1 .. j : h[k] \in Byte
      BY <1>1, ElementOfSeq
    <3> QED
      BY <1>1, <1>4, <3>1, SubSeqProperties
  <2>2. j = i + Len(n)
    BY <1>1, <1>4, <2>1
  <2> QED
    BY <1>1, <1>4, <2>2 DEF Offsets, ComparesEqual
<1> QED
  BY <1>2, <1>3, <1>4 DEF bytes_contains, IsInfix

-----------------------------------------------------------------------------
(* The buffers *)

LEMMA MaxSize ==
  ASSUME NEW a \in Nat, NEW b \in Nat, NEW c \in Nat
  PROVE  /\ max_size(a, b, c) \in {a, b, c}
         /\ a <= max_size(a, b, c) /\ b <= max_size(a, b, c) /\ c <= max_size(a, b, c)
BY DEF max_size

\* A buffer that was at most twice what it held, or the minimum, is so again,
\* and has room.
LEMMA GrownFits ==
  ASSUME NEW capacity \in Nat, NEW needed \in Nat, NEW required \in Nat, needed <= required,
         capacity <= max_size(INITIAL_CAPACITY, 2 * needed, 0)
  PROVE  /\ Grown(capacity, required) \in Nat
         /\ required <= Grown(capacity, required)
         /\ Grown(capacity, required) <= max_size(INITIAL_CAPACITY, 2 * required, 0)
<1>1. CASE required > capacity
  <2>1. capacity * 2 \in Nat /\ capacity * 2 <= 2 * required
    BY <1>1
  <2>2. Grown(capacity, required) = max_size(INITIAL_CAPACITY, capacity * 2, required)
    BY <1>1 DEF Grown
  <2> QED
    BY <2>1, <2>2, CapacityAssumption DEF max_size
<1>2. CASE required <= capacity
  BY <1>2, CapacityAssumption DEF Grown, max_size
<1> QED
  BY <1>1, <1>2

Buffers == /\ body \in Text /\ body_capacity \in Nat
           /\ headers \in Text /\ headers_capacity \in Nat
           /\ BuffersFit

LEMMA AppendedText ==
  ASSUME NEW t \in Text, NEW l \in Text
  PROVE  /\ Appended(t, l) \in Text /\ Len(Appended(t, l)) = Len(t) + Len(l)
         /\ Len(t) \in Nat /\ Len(l) \in Nat
BY ConcatProperties, LenProperties DEF Appended, Text

LEMMA InitBuffers == TransferInit => Buffers
<1> SUFFICES ASSUME TransferInit PROVE Buffers
  OBVIOUS
<1>1. <<>> \in Text /\ Len(<<>>) = 0
  BY EmptySeq DEF Text
<1> QED
  BY <1>1, CapacityAssumption DEF TransferInit, Buffers, BuffersFit, max_size

LEMMA HeadersGrow ==
  ASSUME Buffers, NEW l \in HeaderLines, header_callback(l)
  PROVE  Buffers'
<1>1. l \in Text /\ headers \in Text /\ headers_capacity \in Nat
  BY ServerAssumption DEF Buffers, IsLine
<1>2. /\ Appended(headers, l) \in Text /\ Len(Appended(headers, l)) = Len(headers) + Len(l)
      /\ Len(headers) \in Nat /\ Len(l) \in Nat
  BY <1>1, AppendedText
<1>3. /\ HeadersRequired(l) \in Nat /\ Len(headers) + 1 <= HeadersRequired(l)
      /\ HeadersRequired(l) = Len(Appended(headers, l)) + 1
  BY <1>2 DEF HeadersRequired
<1>4. headers_capacity <= max_size(INITIAL_CAPACITY, 2 * (Len(headers) + 1), 0)
  BY DEF Buffers, BuffersFit
<1>5. /\ Grown(headers_capacity, HeadersRequired(l)) \in Nat
      /\ HeadersRequired(l) <= Grown(headers_capacity, HeadersRequired(l))
      /\ Grown(headers_capacity, HeadersRequired(l))
            <= max_size(INITIAL_CAPACITY, 2 * HeadersRequired(l), 0)
  <2>1. Len(headers) + 1 \in Nat
    BY <1>2
  <2> QED
    BY <1>1, <1>3, <1>4, <2>1, GrownFits
<1>6. headers' = Appended(headers, l) /\ headers_capacity' = Grown(headers_capacity, HeadersRequired(l))
      /\ body' = body /\ body_capacity' = body_capacity
  BY DEF header_callback, bodyVars
<1> QED
  BY <1>2, <1>3, <1>5, <1>6 DEF Buffers, BuffersFit

LEMMA BodyGrows ==
  ASSUME Buffers, NEW c \in Chunks, write_callback(c)
  PROVE  Buffers'
<1>1. c \in Text /\ body \in Text /\ body_capacity \in Nat
  BY ServerAssumption DEF Buffers
<1>2. /\ Appended(body, c) \in Text /\ Len(Appended(body, c)) = Len(body) + Len(c)
      /\ Len(body) \in Nat /\ Len(c) \in Nat
  BY <1>1, AppendedText
<1>3. /\ BodyRequired(c) \in Nat /\ Len(body) <= BodyRequired(c)
      /\ BodyRequired(c) = Len(Appended(body, c))
  BY <1>2 DEF BodyRequired
<1>4. body_capacity <= max_size(INITIAL_CAPACITY, 2 * Len(body), 0)
  BY DEF Buffers, BuffersFit
<1>5. /\ Grown(body_capacity, BodyRequired(c)) \in Nat
      /\ BodyRequired(c) <= Grown(body_capacity, BodyRequired(c))
      /\ Grown(body_capacity, BodyRequired(c)) <= max_size(INITIAL_CAPACITY, 2 * BodyRequired(c), 0)
  BY <1>1, <1>2, <1>3, <1>4, GrownFits
<1>6. body' = Appended(body, c) /\ body_capacity' = Grown(body_capacity, BodyRequired(c))
      /\ headers' = headers /\ headers_capacity' = headers_capacity
  BY DEF write_callback, headerVars
<1> QED
  BY <1>2, <1>3, <1>5, <1>6 DEF Buffers, BuffersFit

LEMMA NextBuffers == Buffers /\ [TransferNext]_transferVars => Buffers'
<1> SUFFICES ASSUME Buffers, [TransferNext]_transferVars PROVE Buffers'
  OBVIOUS
<1>1. ASSUME UNCHANGED <<bodyVars, headerVars>> PROVE Buffers'
  BY <1>1 DEF bodyVars, headerVars, Buffers, BuffersFit
<1>2. ASSUME OutOfMemory PROVE Buffers'
  BY <1>1, <1>2 DEF OutOfMemory, header_callback_fails, write_callback_fails
<1>3. ASSUME TransferStep PROVE Buffers'
  BY <1>1, <1>3, HeadersGrow, BodyGrows DEF TransferStep, HeadersEnd, TransferBreaks, TransferEnds
<1> QED
  BY <1>1, <1>2, <1>3 DEF TransferNext, transferVars

-----------------------------------------------------------------------------
(* What was received *)

SoFar == /\ headers \in Text /\ body \in Text /\ sentHeaders \in Text /\ sentBody \in Text
         /\ phase # "ended" => headers = sentHeaders /\ body = sentBody /\ result = "none"
         /\ Received

LEMMA PrefixOfMore ==
  ASSUME NEW t \in Text, NEW l \in Text
  PROVE  t \o l \in Text /\ IsPrefix(t, t) /\ IsPrefix(t, t \o l)
<1> USE DEF Text
<1>1. Len(t) \in Nat /\ Len(l) \in Nat
  BY LenProperties
<1>2. t \o l \in Seq(Byte) /\ Len(t \o l) = Len(t) + Len(l)
  BY ConcatProperties
<1>3. SubSeq(t, 1, Len(t)) = SubSeq(t \o l, 1, Len(t))
  <2>1. \A i \in 1 .. Len(t) : t[i] \in Byte /\ (t \o l)[i] = t[i]
    BY <1>1, ConcatProperties, ElementOfSeq
  <2>2. /\ SubSeq(t, 1, Len(t)) \in Seq(Byte) /\ SubSeq(t \o l, 1, Len(t)) \in Seq(Byte)
        /\ Len(SubSeq(t, 1, Len(t))) = Len(SubSeq(t \o l, 1, Len(t)))
        /\ \A i \in 1 .. Len(SubSeq(t, 1, Len(t))) :
              SubSeq(t, 1, Len(t))[i] = SubSeq(t \o l, 1, Len(t))[i]
    BY <1>1, <2>1
  <2> QED
    BY <2>2, SeqEqual
<1> QED
  BY <1>1, <1>2, <1>3 DEF IsPrefix

LEMMA InitSoFar == TransferInit => SoFar
<1> SUFFICES ASSUME TransferInit PROVE SoFar
  OBVIOUS
<1>1. <<>> \in Text
  BY EmptySeq DEF Text
<1> QED
  BY <1>1, PrefixOfMore DEF TransferInit, SoFar, Received

\* A callback that fails ends the transfer: what it was given is the first
\* piece that is missing, and nothing comes after it.
LEMMA StopsSoFar ==
  ASSUME SoFar, OutOfMemory
  PROVE  SoFar'
<1>1. ASSUME NEW l \in HeaderLines, header_callback_fails(l) PROVE SoFar'
  <2>1. l \in Text /\ headers \in Text /\ body \in Text
    BY ServerAssumption DEF SoFar, IsLine
  <2>2. /\ phase # "ended" /\ sentHeaders' = sentHeaders \o l /\ sentBody' = sentBody
        /\ headers' = headers /\ body' = body
        /\ phase' = "ended" /\ result' = "curl_error"
    BY <1>1 DEF header_callback_fails, SendLine, Broken, bodyVars, headerVars
  <2>3. headers = sentHeaders /\ body = sentBody
    BY <2>2 DEF SoFar
  <2> QED
    BY <2>1, <2>2, <2>3, PrefixOfMore DEF SoFar, Received
<1>2. ASSUME NEW c \in Chunks, write_callback_fails(c) PROVE SoFar'
  <2>1. c \in Text /\ headers \in Text /\ body \in Text
    BY ServerAssumption DEF SoFar
  <2>2. /\ phase # "ended" /\ sentBody' = sentBody \o c /\ sentHeaders' = sentHeaders
        /\ headers' = headers /\ body' = body
        /\ phase' = "ended" /\ result' = "curl_error"
    BY <1>2 DEF write_callback_fails, SendChunk, Broken, bodyVars, headerVars
  <2>3. headers = sentHeaders /\ body = sentBody
    BY <2>2 DEF SoFar
  <2> QED
    BY <2>1, <2>2, <2>3, PrefixOfMore DEF SoFar, Received
<1> QED
  BY <1>1, <1>2 DEF OutOfMemory

LEMMA StepsSoFar ==
  ASSUME SoFar, TransferStep
  PROVE  SoFar'
<1>1. ASSUME NEW l \in HeaderLines, header_callback(l) PROVE SoFar'
  <2>1. l \in Text /\ headers \in Text /\ body \in Text
    BY ServerAssumption DEF SoFar, IsLine
  <2>2. /\ phase # "ended" /\ sentHeaders' = sentHeaders \o l /\ sentBody' = sentBody
        /\ headers' = headers \o l /\ body' = body /\ phase' = phase /\ result' = result
    BY <1>1 DEF header_callback, SendLine, Appended, bodyVars, endVars
  <2>3. headers = sentHeaders /\ body = sentBody /\ result = "none"
    BY <2>2 DEF SoFar
  <2> QED
    BY <2>1, <2>2, <2>3, PrefixOfMore DEF SoFar, Received
<1>2. ASSUME NEW c \in Chunks, write_callback(c) PROVE SoFar'
  <2>1. c \in Text /\ headers \in Text /\ body \in Text
    BY ServerAssumption DEF SoFar
  <2>2. /\ phase # "ended" /\ sentBody' = sentBody \o c /\ sentHeaders' = sentHeaders
        /\ headers' = headers /\ body' = body \o c /\ phase' = phase /\ result' = result
    BY <1>2 DEF write_callback, SendChunk, Appended, headerVars, endVars
  <2>3. headers = sentHeaders /\ body = sentBody /\ result = "none"
    BY <2>2 DEF SoFar
  <2> QED
    BY <2>1, <2>2, <2>3, PrefixOfMore DEF SoFar, Received
<1>3. ASSUME (\E code \in StatusCodes : HeadersEnd(code)) \/ TransferBreaks \/ TransferEnds
      PROVE  SoFar'
  <2>1. /\ phase # "ended" /\ UNCHANGED <<headers, body, sentHeaders, sentBody>>
        /\ phase' # "ended" => result' = result
    BY <1>3 DEF HeadersEnd, TransferBreaks, TransferEnds, Broken, bodyVars, headerVars, endVars, sent
  <2>2. headers = sentHeaders /\ body = sentBody /\ result = "none"
    BY <2>1 DEF SoFar
  <2> QED
    BY <2>1, <2>2, PrefixOfMore DEF SoFar, Received
<1> QED
  BY <1>1, <1>2, <1>3 DEF TransferStep

LEMMA NextSoFar == SoFar /\ [TransferNext]_transferVars => SoFar'
<1> SUFFICES ASSUME SoFar, [TransferNext]_transferVars PROVE SoFar'
  OBVIOUS
<1>1. CASE UNCHANGED transferVars
  BY <1>1 DEF transferVars, bodyVars, headerVars, endVars, sent, SoFar, Received
<1> QED
  BY <1>1, StopsSoFar, StepsSoFar DEF TransferNext

\* The status of the response is that of the server when the transfer ended
\* well, and else the 0 of calloc.
Coded == /\ phase # "ended" => result = "none" /\ status_code = 0
         /\ phase = "ended" => \/ result = "ok" /\ status_code = sentStatus
                               \/ result = "curl_error" /\ status_code = 0

LEMMA InitCoded == TransferInit => Coded
BY DEF TransferInit, Coded

LEMMA NextCoded == Coded /\ [TransferNext]_transferVars => Coded'
<1> SUFFICES ASSUME Coded, [TransferNext]_transferVars PROVE Coded'
  OBVIOUS
<1>1. ASSUME phase # "ended", Broken PROVE Coded'
  BY <1>1 DEF Broken, Coded
<1>2. ASSUME NEW l \in HeaderLines, header_callback(l) PROVE Coded'
  BY <1>2 DEF header_callback, SendLine, endVars, Coded
<1>3. ASSUME NEW c \in Chunks, write_callback(c) PROVE Coded'
  BY <1>3 DEF write_callback, SendChunk, endVars, Coded
<1>4. CASE OutOfMemory
  BY <1>1, <1>4 DEF OutOfMemory, header_callback_fails, write_callback_fails, SendLine, SendChunk
<1>5. ASSUME NEW code, HeadersEnd(code) PROVE Coded'
  BY <1>5 DEF HeadersEnd, endVars, Coded
<1>6. CASE TransferBreaks
  BY <1>1, <1>6 DEF TransferBreaks
<1>7. CASE TransferEnds
  BY <1>7 DEF TransferEnds, sent, Coded
<1>8. CASE UNCHANGED transferVars
  BY <1>8 DEF transferVars, endVars, sent, Coded
<1> QED
  BY <1>2, <1>3, <1>4, <1>5, <1>6, <1>7, <1>8 DEF TransferNext, TransferStep

-----------------------------------------------------------------------------
(* The transfer is a part of get *)

LEMMA GetTransfers == [Next]_vars => [TransferNext]_transferVars
<1> SUFFICES ASSUME [Next]_vars PROVE [TransferNext]_transferVars
  OBVIOUS
<1> USE DEF AddAssertion, Refuse, Idle
<1>1. CASE OptionStatus \/ OptionBody \/ OptionHex \/ OptionHeader \/ ParseFails \/ HexFails
  BY <1>1 DEF OptionStatus, OptionBody, OptionHex, OptionHeader, ParseFails, HexFails
<1>2. CASE Dispatch \/ PlanFails \/ MakePlan \/ CopyAssertion \/ CopyFails \/ StartRun
  BY <1>2 DEF Dispatch, PlanFails, MakePlan, CopyAssertion, CopyFails, StartRun
<1>3. CASE Answered \/ AnsweredEarlier \/ NoAnswer \/ FreePlan \/ FreeOptions
  BY <1>3 DEF Answered, AnsweredEarlier, Judge, NoAnswer, FreePlan, FreeOptions
<1>4. CASE RunTransfer
  BY <1>4 DEF RunTransfer, TransferNext
<1>5. CASE UNCHANGED vars
  BY <1>5 DEF vars
<1> QED
  BY <1>1, <1>2, <1>3, <1>4, <1>5 DEF Next

\* write_callback and header_callback stay within what they allocated, the NUL
\* behind the headers included, whatever the server sends in pieces of any
\* size and whichever realloc fails; and no buffer is more than twice what it
\* has to hold.
THEOREM BuffersAlwaysFit == Spec => []BuffersFit
<1>1. Init => Buffers
  BY InitBuffers DEF Init
<1>2. Buffers /\ [Next]_vars => Buffers'
  BY NextBuffers, GetTransfers
<1>3. Buffers => BuffersFit
  BY DEF Buffers
<1> QED
  BY <1>1, <1>2, <1>3, PTL DEF Spec

\* What a response holds is what the server sent, all of it unless the transfer
\* broke off, and a prefix of it then.
THEOREM ReceivedInOrder == Spec => []Received
<1>1. Init => SoFar
  BY InitSoFar DEF Init
<1>2. SoFar /\ [Next]_vars => SoFar'
  BY NextSoFar, GetTransfers
<1>3. SoFar => Received
  BY DEF SoFar
<1> QED
  BY <1>1, <1>2, <1>3, PTL DEF Spec

-----------------------------------------------------------------------------
(* Who owns the texts of the expectations *)

Types      == {"status", "body", "header"}
OfOptions  == {"hex"} \X Nat
OfPlan     == {"bytes", "name", "value"} \X Nat
Texts      == PlanTexts \cup {<<"response", 0>>}

\* An assertion whose texts are such objects.
Owns(a, objects) == /\ DOMAIN a = {"type", "expected", "holds"}
                    /\ a.type \in Types
                    /\ a.holds \subseteq objects

IsSeq(s) == \E S : s \in Seq(S)

\* The options hold texts of parse_hex_bytes, the plan texts of its own, and
\* besides the texts of the plan nothing else is allocated.
Owned == /\ IsSeq(assertions) /\ \A j \in DOMAIN assertions : Owns(assertions[j], OfOptions)
         /\ IsSeq(plan) /\ \A j \in DOMAIN plan : Owns(plan[j], OfPlan)
         /\ pc \in {"parsing", "planning", "copying", "running", "cleanup", "freeing", "done"}
         /\ pc \in {"parsing", "planning", "freeing"} => plan = <<>> /\ live = Holds(assertions)
         /\ pc \in {"copying", "running", "cleanup"} =>
               /\ Holds(assertions) \cup Holds(plan) \subseteq live
               /\ live \subseteq Holds(assertions) \cup Holds(plan) \cup Texts
         /\ pc = "done" => plan = <<>> /\ live = {}

LEMMA HoldsNothing == Holds(<<>>) = {}
BY DEF Holds

LEMMA HoldsAppended ==
  ASSUME NEW s, IsSeq(s), NEW a
  PROVE  /\ IsSeq(Append(s, a))
         /\ Holds(Append(s, a)) = Holds(s) \cup a.holds
         /\ \A objects : (\A j \in DOMAIN s : Owns(s[j], objects)) /\ Owns(a, objects)
                           => \A j \in DOMAIN Append(s, a) : Owns(Append(s, a)[j], objects)
<1>1. PICK S : s \in Seq(S)
  BY DEF IsSeq
<1>2. s \in Seq(S \cup {a})
  BY <1>1, SeqMonotonic
<1>3. Append(s, a) \in Seq(S \cup {a})
  BY <1>2
<1>4. /\ Len(s) \in Nat /\ DOMAIN s = 1 .. Len(s) /\ DOMAIN Append(s, a) = 1 .. Len(s) + 1
      /\ \A j \in 1 .. Len(s) : Append(s, a)[j] = s[j]
      /\ Append(s, a)[Len(s) + 1] = a
  BY <1>2
<1>5. DOMAIN Append(s, a) = DOMAIN s \cup {Len(s) + 1}
  BY <1>4
<1>6. Holds(Append(s, a)) = Holds(s) \cup a.holds
  BY <1>4, <1>5 DEF Holds
<1> QED
  BY <1>3, <1>4, <1>5, <1>6 DEF IsSeq

\* The texts of options and plan are different objects, and none is one of the
\* texts of the plan itself.
LEMMA HoldsApart ==
  ASSUME Owned
  PROVE  /\ Holds(assertions) \cap Holds(plan) = {}
         /\ Holds(assertions) \cap Texts = {}
<1>1. Holds(assertions) \subseteq OfOptions /\ Holds(plan) \subseteq OfPlan
  BY DEF Owned, Owns, Holds
<1>2. OfOptions \cap OfPlan = {} /\ OfOptions \cap Texts = {}
  BY DEF OfOptions, OfPlan, Texts, PlanTexts
<1> QED
  BY <1>1, <1>2

LEMMA OwnedImplies == Owned => OwnedOnce
<1> SUFFICES ASSUME Owned PROVE OwnedOnce
  OBVIOUS
<1>1. pc # "done" => Holds(assertions) \cup Holds(plan) \subseteq live
  BY HoldsNothing DEF Owned
<1> QED
  BY <1>1, HoldsApart DEF OwnedOnce, Owned

LEMMA InitOwned == Init => Owned
<1> SUFFICES ASSUME Init PROVE Owned
  OBVIOUS
<1>1. IsSeq(<<>>) /\ DOMAIN <<>> = {}
  <2>1. <<>> \in Seq({})
    OBVIOUS
  <2> QED
    BY <2>1 DEF IsSeq
<1> QED
  BY <1>1, HoldsNothing DEF Init, Owned

LEMMA AddOwned ==
  ASSUME Owned, pc = "parsing",
         NEW type \in Types, NEW expected, NEW objects \in SUBSET OfOptions, NEW words,
         AddAssertion(type, expected, objects, words)
  PROVE  Owned'
<1> DEFINE a == [type |-> type, expected |-> expected, holds |-> objects]
<1>1. Owns(a, OfOptions) /\ a.holds = objects
  BY DEF Owns
<1>2. /\ assertions' = Append(assertions, a) /\ live' = live \cup objects
      /\ pc' = pc /\ plan' = plan
  BY DEF AddAssertion
<1> HIDE DEF a
<1>3. IsSeq(assertions) /\ \A j \in DOMAIN assertions : Owns(assertions[j], OfOptions)
  BY DEF Owned
<1>4. /\ IsSeq(assertions') /\ \A j \in DOMAIN assertions' : Owns(assertions'[j], OfOptions)
      /\ Holds(assertions') = Holds(assertions) \cup objects
  BY <1>1, <1>2, <1>3, HoldsAppended
<1> QED
  BY <1>2, <1>4 DEF Owned, Holds

LEMMA ParseOwned ==
  ASSUME Owned, OptionStatus \/ OptionBody \/ OptionHex \/ OptionHeader
  PROVE  Owned'
<1>1. Len(assertions) \in Nat
  BY LenProperties DEF Owned, IsSeq
<1>2. {<<"hex", Len(assertions) + 1>>} \in SUBSET OfOptions /\ {} \in SUBSET OfOptions
  BY <1>1 DEF OfOptions
<1>3. pc = "parsing"
  BY DEF OptionStatus, OptionBody, OptionHex, OptionHeader, Parsing
<1> QED
  BY <1>2, <1>3, AddOwned DEF OptionStatus, OptionBody, OptionHex, OptionHeader, Types

\* A text appended to the plan with objects of its own.
LEMMA CopyOwned ==
  ASSUME Owned, pc = "copying", pc' = pc, assertions' = assertions,
         NEW a, NEW objects \in SUBSET OfPlan,
         DOMAIN a = {"type", "expected", "holds"}, a.type \in Types, a.holds = objects,
         plan' = Append(plan, a), live' = live \cup objects
  PROVE  Owned'
<1>1. Owns(a, OfPlan)
  BY DEF Owns
<1>2. IsSeq(plan) /\ \A j \in DOMAIN plan : Owns(plan[j], OfPlan)
  BY DEF Owned
<1>3. /\ IsSeq(plan') /\ \A j \in DOMAIN plan' : Owns(plan'[j], OfPlan)
      /\ Holds(plan') = Holds(plan) \cup objects
  BY <1>1, <1>2, HoldsAppended
<1> QED
  BY <1>3 DEF Owned, Holds

LEMMA ToCopyOwned ==
  ASSUME Owned, Copying
  PROVE  /\ Owns(ToCopy, OfOptions) /\ Len(plan) + 1 \in Nat
         /\ Copies(ToCopy, Len(plan) + 1) \subseteq OfPlan
<1>1. Len(plan) \in Nat /\ Len(assertions) \in Nat /\ DOMAIN assertions = 1 .. Len(assertions)
  BY LenProperties DEF Owned, IsSeq
<1>2. Owns(ToCopy, OfOptions)
  BY <1>1 DEF Copying, ToCopy, Owned
<1> QED
  BY <1>1, <1>2 DEF Owns, Types, Copies, OfPlan

LEMMA CopyAssertionOwned == Owned /\ CopyAssertion => Owned'
<1> SUFFICES ASSUME Owned, CopyAssertion PROVE Owned'
  OBVIOUS
<1> DEFINE made == Copies(ToCopy, Len(plan) + 1)
           a    == [ToCopy EXCEPT !.holds = made]
<1>1. Copying /\ pc = "copying"
  BY DEF CopyAssertion, Copying
<1>2. made \in SUBSET OfPlan
  BY <1>1, ToCopyOwned
<1>3. plan' = Append(plan, a) /\ live' = live \cup made /\ pc' = pc /\ assertions' = assertions
  BY DEF CopyAssertion, Idle
<1> HIDE DEF made
<1>4. DOMAIN a = {"type", "expected", "holds"} /\ a.type \in Types /\ a.holds = made
  BY <1>1, ToCopyOwned DEF Owns
<1> QED
  BY <1>1, <1>2, <1>3, <1>4, CopyOwned

LEMMA CopyFailsOwned == Owned /\ CopyFails => Owned'
<1> SUFFICES ASSUME Owned, CopyFails PROVE Owned'
  OBVIOUS
<1>1. Copying /\ pc = "copying" /\ pc' = pc /\ assertions' = assertions
  BY DEF CopyFails, Copying, Idle
<1>2. Owns(ToCopy, OfOptions) /\ Copies(ToCopy, Len(plan) + 1) \subseteq OfPlan
  BY <1>1, ToCopyOwned
<1>3. PICK e, kept : /\ kept \in SUBSET Copies(ToCopy, Len(plan) + 1)
                     /\ plan' = Append(plan, [ToCopy EXCEPT !.expected = e, !.holds = kept])
                     /\ live' = live \cup kept
  BY DEF CopyFails
<1> DEFINE a == [ToCopy EXCEPT !.expected = e, !.holds = kept]
<1>4. DOMAIN a = {"type", "expected", "holds"} /\ a.type \in Types /\ a.holds = kept
  BY <1>2 DEF Owns
<1>5. plan' = Append(plan, a) /\ live' = live \cup kept /\ kept \in SUBSET OfPlan
  BY <1>2, <1>3
<1> HIDE DEF a
<1> QED
  BY <1>1, <1>4, <1>5, CopyOwned

LEMMA PlanOwned == Owned /\ (PlanFails \/ MakePlan) => Owned'
<1> SUFFICES ASSUME Owned, PlanFails \/ MakePlan PROVE Owned'
  OBVIOUS
<1>1. /\ pc = "planning" /\ pc' \in {"cleanup", "copying"}
      /\ plan' = plan /\ assertions' = assertions
      /\ live \subseteq live' /\ live' \subseteq live \cup PlanTexts
  BY DEF PlanFails, MakePlan, Goto, Idle
<1> QED
  BY <1>1, HoldsNothing DEF Owned, Holds, Texts

LEMMA RunOwned == Owned /\ (StartRun \/ RunTransfer \/ Answered \/ AnsweredEarlier \/ NoAnswer) => Owned'
<1> SUFFICES ASSUME Owned, StartRun \/ RunTransfer \/ Answered \/ AnsweredEarlier \/ NoAnswer
             PROVE  Owned'
  OBVIOUS
<1>1. /\ pc \in {"copying", "running"} /\ pc' \in {"running", "cleanup"}
      /\ plan' = plan /\ assertions' = assertions
      /\ live \subseteq live' /\ live' \subseteq live \cup {<<"response", 0>>}
  BY DEF StartRun, RunTransfer, Answered, AnsweredEarlier, Judge, NoAnswer, Copying, Goto, Idle
<1> QED
  BY <1>1 DEF Owned, Holds, Texts

LEMMA EndOwned == Owned /\ (ParseFails \/ HexFails \/ Dispatch) => Owned'
<1> SUFFICES ASSUME Owned, ParseFails \/ HexFails \/ Dispatch PROVE Owned'
  OBVIOUS
<1>1. /\ pc = "parsing" /\ pc' \in {"planning", "freeing"}
      /\ plan' = plan /\ assertions' = assertions /\ live' = live
  BY DEF ParseFails, HexFails, Dispatch, Parsing, Refuse, Goto, Idle
<1> QED
  BY <1>1 DEF Owned, Holds

LEMMA FreePlanOwned == Owned /\ FreePlan => Owned'
<1> SUFFICES ASSUME Owned, FreePlan PROVE Owned'
  OBVIOUS
<1>1. /\ pc = "cleanup" /\ pc' = "freeing" /\ plan' = <<>> /\ assertions' = assertions
      /\ live' = live \ (Texts \cup Holds(plan))
  BY DEF FreePlan, Goto, Idle, Texts
<1>2. live' = Holds(assertions)
  BY <1>1, HoldsApart DEF Owned
<1>3. IsSeq(<<>>) /\ DOMAIN <<>> = {}
  <2>1. <<>> \in Seq({})
    OBVIOUS
  <2> QED
    BY <2>1 DEF IsSeq
<1> QED
  BY <1>1, <1>2, <1>3 DEF Owned, Holds

LEMMA FreeOptionsOwned == Owned /\ FreeOptions => Owned'
<1> SUFFICES ASSUME Owned, FreeOptions PROVE Owned'
  OBVIOUS
<1>1. /\ pc = "freeing" /\ pc' = "done" /\ plan' = plan /\ assertions' = assertions
      /\ live' = live \ Holds(assertions)
  BY DEF FreeOptions, Goto, Idle
<1>2. live' = {} /\ plan = <<>>
  BY <1>1 DEF Owned
<1> QED
  BY <1>1, <1>2 DEF Owned, Holds

LEMMA NextOwned == Owned /\ [Next]_vars => Owned'
<1> SUFFICES ASSUME Owned, [Next]_vars PROVE Owned'
  OBVIOUS
<1>1. CASE UNCHANGED vars
  BY <1>1 DEF vars, getVars, Owned, Holds
<1> QED
  BY <1>1, ParseOwned, EndOwned, PlanOwned, CopyAssertionOwned, CopyFailsOwned, RunOwned,
     FreePlanOwned, FreeOptionsOwned DEF Next

\* cli_options_to_run_plan copies each assertion with its pointers and then
\* replaces them: for any command line and any failing malloc no text is owned
\* by the options and by the plan, none is freed while one of them points to
\* it, and all are freed when main returns.
THEOREM EveryTextOwnedOnce == Spec => []OwnedOnce
<1>1. Init => Owned
  BY InitOwned
<1>2. Owned /\ [Next]_vars => Owned'
  BY NextOwned
<1>3. Owned => OwnedOnce
  BY OwnedImplies
<1> QED
  BY <1>1, <1>2, <1>3, PTL DEF Spec

-----------------------------------------------------------------------------
(* Digits in hex *)

LEMMA DigitOfCode ==
  ASSUME NEW c \in Byte, NEW n \in 0 .. 15
  PROVE  c \in HexCodes(n) <=> hex_digit_value(c) = n
BY DEF HexCodes, hex_digit_value, Byte

LEMMA DigitRange == ASSUME NEW c \in Byte PROVE hex_digit_value(c) \in -1 .. 15
BY DEF hex_digit_value, Byte

LEMMA TwoDigits ==
  ASSUME NEW x \in 0 .. 15, NEW y \in 0 .. 15
  PROVE  x * 16 + y \in Byte /\ (x * 16 + y) \div 16 = x /\ (x * 16 + y) % 16 = y
BY DEF Byte

LEMMA DigitsOfByte ==
  ASSUME NEW b \in Byte
  PROVE  \E p, q \in 0 .. 15 : p = b \div 16 /\ q = b % 16 /\ b = p * 16 + q
<1>1. b \in Int /\ b >= 0 /\ b <= 255
  BY DEF Byte
<1>2. b \div 16 \in Int /\ b % 16 \in 0 .. 15
  BY <1>1
<1>3. b = 16 * (b \div 16) + (b % 16)
  BY <1>1
<1> QED
  BY <1>1, <1>2, <1>3

\* What two digits of a text write, if they are digits.
LEMMA WritesOne ==
  ASSUME NEW d \in Text, NEW i \in Nat \ {0}, NEW b \in Byte, 2 * i <= Len(d)
  PROVE  Writes(d, i, b) <=>
            /\ hex_digit_value(d[2 * i - 1]) >= 0
            /\ hex_digit_value(d[2 * i]) >= 0
            /\ b = hex_digit_value(d[2 * i - 1]) * 16 + hex_digit_value(d[2 * i])
<1>1. Len(d) \in Nat /\ 2 * i - 1 \in 1 .. Len(d) /\ 2 * i \in 1 .. Len(d)
  BY LenProperties DEF Text
<1>2. d[2 * i - 1] \in Byte /\ d[2 * i] \in Byte
  BY <1>1 DEF Text
<1>x. PICK x : x = hex_digit_value(d[2 * i - 1])
  OBVIOUS
<1>y. PICK y : y = hex_digit_value(d[2 * i])
  OBVIOUS
<1>3. x \in -1 .. 15 /\ y \in -1 .. 15
  BY <1>2, <1>x, <1>y, DigitRange
<1>4. PICK p, q \in 0 .. 15 : p = b \div 16 /\ q = b % 16 /\ b = p * 16 + q
  BY DigitsOfByte
<1>5. Writes(d, i, b) <=> x = p /\ y = q
  BY <1>2, <1>4, <1>x, <1>y, DigitOfCode DEF Writes
<1>6. ASSUME x >= 0, y >= 0, b = x * 16 + y PROVE x = p /\ y = q
  <2>1. x \in 0 .. 15 /\ y \in 0 .. 15
    BY <1>3, <1>6
  <2> QED
    BY <1>4, <1>6, <2>1, TwoDigits
<1>7. ASSUME x = p, y = q PROVE x >= 0 /\ y >= 0 /\ b = x * 16 + y
  BY <1>4, <1>7
<1> QED
  BY <1>5, <1>6, <1>7, <1>x, <1>y

\* parse_hex_bytes takes the digits of whole bytes, and nothing else.
LEMMA HexAgrees ==
  ASSUME NEW d \in Text
  PROVE  ParsesAsHex(d) <=> WellFormedHex(d)
<1>1. Len(d) \in Nat /\ DOMAIN d = 1 .. Len(d) /\ (d # <<>> <=> Len(d) > 0)
  BY LenProperties, EmptySeq DEF Text
<1>2. ASSUME ParsesAsHex(d) PROVE WellFormedHex(d)
  <2>1. Len(d) > 0 /\ Len(d) % 2 = 0 /\ \A k \in 1 .. Len(d) : hex_digit_value(d[k]) >= 0
    BY <1>1, <1>2 DEF ParsesAsHex, EvenAndSome
  <2>2. ASSUME NEW i \in 1 .. (Len(d) + 1) \div 2 PROVE \E b \in Byte : Writes(d, i, b)
    <3>1. i \in Nat \ {0} /\ 2 * i <= Len(d) /\ 2 * i - 1 \in 1 .. Len(d) /\ 2 * i \in 1 .. Len(d)
      BY <1>1, <2>1
    <3>2. d[2 * i - 1] \in Byte /\ d[2 * i] \in Byte
      BY <3>1 DEF Text
    <3>3. PICK x, y : x = hex_digit_value(d[2 * i - 1]) /\ y = hex_digit_value(d[2 * i])
      OBVIOUS
    <3>4. x >= 0 /\ y >= 0 /\ x \in -1 .. 15 /\ y \in -1 .. 15
      BY <2>1, <3>1, <3>2, <3>3, DigitRange
    <3>5. x \in 0 .. 15 /\ y \in 0 .. 15
      BY <3>4
    <3>6. x * 16 + y \in Byte
      BY <3>5, TwoDigits
    <3> QED
      BY <3>1, <3>3, <3>4, <3>6, WritesOne
  <2> QED
    BY <1>1, <2>1, <2>2 DEF WellFormedHex
<1>3. ASSUME WellFormedHex(d) PROVE ParsesAsHex(d)
  <2>1. Len(d) > 0 /\ \A i \in 1 .. (Len(d) + 1) \div 2 : \E b \in Byte : Writes(d, i, b)
    BY <1>1, <1>3 DEF WellFormedHex
  <2>2. Len(d) % 2 = 0
    <3>1. (Len(d) + 1) \div 2 \in 1 .. (Len(d) + 1) \div 2
      BY <1>1, <2>1
    <3>2. 2 * ((Len(d) + 1) \div 2) <= Len(d)
      BY <2>1, <3>1 DEF Writes
    <3> QED
      BY <1>1, <3>2
  <2>3. ASSUME NEW k \in 1 .. Len(d) PROVE hex_digit_value(d[k]) >= 0
    <3>1. PICK i : i = (k + 1) \div 2
      OBVIOUS
    <3>2. /\ i \in 1 .. (Len(d) + 1) \div 2 /\ i \in Nat \ {0} /\ 2 * i <= Len(d)
          /\ k = 2 * i - 1 \/ k = 2 * i
      BY <1>1, <2>2, <3>1
    <3>3. PICK b \in Byte : Writes(d, i, b)
      BY <2>1, <3>2
    <3> QED
      BY <3>2, <3>3, WritesOne
  <2> QED
    BY <1>1, <2>1, <2>2, <2>3 DEF ParsesAsHex, EvenAndSome
<1> QED
  BY <1>2, <1>3

\* The bytes of parse_hex_bytes are those the digits write.
LEMMA HexBytes ==
  ASSUME NEW d \in Text, ParsesAsHex(d)
  PROVE  /\ parse_hex_bytes(d) \in Text
         /\ parse_hex_bytes(d) =
              [i \in 1 .. Len(d) \div 2 |-> CHOOSE b \in Byte : Writes(d, i, b)]
<1>1. Len(d) \in Nat /\ DOMAIN d = 1 .. Len(d) /\ \A k \in 1 .. Len(d) : hex_digit_value(d[k]) >= 0
  BY LenProperties DEF ParsesAsHex, Text
<1>2. ASSUME NEW i \in 1 .. Len(d) \div 2
      PROVE  /\ hex_digit_value(d[2 * i - 1]) * 16 + hex_digit_value(d[2 * i]) \in Byte
             /\ (CHOOSE b \in Byte : Writes(d, i, b)) =
                   hex_digit_value(d[2 * i - 1]) * 16 + hex_digit_value(d[2 * i])
  <2>1. i \in Nat \ {0} /\ 2 * i <= Len(d) /\ 2 * i - 1 \in 1 .. Len(d) /\ 2 * i \in 1 .. Len(d)
    BY <1>1
  <2>2. d[2 * i - 1] \in Byte /\ d[2 * i] \in Byte
    BY <2>1 DEF Text
  <2>3. PICK x, y : x = hex_digit_value(d[2 * i - 1]) /\ y = hex_digit_value(d[2 * i])
    OBVIOUS
  <2>4. x >= 0 /\ y >= 0 /\ x \in -1 .. 15 /\ y \in -1 .. 15
    BY <1>1, <2>1, <2>2, <2>3, DigitRange
  <2>5. x \in 0 .. 15 /\ y \in 0 .. 15
    BY <2>4
  <2>6. x * 16 + y \in Byte
    BY <2>5, TwoDigits
  <2>7. \A b \in Byte : Writes(d, i, b) <=> b = x * 16 + y
    BY <2>1, <2>3, <2>4, <2>6, WritesOne
  <2> QED
    BY <2>3, <2>6, <2>7
<1>3. Len(d) \div 2 \in Nat
  BY <1>1
<1> QED
  BY <1>2, <1>3 DEF parse_hex_bytes, Text

-----------------------------------------------------------------------------
(* The options a command line consists of *)

Behind(s)      == s + 1 + Values(argv[s])
OneOwner(S, w) == \E s \in S : {t \in S : w \in WordsFrom(t)} = {s}

\* The options that begin at the places of S are the words before n, and every
\* cut of the whole command line begins with them.
CutUpTo(S, n) == /\ S \subseteq 1 .. n - 1 /\ IsFiniteSet(S)
                 /\ \A s \in S : WellFormed(s) /\ WordsFrom(s) \subseteq 1 .. n - 1
                 /\ \A w \in 1 .. n - 1 : OneOwner(S, w)
                 /\ \A T \in SUBSET DOMAIN argv : IsCut(T) => T \cap (1 .. n - 1) = S

LEMMA WordsOf ==
  ASSUME NEW s \in Nat
  PROVE  /\ Values(argv[s]) \in {1, 2}
         /\ s \in WordsFrom(s) /\ WordsFrom(s) = s .. Behind(s) - 1
         /\ Behind(s) \in Nat /\ Behind(s) > s + 1
BY DEF Values, WordsFrom, Behind

LEMMA OwnerUnique ==
  ASSUME NEW S, NEW w, OneOwner(S, w), NEW s \in S, NEW t \in S,
         w \in WordsFrom(s), w \in WordsFrom(t)
  PROVE  s = t
BY DEF OneOwner

LEMMA CutBegins ==
  ASSUME argv \in Seq(Text), NEW n \in DOMAIN argv, NEW S, CutUpTo(S, n),
         NEW T \in SUBSET DOMAIN argv, IsCut(T)
  PROVE  n \in T /\ S \subseteq T /\ n \notin S
<1>1. Len(argv) \in Nat /\ DOMAIN argv = 1 .. Len(argv) /\ n \in Nat
  BY LenProperties
<1>2. T \cap (1 .. n - 1) = S /\ S \subseteq 1 .. n - 1
  BY DEF CutUpTo
<1>3. PICK s \in T : {t \in T : n \in WordsFrom(t)} = {s}
  BY DEF IsCut
<1>4. s \in Nat /\ n \in WordsFrom(s)
  BY <1>1, <1>3
<1>5. s <= n
  <2>1. WordsFrom(s) = s .. Behind(s) - 1 /\ Behind(s) \in Nat
    BY <1>4, WordsOf
  <2> QED
    BY <1>1, <1>4, <2>1
<1>6. s \notin S
  BY <1>1, <1>4 DEF CutUpTo
<1>7. s = n
  BY <1>1, <1>2, <1>3, <1>4, <1>5, <1>6
<1> QED
  BY <1>1, <1>2, <1>3, <1>7

LEMMA CutGrows ==
  ASSUME argv \in Seq(Text), NEW n \in DOMAIN argv, NEW S, CutUpTo(S, n), WellFormed(n)
  PROVE  CutUpTo(S \cup {n}, Behind(n)) /\ Behind(n) \in 1 .. Len(argv) + 1
<1> DEFINE m == Behind(n)
           R == S \cup {n}
<1>1. Len(argv) \in Nat /\ DOMAIN argv = 1 .. Len(argv) /\ n \in Nat /\ n >= 1 /\ n <= Len(argv)
  BY LenProperties
<1>2. m \in Nat /\ m > n + 1 /\ WordsFrom(n) = n .. m - 1 /\ n \in WordsFrom(n)
  BY <1>1, WordsOf
<1>3. m - 1 <= Len(argv)
  <2>1. m - 1 \in WordsFrom(n)
    BY <1>1, <1>2
  <2> QED
    BY <1>1, <1>2, <2>1 DEF WellFormed
<1>4. /\ S \subseteq 1 .. n - 1 /\ IsFiniteSet(S)
      /\ \A s \in S : WellFormed(s) /\ WordsFrom(s) \subseteq 1 .. n - 1
      /\ \A w \in 1 .. n - 1 : OneOwner(S, w)
  BY DEF CutUpTo
<1> HIDE DEF m
<1>5. R \subseteq 1 .. m - 1 /\ IsFiniteSet(R)
  <2>1. IsFiniteSet(R)
    BY <1>4, FS_AddElement
  <2>2. n \in 1 .. m - 1 /\ 1 .. n - 1 \subseteq 1 .. m - 1
    BY <1>1, <1>2
  <2> QED
    BY <1>4, <2>1, <2>2
<1>6. \A s \in R : WellFormed(s) /\ WordsFrom(s) \subseteq 1 .. m - 1
  BY <1>1, <1>2, <1>4
<1>7. ASSUME NEW w \in 1 .. m - 1 PROVE OneOwner(R, w)
  <2>1. CASE w < n
    <3>1. w \in 1 .. n - 1 /\ w \notin WordsFrom(n)
      BY <1>1, <1>2, <2>1
    <3>2. PICK s \in S : {t \in S : w \in WordsFrom(t)} = {s}
      BY <1>4, <3>1 DEF OneOwner
    <3>3. {t \in R : w \in WordsFrom(t)} = {s}
      BY <3>1, <3>2
    <3> QED
      BY <3>3 DEF OneOwner
  <2>2. CASE w >= n
    <3>1. w \in WordsFrom(n) /\ w \notin 1 .. n - 1
      BY <1>1, <1>2, <2>2
    <3>2. {t \in R : w \in WordsFrom(t)} = {n}
      BY <1>4, <3>1
    <3> QED
      BY <3>2 DEF OneOwner
  <2> QED
    BY <1>1, <1>2, <2>1, <2>2
<1>8. ASSUME NEW T \in SUBSET DOMAIN argv, IsCut(T) PROVE T \cap (1 .. m - 1) = R
  <2>1. n \in T /\ S \subseteq T /\ T \cap (1 .. n - 1) = S
    BY <1>8, CutBegins DEF CutUpTo
  <2>2. ASSUME NEW w \in T, w > n, w < m PROVE FALSE
    <3>1. w \in Nat /\ w \in DOMAIN argv
      BY <1>1
    <3>2. w \in WordsFrom(w) /\ w \in WordsFrom(n)
      BY <1>1, <1>2, <2>2, <3>1, WordsOf
    <3>3. OneOwner(T, w)
      BY <1>8, <3>1 DEF IsCut, OneOwner
    <3>4. w = n
      BY <2>1, <3>2, <3>3, OwnerUnique
    <3> QED
      BY <1>1, <2>2, <3>1, <3>4
  <2>3. T \cap (1 .. m - 1) \subseteq R
    <3> SUFFICES ASSUME NEW w \in T \cap (1 .. m - 1) PROVE w \in R
      OBVIOUS
    <3>1. w \in Nat /\ w < m /\ w >= 1
      BY <1>1, <1>2
    <3>2. w <= n
      BY <1>1, <2>2, <3>1
    <3> QED
      BY <1>1, <2>1, <3>1, <3>2
  <2> QED
    BY <1>5, <2>1, <2>3
<1>9. m \in 1 .. Len(argv) + 1
  BY <1>1, <1>2, <1>3
<1> QED
  BY <1>5, <1>6, <1>7, <1>8, <1>9 DEF CutUpTo, m

\* When the words are used up, they have been cut in the only way there is.
LEMMA CutEnds ==
  ASSUME argv \in Seq(Text), NEW S, CutUpTo(S, Len(argv) + 1)
  PROVE  /\ S \in SUBSET DOMAIN argv /\ IsCut(S)
         /\ \A T \in SUBSET DOMAIN argv : IsCut(T) => T = S
<1>1. Len(argv) \in Nat /\ DOMAIN argv = 1 .. Len(argv) /\ 1 .. Len(argv) + 1 - 1 = DOMAIN argv
  BY LenProperties
<1>2. /\ S \subseteq DOMAIN argv
      /\ \A s \in S : WellFormed(s)
      /\ \A w \in DOMAIN argv : OneOwner(S, w)
      /\ \A T \in SUBSET DOMAIN argv : IsCut(T) => T \cap DOMAIN argv = S
  BY <1>1 DEF CutUpTo
<1>3. IsCut(S)
  BY <1>2 DEF IsCut, OneOwner
<1> QED
  BY <1>2, <1>3

-----------------------------------------------------------------------------
(* Which command lines main takes *)

\* The assertion is what the option at s asks for.
StandsFor(a, s) ==
    \/ argv[s] = FlagStatus /\ a.type = "status" /\ a.expected \in atoi(argv[s + 1])
    \/ argv[s] = FlagBody /\ a.type = "body" /\ a.expected = Pattern(argv[s + 1])
    \/ argv[s] = FlagHeader /\ a.type = "header" /\ a.expected = <<argv[s + 1], argv[s + 2]>>

Represented(S) == /\ \A s \in S : \E j \in DOMAIN assertions : StandsFor(assertions[j], s)
                  /\ \A j \in DOMAIN assertions : \E s \in S : StandsFor(assertions[j], s)

\* The assertions are the options of the words that have been looked at.
Understood(S) == /\ CutUpTo(S, next)
                 /\ Cardinality(S) = Len(assertions)
                 /\ Represented(S)

\* What an exit code says that does not come from a run.
Settled == /\ pc = "parsing" => exitCode = 0
           /\ pc \in {"planning", "copying", "running", "cleanup"} => exitCode # -1
           /\ pc # "parsing" /\ exitCode # -1 => next = Len(argv) + 1
           /\ pc # "parsing" /\ exitCode = -1 /\ failures = 0 => ~Legal

Parsed == /\ argv \in Seq(Text) /\ next \in 1 .. Len(argv) + 1
          /\ Len(assertions) <= MAX_ASSERTION
          /\ \E S : Understood(S)
          /\ failures \in Nat
          /\ Settled

LEMMA DigitsText == ASSUME NEW w \in Text PROVE Digits(w) \in Text
<1>1. Len(w) \in Nat /\ Len(HexPrefix) \in Nat
  BY WordsAssumption, LenProperties DEF Text
<1>2. \A i \in Len(HexPrefix) + 1 .. Len(w) : w[i] \in Byte
  BY <1>1 DEF Text
<1>3. Len(HexPrefix) + 1 \in Int /\ Len(w) \in Int
  BY <1>1
<1> QED
  BY <1>2, <1>3, SubSeqProperties DEF Digits, Text

\* The expected value of a body option: the word, or the bytes it writes.
LEMMA PatternOf ==
  ASSUME NEW w \in Text
  PROVE  /\ ~IsHex(w) => Pattern(w) = w
         /\ IsHex(w) /\ ParsesAsHex(Digits(w)) => Pattern(w) = parse_hex_bytes(Digits(w))
         /\ IsHex(w) => (ParsesAsHex(Digits(w)) <=> WellFormedHex(Digits(w)))
         /\ IsHex(w) /\ ParsesAsHex(Digits(w)) => parse_hex_bytes(Digits(w)) \in Text
<1>1. Digits(w) \in Text
  BY DigitsText
<1>2. ParsesAsHex(Digits(w)) <=> WellFormedHex(Digits(w))
  BY <1>1, HexAgrees
<1>3. ASSUME ParsesAsHex(Digits(w)), IsHex(w)
      PROVE  Pattern(w) = parse_hex_bytes(Digits(w)) /\ parse_hex_bytes(Digits(w)) \in Text
  <2>1. PICK d : d = Digits(w)
    OBVIOUS
  <2>2. d \in Text /\ ParsesAsHex(d)
    BY <1>1, <1>3, <2>1
  <2>3. parse_hex_bytes(d) = [i \in 1 .. Len(d) \div 2 |-> CHOOSE b \in Byte : Writes(d, i, b)]
    BY ONLY <2>2, HexBytes
  <2>4. Pattern(w) = [i \in 1 .. Len(d) \div 2 |-> CHOOSE b \in Byte : Writes(d, i, b)]
    BY <1>3, <2>1 DEF Pattern
  <2>5. parse_hex_bytes(d) \in Text
    BY ONLY <2>2, HexBytes
  <2> QED
    BY <2>1, <2>3, <2>4, <2>5
<1>4. ~IsHex(w) => Pattern(w) = w
  BY DEF Pattern
<1> QED
  BY <1>2, <1>3, <1>4

\* What is said of the words depends on the words only.
LEMMA SameWords ==
  ASSUME argv' = argv
  PROVE  /\ \A s : WellFormed(s)' <=> WellFormed(s)
         /\ \A s : WordsFrom(s)' = WordsFrom(s)
         /\ \A S, w : OneOwner(S, w)' <=> OneOwner(S, w)
         /\ \A T : IsCut(T)' <=> IsCut(T)
         /\ \A a, s : StandsFor(a, s)' <=> StandsFor(a, s)
<1>1. \A s : WordsFrom(s)' = WordsFrom(s)
  BY DEF WordsFrom
<1>2. \A s : WellFormed(s)' <=> WellFormed(s)
  BY DEF WellFormed, WordsFrom
<1>3. \A S, w : OneOwner(S, w)' <=> OneOwner(S, w)
  BY DEF OneOwner, WordsFrom
<1>4. \A T : IsCut(T)' <=> IsCut(T)
  BY <1>2 DEF IsCut, WordsFrom
<1>5. \A a, s : StandsFor(a, s)' <=> StandsFor(a, s)
  BY DEF StandsFor
<1> QED
  BY <1>1, <1>2, <1>3, <1>4, <1>5

\* The next option, well-formed, is taken.
LEMMA OptionTaken ==
  ASSUME Owned, Parsed, pc = "parsing", NEW type \in Types, NEW expected, NEW objects, NEW words,
         next \in DOMAIN argv, WellFormed(next), words = Values(argv[next]) + 1,
         AddAssertion(type, expected, objects, words),
         StandsFor([type |-> type, expected |-> expected, holds |-> objects], next)
  PROVE  Parsed'
<1>1. PICK S : Understood(S)
  BY DEF Parsed
<1>2. PICK a : a = [type |-> type, expected |-> expected, holds |-> objects]
  OBVIOUS
<1>3. /\ assertions' = Append(assertions, a) /\ next' = next + words
      /\ argv' = argv /\ pc' = pc /\ exitCode' = exitCode /\ failures' = failures
      /\ Len(assertions) < MAX_ASSERTION
  BY <1>2 DEF AddAssertion, Room
<1>4. StandsFor(a, next)
  BY <1>2
<1>5. argv \in Seq(Text) /\ next \in Nat /\ CutUpTo(S, next)
  BY <1>1, LenProperties DEF Parsed, Understood
<1>6. next' = Behind(next)
  <2>1. Values(argv[next]) \in {1, 2}
    BY <1>5, WordsOf
  <2> QED
    BY <1>3, <1>5, <2>1 DEF Behind
<1>r. PICK R : R = S \cup {next}
  OBVIOUS
<1>7. CutUpTo(R, next') /\ next' \in 1 .. Len(argv) + 1
  BY <1>5, <1>6, <1>r, CutGrows
<1>8. PICK A : assertions \in Seq(A) /\ a \in A
  <2>1. PICK A : assertions \in Seq(A)
    BY DEF Owned, IsSeq
  <2>2. assertions \in Seq(A \cup {a}) /\ a \in A \cup {a}
    BY <2>1, SeqMonotonic
  <2> QED
    BY <2>2
<1>9. /\ Len(assertions) \in Nat /\ DOMAIN assertions = 1 .. Len(assertions)
      /\ Len(assertions') = Len(assertions) + 1 /\ DOMAIN assertions' = 1 .. Len(assertions) + 1
      /\ \A j \in 1 .. Len(assertions) : assertions'[j] = assertions[j]
      /\ assertions'[Len(assertions) + 1] = a
  <2>1. assertions' \in Seq(A)
    BY <1>3, <1>8, AppendProperties
  <2> QED
    BY <1>3, <1>8, <2>1, AppendProperties, LenProperties
<1>10. Cardinality(R) = Len(assertions')
  <2>1. IsFiniteSet(S) /\ next \notin S
    BY <1>5 DEF CutUpTo
  <2>2. Cardinality(S \cup {next}) = Cardinality(S) + 1
    BY <2>1, FS_AddElement
  <2> QED
    BY <1>1, <1>9, <1>r, <2>2 DEF Understood
<1>11. ASSUME NEW b, NEW s PROVE StandsFor(b, s)' <=> StandsFor(b, s)
  BY <1>3 DEF StandsFor
<1>12. Represented(R)'
  <2>1. ASSUME NEW s \in R PROVE \E j \in DOMAIN assertions' : StandsFor(assertions'[j], s)
    <3>1. CASE s = next
      <4>1. Len(assertions) + 1 \in DOMAIN assertions'
        BY <1>9
      <4> QED
        BY <1>4, <1>9, <3>1, <4>1
    <3>2. CASE s \in S
      <4>1. PICK j \in 1 .. Len(assertions) : StandsFor(assertions[j], s)
        BY <1>1, <1>9, <3>2 DEF Understood, Represented
      <4>2. j \in DOMAIN assertions'
        BY <1>9
      <4> QED
        BY <1>9, <4>1, <4>2
    <3> QED
      BY <1>r, <2>1, <3>1, <3>2
  <2>2. ASSUME NEW j \in DOMAIN assertions' PROVE \E s \in R : StandsFor(assertions'[j], s)
    <3>1. j \in 1 .. Len(assertions) \/ j = Len(assertions) + 1
      BY <1>9
    <3> QED
      BY <1>1, <1>4, <1>9, <1>r, <3>1 DEF Understood, Represented
  <2> QED
    BY <1>3, <2>1, <2>2 DEF Represented, StandsFor
<1>13. CutUpTo(R, next)'
  <2>1. PICK n : n = next'
    OBVIOUS
  <2>2. CutUpTo(R, n)
    BY <1>7, <2>1
  <2>3. DOMAIN argv' = DOMAIN argv
    BY <1>3
  <2> QED
    BY <1>3, <2>1, <2>2, <2>3, SameWords DEF CutUpTo
<1>14. Understood(R)'
  BY <1>10, <1>12, <1>13 DEF Understood
<1>15. Settled'
  BY <1>3 DEF Parsed, Settled
<1>16. Len(assertions') <= MAX_ASSERTION
  BY <1>3, <1>9, OptionAssumption
<1> QED
  BY <1>3, <1>7, <1>14, <1>15, <1>16 DEF Parsed

LEMMA InitParsed == Init => Parsed
<1> SUFFICES ASSUME Init PROVE Parsed
  OBVIOUS
<1>1. argv \in Seq(Text) /\ next = 1 /\ assertions = <<>> /\ failures = 0 /\ exitCode = 0 /\ pc = "parsing"
  BY WordsAssumption DEF Init
<1>2. Len(argv) \in Nat /\ Len(assertions) = 0 /\ DOMAIN assertions = {}
  BY <1>1, LenProperties
<1>3. IsFiniteSet({}) /\ Cardinality({}) = 0
  BY FS_EmptySet
<1>4. CutUpTo({}, next)
  BY <1>1, <1>3 DEF CutUpTo
<1>5. Understood({})
  BY <1>2, <1>3, <1>4 DEF Understood, Represented
<1>6. Settled
  BY <1>1 DEF Settled
<1>7. next \in 1 .. Len(argv) + 1 /\ Len(assertions) <= MAX_ASSERTION
  BY <1>1, <1>2, OptionAssumption
<1> QED
  BY <1>1, <1>5, <1>6, <1>7 DEF Parsed

LEMMA FlagsApart == /\ FlagStatus # FlagBody /\ FlagStatus # FlagHeader /\ FlagBody # FlagHeader
BY WordsAssumption

\* Where the loop of main stands, and the words it looks at.
LEMMA AtWord ==
  ASSUME Parsed, NEW k \in Nat, HasWord(k)
  PROVE  /\ next \in DOMAIN argv /\ next \in Nat
         /\ next + k \in DOMAIN argv /\ Word(k) = argv[next + k] /\ Word(k) \in Text
         /\ Word(0) = argv[next]
<1>1. Len(argv) \in Nat /\ DOMAIN argv = 1 .. Len(argv) /\ next \in Nat /\ next >= 1
  BY LenProperties DEF Parsed
<1>2. next + k <= Len(argv)
  BY DEF HasWord
<1>3. next + k \in 1 .. Len(argv) /\ next \in 1 .. Len(argv)
  BY <1>1, <1>2
<1>4. argv[next + k] \in Text
  BY <1>3, ElementOfSeq DEF Parsed
<1>5. Word(k) = argv[next + k] /\ Word(0) = argv[next + 0] /\ next + 0 = next
  BY <1>1 DEF Word
<1> QED
  BY <1>1, <1>3, <1>4, <1>5

LEMMA WellFormedHere ==
  ASSUME Parsed, Word(0) \in {FlagStatus, FlagBody, FlagHeader}, HasWord(0), HasWord(Values(Word(0))),
         Word(0) = FlagBody /\ IsHex(Word(1)) => WellFormedHex(Digits(Word(1)))
  PROVE  WellFormed(next)
<1>1. /\ next \in DOMAIN argv /\ next \in Nat /\ Word(0) = argv[next]
  BY AtWord
<1>2. Values(argv[next]) \in Nat
  BY DEF Values
<1>3. next + Values(argv[next]) \in DOMAIN argv
  BY <1>1, <1>2, AtWord
<1>4. Len(argv) \in Nat /\ DOMAIN argv = 1 .. Len(argv)
  BY LenProperties DEF Parsed
<1>5. WordsFrom(next) \subseteq DOMAIN argv
  BY <1>1, <1>2, <1>3, <1>4 DEF WordsFrom
<1>6. Word(1) = argv[next + 1]
  BY DEF Word
<1> QED
  BY <1>1, <1>5, <1>6 DEF WellFormed

LEMMA OptionsParsed ==
  ASSUME Owned, Parsed, OptionStatus \/ OptionBody \/ OptionHex \/ OptionHeader
  PROVE  Parsed'
<1> USE DEF Types
<1>1. pc = "parsing"
  BY DEF OptionStatus, OptionBody, OptionHex, OptionHeader, Parsing
<1>2. CASE OptionStatus
  <2>1. Word(0) = FlagStatus /\ HasWord(0) /\ HasWord(1)
    BY <1>2 DEF OptionStatus, Parsing
  <2>n. PICK n \in atoi(Word(1)) : AddAssertion("status", n, {}, 2)
    BY <1>2 DEF OptionStatus
  <2>2. Word(0) = argv[next] /\ Word(1) = argv[next + 1] /\ next \in DOMAIN argv
    BY <2>1, AtWord
  <2>3. Values(argv[next]) = 1
    BY <2>1, <2>2, FlagsApart DEF Values
  <2>4. WellFormed(next)
    BY <2>1, <2>2, <2>3, FlagsApart, WellFormedHere
  <2>5. StandsFor([type |-> "status", expected |-> n, holds |-> {}], next)
    BY <2>1, <2>2 DEF StandsFor
  <2> QED
    BY <1>1, <2>1, <2>n, <2>2, <2>3, <2>4, <2>5, OptionTaken
<1>3. CASE OptionBody
  <2>1. /\ Word(0) = FlagBody /\ HasWord(0) /\ HasWord(1) /\ AddAssertion("body", Word(1), {}, 2)
        /\ ~IsHex(Word(1))
    BY <1>3 DEF OptionBody, Parsing
  <2>2. Word(0) = argv[next] /\ Word(1) = argv[next + 1] /\ next \in DOMAIN argv /\ Word(1) \in Text
    BY <2>1, AtWord
  <2>3. Values(argv[next]) = 1
    BY <2>1, <2>2, FlagsApart DEF Values
  <2>4. WellFormed(next)
    BY <2>1, <2>2, <2>3, WellFormedHere
  <2>5. StandsFor([type |-> "body", expected |-> Word(1), holds |-> {}], next)
    BY <2>1, <2>2, PatternOf DEF StandsFor
  <2> QED
    BY <1>1, <2>1, <2>2, <2>3, <2>4, <2>5, OptionTaken
<1>4. CASE OptionHex
  <2>p. PICK bytes, objects : /\ bytes = parse_hex_bytes(Digits(Word(1)))
                              /\ objects = {<<"hex", Len(assertions) + 1>>}
    OBVIOUS
  <2>1. /\ Word(0) = FlagBody /\ HasWord(0) /\ HasWord(1)
        /\ IsHex(Word(1)) /\ ParsesAsHex(Digits(Word(1)))
        /\ AddAssertion("body", bytes, objects, 2)
    BY <1>4, <2>p DEF OptionHex, Parsing
  <2>2. Word(0) = argv[next] /\ Word(1) = argv[next + 1] /\ next \in DOMAIN argv /\ Word(1) \in Text
    BY <2>1, AtWord
  <2>3. Values(argv[next]) = 1
    BY <2>1, <2>2, FlagsApart DEF Values
  <2>4. WellFormedHex(Digits(Word(1))) /\ Pattern(Word(1)) = bytes
    BY <2>1, <2>2, <2>p, PatternOf
  <2>5. WellFormed(next)
    BY <2>1, <2>2, <2>3, <2>4, WellFormedHere
  <2>6. StandsFor([type |-> "body", expected |-> bytes, holds |-> objects], next)
    BY <2>1, <2>2, <2>4 DEF StandsFor
  <2> QED
    BY <1>1, <2>1, <2>2, <2>3, <2>5, <2>6, OptionTaken
<1>5. CASE OptionHeader
  <2>1. /\ Word(0) = FlagHeader /\ HasWord(0) /\ HasWord(2)
        /\ AddAssertion("header", <<Word(1), Word(2)>>, {}, 3)
    BY <1>5 DEF OptionHeader, Parsing
  <2>2. Word(0) = argv[next] /\ next \in DOMAIN argv
    BY <2>1, AtWord
  <2>3. Values(argv[next]) = 2 /\ Word(1) = argv[next + 1] /\ Word(2) = argv[next + 2]
    BY <2>1, <2>2 DEF Values, Word
  <2>4. WellFormed(next)
    BY <2>1, <2>2, <2>3, FlagsApart, WellFormedHere
  <2>5. StandsFor([type |-> "header", expected |-> <<Word(1), Word(2)>>, holds |-> {}], next)
    BY <2>1, <2>2, <2>3 DEF StandsFor
  <2> QED
    BY <1>1, <2>1, <2>2, <2>3, <2>4, <2>5, OptionTaken
<1> QED
  BY <1>2, <1>3, <1>4, <1>5

\* What is said of options already taken stays while no other is looked at.
LEMMA UnderstoodKept ==
  ASSUME UNCHANGED <<argv, next, assertions>>, NEW S, Understood(S)
  PROVE  Understood(S)'
<1>1. CutUpTo(S, next)'
  <2>1. CutUpTo(S, next) /\ argv' = argv /\ next' = next
    BY DEF Understood
  <2> QED
    BY <2>1, SameWords DEF CutUpTo
<1>2. Represented(S)'
  BY SameWords DEF Understood, Represented
<1> QED
  BY <1>1, <1>2 DEF Understood

LEMMA ParsedKept ==
  ASSUME Parsed, UNCHANGED <<argv, next, assertions>>, failures' \in Nat, Settled'
  PROVE  Parsed'
<1>1. PICK S : Understood(S)
  BY DEF Parsed
<1>2. Understood(S)'
  BY <1>1, UnderstoodKept
<1> QED
  BY <1>2 DEF Parsed

LEMMA SameLegal == argv' = argv => (Legal' <=> Legal)
BY SameWords DEF Legal

\* There is no legal continuation where an option is refused.
LEMMA RefusedIllegal ==
  ASSUME Parsed, next \in DOMAIN argv, ~WellFormed(next) \/ ~Room
  PROVE  ~Legal
<1> SUFFICES ASSUME NEW T \in SUBSET DOMAIN argv, IsCut(T), Cardinality(T) <= MAX_ASSERTION
             PROVE  FALSE
  BY DEF Legal
<1>1. PICK S : Understood(S)
  BY DEF Parsed
<1>2. argv \in Seq(Text) /\ CutUpTo(S, next) /\ Cardinality(S) = Len(assertions)
  BY <1>1 DEF Parsed, Understood
<1>3. next \in T /\ S \subseteq T /\ next \notin S
  BY <1>2, CutBegins
<1>4. WellFormed(next)
  BY <1>3 DEF IsCut
<1>5. Len(assertions) = MAX_ASSERTION
  <2>1. Len(assertions) <= MAX_ASSERTION /\ ~(Len(assertions) < MAX_ASSERTION)
    BY <1>4 DEF Parsed, Room
  <2>2. Cardinality(S) \in Nat
    BY <1>2, FS_CardinalityType DEF CutUpTo
  <2> QED
    BY <1>2, <2>1, <2>2, OptionAssumption
<1>6. IsFiniteSet(T)
  <2>1. Len(argv) \in Nat /\ DOMAIN argv = 1 .. Len(argv)
    BY <1>2, LenProperties
  <2>2. IsFiniteSet(DOMAIN argv)
    BY <2>1, FS_Interval
  <2> QED
    BY <2>2, FS_Subset
<1>7. IsFiniteSet(S) /\ IsFiniteSet(S \cup {next}) /\ Cardinality(S \cup {next}) = Cardinality(S) + 1
  <2>1. IsFiniteSet(S)
    BY <1>2 DEF CutUpTo
  <2> QED
    BY <1>3, <2>1, FS_AddElement
<1>8. Cardinality(S \cup {next}) <= Cardinality(T)
  <2>1. S \cup {next} \in SUBSET T
    BY <1>3
  <2> QED
    BY <1>6, <2>1, FS_Subset
<1>9. Cardinality(T) \in Nat
  BY <1>6, FS_CardinalityType
<1> QED
  BY <1>2, <1>5, <1>7, <1>8, <1>9, OptionAssumption

\* A command line is legal that has been looked at to its end.
LEMMA EndedLegal ==
  ASSUME Parsed, next = Len(argv) + 1
  PROVE  Legal
<1>1. PICK S : Understood(S)
  BY DEF Parsed
<1>2. argv \in Seq(Text) /\ CutUpTo(S, Len(argv) + 1)
  BY <1>1 DEF Parsed, Understood
<1>3. S \in SUBSET DOMAIN argv /\ IsCut(S)
  BY <1>2, CutEnds
<1>4. Cardinality(S) <= MAX_ASSERTION
  BY <1>1 DEF Parsed, Understood
<1> QED
  BY <1>3, <1>4 DEF Legal

\* An option refused, for whatever reason: the command line is to blame, or malloc.
LEMMA RefuseParsed ==
  ASSUME Parsed, Refuse, failures' \in Nat, failures' # 0 \/ ~Legal
  PROVE  Parsed'
<1>1. /\ exitCode' = -1 /\ pc' = "freeing"
      /\ argv' = argv /\ next' = next /\ assertions' = assertions
  BY DEF Refuse
<1>2. Settled'
  BY <1>1, SameLegal DEF Settled
<1> QED
  BY <1>1, <1>2, ParsedKept

LEMMA FailsCounts == ASSUME failures \in Nat, Fails PROVE failures' \in Nat /\ failures' # 0
BY DEF Fails

LEMMA RefusalsParsed ==
  ASSUME Parsed, ParseFails \/ HexFails
  PROVE  Parsed'
<1>1. failures \in Nat /\ Len(argv) \in Nat /\ next \in Nat
  BY LenProperties DEF Parsed
<1>2. CASE ParseFails
  <2>1. HasWord(0) /\ Refuse /\ failures' = failures
    BY <1>2 DEF ParseFails
  <2>2. next \in DOMAIN argv /\ Word(0) = argv[next] /\ DOMAIN argv = 1 .. Len(argv)
    BY <2>1, AtWord, LenProperties DEF Parsed
  <2>3. ASSUME WellFormed(next), Word(0) \in {FlagStatus, FlagBody, FlagHeader}
        PROVE  HasWord(Values(Word(0)))
    <3>1. Values(argv[next]) \in {1, 2}
      BY DEF Values
    <3>2. next + Values(argv[next]) \in WordsFrom(next)
      BY <1>1, <3>1 DEF WordsFrom
    <3>3. next + Values(argv[next]) \in 1 .. Len(argv)
      BY <2>2, <2>3, <3>2 DEF WellFormed
    <3> QED
      BY <2>2, <3>3 DEF HasWord
  <2>4. ~WellFormed(next) \/ ~Room
    BY <1>2, <2>2, <2>3 DEF ParseFails, WellFormed
  <2>5. ~Legal
    BY <2>2, <2>4, RefusedIllegal
  <2> QED
    BY <1>1, <2>1, <2>5, RefuseParsed
<1>3. CASE HexFails
  <2>1. HasWord(0) /\ HasWord(1) /\ Word(0) = FlagBody /\ IsHex(Word(1)) /\ Refuse
    BY <1>3 DEF HexFails, Parsing
  <2>2. next \in DOMAIN argv /\ Word(0) = argv[next] /\ Word(1) = argv[next + 1] /\ Word(1) \in Text
    BY <2>1, AtWord
  <2>3. ASSUME ~ParsesAsHex(Digits(Word(1))) PROVE ~Legal
    <3>1. ~WellFormedHex(Digits(Word(1)))
      BY <2>1, <2>2, <2>3, PatternOf
    <3>2. ~WellFormed(next)
      BY <2>1, <2>2, <3>1 DEF WellFormed
    <3> QED
      BY <2>2, <3>2, RefusedIllegal
  <2>4. CASE ~ParsesAsHex(Digits(Word(1))) /\ failures' = failures
    BY <1>1, <2>1, <2>3, <2>4, RefuseParsed
  <2>5. CASE Fails
    BY <1>1, <2>1, <2>5, FailsCounts, RefuseParsed
  <2> QED
    BY <1>3, <2>4, <2>5 DEF HexFails
<1> QED
  BY <1>2, <1>3

LEMMA DispatchParsed ==
  ASSUME Parsed, Dispatch
  PROVE  Parsed'
<1>1. /\ pc = "parsing" /\ ~HasWord(0) /\ pc' \in {"planning", "freeing"} /\ exitCode' \in {0, 1}
      /\ argv' = argv /\ next' = next /\ assertions' = assertions /\ failures' = failures
  BY DEF Dispatch, Goto, Idle
<1>2. next = Len(argv) + 1
  <2>1. Len(argv) \in Nat
    BY LenProperties DEF Parsed
  <2> QED
    BY <1>1, <2>1 DEF Parsed, HasWord
<1>3. Settled'
  BY <1>1, <1>2 DEF Settled
<1> QED
  BY <1>1, <1>3, ParsedKept DEF Parsed

\* From here on the command line has been taken or refused.
LEMMA LaterParsed ==
  ASSUME Parsed, pc # "parsing", pc' # "parsing", UNCHANGED <<argv, next, assertions>>,
         failures' \in Nat, failures = 0 \/ failures' # 0,
         exitCode' = exitCode \/ (exitCode # -1 /\ exitCode' # -1),
         pc' \in {"planning", "copying", "running", "cleanup"} => exitCode' # -1
  PROVE  Parsed'
<1>1. Settled'
  BY SameLegal DEF Parsed, Settled
<1> QED
  BY <1>1, ParsedKept

LEMMA NextParsed == Owned /\ Parsed /\ [Next]_vars => Parsed'
<1> SUFFICES ASSUME Owned, Parsed, [Next]_vars PROVE Parsed'
  OBVIOUS
<1>1. failures \in Nat /\ (Fails => failures' \in Nat /\ failures' # 0)
  BY FailsCounts DEF Parsed
<1>2. pc \in {"planning", "copying", "running", "cleanup"} => exitCode # -1
  BY DEF Parsed, Settled
<1>3. CASE PlanFails \/ MakePlan \/ CopyAssertion \/ CopyFails \/ StartRun
  BY <1>1, <1>2, <1>3, LaterParsed
     DEF PlanFails, MakePlan, CopyAssertion, CopyFails, StartRun, Copying, Goto, Idle
<1>4. CASE RunTransfer \/ NoAnswer \/ FreePlan \/ FreeOptions
  BY <1>1, <1>2, <1>4, LaterParsed DEF RunTransfer, NoAnswer, FreePlan, FreeOptions, Goto, Idle
<1>5. CASE Answered \/ AnsweredEarlier
  <2>1. PICK r : Judge(r)
    BY <1>5 DEF Answered, AnsweredEarlier
  <2>2. exitCode' \in {0, 1}
    BY <2>1 DEF Judge
  <2> QED
    BY <1>1, <1>2, <2>1, <2>2, LaterParsed DEF Judge, Goto, Idle
<1>6. CASE UNCHANGED vars
  <2>1. UNCHANGED <<pc, argv, next, assertions, exitCode, failures>>
    BY <1>6 DEF vars, getVars
  <2>2. Settled'
    BY <2>1, SameLegal DEF Parsed, Settled
  <2> QED
    BY <1>1, <2>1, <2>2, ParsedKept
<1> QED
  BY <1>3, <1>4, <1>5, <1>6, OptionsParsed, RefusalsParsed, DispatchParsed DEF Next

\* parse_cli_options takes its options word by word; main refuses, with exit
\* code -1 and before anything is sent, the command lines that are not at most
\* MAX_ASSERTION well-formed options, digits in hex included, and it refuses no
\* other one unless malloc failed: for words of any content and any number.
THEOREM ParsesTheLanguage == Spec => []Parses
<1>1. Init => Owned /\ Parsed
  BY InitOwned, InitParsed
<1>2. (Owned /\ Parsed) /\ [Next]_vars => (Owned /\ Parsed)'
  BY NextOwned, NextParsed
<1>3. Owned /\ Parsed => Parses
  <2> SUFFICES ASSUME Parsed, pc = "done"
               PROVE  /\ exitCode = -1 \/ Legal
                      /\ exitCode = -1 /\ failures = 0 => ~Legal
    BY DEF Parses
  <2>1. exitCode # -1 => next = Len(argv) + 1
    BY DEF Parsed, Settled
  <2> QED
    BY <2>1, EndedLegal DEF Parsed, Settled
<1> QED
  BY <1>1, <1>2, <1>3, PTL DEF Spec

-----------------------------------------------------------------------------
(* The first and the last of some places *)

LEMMA LeastExists ==
  ASSUME NEW n \in Nat, NEW S \in SUBSET (1 .. n), S # {}
  PROVE  \E x \in S : \A y \in S : x <= y
<1> DEFINE T == {1 .. x : x \in S}
           R == StrictSubsetOrdering(1 .. n)
<1>1. T \subseteq FiniteSubsetsOf(1 .. n) /\ T # {}
  <2>1. ASSUME NEW x \in S PROVE 1 .. x \in FiniteSubsetsOf(1 .. n)
    BY FS_Interval DEF FiniteSubsetsOf
  <2> QED
    BY <2>1
<1>2. IsWellFoundedOn(R, FiniteSubsetsOf(1 .. n))
  BY FS_StrictSubsetOrderingWellFounded
<1>3. \E t \in T : \A u \in T : <<u, t>> \notin R
  <2> HIDE DEF T, R
  <2> QED
    BY <1>1, <1>2, WFMin
<1>4. PICK x \in S : \A u \in T : <<u, 1 .. x>> \notin R
  BY <1>3
<1>5. ASSUME NEW y \in S, y < x PROVE FALSE
  <2>1. 1 .. y \in T /\ 1 .. y \subseteq 1 .. n /\ 1 .. x \subseteq 1 .. n
    OBVIOUS
  <2>2. 1 .. y \subseteq 1 .. x /\ x \in 1 .. x /\ x \notin 1 .. y
    BY <1>5
  <2>3. <<1 .. y, 1 .. x>> \in R
    BY <2>1, <2>2 DEF StrictSubsetOrdering
  <2> QED
    BY <1>4, <2>1, <2>3
<1> QED
  BY <1>5

LEMMA MinIsLeast ==
  ASSUME NEW n \in Nat, NEW S \in SUBSET (1 .. n), S # {}
  PROVE  Min(S) \in S /\ \A y \in S : Min(S) <= y
<1>1. \E x \in S : \A y \in S : x <= y
  BY LeastExists
<1> QED
  BY <1>1 DEF Min

LEMMA MaxIsGreatest ==
  ASSUME NEW n \in Nat, NEW S \in SUBSET (1 .. n), S # {}
  PROVE  Max(S) \in S /\ \A y \in S : y <= Max(S)
<1> DEFINE T == {n + 1 - x : x \in S}
<1>1. T \in SUBSET (1 .. n) /\ T # {}
  <2>1. ASSUME NEW x \in S PROVE n + 1 - x \in 1 .. n
    <3>1. x \in Nat /\ 1 <= x /\ x <= n
      OBVIOUS
    <3> QED
      BY <3>1
  <2> QED
    BY <2>1
<1>2. PICK t \in T : \A u \in T : t <= u
  <2> HIDE DEF T
  <2> QED
    BY <1>1, LeastExists
<1>3. PICK x \in S : t = n + 1 - x
  OBVIOUS
<1>4. ASSUME NEW y \in S PROVE y <= x
  <2>1. n + 1 - y \in T
    OBVIOUS
  <2>2. n + 1 - x <= n + 1 - y
    BY <1>2, <1>3, <2>1
  <2> QED
    BY <2>2
<1>5. \E z \in S : \A y \in S : z >= y
  BY <1>4
<1> QED
  BY <1>5 DEF Max

-----------------------------------------------------------------------------
(* header_contains, the search of one line *)

Blank   == {Space, Tab}
AtEnd   == {Space, Tab, CR}

\* Where a loop of header_contains stops, told without its steps.
IsSkip(h, p, u)    == /\ u \in p .. Len(h) + 1
                      /\ \A q \in p .. u - 1 : h[q] \in Blank
                      /\ u <= Len(h) => h[u] \notin Blank
IsTrim(h, s, e, u) == /\ u \in s .. e
                      /\ u = s \/ h[u - 1] \notin AtEnd
                      /\ \A q \in u .. e - 1 : h[q] \in AtEnd
IsColon(h, s, e, u) == /\ u \in s .. e - 1
                       /\ h[u] = Colon
                       /\ \A q \in s .. u - 1 : h[q] # Colon

LEMMA SkipStops ==
  ASSUME NEW h \in Text, NEW p \in 1 .. Len(h) + 1
  PROVE  IsSkip(h, p, skip_spaces(h, p))
<1> DEFINE Q == {q \in p .. Len(h) + 1 : IsPlace(h, q) => h[q] \notin {Space, Tab}}
<1>1. Len(h) \in Nat /\ p \in Nat /\ p >= 1
  BY LenProperties DEF Text
<1>2. Q \in SUBSET (1 .. Len(h) + 1) /\ Len(h) + 1 \in Q
  BY <1>1 DEF IsPlace
<1>3. PICK u : u = Min(Q)
  OBVIOUS
<1>4. u \in Q /\ \A y \in Q : u <= y
  <2>1. Len(h) + 1 \in Nat /\ Q # {}
    BY <1>1, <1>2
  <2> HIDE DEF Q
  <2> QED
    BY <1>2, <1>3, <2>1, MinIsLeast
<1>5. u \in p .. Len(h) + 1 /\ (u <= Len(h) => h[u] \notin Blank)
  BY <1>1, <1>4 DEF IsPlace, Blank
<1>6. ASSUME NEW q \in p .. u - 1 PROVE h[q] \in Blank
  <2>1. q \in p .. Len(h) + 1 /\ q < u /\ q \in Nat
    BY <1>1, <1>5
  <2>2. q \notin Q
    BY <1>4, <1>5, <2>1
  <2> QED
    BY <2>1, <2>2 DEF Blank
<1>7. u = skip_spaces(h, p)
  BY <1>3 DEF skip_spaces
<1> QED
  BY <1>5, <1>6, <1>7 DEF IsSkip

LEMMA TrimStops ==
  ASSUME NEW h \in Text, NEW s \in Nat \ {0}, NEW e \in Nat, s <= e
  PROVE  IsTrim(h, s, e, rtrim_end(h, s, e))
<1> DEFINE Q == {q \in s .. e : q = s \/ h[q - 1] \notin {Space, Tab, CR}}
<1>1. Q \in SUBSET (1 .. e) /\ s \in Q
  OBVIOUS
<1>2. PICK u : u = Max(Q)
  OBVIOUS
<1>3. u \in Q /\ \A y \in Q : y <= u
  <2>1. Q # {}
    BY <1>1
  <2> HIDE DEF Q
  <2> QED
    BY <1>1, <1>2, <2>1, MaxIsGreatest
<1>4. u \in s .. e /\ (u = s \/ h[u - 1] \notin AtEnd)
  BY <1>3 DEF AtEnd
<1>5. ASSUME NEW q \in u .. e - 1 PROVE h[q] \in AtEnd
  <2>1. q + 1 \in s .. e /\ q + 1 > u /\ q + 1 - 1 = q
    BY <1>4
  <2>2. q + 1 \notin Q
    BY <1>3, <1>4, <2>1
  <2> QED
    BY <2>1, <2>2 DEF AtEnd
<1>6. u = rtrim_end(h, s, e)
  BY <1>2 DEF rtrim_end
<1> QED
  BY <1>4, <1>5, <1>6 DEF IsTrim

\* Each of them stops at one place only.
LEMMA SkipOnce ==
  ASSUME NEW h, NEW p \in Nat, Len(h) \in Nat, NEW u, NEW v, IsSkip(h, p, u), IsSkip(h, p, v)
  PROVE  u = v
<1>1. u \in Nat /\ v \in Nat /\ u >= p /\ v >= p /\ u <= Len(h) + 1 /\ v <= Len(h) + 1
  BY DEF IsSkip
<1>2. ASSUME u < v PROVE FALSE
  <2>1. u \in p .. v - 1 /\ u <= Len(h)
    BY <1>1, <1>2
  <2> QED
    BY <2>1 DEF IsSkip
<1>3. ASSUME v < u PROVE FALSE
  <2>1. v \in p .. u - 1 /\ v <= Len(h)
    BY <1>1, <1>3
  <2> QED
    BY <2>1 DEF IsSkip
<1> QED
  BY <1>1, <1>2, <1>3

LEMMA TrimOnce ==
  ASSUME NEW h, NEW s \in Nat, NEW e \in Nat, NEW u, NEW v, IsTrim(h, s, e, u), IsTrim(h, s, e, v)
  PROVE  u = v
<1>1. u \in Nat /\ v \in Nat /\ u >= s /\ v >= s /\ u <= e /\ v <= e
  BY DEF IsTrim
<1>2. ASSUME u < v PROVE FALSE
  <2>1. v - 1 \in u .. e - 1 /\ v # s
    BY <1>1, <1>2
  <2> QED
    BY <2>1 DEF IsTrim
<1>3. ASSUME v < u PROVE FALSE
  <2>1. u - 1 \in v .. e - 1 /\ u # s
    BY <1>1, <1>3
  <2> QED
    BY <2>1 DEF IsTrim
<1> QED
  BY <1>1, <1>2, <1>3

LEMMA FirstColon ==
  ASSUME NEW h \in Text, NEW s \in Nat \ {0}, NEW e \in Nat, e = LineEnd(h, s)
  PROVE  /\ Colons(h, s) # {} => IsColon(h, s, e, Min(Colons(h, s)))
         /\ \A u : IsColon(h, s, e, u) => Colons(h, s) # {} /\ u = Min(Colons(h, s))
<1>1. Colons(h, s) = {q \in s .. e - 1 : h[q] = Colon}
  BY DEF Colons
<1>2. PICK Q : Q = Colons(h, s)
  OBVIOUS
<1>3. Q \in SUBSET (1 .. e) /\ Q = {q \in s .. e - 1 : h[q] = Colon}
  BY <1>1, <1>2
<1>4. ASSUME Q # {} PROVE Min(Q) \in Q /\ \A y \in Q : Min(Q) <= y
  BY <1>3, <1>4, MinIsLeast
<1>5. ASSUME Q # {}, NEW u, u = Min(Q) PROVE IsColon(h, s, e, u)
  <2>1. u \in Q /\ \A y \in Q : u <= y
    BY <1>4, <1>5
  <2>2. u \in s .. e - 1 /\ h[u] = Colon
    BY <1>3, <2>1
  <2>3. ASSUME NEW q \in s .. u - 1 PROVE h[q] # Colon
    <3>1. q \in s .. e - 1 /\ q < u /\ q \in Nat /\ u \in Nat
      BY <2>2
    <3> QED
      BY <1>3, <2>1, <3>1
  <2> QED
    BY <2>2, <2>3 DEF IsColon
<1>6. ASSUME NEW u, IsColon(h, s, e, u) PROVE Q # {} /\ u = Min(Q)
  <2>1. u \in Q
    BY <1>3, <1>6 DEF IsColon
  <2>2. PICK m : m = Min(Q)
    OBVIOUS
  <2>3. IsColon(h, s, e, m)
    BY <1>5, <2>1, <2>2
  <2>4. u \in Nat /\ m \in Nat /\ u >= s /\ m >= s
    BY <1>6, <2>3 DEF IsColon
  <2>5. m <= u
    BY <1>4, <2>1, <2>2
  <2>6. ~(m < u)
    <3> SUFFICES ASSUME m < u PROVE FALSE
      OBVIOUS
    <3>1. m \in s .. u - 1
      BY <2>4
    <3> QED
      BY <1>6, <2>3, <3>1 DEF IsColon
  <2> QED
    BY <2>1, <2>2, <2>4, <2>5, <2>6
<1> QED
  BY <1>2, <1>5, <1>6

-----------------------------------------------------------------------------
(* A line of the headers *)

LEMMA EndOfLine ==
  ASSUME NEW h \in Text, NEW l, IsLine(l), NEW s, LineAt(h, s, l)
  PROVE  LineEnd(h, s) = s + Len(l) - 1
<1>1. Len(h) \in Nat /\ Len(l) \in Nat /\ Len(l) > 0 /\ DOMAIN l = 1 .. Len(l)
  BY LenProperties, EmptySeq DEF IsLine, Text
<1>2. /\ l[Len(l)] = LF /\ \A q \in 1 .. Len(l) : q # Len(l) => l[q] # LF
  <2>1. Len(l) \in DOMAIN l
    BY <1>1
  <2> QED
    BY <1>1, <2>1 DEF IsLine
<1>3. PICK e : e = s + Len(l) - 1
  OBVIOUS
<1>4. s \in Nat /\ s >= 1 /\ e \in Nat /\ e <= Len(h) /\ e >= s
  BY <1>1, <1>3 DEF LineAt
<1>5. PICK Q : Q = {q \in s .. Len(h) + 1 : IsPlace(h, q) => h[q] = LF}
  OBVIOUS
<1>6. e \in Q
  <2>1. h[s + Len(l) - 1] = l[Len(l)]
    BY <1>1 DEF LineAt
  <2>2. h[e] = LF
    BY ONLY <1>2, <1>3, <2>1
  <2>3. e \in s .. Len(h) + 1
    BY <1>1, <1>4
  <2> QED
    BY <1>5, <2>2, <2>3
<1>7. ASSUME NEW q \in Q PROVE e <= q
  <2>1. q \in Nat /\ q >= s /\ (IsPlace(h, q) => h[q] = LF)
    BY <1>4, <1>5
  <2>2. ASSUME q < e PROVE FALSE
    <3>1. q - s + 1 \in 1 .. Len(l) /\ q - s + 1 # Len(l) /\ s + (q - s + 1) - 1 = q
      BY <1>1, <1>3, <1>4, <2>1, <2>2
    <3>2. h[q] = l[q - s + 1]
      BY <3>1 DEF LineAt
    <3>3. IsPlace(h, q)
      BY <1>1, <1>4, <2>1, <2>2 DEF IsPlace
    <3> QED
      BY <1>2, <2>1, <3>1, <3>2, <3>3
  <2> QED
    BY <1>4, <2>1, <2>2
<1>8. e = Min(Q)
  <2>1. Q \in SUBSET (1 .. Len(h) + 1) /\ Q # {} /\ Len(h) + 1 \in Nat
    BY <1>1, <1>4, <1>5, <1>6
  <2>2. PICK m : m = Min(Q)
    OBVIOUS
  <2>3. m \in Q /\ \A y \in Q : m <= y
    BY <2>1, <2>2, MinIsLeast
  <2>4. m \in Nat /\ m <= e /\ e <= m
    BY <1>4, <1>5, <1>6, <1>7, <2>3
  <2> QED
    BY <1>4, <2>2, <2>4
<1> QED
  BY <1>3, <1>5, <1>8 DEF LineEnd

\* Parts of a line, in it and in the text it is a line of.
LEMMA PartOf ==
  ASSUME NEW h \in Text, NEW l \in Text, NEW s, LineAt(h, s, l),
         NEW a \in 0 .. Len(l), NEW b \in 0 .. Len(l)
  PROVE  /\ SubSeq(l, a + 1, b) \in Text
         /\ SubSeq(h, s + a, s + b - 1) = SubSeq(l, a + 1, b)
         /\ Len(SubSeq(l, a + 1, b)) = IF a < b THEN b - a ELSE 0
         /\ \A q \in 1 .. b - a : SubSeq(l, a + 1, b)[q] = l[a + q]
<1>1. Len(l) \in Nat /\ Len(h) \in Nat /\ s \in Nat /\ s >= 1 /\ s + Len(l) - 1 <= Len(h)
  BY LenProperties DEF LineAt, Text
<1>2. a \in Int /\ b \in Int /\ a >= 0 /\ b <= Len(l)
  BY <1>1
<1>3. \A q \in a + 1 .. b : l[q] \in Byte
  BY <1>1, <1>2 DEF Text
<1>4. \A q \in s + a .. s + b - 1 : h[q] \in Byte
  BY <1>1, <1>2 DEF Text
<1>5. PICK t : t = SubSeq(l, a + 1, b)
  OBVIOUS
<1>6. /\ t \in Seq(Byte) /\ Len(t) = (IF a + 1 <= b THEN b - (a + 1) + 1 ELSE 0)
      /\ \A q \in 1 .. b - (a + 1) + 1 : t[q] = l[a + 1 + q - 1]
  <2>1. a + 1 \in Int /\ b \in Int
    BY <1>2
  <2> QED
    BY <1>3, <1>5, <2>1, SubSeqProperties
<1>7. PICK f, g : f = s + a /\ g = s + b - 1
  OBVIOUS
<1>u. PICK u : u = SubSeq(h, f, g)
  OBVIOUS
<1>8. /\ u \in Seq(Byte) /\ Len(u) = (IF f <= g THEN g - f + 1 ELSE 0)
      /\ \A q \in 1 .. g - f + 1 : u[q] = h[f + q - 1]
  <2>1. f \in Int /\ g \in Int /\ \A q \in f .. g : h[q] \in Byte
    BY <1>1, <1>2, <1>4, <1>7
  <2> QED
    BY <1>u, <2>1, SubSeqProperties
<1>9. /\ Len(t) = (IF a < b THEN b - a ELSE 0) /\ Len(t) = Len(u)
      /\ \A q \in 1 .. b - a : t[q] = l[a + q] /\ u[q] = h[s + a + q - 1]
  <2>1. b - (a + 1) + 1 = b - a /\ g - f + 1 = b - a
    BY <1>1, <1>2, <1>7
  <2>2. \A q \in 1 .. b - a : a + 1 + q - 1 = a + q
    BY <1>2
  <2>3. (f <= g <=> a < b) /\ (a + 1 <= b <=> a < b)
    BY <1>1, <1>2, <1>7
  <2>4. Len(t) = (IF a < b THEN b - a ELSE 0) /\ Len(t) = Len(u)
    BY <1>6, <1>8, <2>1, <2>3
  <2>5. \A q \in 1 .. b - a : u[q] = h[s + a + q - 1]
    BY <1>7, <1>8, <2>1
  <2> QED
    BY <1>6, <2>1, <2>2, <2>4, <2>5
<1>10. ASSUME NEW q \in 1 .. Len(u) PROVE u[q] = t[q]
  <2>1. q \in 1 .. b - a /\ a + q \in 1 .. Len(l) /\ s + a + q - 1 = s + (a + q) - 1
    BY <1>1, <1>2, <1>9
  <2> QED
    BY <1>9, <2>1 DEF LineAt
<1>11. u = t
  BY <1>6, <1>8, <1>9, <1>10, SeqEqual
<1> QED
  BY <1>5, <1>6, <1>7, <1>9, <1>11, <1>u DEF Text

LEMMA PartIn ==
  ASSUME NEW l \in Text, NEW a \in 0 .. Len(l), NEW b \in 0 .. Len(l), NEW set
  PROVE  /\ AllIn(SubSeq(l, a + 1, b), set) <=> \A q \in a + 1 .. b : l[q] \in set
         /\ EndsIn(SubSeq(l, a + 1, b), set) <=> a < b /\ l[b] \in set
         /\ StartsIn(SubSeq(l, a + 1, b), set) <=> a < b /\ l[a + 1] \in set
<1>1. Len(l) \in Nat /\ a \in Nat /\ b \in Nat
  BY LenProperties DEF Text
<1>2. LineAt(l, 1, l)
  BY <1>1 DEF LineAt
<1>3. PICK t : t = SubSeq(l, a + 1, b)
  OBVIOUS
<1>4. /\ t \in Text /\ Len(t) = (IF a < b THEN b - a ELSE 0)
      /\ \A q \in 1 .. b - a : t[q] = l[a + q]
  BY <1>2, <1>3, PartOf
<1>5. /\ DOMAIN t = 1 .. Len(t) /\ (t = <<>> <=> ~(a < b))
  <2>1. DOMAIN t = 1 .. Len(t) /\ (t # <<>> => Len(t) # 0)
    BY <1>4, LenProperties, EmptySeq DEF Text
  <2>2. t = <<>> => Len(t) = 0
    BY EmptySeq
  <2> QED
    BY <1>1, <1>4, <2>1, <2>2
<1>6. AllIn(t, set) <=> \A q \in a + 1 .. b : l[q] \in set
  <2>1. ASSUME AllIn(t, set), NEW q \in a + 1 .. b PROVE l[q] \in set
    <3>1. q - a \in 1 .. b - a /\ q - a \in 1 .. Len(t) /\ a + (q - a) = q
      BY <1>1, <1>4
    <3> QED
      BY <1>4, <1>5, <2>1, <3>1 DEF AllIn
  <2>2. ASSUME \A q \in a + 1 .. b : l[q] \in set, NEW i \in DOMAIN t PROVE t[i] \in set
    <3>1. i \in 1 .. b - a /\ a + i \in a + 1 .. b
      BY <1>1, <1>4, <1>5
    <3> QED
      BY <1>4, <2>2, <3>1
  <2> QED
    BY <2>1, <2>2 DEF AllIn
<1>7. EndsIn(t, set) <=> a < b /\ l[b] \in set
  <2>1. CASE a < b
    <3>1. Len(t) = b - a /\ b - a \in 1 .. b - a /\ a + (b - a) = b
      BY <1>1, <1>4, <2>1
    <3>2. t[Len(t)] = l[b]
      BY <1>4, <3>1
    <3> QED
      BY <1>5, <2>1, <3>2 DEF EndsIn
  <2> QED
    BY <1>5, <2>1 DEF EndsIn
<1>8. StartsIn(t, set) <=> a < b /\ l[a + 1] \in set
  <2>1. CASE a < b
    <3>1. 1 \in 1 .. b - a
      BY <1>1, <2>1
    <3> QED
      BY <1>4, <1>5, <2>1, <3>1 DEF StartsIn
  <2> QED
    BY <1>5, <2>1 DEF StartsIn
<1> QED
  BY <1>3, <1>6, <1>7, <1>8

-----------------------------------------------------------------------------
(* What header_contains finds in a line *)

\* The search of a line, with the places where its loops stop.
Finds(h, s, e, name, value, c, r, v, w) ==
    /\ IsColon(h, s, e, c) /\ IsTrim(h, s, c, r)
    /\ IsSkip(h, c + 1, v) /\ IsTrim(h, v, e, w)
    /\ SameName(SubSeq(h, s, r - 1), name)
    /\ SubSeq(h, v, w - 1) = value

\* A line cut as SaysHeader wants it.
CutAt(l, i, j, k, m, name, value) ==
    /\ i <= j /\ j < k /\ k <= m
    /\ SameName(SubSeq(l, 0 + 1, i), name) /\ ~EndsIn(name, AtEnd)
    /\ AllIn(SubSeq(l, i + 1, j), AtEnd)
    /\ l[j + 1] = Colon /\ \A q \in 1 .. j : l[q] # Colon
    /\ AllIn(SubSeq(l, j + 1 + 1, k), Blank)
    /\ SubSeq(l, k + 1, m) = value
    /\ ~StartsIn(value, Blank) /\ ~EndsIn(value, AtEnd \cup {LF})
    /\ AllIn(SubSeq(l, m + 1, Len(l)), AtEnd \cup {LF})

LEMMA SaysIsCut ==
  ASSUME NEW l, NEW name, NEW value
  PROVE  SaysHeader(l, name, value) <=>
            \E i, j, k, m \in 0 .. Len(l) : CutAt(l, i, j, k, m, name, value)
<1>1. AtEnd \cup {LF} = {Space, Tab, CR, LF}
  BY DEF AtEnd
<1> QED
  BY <1>1 DEF SaysHeader, CutAt, AtEnd, Blank

\* What the rest of the line is like, for a colon that is there.
LEMMA BehindColon ==
  ASSUME NEW h \in Text, NEW l, IsLine(l), NEW s, LineAt(h, s, l),
         NEW c, IsColon(h, s, s + Len(l) - 1, c), NEW v, IsSkip(h, c + 1, v)
  PROVE  v \in Nat /\ v > c /\ v <= s + Len(l) - 1
<1>1. Len(l) \in Nat /\ Len(l) > 0 /\ Len(h) \in Nat /\ s \in Nat /\ s + Len(l) - 1 <= Len(h)
  BY LenProperties, EmptySeq DEF IsLine, Text, LineAt
<1>2. c \in Nat /\ c < s + Len(l) - 1 /\ v \in Nat /\ v > c
  BY <1>1 DEF IsColon, IsSkip
<1>3. h[s + Len(l) - 1] = LF
  <2>1. Len(l) \in DOMAIN l /\ Len(l) \in 1 .. Len(l)
    BY <1>1, LenProperties DEF IsLine, Text
  <2>2. l[Len(l)] = LF
    BY <2>1 DEF IsLine
  <2> QED
    BY <2>1, <2>2 DEF LineAt
<1>4. ASSUME v > s + Len(l) - 1 PROVE FALSE
  <2>1. s + Len(l) - 1 \in c + 1 .. v - 1
    BY <1>1, <1>2, <1>4
  <2>2. h[s + Len(l) - 1] \in Blank
    BY <2>1 DEF IsSkip
  <2> QED
    BY <1>3, <2>2 DEF Blank, LF, Space, Tab
<1> QED
  BY <1>1, <1>2, <1>4

LEMMA MatchesFinds ==
  ASSUME NEW h \in Text, NEW l, IsLine(l), NEW s, LineAt(h, s, l), NEW name, NEW value
  PROVE  LineMatches(h, s, name, value) <=>
            \E c, r, v, w : Finds(h, s, s + Len(l) - 1, name, value, c, r, v, w)
<1>1. Len(l) \in Nat /\ Len(l) > 0 /\ Len(h) \in Nat /\ s \in Nat \ {0} /\ s + Len(l) - 1 <= Len(h)
  BY LenProperties, EmptySeq DEF IsLine, Text, LineAt
<1>2. PICK e : e = s + Len(l) - 1
  OBVIOUS
<1>3. e \in Nat /\ e <= Len(h) /\ e = LineEnd(h, s)
  BY <1>1, <1>2, EndOfLine
<1>4. PICK c : c = Min(Colons(h, s))
  OBVIOUS
<1>5. PICK r, v : r = rtrim_end(h, s, c) /\ v = skip_spaces(h, c + 1)
  OBVIOUS
<1>6. PICK w : w = rtrim_end(h, v, e)
  OBVIOUS
<1>7. LineMatches(h, s, name, value) <=>
         /\ Colons(h, s) # {}
         /\ SameName(SubSeq(h, s, r - 1), name)
         /\ SubSeq(h, v, w - 1) = value
  BY <1>3, <1>4, <1>5, <1>6 DEF LineMatches, strncasecmp_equal, SameName
<1>8. Colons(h, s) # {} <=> IsColon(h, s, e, c)
  BY <1>1, <1>3, <1>4, FirstColon
<1>9. ASSUME IsColon(h, s, e, c)
      PROVE  IsTrim(h, s, c, r) /\ IsSkip(h, c + 1, v) /\ IsTrim(h, v, e, w)
  <2>1. c \in Nat /\ s <= c /\ c + 1 \in 1 .. Len(h) + 1
    BY <1>1, <1>3, <1>9 DEF IsColon
  <2>2. IsTrim(h, s, c, r)
    BY <1>1, <1>5, <2>1, TrimStops
  <2>3. IsSkip(h, c + 1, v)
    BY <1>5, <2>1, SkipStops
  <2>4. v \in Nat /\ v > c /\ v <= e
    BY <1>2, <1>9, <2>3, BehindColon
  <2>5. v \in Nat \ {0}
    BY <2>1, <2>4
  <2> QED
    BY <1>3, <1>6, <2>2, <2>3, <2>4, <2>5, TrimStops
<1>10. ASSUME LineMatches(h, s, name, value)
       PROVE  Finds(h, s, e, name, value, c, r, v, w)
  BY <1>7, <1>8, <1>9, <1>10 DEF Finds
<1>11. ASSUME NEW cc, NEW rr, NEW vv, NEW ww, Finds(h, s, e, name, value, cc, rr, vv, ww)
       PROVE  LineMatches(h, s, name, value)
  <2>1. /\ IsColon(h, s, e, cc) /\ IsTrim(h, s, cc, rr)
        /\ IsSkip(h, cc + 1, vv) /\ IsTrim(h, vv, e, ww)
        /\ SameName(SubSeq(h, s, rr - 1), name)
        /\ SubSeq(h, vv, ww - 1) = value
    BY <1>11 DEF Finds
  <2>2. Colons(h, s) # {} /\ cc = c
    BY <1>1, <1>3, <1>4, <2>1, FirstColon
  <2>3. IsTrim(h, s, c, r) /\ IsSkip(h, c + 1, v) /\ IsTrim(h, v, e, w)
    BY <1>9, <2>1, <2>2
  <2>4. c \in Nat /\ s \in Nat
    BY <1>1, <2>1, <2>2 DEF IsColon
  <2>5. rr = r
    BY <2>1, <2>2, <2>3, <2>4, TrimOnce
  <2>6. vv = v /\ v \in Nat
    <3>1. c + 1 \in Nat
      BY <2>4
    <3>2. vv = v
      BY <1>1, <2>1, <2>2, <2>3, <3>1, SkipOnce
    <3>3. v \in Nat
      BY <3>1, <2>3 DEF IsSkip
    <3> QED
      BY <3>2, <3>3
  <2>7. ww = w
    BY <1>3, <2>1, <2>3, <2>6, TrimOnce
  <2> QED
    BY <1>7, <2>1, <2>2, <2>5, <2>6, <2>7
<1> QED
  BY <1>2, <1>10, <1>11

LEMMA SameLetters ==
  ASSUME NEW a \in Byte, NEW b \in Byte, tolower(a) = tolower(b)
  PROVE  a \in AtEnd <=> b \in AtEnd
BY DEF tolower, AtEnd, Byte, Space, Tab, CR

Part(l, a, b) == SubSeq(l, a + 1, b)

LEMMA PartAt ==
  ASSUME NEW h \in Text, NEW l \in Text, NEW s, LineAt(h, s, l),
         NEW a \in 0 .. Len(l), NEW b \in 0 .. Len(l), NEW f, NEW g, f = s + a, g = s + b - 1
  PROVE  SubSeq(h, f, g) = Part(l, a, b) /\ Part(l, a, b) \in Text
<1>1. SubSeq(h, s + a, s + b - 1) = SubSeq(l, a + 1, b) /\ SubSeq(l, a + 1, b) \in Text
  BY PartOf
<1> QED
  BY <1>1 DEF Part

LEMMA FindsCuts ==
  ASSUME NEW h \in Text, NEW l, IsLine(l), NEW s, LineAt(h, s, l), NEW name \in Text, NEW value \in Text,
         NEW c, NEW r, NEW v, NEW w, Finds(h, s, s + Len(l) - 1, name, value, c, r, v, w)
  PROVE  \E i, j, k, m \in 0 .. Len(l) : CutAt(l, i, j, k, m, name, value)
<1>1. /\ l \in Text /\ Len(l) \in Nat /\ Len(l) > 0 /\ Len(h) \in Nat /\ s \in Nat /\ s >= 1
      /\ s + Len(l) - 1 <= Len(h)
  BY LenProperties, EmptySeq DEF IsLine, Text, LineAt
<1>2. PICK e : e = s + Len(l) - 1
  OBVIOUS
<1>3. e \in Nat /\ e <= Len(h)
  BY <1>1, <1>2
<1>4. /\ IsColon(h, s, e, c) /\ IsTrim(h, s, c, r)
      /\ IsSkip(h, c + 1, v) /\ IsTrim(h, v, e, w)
      /\ SameName(SubSeq(h, s, r - 1), name)
      /\ SubSeq(h, v, w - 1) = value
  BY <1>2 DEF Finds
<1>5. v \in Nat /\ v > c /\ v <= e
  BY <1>2, <1>4, BehindColon
<1>6. PICK i, j, k, m : i = r - s /\ j = c - s /\ k = v - s /\ m = w - s
  OBVIOUS
<1>7. /\ c \in Nat /\ r \in Nat /\ w \in Nat
      /\ s <= r /\ r <= c /\ c < e /\ v <= w /\ w <= e
  BY <1>1, <1>3, <1>4, <1>5 DEF IsColon, IsTrim
<1>8. /\ i \in 0 .. Len(l) /\ j \in 0 .. Len(l) /\ k \in 0 .. Len(l) /\ m \in 0 .. Len(l)
      /\ i <= j /\ j < k /\ k <= m /\ m < Len(l)
  BY <1>1, <1>2, <1>5, <1>6, <1>7
<1>9. \A q \in 1 .. Len(l) : h[s + q - 1] = l[q]
  BY DEF LineAt
<1>10. \A q \in 1 .. Len(l) : l[q] = LF <=> q = Len(l)
  <2>1. DOMAIN l = 1 .. Len(l)
    BY <1>1, LenProperties DEF Text
  <2> QED
    BY <2>1 DEF IsLine
<1>11. SubSeq(h, s, r - 1) = SubSeq(l, 0 + 1, i) /\ SubSeq(l, 0 + 1, i) \in Text
  <2>1. PICK a, f, g : a = 0 /\ f = s /\ g = r - 1
    OBVIOUS
  <2>2. f = s + a /\ g = s + i - 1
    BY <1>1, <1>6, <1>7, <2>1
  <2>3. /\ h \in Text /\ l \in Text /\ LineAt(h, s, l)
        /\ a \in 0 .. Len(l) /\ i \in 0 .. Len(l)
    BY <1>1, <1>8, <2>1
  <2>4. SubSeq(h, f, g) = Part(l, a, i) /\ Part(l, a, i) \in Text
    BY ONLY <2>2, <2>3, PartAt
  <2> QED
    BY <2>1, <2>4 DEF Part
<1>12. ~EndsIn(name, AtEnd)
  <2> SUFFICES ASSUME name # <<>>, name[Len(name)] \in AtEnd PROVE FALSE
    BY DEF EndsIn
  <2>1. PICK t : t = SubSeq(l, 0 + 1, i)
    OBVIOUS
  <2>2. t \in Text /\ SameName(t, name)
    BY <1>4, <1>11, <2>1
  <2>3. Len(name) \in Nat /\ Len(name) > 0 /\ Len(t) = Len(name) /\ DOMAIN t = 1 .. Len(t)
    BY <2>2, LenProperties, EmptySeq DEF SameName, Text
  <2>4. 0 \in 0 .. Len(l)
    BY <1>1
  <2>5. Len(t) = (IF 0 < i THEN i - 0 ELSE 0) /\ \A q \in 1 .. i - 0 : t[q] = l[0 + q]
    BY <1>1, <1>8, <2>1, <2>4, PartOf
  <2>6. i > 0 /\ i = Len(t) /\ i - 0 = i /\ 0 + i = i /\ i \in 1 .. i
    BY <1>8, <2>3, <2>5
  <2>7. t[i] = l[i]
    BY <2>5, <2>6
  <2>8. i \in 1 .. Len(l) /\ s + i - 1 = r - 1 /\ r # s
    BY <1>1, <1>6, <1>7, <1>8, <2>6
  <2>9. l[i] \notin AtEnd
    BY <1>4, <1>9, <2>8 DEF IsTrim
  <2>10. tolower(t[i]) = tolower(name[i])
    BY <2>2, <2>3, <2>6 DEF SameName
  <2>11. t[i] \in Byte /\ name[i] \in Byte
    BY <2>2, <2>3, <2>6 DEF Text
  <2>12. name[i] \in AtEnd
    BY <2>3, <2>6
  <2> QED
    BY <2>7, <2>9, <2>10, <2>11, <2>12, SameLetters
<1>13. AllIn(SubSeq(l, i + 1, j), AtEnd)
  <2>1. ASSUME NEW q \in i + 1 .. j PROVE l[q] \in AtEnd
    <3>1. q \in 1 .. Len(l) /\ s + q - 1 \in r .. c - 1
      BY <1>1, <1>6, <1>7, <1>8
    <3> QED
      BY <1>4, <1>9, <3>1 DEF IsTrim
  <2> QED
    BY <1>1, <1>8, <2>1, PartIn
<1>14. l[j + 1] = Colon /\ \A q \in 1 .. j : l[q] # Colon
  <2>1. j + 1 \in 1 .. Len(l) /\ s + (j + 1) - 1 = c
    BY <1>1, <1>6, <1>7, <1>8
  <2>2. l[j + 1] = Colon
    BY <1>4, <1>9, <2>1 DEF IsColon
  <2>3. ASSUME NEW q \in 1 .. j PROVE l[q] # Colon
    <3>1. q \in 1 .. Len(l) /\ s + q - 1 \in s .. c - 1
      BY <1>1, <1>6, <1>7, <1>8
    <3> QED
      BY <1>4, <1>9, <3>1 DEF IsColon
  <2> QED
    BY <2>2, <2>3
<1>15. AllIn(SubSeq(l, j + 1 + 1, k), Blank)
  <2>1. ASSUME NEW q \in j + 1 + 1 .. k PROVE l[q] \in Blank
    <3>1. q \in 1 .. Len(l) /\ s + q - 1 \in c + 1 .. v - 1
      BY <1>1, <1>5, <1>6, <1>7, <1>8
    <3> QED
      BY <1>4, <1>9, <3>1 DEF IsSkip
  <2>2. j + 1 \in 0 .. Len(l)
    BY <1>1, <1>8
  <2> QED
    BY <1>1, <1>8, <2>1, <2>2, PartIn
<1>16. SubSeq(l, k + 1, m) = value
  <2>1. PICK g : g = w - 1
    OBVIOUS
  <2>2. v = s + k /\ g = s + m - 1
    BY <1>1, <1>5, <1>6, <1>7, <2>1
  <2>3. /\ h \in Text /\ l \in Text /\ LineAt(h, s, l)
        /\ k \in 0 .. Len(l) /\ m \in 0 .. Len(l)
    BY <1>1, <1>8
  <2>4. SubSeq(h, v, g) = Part(l, k, m)
    BY ONLY <2>2, <2>3, PartAt
  <2> QED
    BY <1>4, <2>1, <2>4 DEF Part
<1>17. ~StartsIn(value, Blank)
  <2> SUFFICES ASSUME k < m, l[k + 1] \in Blank PROVE FALSE
    BY <1>1, <1>8, <1>16, PartIn
  <2>1. k + 1 \in 1 .. Len(l) /\ s + (k + 1) - 1 = v /\ v <= Len(h)
    BY <1>1, <1>3, <1>5, <1>6, <1>8
  <2> QED
    BY <1>4, <1>9, <2>1 DEF IsSkip
<1>18. ~EndsIn(value, AtEnd \cup {LF})
  <2> SUFFICES ASSUME k < m, l[m] \in AtEnd \cup {LF} PROVE FALSE
    BY <1>1, <1>8, <1>16, PartIn
  <2>1. m \in 1 .. Len(l) /\ m # Len(l) /\ s + m - 1 = w - 1 /\ w # v
    BY <1>1, <1>5, <1>6, <1>7, <1>8
  <2> QED
    BY <1>4, <1>9, <1>10, <2>1 DEF IsTrim
<1>19. AllIn(SubSeq(l, m + 1, Len(l)), AtEnd \cup {LF})
  <2>1. ASSUME NEW q \in m + 1 .. Len(l) PROVE l[q] \in AtEnd \cup {LF}
    <3>1. q \in 1 .. Len(l)
      BY <1>1, <1>8
    <3>2. CASE q = Len(l)
      BY <1>10, <3>1, <3>2
    <3>3. CASE q # Len(l)
      <4>1. s + q - 1 \in w .. e - 1
        BY <1>1, <1>2, <1>6, <1>7, <1>8, <3>1, <3>3
      <4> QED
        BY <1>4, <1>9, <3>1, <4>1 DEF IsTrim
    <3> QED
      BY <3>2, <3>3
  <2>2. Len(l) \in 0 .. Len(l)
    BY <1>1
  <2> QED
    BY <1>1, <1>8, <2>1, <2>2, PartIn
<1>20. SameName(SubSeq(l, 0 + 1, i), name)
  BY <1>4, <1>11
<1>21. CutAt(l, i, j, k, m, name, value)
  BY <1>8, <1>12, <1>13, <1>14, <1>15, <1>16, <1>17, <1>18, <1>19, <1>20 DEF CutAt
<1> QED
  BY <1>8, <1>21

LEMMA CutsFind ==
  ASSUME NEW h \in Text, NEW l, IsLine(l), NEW s, LineAt(h, s, l), NEW name \in Text, NEW value \in Text,
         NEW i \in 0 .. Len(l), NEW j \in 0 .. Len(l), NEW k \in 0 .. Len(l), NEW m \in 0 .. Len(l),
         CutAt(l, i, j, k, m, name, value)
  PROVE  \E c, r, v, w : Finds(h, s, s + Len(l) - 1, name, value, c, r, v, w)
<1>1. /\ l \in Text /\ Len(l) \in Nat /\ Len(l) > 0 /\ Len(h) \in Nat /\ s \in Nat /\ s >= 1
      /\ s + Len(l) - 1 <= Len(h)
  BY LenProperties, EmptySeq DEF IsLine, Text, LineAt
<1>2. PICK e : e = s + Len(l) - 1
  OBVIOUS
<1>3. e \in Nat /\ e <= Len(h)
  BY <1>1, <1>2
<1>4. \A q \in 1 .. Len(l) : h[s + q - 1] = l[q]
  BY DEF LineAt
<1>5. \A q \in 1 .. Len(l) : l[q] = LF <=> q = Len(l)
  <2>1. DOMAIN l = 1 .. Len(l)
    BY <1>1, LenProperties DEF Text
  <2> QED
    BY <2>1 DEF IsLine
<1>6. /\ i \in Nat /\ j \in Nat /\ k \in Nat /\ m \in Nat
      /\ i <= j /\ j < k /\ k <= m /\ m <= Len(l)
  BY <1>1 DEF CutAt
<1>7. PICK c, r : c = s + j /\ r = s + i
  OBVIOUS
<1>8. /\ SameName(SubSeq(l, 0 + 1, i), name) /\ ~EndsIn(name, AtEnd)
      /\ l[j + 1] = Colon /\ \A q \in 1 .. j : l[q] # Colon
      /\ SubSeq(l, k + 1, m) = value
  BY DEF CutAt
<1>9. \A q \in i + 1 .. j : l[q] \in AtEnd
  BY <1>1, PartIn DEF CutAt
<1>10. \A q \in j + 1 + 1 .. k : l[q] \in Blank
  <2>1. j + 1 \in 0 .. Len(l)
    BY <1>1, <1>6
  <2>2. AllIn(SubSeq(l, j + 1 + 1, k), Blank)
    BY DEF CutAt
  <2> QED
    BY ONLY <1>1, <2>1, <2>2, k \in 0 .. Len(l), PartIn
<1>11. \A q \in m + 1 .. Len(l) : l[q] \in AtEnd \cup {LF}
  <2>1. Len(l) \in 0 .. Len(l)
    BY <1>1
  <2>2. AllIn(SubSeq(l, m + 1, Len(l)), AtEnd \cup {LF})
    BY DEF CutAt
  <2> QED
    BY ONLY <1>1, <2>1, <2>2, m \in 0 .. Len(l), PartIn
<1>12. k < m => l[k + 1] \notin Blank /\ l[m] \notin AtEnd \cup {LF}
  <2>1. ~StartsIn(value, Blank) /\ ~EndsIn(value, AtEnd \cup {LF})
    BY DEF CutAt
  <2> QED
    BY <1>1, <1>8, <2>1, PartIn
<1>13. j + 1 < Len(l) /\ c \in Nat /\ c < e
  <2>1. j + 1 # Len(l)
    <3>1. Colon # LF
      BY DEF Colon, LF
    <3> QED
      BY <1>1, <1>5, <1>6, <1>8, <3>1
  <2> QED
    BY <1>1, <1>2, <1>6, <1>7, <2>1
<1>14. IsColon(h, s, e, c)
  <2>1. j + 1 \in 1 .. Len(l) /\ s + (j + 1) - 1 = c
    BY <1>1, <1>6, <1>7, <1>13
  <2>2. h[c] = Colon
    BY <1>4, <1>8, <2>1
  <2>3. ASSUME NEW q \in s .. c - 1 PROVE h[q] # Colon
    <3>1. q - s + 1 \in 1 .. Len(l) /\ q - s + 1 \in 1 .. j /\ s + (q - s + 1) - 1 = q
      BY <1>1, <1>6, <1>7
    <3> QED
      BY <1>4, <1>8, <3>1
  <2>4. c \in s .. e - 1
    BY <1>1, <1>3, <1>7, <1>13
  <2> QED
    BY <2>2, <2>3, <2>4 DEF IsColon
<1>15. PICK t : t = SubSeq(l, 0 + 1, i)
  OBVIOUS
<1>16. /\ t \in Text /\ Len(t) = (IF 0 < i THEN i - 0 ELSE 0)
       /\ \A q \in 1 .. i - 0 : t[q] = l[0 + q]
  <2>1. PICK a : a = 0
    OBVIOUS
  <2>2. a \in 0 .. Len(l) /\ i \in 0 .. Len(l) /\ h \in Text /\ l \in Text /\ LineAt(h, s, l)
    BY <1>1, <2>1
  <2>3. /\ SubSeq(l, a + 1, i) \in Text /\ Len(SubSeq(l, a + 1, i)) = (IF a < i THEN i - a ELSE 0)
        /\ \A q \in 1 .. i - a : SubSeq(l, a + 1, i)[q] = l[a + q]
    BY ONLY <2>2, PartOf
  <2> QED
    BY <1>15, <2>1, <2>3
<1>17. IsTrim(h, s, c, r)
  <2>1. ASSUME r # s, h[r - 1] \in AtEnd PROVE FALSE
    <3>1. i > 0 /\ i \in 1 .. Len(l) /\ s + i - 1 = r - 1
      BY <1>1, <1>6, <1>7, <2>1
    <3>2. l[i] \in AtEnd
      BY <1>4, <2>1, <3>1
    <3>3. Len(t) = i /\ i \in 1 .. i - 0 /\ 0 + i = i
      BY <1>6, <1>16, <3>1
    <3>4. t[i] = l[i]
      BY <1>16, <3>3
    <3>5. SameName(t, name)
      BY <1>8, <1>15
    <3>6. Len(name) = i /\ DOMAIN t = 1 .. i /\ DOMAIN name = 1 .. i
      BY <1>16, <3>3, <3>5, LenProperties DEF SameName, Text
    <3>7. tolower(t[i]) = tolower(name[i]) /\ t[i] \in Byte /\ name[i] \in Byte
      BY <1>16, <3>3, <3>5, <3>6 DEF SameName, Text
    <3>8. name[i] \in AtEnd
      BY <3>2, <3>4, <3>7, SameLetters
    <3>9. name # <<>>
      BY <3>1, <3>6, EmptySeq
    <3> QED
      BY <1>8, <3>6, <3>8, <3>9 DEF EndsIn
  <2>2. ASSUME NEW q \in r .. c - 1 PROVE h[q] \in AtEnd
    <3>1. q - s + 1 \in 1 .. Len(l) /\ q - s + 1 \in i + 1 .. j /\ s + (q - s + 1) - 1 = q
      BY <1>1, <1>6, <1>7
    <3> QED
      BY <1>4, <1>9, <3>1
  <2>3. r \in s .. c
    BY <1>1, <1>6, <1>7
  <2> QED
    BY <2>1, <2>2, <2>3 DEF IsTrim
<1>18. PICK v : v = skip_spaces(h, c + 1)
  OBVIOUS
<1>19. IsSkip(h, c + 1, v)
  <2>1. c + 1 \in 1 .. Len(h) + 1
    BY <1>1, <1>3, <1>13
  <2> QED
    BY <1>18, <2>1, SkipStops
<1>20. v \in Nat /\ v > c /\ v <= e
  BY <1>2, <1>14, <1>19, BehindColon
<1>21. PICK w : w = rtrim_end(h, v, e)
  OBVIOUS
<1>22. IsTrim(h, v, e, w)
  <2>1. v \in Nat \ {0}
    BY <1>13, <1>20
  <2> QED
    BY <1>3, <1>20, <1>21, <2>1, TrimStops
<1>23. SubSeq(h, v, w - 1) = value
  <2>1. CASE k < m
    <3>1. PICK vv, ww, g : vv = s + k /\ ww = s + m /\ g = s + m - 1
      OBVIOUS
    <3>2. m < Len(l)
      BY <1>1, <1>5, <1>6, <1>12, <2>1
    <3>3. IsSkip(h, c + 1, vv)
      <4>1. ASSUME NEW q \in c + 1 .. vv - 1 PROVE h[q] \in Blank
        <5>1. q - s + 1 \in 1 .. Len(l) /\ q - s + 1 \in j + 1 + 1 .. k /\ s + (q - s + 1) - 1 = q
          BY <1>1, <1>6, <1>7, <3>1
        <5> QED
          BY <1>4, <1>10, <5>1
      <4>2. h[vv] \notin Blank
        <5>1. k + 1 \in 1 .. Len(l) /\ s + (k + 1) - 1 = vv
          BY <1>1, <1>6, <2>1, <3>1
        <5> QED
          BY <1>4, <1>12, <2>1, <5>1
      <4>3. vv \in c + 1 .. Len(h) + 1
        BY <1>1, <1>6, <1>7, <3>1
      <4> QED
        BY <4>1, <4>2, <4>3 DEF IsSkip
    <3>4. vv = v
      <4>1. c + 1 \in Nat
        BY <1>13
      <4> QED
        BY <1>1, <1>19, <3>3, <4>1, SkipOnce
    <3>5. IsTrim(h, v, e, ww)
      <4>1. ASSUME NEW q \in ww .. e - 1 PROVE h[q] \in AtEnd
        <5>1. /\ q - s + 1 \in 1 .. Len(l) /\ q - s + 1 \in m + 1 .. Len(l) /\ q - s + 1 # Len(l)
              /\ s + (q - s + 1) - 1 = q
          BY <1>1, <1>2, <1>6, <3>1
        <5> QED
          BY <1>4, <1>5, <1>11, <5>1
      <4>2. h[ww - 1] \notin AtEnd
        <5>1. m \in 1 .. Len(l) /\ s + m - 1 = ww - 1
          BY <1>1, <1>6, <2>1, <3>1
        <5> QED
          BY <1>4, <1>12, <2>1, <5>1
      <4>3. ww \in v .. e
        BY <1>1, <1>2, <1>6, <3>1, <3>2, <3>4
      <4> QED
        BY <4>1, <4>2, <4>3 DEF IsTrim
    <3>6. ww = w
      BY <1>3, <1>20, <1>22, <3>5, TrimOnce
    <3>7. /\ h \in Text /\ l \in Text /\ LineAt(h, s, l)
          /\ k \in 0 .. Len(l) /\ m \in 0 .. Len(l)
      BY <1>1
    <3>8. SubSeq(h, vv, g) = Part(l, k, m)
      BY ONLY <3>1, <3>7, PartAt
    <3>9. g = ww - 1
      BY <1>1, <1>6, <3>1
    <3> QED
      BY <1>8, <3>4, <3>6, <3>8, <3>9 DEF Part
  <2>2. CASE k = m
    <3>1. IsTrim(h, v, e, v)
      <4>1. ASSUME NEW q \in v .. e - 1 PROVE h[q] \in AtEnd
        <5>1. PICK p : p = q - s + 1
          OBVIOUS
        <5>2. p \in 1 .. Len(l) /\ p >= j + 1 + 1 /\ p # Len(l) /\ s + p - 1 = q
          BY <1>1, <1>2, <1>6, <1>7, <1>20, <5>1
        <5>3. CASE p <= k
          <6>1. l[p] \in Blank
            BY <1>6, <1>10, <5>2, <5>3
          <6> QED
            BY <1>4, <5>2, <6>1 DEF Blank, AtEnd
        <5>4. CASE p > k
          <6>1. l[p] \in AtEnd \cup {LF}
            BY <1>1, <1>6, <1>11, <2>2, <5>2, <5>4
          <6> QED
            BY <1>4, <1>5, <5>2, <6>1
        <5> QED
          BY <1>6, <5>2, <5>3, <5>4
      <4>2. v \in v .. e
        BY <1>3, <1>20
      <4> QED
        BY <4>1, <4>2 DEF IsTrim
    <3>2. w = v
      BY <1>3, <1>20, <1>22, <3>1, TrimOnce
    <3>3. SubSeq(h, v, v - 1) = <<>> /\ SubSeq(l, k + 1, m) = <<>>
      BY <1>6, <1>20, <2>2, SubSeqEmpty
    <3> QED
      BY <1>8, <3>2, <3>3
  <2> QED
    BY <1>6, <2>1, <2>2
<1>24. SubSeq(h, s, r - 1) = SubSeq(l, 0 + 1, i)
  <2>1. PICK a, f, g : a = 0 /\ f = s /\ g = r - 1
    OBVIOUS
  <2>2. f = s + a /\ g = s + i - 1
    BY <1>1, <1>6, <1>7, <2>1
  <2>3. /\ h \in Text /\ l \in Text /\ LineAt(h, s, l)
        /\ a \in 0 .. Len(l) /\ i \in 0 .. Len(l)
    BY <1>1, <2>1
  <2>4. SubSeq(h, f, g) = Part(l, a, i)
    BY ONLY <2>2, <2>3, PartAt
  <2> QED
    BY <2>1, <2>4 DEF Part
<1>25. Finds(h, s, e, name, value, c, r, v, w)
  BY <1>8, <1>14, <1>17, <1>19, <1>22, <1>23, <1>24 DEF Finds
<1> QED
  BY <1>2, <1>25

\* header_contains, on a line of the headers, finds the name in any case and
\* the value without the blanks around it, exactly if the line, cut at its
\* first colon, says so.
THEOREM LineMatchesMeans ==
  ASSUME NEW h \in Text, NEW l, IsLine(l), NEW s, LineAt(h, s, l), NEW name \in Text, NEW value \in Text
  PROVE  LineMatches(h, s, name, value) <=> SaysHeader(l, name, value)
<1>1. LineMatches(h, s, name, value) <=>
         \E c, r, v, w : Finds(h, s, s + Len(l) - 1, name, value, c, r, v, w)
  BY MatchesFinds
<1>2. ASSUME NEW c, NEW r, NEW v, NEW w, Finds(h, s, s + Len(l) - 1, name, value, c, r, v, w)
      PROVE  \E i, j, k, m \in 0 .. Len(l) : CutAt(l, i, j, k, m, name, value)
  BY <1>2, FindsCuts
<1>3. ASSUME NEW i \in 0 .. Len(l), NEW j \in 0 .. Len(l), NEW k \in 0 .. Len(l), NEW m \in 0 .. Len(l),
             CutAt(l, i, j, k, m, name, value)
      PROVE  \E c, r, v, w : Finds(h, s, s + Len(l) - 1, name, value, c, r, v, w)
  BY <1>3, CutsFind
<1> QED
  BY <1>1, <1>2, <1>3, SaysIsCut

-----------------------------------------------------------------------------
(* The headers are the lines of the server *)

\* Every line of the headers is one that was sent; and every one that was sent
\* is there, unless the transfer broke off.
Lines ==
    /\ headers \in Text /\ sentLines \in Seq(HeaderLines)
    /\ headers = <<>> \/ headers[Len(headers)] = LF
    /\ \A s \in LineStarts(headers) : \E k \in DOMAIN sentLines : LineAt(headers, s, sentLines[k])
    /\ result # "curl_error" =>
          \A k \in DOMAIN sentLines : \E s \in LineStarts(headers) : LineAt(headers, s, sentLines[k])
    /\ phase # "ended" => result = "none"

LEMMA LineAppended ==
  ASSUME NEW h \in Text, NEW l, IsLine(l), h = <<>> \/ h[Len(h)] = LF
  PROVE  /\ LineStarts(h \o l) = LineStarts(h) \cup {Len(h) + 1}
         /\ LineAt(h \o l, Len(h) + 1, l)
         /\ \A s, x : LineAt(h, s, x) /\ x \in Text => LineAt(h \o l, s, x)
         /\ h \o l \in Text /\ (h \o l)[Len(h \o l)] = LF
<1>1. /\ l \in Text /\ Len(l) \in Nat /\ Len(l) > 0 /\ Len(h) \in Nat
      /\ DOMAIN l = 1 .. Len(l) /\ DOMAIN h = 1 .. Len(h)
      /\ (h = <<>> <=> Len(h) = 0)
  BY LenProperties, EmptySeq DEF IsLine, Text
<1>2. \A q \in 1 .. Len(l) : l[q] = LF <=> q = Len(l)
  BY <1>1 DEF IsLine
<1>3. PICK g : g = h \o l
  OBVIOUS
<1>4. /\ g \in Text /\ Len(g) = Len(h) + Len(l)
      /\ \A i \in 1 .. Len(h) + Len(l) : g[i] = IF i <= Len(h) THEN h[i] ELSE l[i - Len(h)]
  BY <1>1, <1>3, ConcatProperties DEF Text
<1>5. DOMAIN g = 1 .. Len(h) + Len(l)
  BY <1>4, LenProperties DEF Text
<1>6. ASSUME NEW q \in 1 .. Len(l) PROVE g[Len(h) + q] = l[q]
  <2>1. /\ Len(h) + q \in 1 .. Len(h) + Len(l) /\ ~(Len(h) + q <= Len(h))
        /\ Len(h) + q - Len(h) = q
    BY <1>1
  <2> QED
    BY <1>4, <2>1
<1>7. ASSUME NEW q \in 1 .. Len(h) PROVE g[q] = h[q]
  <2>1. q \in 1 .. Len(h) + Len(l) /\ q <= Len(h)
    BY <1>1
  <2> QED
    BY <1>4, <2>1
<1>8. ASSUME NEW s \in LineStarts(g) PROVE s \in LineStarts(h) \cup {Len(h) + 1}
  <2>1. s \in 1 .. Len(h) + Len(l) /\ (s = 1 \/ g[s - 1] = LF)
    BY <1>5 DEF LineStarts
  <2>2. CASE s <= Len(h)
    <3>1. s \in 1 .. Len(h)
      BY <1>1, <2>1, <2>2
    <3>2. s = 1 \/ (s - 1 \in 1 .. Len(h) /\ g[s - 1] = LF)
      BY <1>1, <2>1, <2>2
    <3>3. s = 1 \/ h[s - 1] = LF
      BY <1>7, <3>2
    <3> QED
      BY <1>1, <3>1, <3>3 DEF LineStarts
  <2>3. CASE s > Len(h) + 1
    <3>1. s - Len(h) - 1 \in 1 .. Len(l) /\ s - Len(h) - 1 # Len(l) /\ Len(h) + (s - Len(h) - 1) = s - 1 /\ s # 1
      BY <1>1, <2>1, <2>3
    <3>2. g[s - 1] = l[s - Len(h) - 1]
      BY <1>6, <3>1
    <3> QED
      BY <1>2, <2>1, <3>1, <3>2
  <2> QED
    BY <1>1, <2>1, <2>2, <2>3
<1>9. ASSUME NEW s \in LineStarts(h) \cup {Len(h) + 1} PROVE s \in LineStarts(g)
  <2>1. CASE s \in LineStarts(h)
    <3>1. s \in 1 .. Len(h) /\ (s = 1 \/ h[s - 1] = LF)
      BY <1>1, <2>1 DEF LineStarts
    <3>2. s = 1 \/ s - 1 \in 1 .. Len(h)
      BY <1>1, <3>1
    <3>3. s \in 1 .. Len(h) + Len(l)
      BY <1>1, <3>1
    <3> QED
      BY <1>5, <1>7, <3>1, <3>2, <3>3 DEF LineStarts
  <2>2. CASE s = Len(h) + 1
    <3>1. s \in 1 .. Len(h) + Len(l) /\ s - 1 = Len(h)
      BY <1>1, <2>2
    <3>2. s = 1 \/ (Len(h) \in 1 .. Len(h) /\ h[Len(h)] = LF)
      BY <1>1, <2>2
    <3> QED
      BY <1>5, <1>7, <3>1, <3>2 DEF LineStarts
  <2> QED
    BY <2>1, <2>2
<1>10. LineAt(g, Len(h) + 1, l)
  <2>1. \A q \in 1 .. Len(l) : Len(h) + 1 + q - 1 = Len(h) + q
    BY <1>1
  <2>2. Len(h) + 1 \in Nat \ {0} /\ Len(h) + 1 + Len(l) - 1 <= Len(g)
    BY <1>1, <1>4
  <2> QED
    BY <1>6, <2>1, <2>2 DEF LineAt
<1>11. ASSUME NEW s, NEW x, LineAt(h, s, x), x \in Text PROVE LineAt(g, s, x)
  <2>1. Len(x) \in Nat /\ s \in Nat \ {0} /\ s + Len(x) - 1 <= Len(h)
    BY <1>11, LenProperties DEF LineAt, Text
  <2>2. \A q \in 1 .. Len(x) : s + q - 1 \in 1 .. Len(h)
    BY <1>1, <2>1
  <2>3. s + Len(x) - 1 <= Len(g)
    BY <1>1, <1>4, <2>1
  <2> QED
    BY <1>7, <1>11, <2>1, <2>2, <2>3 DEF LineAt
<1>12. g[Len(g)] = LF
  <2>1. Len(l) \in 1 .. Len(l)
    BY <1>1
  <2>2. g[Len(h) + Len(l)] = l[Len(l)]
    BY <1>6, <2>1
  <2> QED
    BY <1>2, <1>4, <2>1, <2>2
<1>13. LineStarts(g) = LineStarts(h) \cup {Len(h) + 1}
  BY <1>8, <1>9
<1> QED
  BY <1>3, <1>4, <1>10, <1>11, <1>12, <1>13

LEMMA InitLines == TransferInit => Lines
<1> SUFFICES ASSUME TransferInit PROVE Lines
  OBVIOUS
<1>1. headers = <<>> /\ sentLines = <<>> /\ phase = "headers" /\ result = "none"
  BY DEF TransferInit
<1>2. <<>> \in Text /\ <<>> \in Seq(HeaderLines) /\ DOMAIN <<>> = {}
  BY EmptySeq DEF Text
<1> QED
  BY <1>1, <1>2 DEF Lines, LineStarts

\* The line the server sends next.
LEMMA LineSent ==
  ASSUME Lines, NEW l \in HeaderLines, SendLine(l)
  PROVE  /\ IsLine(l) /\ phase # "ended" /\ result = "none"
         /\ sentLines' \in Seq(HeaderLines) /\ Len(sentLines) \in Nat
         /\ DOMAIN sentLines = 1 .. Len(sentLines) /\ DOMAIN sentLines' = 1 .. Len(sentLines) + 1
         /\ \A k \in 1 .. Len(sentLines) : sentLines'[k] = sentLines[k] /\ sentLines[k] \in Text
         /\ sentLines'[Len(sentLines) + 1] = l
<1>1. sentLines' = Append(sentLines, l) /\ phase = "headers" /\ sentLines \in Seq(HeaderLines)
  BY DEF SendLine, Lines
<1>2. /\ sentLines' \in Seq(HeaderLines) /\ Len(sentLines') = Len(sentLines) + 1
      /\ \A k \in 1 .. Len(sentLines) : sentLines'[k] = sentLines[k]
      /\ sentLines'[Len(sentLines) + 1] = l
  BY <1>1, AppendProperties
<1>3. /\ Len(sentLines) \in Nat /\ DOMAIN sentLines = 1 .. Len(sentLines)
      /\ DOMAIN sentLines' = 1 .. Len(sentLines')
  BY <1>1, <1>2, LenProperties
<1>4. \A k \in 1 .. Len(sentLines) : sentLines[k] \in HeaderLines
  BY <1>1, ElementOfSeq
<1>5. \A x \in HeaderLines : IsLine(x) /\ x \in Text
  BY ServerAssumption DEF IsLine
<1>6. result = "none"
  BY <1>1 DEF Lines
<1> QED
  BY <1>1, <1>2, <1>3, <1>4, <1>5, <1>6

LEMMA NextLines == Lines /\ [TransferNext]_transferVars => Lines'
<1> SUFFICES ASSUME Lines, [TransferNext]_transferVars PROVE Lines'
  OBVIOUS
<1>1. ASSUME NEW l \in HeaderLines, header_callback(l) PROVE Lines'
  <2>1. SendLine(l) /\ headers' = headers \o l /\ phase' = phase /\ result' = result
    BY <1>1 DEF header_callback, Appended, endVars
  <2>2. /\ IsLine(l) /\ phase # "ended" /\ result = "none"
        /\ sentLines' \in Seq(HeaderLines) /\ Len(sentLines) \in Nat
        /\ DOMAIN sentLines = 1 .. Len(sentLines) /\ DOMAIN sentLines' = 1 .. Len(sentLines) + 1
        /\ \A k \in 1 .. Len(sentLines) : sentLines'[k] = sentLines[k] /\ sentLines[k] \in Text
        /\ sentLines'[Len(sentLines) + 1] = l
    BY <2>1, LineSent
  <2>3. headers \in Text /\ (headers = <<>> \/ headers[Len(headers)] = LF)
    BY DEF Lines
  <2>4. /\ LineStarts(headers') = LineStarts(headers) \cup {Len(headers) + 1}
        /\ LineAt(headers', Len(headers) + 1, l)
        /\ \A s, x : LineAt(headers, s, x) /\ x \in Text => LineAt(headers', s, x)
        /\ headers' \in Text /\ headers'[Len(headers')] = LF
    BY <2>1, <2>2, <2>3, LineAppended
  <2>5. ASSUME NEW s \in LineStarts(headers')
        PROVE  \E k \in DOMAIN sentLines' : LineAt(headers', s, sentLines'[k])
    <3>1. CASE s = Len(headers) + 1
      <4>1. Len(sentLines) + 1 \in DOMAIN sentLines'
        BY <2>2
      <4> QED
        BY <2>2, <2>4, <3>1, <4>1
    <3>2. CASE s \in LineStarts(headers)
      <4>1. PICK k \in 1 .. Len(sentLines) : LineAt(headers, s, sentLines[k])
        BY <2>2, <3>2 DEF Lines
      <4>2. k \in DOMAIN sentLines' /\ sentLines'[k] = sentLines[k]
        BY <2>2
      <4> QED
        BY <2>2, <2>4, <4>1, <4>2
    <3> QED
      BY <2>4, <3>1, <3>2
  <2>6. ASSUME NEW k \in DOMAIN sentLines'
        PROVE  \E s \in LineStarts(headers') : LineAt(headers', s, sentLines'[k])
    <3>1. CASE k = Len(sentLines) + 1
      BY <2>2, <2>4, <3>1
    <3>2. CASE k \in 1 .. Len(sentLines)
      <4>1. PICK s \in LineStarts(headers) : LineAt(headers, s, sentLines[k])
        BY <2>2, <3>2 DEF Lines
      <4> QED
        BY <2>2, <2>4, <3>2, <4>1
    <3>3. k = Len(sentLines) + 1 \/ k \in 1 .. Len(sentLines)
      BY <2>2
    <3> QED
      BY <3>1, <3>2, <3>3
  <2> QED
    BY <2>1, <2>2, <2>4, <2>5, <2>6 DEF Lines
<1>2. ASSUME NEW l \in HeaderLines, header_callback_fails(l) PROVE Lines'
  <2>1. SendLine(l) /\ headers' = headers /\ phase' = "ended" /\ result' = "curl_error"
    BY <1>2 DEF header_callback_fails, Broken, headerVars
  <2>2. /\ sentLines' \in Seq(HeaderLines) /\ Len(sentLines) \in Nat
        /\ DOMAIN sentLines = 1 .. Len(sentLines) /\ DOMAIN sentLines' = 1 .. Len(sentLines) + 1
        /\ \A k \in 1 .. Len(sentLines) : sentLines'[k] = sentLines[k]
    BY <2>1, LineSent
  <2>3. ASSUME NEW s \in LineStarts(headers)
        PROVE  \E k \in DOMAIN sentLines' : LineAt(headers, s, sentLines'[k])
    <3>1. PICK k \in 1 .. Len(sentLines) : LineAt(headers, s, sentLines[k])
      BY <2>2 DEF Lines
    <3>2. k \in DOMAIN sentLines' /\ sentLines'[k] = sentLines[k]
      BY <2>2
    <3> QED
      BY <3>1, <3>2
  <2> QED
    BY <2>1, <2>2, <2>3 DEF Lines
<1>3. ASSUME UNCHANGED <<headers, sentLines>>, phase' # "ended" => phase # "ended" /\ result' = result,
             result' = result \/ phase # "ended"
      PROVE  Lines'
  BY <1>3 DEF Lines
<1>4. ASSUME NEW c \in Chunks, write_callback(c) \/ write_callback_fails(c) PROVE Lines'
  BY <1>3, <1>4 DEF write_callback, write_callback_fails, SendChunk, Broken, headerVars, endVars
<1>5. CASE (\E code \in StatusCodes : HeadersEnd(code)) \/ TransferBreaks \/ TransferEnds
  BY <1>3, <1>5 DEF HeadersEnd, TransferBreaks, TransferEnds, Broken, headerVars, endVars, sent
<1>6. CASE UNCHANGED transferVars
  BY <1>3, <1>6 DEF transferVars, headerVars, endVars, sent
<1> QED
  BY <1>1, <1>2, <1>4, <1>5, <1>6 DEF TransferNext, TransferStep, OutOfMemory

-----------------------------------------------------------------------------
(* What an assertion of the plan says of the answer *)

\* The copy of an assertion is the same, but for a text that malloc had no
\* room for: n counts the times that it failed.
Spoilt(b) == \/ b.type = "body" /\ b.expected = NoText
             \/ b.type = "header" /\ NoText \in {b.expected[1], b.expected[2]}

CopyOf(a, b, n) == /\ b.type = a.type
                   /\ b.expected = a.expected \/ (n # 0 /\ Spoilt(b))

Judges(r, b) == eval_assertion(r.status_code, ThroughDatabase(r.headers), ThroughDatabase(r.body), b)

LEMMA InfixOfPrefix ==
  ASSUME NEW b \in Text, NEW t \in Text, IsPrefix(b, t), NEW n, IsInfix(n, b)
  PROVE  IsInfix(n, t)
<1>1. /\ Len(b) \in Nat /\ Len(t) \in Nat /\ Len(b) <= Len(t)
      /\ SubSeq(b, 1, Len(b)) = SubSeq(t, 1, Len(b))
  BY LenProperties DEF Text, IsPrefix
<1>2. LineAt(t, 1, b)
  <2>1. ASSUME NEW q \in 1 .. Len(b) PROVE b[q] = t[q]
    <3>1. SubSeq(b, 1, Len(b))[q] = b[q] /\ SubSeq(t, 1, Len(b))[q] = t[q]
      <4>1. \A i \in 1 .. Len(b) : b[i] \in Byte /\ t[i] \in Byte
        BY <1>1, ElementOfSeq DEF Text
      <4>2. \A i \in 1 .. Len(b) : 1 + i - 1 = i
        OBVIOUS
      <4> QED
        BY <1>1, <4>1, <4>2, SubSeqProperties DEF Text
    <3> QED
      BY <1>1, <3>1
  <2>2. \A q \in 1 .. Len(b) : 1 + q - 1 = q
    OBVIOUS
  <2> QED
    BY <1>1, <2>1, <2>2 DEF LineAt
<1>3. PICK i \in 0 .. Len(b), j \in 0 .. Len(b) : i <= j /\ SubSeq(b, i + 1, j) = n
  BY DEF IsInfix
<1>4. SubSeq(t, i + 1, j) = SubSeq(b, i + 1, j)
  <2>1. PICK f, g, s : f = i + 1 /\ g = j /\ s = 1
    OBVIOUS
  <2>2. f = s + i /\ g = s + j - 1
    BY <1>1, <2>1
  <2>3. b \in Text /\ t \in Text /\ LineAt(t, s, b) /\ i \in 0 .. Len(b) /\ j \in 0 .. Len(b)
    BY <1>2, <2>1
  <2>4. SubSeq(t, f, g) = Part(b, i, j)
    BY ONLY <2>2, <2>3, PartAt
  <2> QED
    BY <2>1, <2>4 DEF Part
<1>5. i \in 0 .. Len(t) /\ j \in 0 .. Len(t)
  BY <1>1, <1>3
<1> QED
  BY <1>3, <1>4, <1>5 DEF IsInfix

\* A body option, hex or not, asks for a text.
LEMMA PatternIsText ==
  ASSUME argv \in Seq(Text), NEW s \in DOMAIN argv, WellFormed(s), argv[s] = FlagBody
  PROVE  Pattern(argv[s + 1]) \in Text
<1>1. argv[s + 1] \in Text
  <2>1. s \in Nat /\ argv[s] # FlagHeader
    BY LenProperties, FlagsApart
  <2>2. s + 1 \in DOMAIN argv
    BY <2>1 DEF WellFormed, WordsFrom, Values
  <2> QED
    BY <2>2, LenProperties, ElementOfSeq
<1>2. IsHex(argv[s + 1]) => WellFormedHex(Digits(argv[s + 1]))
  BY DEF WellFormed
<1> QED
  BY <1>1, <1>2, PatternOf

LEMMA FirstOtherIs ==
  ASSUME NEW w \in Text, NEW p \in 1 .. Len(w) + 1, NEW set, NEW u \in p .. Len(w) + 1,
         u <= Len(w) => w[u] \notin set, \A q \in p .. u - 1 : w[q] \in set
  PROVE  FirstOther(w, p, set) = u
<1>1. Len(w) \in Nat /\ p \in Nat /\ u \in Nat /\ p >= 1 /\ u >= p /\ u <= Len(w) + 1
  BY LenProperties DEF Text
<1>2. PICK Q : Q = {q \in p .. Len(w) + 1 : IsPlace(w, q) => w[q] \notin set}
  OBVIOUS
<1>3. u \in Q
  BY <1>1, <1>2 DEF IsPlace
<1>4. Q \in SUBSET (1 .. Len(w) + 1) /\ Len(w) + 1 \in Nat
  BY <1>1, <1>2
<1>5. PICK m : m = Min(Q)
  OBVIOUS
<1>6. m \in Q /\ m <= u
  BY <1>3, <1>4, <1>5, MinIsLeast
<1>7. ~(m < u)
  <2>1. m \in Nat /\ m >= p /\ m <= Len(w) + 1 /\ (IsPlace(w, m) => w[m] \notin set)
    BY <1>1, <1>2, <1>6
  <2>2. ASSUME m < u PROVE FALSE
    <3>1. m \in p .. u - 1 /\ m \in 1 .. Len(w)
      BY <1>1, <2>1, <2>2
    <3>2. w[m] \in set /\ w[m] \notin set
      BY <2>1, <3>1 DEF IsPlace
    <3> QED
      BY <3>2
  <2> QED
    BY <2>2
<1>8. m = u
  <2>1. m \in Nat
    BY <1>4, <1>6
  <2> QED
    BY <1>1, <1>6, <1>7, <2>1
<1> QED
  BY <1>2, <1>5, <1>8 DEF FirstOther

\* atoi reads a word of digits as the number they write, unless it is too large.
LEMMA CodeRead ==
  ASSUME NEW w \in Text, IsCode(w)
  PROVE  atoi(w) = {Decimal(w)} /\ Decimal(w) # 0
<1>1. /\ Len(w) \in Nat /\ Len(w) # 0 /\ DOMAIN w = 1 .. Len(w)
      /\ \A i \in 1 .. Len(w) : w[i] \in Digit
  BY LenProperties, EmptySeq DEF IsCode, AllIn, Text
<1>2. 1 \in 1 .. Len(w) /\ 1 \in 1 .. Len(w) + 1 /\ Len(w) + 1 \in 1 .. Len(w) + 1
  BY <1>1
<1>3. w[1] \notin White /\ w[1] \notin Sign
  <2>1. w[1] \in 48 .. 57
    BY <1>1, <1>2 DEF Digit
  <2> QED
    BY <2>1 DEF White, Sign, Minus, Space
<1>4. FirstOther(w, 1, White) = 1
  <2>1. 1 .. 1 - 1 = {}
    OBVIOUS
  <2> QED
    BY <1>2, <1>3, <2>1, FirstOtherIs
<1>5. FirstOther(w, 1, Digit) = Len(w) + 1
  <2>1. PICK u : u = Len(w) + 1
    OBVIOUS
  <2>2. u \in 1 .. Len(w) + 1 /\ ~(u <= Len(w)) /\ u - 1 = Len(w)
    BY <1>1, <2>1
  <2>3. (u <= Len(w) => w[u] \notin Digit) /\ \A q \in 1 .. u - 1 : w[q] \in Digit
    BY <1>1, <2>2
  <2>4. FirstOther(w, 1, Digit) = u
    BY <1>2, <2>2, <2>3, FirstOtherIs
  <2> QED
    BY <2>1, <2>4
<1>6. SubSeq(w, 1, FirstOther(w, 1, Digit) - 1) = w
  <2>1. FirstOther(w, 1, Digit) - 1 = Len(w)
    BY <1>1, <1>5
  <2>2. SubSeq(w, 1, Len(w)) = w
    BY SubSeqFull DEF Text
  <2> QED
    BY <2>1, <2>2
<1>7. PICK n : n = Decimal(w)
  OBVIOUS
<1>8. n \in 1 .. INT_MAX /\ INT_MAX \in Nat
  BY <1>7, IntAssumption DEF IsCode
<1>9. n \in -(INT_MAX + 1) .. INT_MAX /\ n # 0
  BY <1>8
<1>10. atoi(w) = {n}
  BY <1>3, <1>4, <1>6, <1>7, <1>9 DEF atoi
<1> QED
  BY <1>7, <1>9, <1>10

\* Expecting a status: a code that is found is one the server sent, in an answer
\* that came to its end.
LEMMA StatusJudged ==
  ASSUME NEW r, Left(r), argv \in Seq(Text), NEW s \in DOMAIN argv, WellFormed(s),
         argv[s] = FlagStatus, NEW a, StandsFor(a, s), NEW b, CopyOf(a, b, failures)
  PROVE  /\ Judges(r, b) => Meets(r, s) \/ Meaningless(s)
         /\ r.result = "ok" /\ failures = 0 /\ Meets(r, s) => Judges(r, b)
<1>1. PICK w : w = argv[s + 1]
  OBVIOUS
<1>2. w \in Text
  <2>1. s \in Nat /\ argv[s] # FlagHeader
    BY LenProperties, FlagsApart
  <2>2. s + 1 \in DOMAIN argv
    BY <2>1 DEF WellFormed, WordsFrom, Values
  <2> QED
    BY <1>1, <2>2, LenProperties, ElementOfSeq
<1>3. a.type = "status" /\ a.expected \in atoi(w)
  BY <1>1, FlagsApart DEF StandsFor
<1>4. b.type = "status" /\ b.expected \in atoi(w)
  BY <1>3 DEF CopyOf, Spoilt
<1>5. Judges(r, b) <=> r.status_code = b.expected
  BY <1>4 DEF Judges, eval_assertion
<1>6. Meets(r, s) <=> IsCode(w) /\ r.sentStatus = Decimal(w)
  BY <1>1, FlagsApart DEF Meets
<1>7. Meaningless(s) <=> ~IsCode(w)
  BY <1>1 DEF Meaningless
<1>8. IsCode(w) => b.expected = Decimal(w) /\ Decimal(w) # 0
  BY <1>2, <1>4, CodeRead
<1>9. \/ r.result = "ok" /\ r.status_code = r.sentStatus
      \/ r.result = "curl_error" /\ r.status_code = 0
  BY DEF Left
<1>10. ASSUME Judges(r, b), IsCode(w) PROVE Meets(r, s)
  BY <1>5, <1>6, <1>8, <1>9, <1>10
<1>11. ASSUME r.result = "ok", Meets(r, s) PROVE Judges(r, b)
  BY <1>5, <1>6, <1>8, <1>9, <1>11
<1> QED
  BY <1>7, <1>10, <1>11

\* Expecting bytes of the body: what is found in what arrived was sent.
LEMMA BodyJudged ==
  ASSUME NEW r, Left(r), argv \in Seq(Text), NEW s \in DOMAIN argv, WellFormed(s), argv[s] = FlagBody,
         NEW a, StandsFor(a, s), NEW b, CopyOf(a, b, failures)
  PROVE  /\ Judges(r, b) => Meets(r, s)
         /\ r.result = "ok" /\ failures = 0 /\ Meets(r, s) => Judges(r, b)
<1>1. PICK n : n = Pattern(argv[s + 1])
  OBVIOUS
<1>2. a.type = "body" /\ a.expected = n /\ n \in Text
  BY <1>1, FlagsApart, PatternIsText DEF StandsFor
<1>3. b.type = "body" /\ (b.expected = n \/ (failures # 0 /\ b.expected = NoText))
  BY <1>2 DEF CopyOf, Spoilt
<1>4. /\ r.body \in Text /\ r.sentBody \in Text /\ IsPrefix(r.body, r.sentBody)
      /\ r.result = "ok" => r.body = r.sentBody
      /\ NoText \notin Text /\ <<>> \in Text
  BY NullAssumption, EmptySeq DEF Left, Text
<1>5. Meets(r, s) <=> r.sentBody # <<>> /\ IsInfix(n, r.sentBody)
  BY <1>1, FlagsApart DEF Meets
<1>6. Judges(r, b) <=> /\ r.body # <<>>
                       /\ b.expected # NoText
                       /\ bytes_contains(r.body, b.expected)
  BY <1>3, <1>4 DEF Judges, eval_assertion, ThroughDatabase
<1>7. bytes_contains(r.body, n) <=> IsInfix(n, r.body)
  BY <1>2, <1>4, SearchIsInfix
<1>8. ASSUME Judges(r, b) PROVE Meets(r, s)
  <2>1. r.body # <<>> /\ IsInfix(n, r.body)
    BY <1>3, <1>6, <1>7, <1>8
  <2>2. IsInfix(n, r.sentBody)
    BY <1>4, <2>1, InfixOfPrefix
  <2>3. r.sentBody # <<>>
    <3>1. Len(r.body) \in Nat /\ Len(r.body) # 0 /\ Len(r.body) <= Len(r.sentBody)
      BY <1>4, <2>1, LenProperties, EmptySeq DEF IsPrefix, Text
    <3>2. Len(<<>>) = 0
      OBVIOUS
    <3> QED
      BY <3>1, <3>2
  <2> QED
    BY <1>5, <2>2, <2>3
<1>9. ASSUME r.result = "ok", failures = 0, Meets(r, s) PROVE Judges(r, b)
  BY <1>2, <1>3, <1>4, <1>5, <1>6, <1>7, <1>9
<1> QED
  BY <1>8, <1>9

\* Expecting a header: a line that is found is one the server sent.
LEMMA HeaderJudged ==
  ASSUME NEW r, Left(r), argv \in Seq(Text), NEW s \in DOMAIN argv, WellFormed(s), argv[s] = FlagHeader,
         NEW a, StandsFor(a, s), NEW b, CopyOf(a, b, failures)
  PROVE  /\ Judges(r, b) => Meets(r, s)
         /\ r.result = "ok" /\ failures = 0 /\ Meets(r, s) => Judges(r, b)
<1>1. PICK name, value : name = argv[s + 1] /\ value = argv[s + 2]
  OBVIOUS
<1>2. name \in Text /\ value \in Text
  <2>1. s \in Nat
    BY LenProperties
  <2>2. s + 1 \in DOMAIN argv /\ s + 2 \in DOMAIN argv
    BY <2>1 DEF WellFormed, WordsFrom, Values
  <2> QED
    BY <1>1, <2>2, LenProperties, ElementOfSeq
<1>3. a.type = "header" /\ a.expected = <<name, value>>
  BY <1>1, FlagsApart DEF StandsFor
<1>4. /\ b.type = "header"
      /\ \/ b.expected[1] = name /\ b.expected[2] = value
         \/ failures # 0 /\ NoText \in {b.expected[1], b.expected[2]}
  BY <1>3 DEF CopyOf, Spoilt
<1>5. NoText \notin Text /\ <<>> \in Text /\ r.headers \in Text
  BY NullAssumption, EmptySeq DEF Left, Text
<1>6. Meets(r, s) <=> \E k \in DOMAIN r.sentLines : SaysHeader(r.sentLines[k], name, value)
  BY <1>1, FlagsApart DEF Meets
<1>7. Judges(r, b) <=> /\ r.headers # <<>>
                       /\ NoText \notin {b.expected[1], b.expected[2]}
                       /\ \E t \in LineStarts(r.headers) :
                             LineMatches(r.headers, t, b.expected[1], b.expected[2])
  BY <1>4, <1>5 DEF Judges, eval_assertion, ThroughDatabase, header_contains
<1>8. ASSUME NEW k \in DOMAIN r.sentLines PROVE IsLine(r.sentLines[k])
  BY DEF Left
<1>9. ASSUME Judges(r, b) PROVE Meets(r, s)
  <2>1. PICK t \in LineStarts(r.headers) : LineMatches(r.headers, t, name, value)
    BY <1>4, <1>7, <1>9
  <2>2. PICK k \in DOMAIN r.sentLines : LineAt(r.headers, t, r.sentLines[k])
    BY DEF Left
  <2>3. SaysHeader(r.sentLines[k], name, value)
    BY <1>2, <1>5, <1>8, <2>1, <2>2, LineMatchesMeans
  <2> QED
    BY <1>6, <2>3
<1>10. ASSUME r.result = "ok", failures = 0, Meets(r, s) PROVE Judges(r, b)
  <2>1. PICK k \in DOMAIN r.sentLines : SaysHeader(r.sentLines[k], name, value)
    BY <1>6, <1>10
  <2>2. PICK t \in LineStarts(r.headers) : LineAt(r.headers, t, r.sentLines[k])
    BY <1>10 DEF Left, HasLines
  <2>3. LineMatches(r.headers, t, name, value)
    BY <1>2, <1>5, <1>8, <2>1, <2>2, LineMatchesMeans
  <2>4. r.headers # <<>>
    BY DEF LineStarts
  <2> QED
    BY <1>2, <1>4, <1>5, <1>7, <1>10, <2>3, <2>4
<1> QED
  BY <1>9, <1>10

-----------------------------------------------------------------------------
(* The verdict *)

CopiesOf(xs, ys, n) == /\ Len(ys) <= Len(xs)
                       /\ \A j \in DOMAIN ys : CopyOf(xs[j], ys[j], n)

\* The assertions of the case are those of the options, as far as they have
\* been copied.
Copied == /\ pc \in {"copying", "running"} => CopiesOf(assertions, plan, failures)
          /\ pc = "running" => Len(plan) = Len(assertions)

Verdict == /\ exitCode = 0 => given # Nothing /\ NoneMissed(given)
           /\ given.result = "ok" /\ failures = 0 /\ AllMet(given) => exitCode = 0

\* Up to the answer there is no verdict, and behind it the verdict stays.
Judged ==
    /\ pc \in {"parsing", "planning", "copying", "running"} => given = Nothing
    /\ pc \in {"planning", "copying", "running"} => exitCode = 1 /\ target.command = "get"
    /\ pc \in {"cleanup", "freeing", "done"} /\ target.command = "get" => Verdict

LEMMA InitJudged == Init => Copied /\ Judged
BY DEF Init, Copied, Judged

\* One more copy.
LEMMA CopiesGrow ==
  ASSUME NEW xs, IsSeq(xs), NEW ys, IsSeq(ys), Len(ys) < Len(xs), NEW n \in Nat, NEW m \in Nat,
         CopiesOf(xs, ys, n), n = 0 \/ m # 0, NEW a, a = xs[Len(ys) + 1], NEW b, CopyOf(a, b, m)
  PROVE  CopiesOf(xs, Append(ys, b), m)
<1>1. PICK A : ys \in Seq(A)
  BY DEF IsSeq
<1>2. ys \in Seq(A \cup {b}) /\ b \in A \cup {b}
  BY <1>1, SeqMonotonic
<1>p. PICK zs : zs = Append(ys, b)
  OBVIOUS
<1>3. /\ Len(ys) \in Nat /\ Len(zs) = Len(ys) + 1 /\ DOMAIN zs = 1 .. Len(ys) + 1
      /\ DOMAIN ys = 1 .. Len(ys)
      /\ \A j \in 1 .. Len(ys) : zs[j] = ys[j]
      /\ zs[Len(ys) + 1] = b
  <2>1. zs \in Seq(A \cup {b})
    BY <1>2, <1>p, AppendProperties
  <2> QED
    BY <1>2, <1>p, <2>1, AppendProperties, LenProperties
<1>4. Len(xs) \in Nat
  BY LenProperties DEF IsSeq
<1>5. ASSUME NEW j \in DOMAIN zs PROVE CopyOf(xs[j], zs[j], m)
  <2>1. CASE j = Len(ys) + 1
    BY <1>3, <2>1
  <2>2. CASE j \in 1 .. Len(ys)
    <3>1. CopyOf(xs[j], ys[j], n)
      BY <1>3, <2>2 DEF CopiesOf
    <3> QED
      BY <1>3, <2>2, <3>1 DEF CopyOf
  <2>3. j = Len(ys) + 1 \/ j \in 1 .. Len(ys)
    BY <1>3
  <2> QED
    BY <2>1, <2>2, <2>3
<1>6. CopiesOf(xs, zs, m)
  <2>1. PICK k, l : k = Len(ys) /\ l = Len(xs)
    OBVIOUS
  <2>2. k \in Nat /\ l \in Nat /\ k < l /\ Len(zs) = k + 1
    BY <1>3, <1>4, <2>1
  <2>3. k + 1 <= l
    BY ONLY <2>2
  <2> QED
    BY <1>5, <2>1, <2>2, <2>3 DEF CopiesOf
<1> QED
  BY <1>6, <1>p

LEMMA PlanCopied ==
  ASSUME Owned, Parsed, Copied, Copying, pc' = pc, assertions' = assertions,
         NEW b, plan' = Append(plan, b), NEW m \in Nat, failures' = m, failures = 0 \/ m # 0,
         CopyOf(ToCopy, b, m)
  PROVE  Copied'
<1>1. PICK a : a = ToCopy /\ a = assertions[Len(plan) + 1]
  BY DEF ToCopy
<1>2. /\ IsSeq(assertions) /\ IsSeq(plan) /\ failures \in Nat /\ pc = "copying"
      /\ Len(plan) < Len(assertions) /\ CopiesOf(assertions, plan, failures)
  BY DEF Owned, Parsed, Copied, Copying
<1>3. CopyOf(a, b, m)
  BY <1>1
<1>4. CopiesOf(assertions, Append(plan, b), m)
  BY <1>1, <1>2, <1>3, CopiesGrow
<1> QED
  BY <1>2, <1>4 DEF Copied

LEMMA CopyAssertionCopied ==
  ASSUME Owned, Parsed, Copied, CopyAssertion
  PROVE  Copied'
<1>1. PICK b : b = [ToCopy EXCEPT !.holds = Copies(ToCopy, Len(plan) + 1)]
  OBVIOUS
<1>2. /\ Copying /\ pc' = pc /\ failures \in Nat
      /\ plan' = Append(plan, b) /\ assertions' = assertions /\ failures' = failures
  BY <1>1 DEF CopyAssertion, Idle, Parsed
<1>3. Owns(ToCopy, OfOptions)
  BY <1>2, ToCopyOwned
<1>4. b.type = ToCopy.type /\ b.expected = ToCopy.expected
  BY <1>1, <1>3 DEF Owns
<1>5. CopyOf(ToCopy, b, failures)
  BY <1>4 DEF CopyOf
<1> QED
  BY <1>2, <1>5, PlanCopied

LEMMA CopyFailsCopied ==
  ASSUME Owned, Parsed, Copied, CopyFails
  PROVE  Copied'
<1>1. Copying /\ pc' = pc /\ assertions' = assertions /\ Fails
  BY DEF CopyFails, Idle
<1>2. PICK m : m = failures' /\ m \in Nat /\ m # 0
  BY <1>1, FailsCounts DEF Parsed
<1>3. PICK a : a = ToCopy /\ Owns(a, OfOptions)
  BY <1>1, ToCopyOwned
<1>j. PICK j : j = Len(plan) + 1
  OBVIOUS
<1>4. PICK kept : /\ kept \in (SUBSET Copies(a, j)) \ {Copies(a, j)}
                  /\ plan' = Append(plan, [a EXCEPT !.expected = Remains(a, j, kept), !.holds = kept])
  BY <1>3, <1>j DEF CopyFails
<1>5. PICK b : b = [a EXCEPT !.expected = Remains(a, j, kept), !.holds = kept]
  OBVIOUS
<1>6. b.type = a.type /\ b.expected = Remains(a, j, kept)
  BY <1>3, <1>5 DEF Owns
<1>7. Spoilt(b)
  <2>m. PICK made : made = Copies(a, j)
    OBVIOUS
  <2>k. kept \in (SUBSET made) \ {made}
    BY <1>4, <2>m
  <2>1. kept \subseteq made /\ kept # made
    BY <2>k
  <2>2. CASE a.type = "body"
    BY <1>6, <2>2 DEF Spoilt, Remains
  <2>3. CASE a.type = "header"
    <3>1. made = {<<"name", j>>, <<"value", j>>}
      BY <2>m, <2>3 DEF Copies
    <3>2. <<"name", j>> \notin kept \/ <<"value", j>> \notin kept
      <4>1. ASSUME <<"name", j>> \in kept, <<"value", j>> \in kept PROVE kept = made
        BY <2>1, <3>1, <4>1
      <4> QED
        BY <2>1, <4>1
    <3>3. /\ <<"name", j>> \notin kept => b.expected[1] = NoText
          /\ <<"value", j>> \notin kept => b.expected[2] = NoText
      BY <1>6, <2>3 DEF Remains
    <3> QED
      BY <1>6, <2>3, <3>2, <3>3 DEF Spoilt
  <2>4. CASE a.type = "status"
    <3>1. made = {}
      BY <2>m, <2>4 DEF Copies
    <3> QED
      BY <2>1, <3>1
  <2> QED
    BY <1>3, <2>2, <2>3, <2>4 DEF Owns, Types
<1>8. CopyOf(ToCopy, b, m)
  BY <1>2, <1>3, <1>6, <1>7 DEF CopyOf
<1> QED
  BY <1>1, <1>2, <1>4, <1>5, <1>8, PlanCopied

LEMMA NextCopied ==
  ASSUME Owned, Parsed, Copied, [Next]_vars
  PROVE  Copied'
<1> USE DEF Goto, Idle
<1>1. CASE pc' \notin {"copying", "running"}
  BY <1>1 DEF Copied
<1>2. CASE UNCHANGED <<assertions, plan, failures, pc>>
  BY <1>2 DEF Copied
<1>3. CASE OptionStatus \/ OptionBody \/ OptionHex \/ OptionHeader \/ ParseFails \/ HexFails
  BY <1>1, <1>3 DEF OptionStatus, OptionBody, OptionHex, OptionHeader, Parsing, AddAssertion,
                    ParseFails, HexFails, Refuse
<1>4. CASE Dispatch \/ PlanFails \/ Answered \/ AnsweredEarlier \/ NoAnswer \/ FreePlan \/ FreeOptions
  BY <1>1, <1>4 DEF Dispatch, PlanFails, Answered, AnsweredEarlier, Judge, NoAnswer, FreePlan, FreeOptions
<1>5. CASE MakePlan
  <2>1. plan = <<>> /\ plan' = plan /\ assertions' = assertions /\ pc' = "copying" /\ failures' = failures
    BY <1>5 DEF MakePlan, Owned
  <2>2. Len(assertions) \in Nat
    BY LenProperties DEF Owned, IsSeq
  <2>3. CopiesOf(assertions, <<>>, failures)
    BY <2>2 DEF CopiesOf
  <2> QED
    BY <2>1, <2>3 DEF Copied
<1>6. CASE StartRun
  BY <1>6 DEF StartRun, Copied
<1>7. CASE RunTransfer
  <2>1. pc = "running" /\ UNCHANGED <<assertions, plan, pc>>
    BY <1>7 DEF RunTransfer
  <2>2. failures' \in Nat /\ (failures = 0 \/ failures' # 0)
    BY <1>7, FailsCounts DEF RunTransfer, Parsed
  <2>3. CopiesOf(assertions, plan, failures')
    BY <2>1, <2>2 DEF Copied, CopiesOf, CopyOf
  <2> QED
    BY <2>1, <2>3 DEF Copied
<1>8. CASE UNCHANGED vars
  BY <1>2, <1>8 DEF vars, getVars
<1> QED
  BY <1>3, <1>4, <1>5, <1>6, <1>7, <1>8, CopyAssertionCopied, CopyFailsCopied DEF Next

\* What the assertions of the plan say together is what the options of the
\* command line, cut in the only way there is, say together.
LEMMA PlanJudges ==
  ASSUME Owned, Parsed, Copied, pc = "running", NEW r, Left(r)
  PROVE  /\ AllPass(r) => NoneMissed(r)
         /\ r.result = "ok" /\ failures = 0 /\ AllMet(r) => AllPass(r)
<1>1. PICK S : Understood(S)
  BY DEF Parsed
<1>2. argv \in Seq(Text) /\ CutUpTo(S, Len(argv) + 1)
  BY <1>1 DEF Parsed, Settled, Understood
<1>3. /\ S \in SUBSET DOMAIN argv /\ IsCut(S)
      /\ \A T \in SUBSET DOMAIN argv : IsCut(T) => T = S
  BY <1>2, CutEnds
<1>4. /\ AllMet(r) <=> \A s \in S : Meets(r, s)
      /\ NoneMissed(r) <=> \A s \in S : Meets(r, s) \/ Meaningless(s)
  BY <1>3 DEF AllMet, NoneMissed
<1>5. DOMAIN plan = DOMAIN assertions
  <2>1. DOMAIN plan = 1 .. Len(plan) /\ DOMAIN assertions = 1 .. Len(assertions)
    BY LenProperties DEF Owned, IsSeq
  <2> QED
    BY <2>1 DEF Copied
<1>6. ASSUME NEW j \in DOMAIN plan PROVE CopyOf(assertions[j], plan[j], failures)
  BY DEF Copied, CopiesOf
<1>7. /\ \A s \in S : \E j \in DOMAIN plan : StandsFor(assertions[j], s)
      /\ \A j \in DOMAIN plan : \E s \in S : StandsFor(assertions[j], s)
  BY <1>1, <1>5 DEF Understood, Represented
<1>8. ASSUME NEW s \in S, NEW j \in DOMAIN plan, StandsFor(assertions[j], s)
      PROVE  /\ Passes(r, j) => Meets(r, s) \/ Meaningless(s)
             /\ r.result = "ok" /\ failures = 0 /\ Meets(r, s) => Passes(r, j)
  <2>1. s \in DOMAIN argv /\ WellFormed(s) /\ argv[s] \in {FlagStatus, FlagBody, FlagHeader}
    BY <1>3 DEF IsCut, WellFormed
  <2>2. PICK a, b : a = assertions[j] /\ b = plan[j]
    OBVIOUS
  <2>3. StandsFor(a, s) /\ CopyOf(a, b, failures)
    BY <1>6, <1>8, <2>2
  <2>4. Passes(r, j) <=> Judges(r, b)
    BY <2>2 DEF Passes, Judges
  <2>5. CASE argv[s] = FlagStatus
    BY <1>2, <2>1, <2>3, <2>4, <2>5, StatusJudged
  <2>6. CASE argv[s] = FlagBody
    BY <1>2, <2>1, <2>3, <2>4, <2>6, BodyJudged
  <2>7. CASE argv[s] = FlagHeader
    BY <1>2, <2>1, <2>3, <2>4, <2>7, HeaderJudged
  <2> QED
    BY <2>1, <2>5, <2>6, <2>7
<1>9. ASSUME AllPass(r) PROVE NoneMissed(r)
  BY <1>4, <1>7, <1>8, <1>9 DEF AllPass
<1>10. ASSUME r.result = "ok", failures = 0, AllMet(r) PROVE AllPass(r)
  BY <1>4, <1>7, <1>8, <1>10 DEF AllPass
<1> QED
  BY <1>9, <1>10

\* Of a given answer it depends on the words alone whether it has it all.
LEMMA SameMet ==
  ASSUME argv' = argv, NEW r, given' = r
  PROVE  (AllMet(given)' <=> AllMet(r)) /\ (NoneMissed(given)' <=> NoneMissed(r))
<1>1. \A s : Meets(given, s)' <=> Meets(r, s)
  BY DEF Meets
<1>2. \A s : Meaningless(s)' <=> Meaningless(s)
  BY DEF Meaningless
<1>3. \A T : IsCut(T)' <=> IsCut(T)
  BY SameWords
<1> QED
  BY <1>1, <1>2, <1>3 DEF AllMet, NoneMissed

\* The verdict stays when what it is about does.
LEMMA SameVerdict ==
  ASSUME Verdict, UNCHANGED <<argv, exitCode, given, failures>>
  PROVE  Verdict'
<1>1. PICK r : r = given
  OBVIOUS
<1>2. (AllMet(given)' <=> AllMet(r)) /\ (NoneMissed(given)' <=> NoneMissed(r))
  BY <1>1, SameMet
<1> QED
  BY <1>1, <1>2 DEF Verdict

LEMMA JudgeJudged ==
  ASSUME Owned, Parsed, Copied, NEW r, Left(r), Judge(r)
  PROVE  Judged'
<1>1. /\ pc = "running" /\ pc' = "cleanup" /\ given' = r
      /\ exitCode' = IF AllPass(r) THEN 0 ELSE 1
      /\ UNCHANGED <<argv, failures>>
  BY DEF Judge, Goto, Idle
<1>2. (AllMet(given)' <=> AllMet(r)) /\ (NoneMissed(given)' <=> NoneMissed(r))
  BY <1>1, SameMet
<1>3. /\ AllPass(r) => NoneMissed(r)
      /\ r.result = "ok" /\ failures = 0 /\ AllMet(r) => AllPass(r)
  BY <1>1, PlanJudges
<1>4. r # Nothing
  BY DEF Left, Nothing
<1>5. exitCode' = 0 => given' # Nothing' /\ NoneMissed(given)'
  BY <1>1, <1>2, <1>3, <1>4 DEF Nothing
<1>6. given'.result = "ok" /\ failures' = 0 /\ AllMet(given)' => exitCode' = 0
  BY <1>1, <1>2, <1>3
<1>7. Verdict'
  BY <1>5, <1>6 DEF Verdict
<1> QED
  BY <1>1, <1>7 DEF Judged

\* What this run's transfer leaves when it ends is an answer of that kind.
LEMMA ThisLeft ==
  ASSUME SoFar, Lines, Coded, phase = "ended"
  PROVE  Left(ThisAnswer)
<1>1. PICK r : r = ThisAnswer
  OBVIOUS
<1>2. /\ r.headers = headers /\ r.body = body /\ r.sentBody = sentBody /\ r.sentLines = sentLines
      /\ r.result = result /\ r.status_code = status_code /\ r.sentStatus = sentStatus
  BY <1>1 DEF ThisAnswer
<1>3. /\ headers \in Text /\ body \in Text /\ sentBody \in Text /\ IsPrefix(body, sentBody)
      /\ result # "curl_error" => body = sentBody
  BY DEF SoFar, Received
<1>4. ASSUME NEW k \in DOMAIN sentLines PROVE IsLine(sentLines[k])
  <2>1. sentLines[k] \in HeaderLines
    BY LenProperties, ElementOfSeq DEF Lines
  <2> QED
    BY <2>1, ServerAssumption
<1>5. /\ \A s \in LineStarts(headers) : \E k \in DOMAIN sentLines : LineAt(headers, s, sentLines[k])
      /\ result # "curl_error" => HasLines(headers, sentLines)
  BY DEF Lines, HasLines
<1>6. \/ result = "ok" /\ status_code = sentStatus
      \/ result = "curl_error" /\ status_code = 0
  BY DEF Coded
<1>7. Left(r)
  BY <1>2, <1>3, <1>4, <1>5, <1>6 DEF Left
<1> QED
  BY <1>1, <1>7

\* A transfer leaves in the database what an answer is assumed to be: for any
\* server, and whichever way it ends, a status only with all the lines and all
\* of the body, and else a part of them.
THEOREM TransfersLeave == Spec => [](phase = "ended" => Left(ThisAnswer))
<1>1. Init => SoFar /\ Lines /\ Coded
  BY InitSoFar, InitLines, InitCoded DEF Init
<1>2. (SoFar /\ Lines /\ Coded) /\ [Next]_vars => (SoFar /\ Lines /\ Coded)'
  BY GetTransfers, NextSoFar, NextLines, NextCoded
<1>3. SoFar /\ Lines /\ Coded => (phase = "ended" => Left(ThisAnswer))
  BY ThisLeft
<1> QED
  BY <1>1, <1>2, <1>3, PTL DEF Spec

LEMMA AnsweredJudged ==
  ASSUME Owned, Parsed, SoFar, Lines, Coded, Copied, Answered \/ AnsweredEarlier
  PROVE  Judged'
<1>1. CASE Answered
  <2>1. PICK r : r = ThisAnswer
    OBVIOUS
  <2>2. phase = "ended" /\ Judge(r)
    BY <1>1, <2>1 DEF Answered
  <2>3. Left(r)
    BY <2>1, <2>2, ThisLeft
  <2> QED
    BY <2>2, <2>3, JudgeJudged
<1>2. CASE AnsweredEarlier
  <2>1. PICK r \in OldAnswers : Judge(r)
    BY <1>2 DEF AnsweredEarlier
  <2>2. Left(r)
    BY EarlierAssumption
  <2> QED
    BY <2>1, <2>2, JudgeJudged
<1> QED
  BY <1>1, <1>2

LEMMA NextJudged ==
  ASSUME Owned, Parsed, SoFar, Lines, Coded, Copied, Judged, [Next]_vars
  PROVE  Judged'
<1> USE DEF Goto, Idle
<1>1. ASSUME given' = Nothing, exitCode' # 0 PROVE Verdict'
  BY <1>1 DEF Verdict, Nothing
<1>2. CASE OptionStatus \/ OptionBody \/ OptionHex \/ OptionHeader
  <2>1. pc = "parsing" /\ UNCHANGED <<pc, given>>
    BY <1>2 DEF OptionStatus, OptionBody, OptionHex, OptionHeader, Parsing, AddAssertion
  <2> QED
    BY <2>1 DEF Judged
<1>3. CASE ParseFails \/ HexFails
  <2>1. pc = "parsing" /\ pc' = "freeing" /\ exitCode' = -1 /\ given' = given
    BY <1>3 DEF ParseFails, HexFails, Parsing, Refuse
  <2>2. given = Nothing
    BY <2>1 DEF Judged
  <2>3. exitCode' # 0
    BY <2>1, <2>2
  <2>4. given' = Nothing
    BY <2>1, <2>2
  <2>5. Verdict'
    BY <1>1, <2>3, <2>4
  <2> QED
    BY <2>1, <2>5 DEF Judged
<1>4. CASE Dispatch
  <2>1. /\ pc = "parsing" /\ given' = given /\ target' = target
        /\ \/ target.command = "get" /\ pc' = "planning" /\ exitCode' = 1
           \/ target.command # "get" /\ pc' = "freeing"
    BY <1>4 DEF Dispatch
  <2> QED
    BY <2>1 DEF Judged
<1>5. CASE PlanFails \/ NoAnswer
  <2>1. /\ pc \in {"planning", "running"} /\ pc' = "cleanup"
        /\ given' = given /\ exitCode' = exitCode
    BY <1>5 DEF PlanFails, NoAnswer
  <2>2. given = Nothing /\ exitCode = 1
    BY <2>1 DEF Judged
  <2>3. exitCode' # 0
    BY <2>1, <2>2
  <2>4. given' = Nothing
    BY <2>1, <2>2
  <2>5. Verdict'
    BY <1>1, <2>3, <2>4
  <2> QED
    BY <2>1, <2>5 DEF Judged
<1>6. CASE MakePlan \/ CopyAssertion \/ CopyFails \/ StartRun \/ RunTransfer
  <2>1. /\ pc \in {"planning", "copying", "running"} /\ pc' \in {"copying", "running"}
        /\ UNCHANGED <<given, exitCode, target>>
    BY <1>6 DEF MakePlan, CopyAssertion, CopyFails, Copying, StartRun, RunTransfer
  <2> QED
    BY <2>1 DEF Judged
<1>7. CASE Answered \/ AnsweredEarlier
  BY <1>7, AnsweredJudged
<1>8. CASE FreePlan \/ FreeOptions
  <2>1. /\ pc \in {"cleanup", "freeing"} /\ pc' \in {"freeing", "done"}
        /\ UNCHANGED <<argv, exitCode, given, failures, target>>
    BY <1>8 DEF FreePlan, FreeOptions
  <2> QED
    BY <2>1, SameVerdict DEF Judged
<1>9. CASE UNCHANGED vars
  <2>1. UNCHANGED <<pc, argv, exitCode, given, failures, target>>
    BY <1>9 DEF vars, getVars
  <2> QED
    BY <2>1, SameVerdict DEF Judged
<1> QED
  BY <1>2, <1>3, <1>4, <1>5, <1>6, <1>7, <1>8, <1>9 DEF Next

\* Exit code 0 of fman get is never given for an answer in which the server did
\* not send what an option of the command line expects, a status that is no
\* status excepted: whether the answer is of this run or the newest of an
\* earlier one, the transfer broke, the answer came too late or malloc failed.
\* And a complete answer that has it all is never refused while there is memory.
THEOREM VerdictsAreTrue == Spec => []VerdictTrue
<1> DEFINE Inv == Owned /\ Parsed /\ SoFar /\ Lines /\ Coded /\ Copied /\ Judged
<1>1. Init => Inv
  BY InitOwned, InitParsed, InitSoFar, InitLines, InitCoded, InitJudged DEF Init
<1>2. Inv /\ [Next]_vars => Inv'
  <2> SUFFICES ASSUME Inv, [Next]_vars PROVE Inv'
    OBVIOUS
  <2>1. Owned' /\ Parsed'
    BY NextOwned, NextParsed
  <2>2. SoFar' /\ Lines' /\ Coded'
    BY GetTransfers, NextSoFar, NextLines, NextCoded
  <2>3. Copied' /\ Judged'
    BY NextCopied, NextJudged
  <2> QED
    BY <2>1, <2>2, <2>3
<1>3. Inv => VerdictTrue
  BY DEF Judged, Verdict, VerdictTrue
<1> QED
  BY <1>1, <1>2, <1>3, PTL DEF Spec
=============================================================================
