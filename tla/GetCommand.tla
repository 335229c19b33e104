------------------------------ MODULE GetCommand ------------------------------
(***************************************************************************)
(* fman get <url> [options], from the command line to the exit code: main  *)
(* and src/cli/cli_parser.c, src/cli/commands.c, the transfer, and the     *)
(* assertions of run_plan (src/core/engine.c).  How run_plan gets the      *)
(* answer of its only case from a worker is left to Engine: here it has    *)
(* what the transfer left in the database, or what a transfer of an        *)
(* earlier run left there for the same request, or nothing.                *)
(*                                                                         *)
(* Texts of the command line belong to argv.  live has what malloc gave    *)
(* for the options and the plan; an assertion lists the objects its        *)
(* expected value points to.                                               *)
(***************************************************************************)
EXTENDS Transfer

CONSTANTS MAX_ASSERTION,
          FlagStatus, FlagBody, FlagHeader,   \* "--expect-status" and so on
          HexPrefix,                          \* "hex:"
          CommandLines,   \* what may follow the first two words
          Targets,        \* the first two words: [command, url]
          OldAnswers,     \* the newest row an earlier run may have left
          INT_MAX,
          MaxFailures     \* bound on the steps in which calls of malloc fail

\* commands.c:69 looks for more assertions than a case can take, MAX_ASSERTION
\* options are fewer.
ASSUME OptionAssumption == MAX_ASSERTION \in Nat /\ MaxFailures \in Nat
ASSUME WordsAssumption  == /\ {FlagStatus, FlagBody, FlagHeader, HexPrefix} \subseteq Text
                           /\ FlagStatus \notin {FlagBody, FlagHeader} /\ FlagBody # FlagHeader
                           /\ CommandLines \subseteq Seq(Text)
ASSUME IntAssumption    == INT_MAX \in Nat /\ \A code \in StatusCodes : code <= INT_MAX

\* l is the part of h from s on.
LineAt(h, s, l) == /\ s \in Nat \ {0} /\ s + Len(l) - 1 <= Len(h)
                   /\ \A q \in 1 .. Len(l) : h[s + q - 1] = l[q]

HasLines(h, lines) == \A k \in DOMAIN lines : \E s \in LineStarts(h) : LineAt(h, s, lines[k])

\* What a transfer leaves in the database when it ends, beside what the server
\* sent in it: all of that, or a part of it and no status.
Left(r) ==
    /\ r.headers \in Text /\ r.body \in Text /\ r.sentBody \in Text
    /\ \A k \in DOMAIN r.sentLines : IsLine(r.sentLines[k])
    /\ \A s \in LineStarts(r.headers) :
          \E k \in DOMAIN r.sentLines : LineAt(r.headers, s, r.sentLines[k])
    /\ IsPrefix(r.body, r.sentBody)
    /\ \/ /\ r.result = "ok"
          /\ HasLines(r.headers, r.sentLines)
          /\ r.body = r.sentBody
          /\ r.status_code = r.sentStatus
       \/ r.result = "curl_error" /\ r.status_code = 0

ASSUME EarlierAssumption == \A r \in OldAnswers : Left(r)

VARIABLES
    pc,
    target, argv,     \* what the user typed
    next,             \* the index of main's loop over argv
    assertions,       \* of the options
    plan,             \* the assertions of the case
    live,
    given,            \* the response that run_plan has
    exitCode,
    failures

getVars == <<pc, target, argv, next, assertions, plan, live, given, exitCode, failures>>
vars    == <<transferVars, getVars>>

Nothing == [result |-> "none"]

Init == /\ TransferInit
        /\ pc = "parsing"
        /\ target \in Targets
        /\ argv \in CommandLines
        /\ next = 1
        /\ assertions = <<>> /\ plan = <<>>
        /\ live = {}
        /\ given = Nothing
        /\ exitCode = 0
        /\ failures = 0

Fails == failures < MaxFailures /\ failures' = failures + 1

-----------------------------------------------------------------------------
(* parse_cli_options; one step for an option *)

White == (9 .. 13) \cup {Space}
Minus == 45
Sign  == {43, Minus}
Digit == 48 .. 57

\* The number that decimal digits write.
Decimal(d) == FoldLeft(LAMBDA v, c : 10 * v + c - 48, 0, d)

\* The first place from p on that has none of these.
FirstOther(w, p, set) == Min({q \in p .. Len(w) + 1 : IsPlace(w, q) => w[q] \notin set})

\* atoi: blanks, a sign, digits, and whatever follows.  C leaves undefined what
\* comes of a number that is no int.
atoi(w) ==
    LET s == FirstOther(w, 1, White)
        d == IF IsPlace(w, s) /\ w[s] \in Sign THEN s + 1 ELSE s
        n == Decimal(SubSeq(w, d, FirstOther(w, d, Digit) - 1))
        v == IF d # s /\ w[s] = Minus THEN -n ELSE n
        int == -(INT_MAX + 1) .. INT_MAX
    IN  IF v \in int THEN {v} ELSE int

LowerOnly(c)       == CASE c \in 48 .. 57  -> c - 48
                        [] c \in 97 .. 102 -> 10 + (c - 97)
                        [] OTHER           -> -1
hex_digit_value(c) == CASE c \in 48 .. 57  -> c - 48
                        [] c \in 97 .. 102 -> 10 + (c - 97)
                        [] c \in 65 .. 70  -> 10 + (c - 65)
                        [] OTHER           -> -1

IsHex(w)  == IsPrefix(HexPrefix, w)
Digits(w) == SubSeq(w, Len(HexPrefix) + 1, Len(w))

EvenAndSome(d) == d # <<>> /\ Len(d) % 2 = 0
ParsesAsHex(d) == EvenAndSome(d) /\ \A i \in DOMAIN d : hex_digit_value(d[i]) >= 0
parse_hex_bytes(d) == [i \in 1 .. Len(d) \div 2 |->
                         hex_digit_value(d[2 * i - 1]) * 16 + hex_digit_value(d[2 * i])]

Word(k)    == argv[next + k]
HasWord(k) == next + k <= Len(argv)
Room       == Len(assertions) < MAX_ASSERTION

Parsing(flag, values) == pc = "parsing" /\ HasWord(0) /\ Word(0) = flag /\ HasWord(values)

AddAssertion(type, expected, objects, words) ==
    /\ Room
    /\ assertions' = Append(assertions, [type |-> type, expected |-> expected,
                                         holds |-> objects])
    /\ live' = live \cup objects
    /\ next' = next + words
    /\ UNCHANGED <<transferVars, pc, target, argv, plan, given, exitCode, failures>>

OptionStatus == /\ Parsing(FlagStatus, 1)
                /\ \E n \in atoi(Word(1)) : AddAssertion("status", n, {}, 2)

OptionBody == /\ Parsing(FlagBody, 1)
              /\ ~IsHex(Word(1))
              /\ AddAssertion("body", Word(1), {}, 2)

OptionHex == /\ Parsing(FlagBody, 1)
             /\ IsHex(Word(1)) /\ ParsesAsHex(Digits(Word(1)))
             /\ AddAssertion("body", parse_hex_bytes(Digits(Word(1))),
                             {<<"hex", Len(assertions) + 1>>}, 2)

OptionHeader == /\ Parsing(FlagHeader, 2)
                /\ AddAssertion("header", <<Word(1), Word(2)>>, {}, 3)

Values(flag) == IF flag = FlagHeader THEN 2 ELSE 1

\* A usage message, and -1.
Refuse == /\ exitCode' = -1
          /\ pc' = "freeing"
          /\ UNCHANGED <<transferVars, target, argv, next, assertions, plan, live, given>>

\* An unknown option, a missing value, or one option too many.
ParseFails ==
    /\ pc = "parsing" /\ HasWord(0)
    /\ \/ Word(0) \notin {FlagStatus, FlagBody, FlagHeader}
       \/ ~HasWord(Values(Word(0)))
       \/ ~Room
    /\ UNCHANGED failures
    /\ Refuse

\* No bytes in hex, or no memory for them.
HexFails ==
    /\ Parsing(FlagBody, 1) /\ Room /\ IsHex(Word(1))
    /\ \/ ~ParsesAsHex(Digits(Word(1))) /\ UNCHANGED failures
       \/ EvenAndSome(Digits(Word(1))) /\ Fails
    /\ Refuse

-----------------------------------------------------------------------------
(* run_command, and cli_options_to_run_plan *)

Goto(l) == pc' = l
Idle    == UNCHANGED <<transferVars, target, argv, next, assertions>>

\* A command of its own is "get"; "post" does nothing yet, "run" is not a
\* matter of options.
Dispatch ==
    /\ pc = "parsing" /\ ~HasWord(0)
    /\ \/ target.command = "get" /\ Goto("planning") /\ exitCode' = 1
       \/ target.command = "post" /\ Goto("freeing") /\ exitCode' = 0
       \/ target.command \notin {"get", "post"} /\ Goto("freeing") /\ exitCode' = 1
    /\ UNCHANGED <<plan, live, given, failures>> /\ Idle

PlanTexts == {<<"db_path", 0>>, <<"collection_name", 0>>, <<"url", 0>>}

\* No url, or a text of the plan cannot be copied: one or both of the first two,
\* which are tried before either is looked at, or with both of them the url.
PlanFails ==
    /\ pc = "planning"
    /\ \/ target.url = "" /\ UNCHANGED <<live, failures>>
       \/ /\ target.url # "" /\ Fails
          /\ \E kept \in SUBSET (PlanTexts \ {<<"url", 0>>}) : live' = live \cup kept
    /\ Goto("cleanup")
    /\ UNCHANGED <<plan, given, exitCode>> /\ Idle

MakePlan == /\ pc = "planning"
            /\ target.url # ""
            /\ live' = live \cup PlanTexts
            /\ Goto("copying")
            /\ UNCHANGED <<plan, given, exitCode, failures>> /\ Idle

Shallow(a, j) == a.holds
\* The objects of the copy of an assertion, each from a malloc of its own.
Copies(a, j) == CASE a.type = "status" -> {}
                  [] a.type = "body"   -> {<<"bytes", j>>}
                  [] a.type = "header" -> {<<"name", j>>, <<"value", j>>}

Copying == pc = "copying" /\ Len(plan) < Len(assertions)
ToCopy  == assertions[Len(plan) + 1]

CopyAssertion ==
    /\ Copying
    /\ LET made == Copies(ToCopy, Len(plan) + 1) IN
       /\ plan' = Append(plan, [ToCopy EXCEPT !.holds = made])
       /\ live' = live \cup made
    /\ UNCHANGED <<pc, given, exitCode, failures>> /\ Idle

\* What the copy expects when it only has the objects in kept.
Remains(a, j, kept) ==
    LET If(name, k) == IF <<name, j>> \in kept THEN a.expected[k] ELSE NoText
    IN  IF a.type = "body" THEN NoText ELSE <<If("name", 1), If("value", 2)>>

\* The pointer is NULL where malloc fails, and nothing is reported.
CopyFails ==
    /\ Copying /\ Fails
    /\ LET j    == Len(plan) + 1
           made == Copies(ToCopy, j)
       IN  \E kept \in (SUBSET made) \ {made} :
              /\ plan' = Append(plan, [ToCopy EXCEPT !.expected = Remains(ToCopy, j, kept),
                                                     !.holds = kept])
              /\ live' = live \cup kept
    /\ UNCHANGED <<pc, given, exitCode>> /\ Idle

StartRun == /\ pc = "copying" /\ Len(plan) = Len(assertions)
            /\ Goto("running")
            /\ UNCHANGED <<plan, live, given, exitCode, failures>> /\ Idle

-----------------------------------------------------------------------------
(* run_plan *)

RunTransfer == /\ pc = "running"
               /\ \/ TransferStep /\ UNCHANGED failures
                  \/ OutOfMemory /\ Fails
               /\ UNCHANGED <<pc, target, argv, next, assertions, plan, live, given, exitCode>>

ThisAnswer == [result |-> result, status_code |-> status_code, headers |-> headers, body |-> body,
               sentStatus |-> sentStatus, sentLines |-> sentLines, sentBody |-> sentBody]

Passes(r, j) == eval_assertion(r.status_code, ThroughDatabase(r.headers),
                               ThroughDatabase(r.body), plan[j])
AllPass(r)   == \A j \in DOMAIN plan : Passes(r, j)

\* The exit code of a run with one case.
Judge(r) == /\ pc = "running"
            /\ given' = r
            /\ live' = live \cup {<<"response", 0>>}
            /\ exitCode' = IF AllPass(r) THEN 0 ELSE 1
            /\ Goto("cleanup")
            /\ UNCHANGED <<plan, failures>> /\ Idle

\* wait_for_response polls for the newest row of the request.
Answered == phase = "ended" /\ Judge(ThisAnswer)

\* runner.db stays, and so does the id of a request: before this transfer has
\* its row, at any time, the newest one is that of an earlier run.
AnsweredEarlier == \E r \in OldAnswers : Judge(r)

\* The database cannot be opened, the answer cannot be saved, or comes late.
NoAnswer == /\ pc = "running"
            /\ Goto("cleanup")
            /\ UNCHANGED <<plan, live, given, exitCode, failures>> /\ Idle

-----------------------------------------------------------------------------
(* The way out *)

Holds(as) == UNION {as[j].holds : j \in DOMAIN as}

\* free_run_result and free_run_plan
FreePlan == /\ pc = "cleanup"
            /\ live' = live \ (PlanTexts \cup Holds(plan) \cup {<<"response", 0>>})
            /\ plan' = <<>>
            /\ Goto("freeing")
            /\ UNCHANGED <<given, exitCode, failures>> /\ Idle

\* free_cli_options
FreeOptions == /\ pc = "freeing"
               /\ live' = live \ Holds(assertions)
               /\ Goto("done")
               /\ UNCHANGED <<plan, given, exitCode, failures>> /\ Idle

Next == \/ OptionStatus \/ OptionBody \/ OptionHex \/ OptionHeader \/ ParseFails \/ HexFails
        \/ Dispatch \/ PlanFails \/ MakePlan \/ CopyAssertion \/ CopyFails \/ StartRun
        \/ RunTransfer \/ Answered \/ AnsweredEarlier \/ NoAnswer \/ FreePlan \/ FreeOptions

Spec == Init /\ [][Next]_vars

-----------------------------------------------------------------------------
(* Properties *)

HexCodes(n) == IF n < 10 THEN {48 + n} ELSE {55 + n, 87 + n}

\* The byte that digits 2i-1 and 2i write.
Writes(d, i, b) == /\ 2 * i <= Len(d)
                   /\ d[2 * i - 1] \in HexCodes(b \div 16) /\ d[2 * i] \in HexCodes(b % 16)

WellFormedHex(d) ==
    /\ d # <<>>
    /\ \A i \in 1 .. (Len(d) + 1) \div 2 : \E b \in Byte : Writes(d, i, b)

\* The bytes a body option asks for.
Pattern(w) == IF ~IsHex(w) THEN w
              ELSE [i \in 1 .. Len(Digits(w)) \div 2 |->
                      CHOOSE b \in Byte : Writes(Digits(w), i, b)]

\* The words of an option that begins at s.
WordsFrom(s) == s .. s + Values(argv[s])

WellFormed(s) ==
    /\ argv[s] \in {FlagStatus, FlagBody, FlagHeader}
    /\ WordsFrom(s) \subseteq DOMAIN argv
    /\ argv[s] = FlagBody /\ IsHex(argv[s + 1]) => WellFormedHex(Digits(argv[s + 1]))

\* Well-formed options that begin there are the whole command line: each of
\* its words belongs to exactly one.
IsCut(starts) ==
    /\ \A s \in starts : WellFormed(s)
    /\ \A w \in DOMAIN argv : \E s \in starts : {t \in starts : w \in WordsFrom(t)} = {s}

Legal == \E starts \in SUBSET DOMAIN argv : IsCut(starts) /\ Cardinality(starts) <= MAX_ASSERTION

\* main refuses a command line when it is not legal and, but for a lack of
\* memory, only then.
Parses == pc = "done" => /\ ~Legal => exitCode = -1
                         /\ exitCode = -1 /\ failures = 0 => ~Legal

\* The word is a number that can be the status of an answer.
IsCode(w) == w # <<>> /\ AllIn(w, Digit) /\ Decimal(w) \in 1 .. INT_MAX

\* What the server sent in this answer, whatever has arrived of it, is what the
\* option at s expects: for a header, a line of any of the answers on the way.
Meets(r, s) ==
    CASE argv[s] = FlagStatus -> IsCode(argv[s + 1]) /\ r.sentStatus = Decimal(argv[s + 1])
      [] argv[s] = FlagBody   -> r.sentBody # <<>> /\ IsInfix(Pattern(argv[s + 1]), r.sentBody)
      [] argv[s] = FlagHeader -> \E k \in DOMAIN r.sentLines :
                                    SaysHeader(r.sentLines[k], argv[s + 1], argv[s + 2])

\* A status option whose word is no status: it has no meaning to be true to.
Meaningless(s) == argv[s] = FlagStatus /\ ~IsCode(argv[s + 1])

AllMet(r)     == \E starts \in SUBSET DOMAIN argv :
                    IsCut(starts) /\ \A s \in starts : Meets(r, s)
NoneMissed(r) == \E starts \in SUBSET DOMAIN argv :
                    IsCut(starts) /\ \A s \in starts : Meets(r, s) \/ Meaningless(s)

\* Exit code 0 of get means that in one answer to the request, that of this run
\* or the newest an earlier run has left, the server sent what every option
\* expects that has a meaning, also when that transfer broke or memory ran out
\* on the way; and a complete answer that has all that is expected gives 0.
VerdictTrue ==
    pc = "done" /\ target.command = "get" =>
       /\ exitCode = 0 => given # Nothing /\ NoneMissed(given)
       /\ given.result = "ok" /\ failures = 0 /\ AllMet(given) => exitCode = 0

\* The options and the plan own their texts apart, although an assertion of the
\* plan begins as a copy of one of the options: nothing is freed twice, what is
\* pointed to is allocated, and in the end everything is freed.
OwnedOnce ==
    /\ Holds(assertions) \cap Holds(plan) = {}
    /\ pc # "done" => Holds(assertions) \cup Holds(plan) \subseteq live
    /\ pc = "done" => live = {}
=============================================================================
