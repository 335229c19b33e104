----------------------------- MODULE DslParser -----------------------------
(***************************************************************************)
(* dsl_parse_run_plan_file: a .fman file becomes a run plan                *)
(* (dsl/dsl_parser.c, dsl/dsl.c, free_run_plan of core/run_plan.c).  The   *)
(* parser looks one token ahead and owns two tokens, the current and the   *)
(* previous one; what it puts into the plan are copies of token texts.     *)
(*                                                                         *)
(* The file is chosen token by token as the lexer reads on: "seen" is what *)
(* it has delivered so far.  A text is named by the position of its token, *)
(* in the plan too.  The five methods are one kind of token.  A lexer that *)
(* is out of memory delivers ERROR, as it does for a wrong character.      *)
(***************************************************************************)
EXTENDS Naturals, FiniteSets, SequencesExt

CONSTANTS MaxCases,       \* MAX_REQUEST_CASES
          MaxAssertions,  \* MAX_CASE_ASSERTIONS
          MaxTokens       \* bound of the model: a file has at most so many tokens, or one
                          \* more when it ends with a raw body, before its EOF

ASSUME ParserAssumption == MaxCases \in Nat /\ MaxAssertions \in Nat /\ MaxTokens \in Nat

Kinds == {"NEWLINE", "METHOD", "IDENT", "EXPECT", "STATUS", "INT", "BODY", "CONTAINS", "STRING",
          "HEADER", "BODY_STMT", "BODY_RAW", "ERROR", "EOF"}

VARIABLES pc,      \* the parse function that reads the next token
          seen,    \* the kinds of the tokens delivered so far; the last one is the current
          live,    \* the tokens whose text is allocated
          cases,   \* the cases of the plan
          copies,  \* the texts copied for the plan that are allocated
          outOfMemory

vars == <<pc, seen, live, cases, copies, outOfMemory>>

Ended == {"accepted", "rejected", "unread"}
PCs   == {"file", "create", "statement", "url", "assertion", "code", "contains", "string",
          "header_name", "header_value", "raw", "end_of_line", "parsed", "failed"} \cup Ended

Positions  == 1 .. MaxTokens + 2
Assertions == [type : {"status", "body", "header"}, from : {<<p>> : p \in Positions}
                                                      \cup Positions \X Positions]

TypeOK == /\ pc \in PCs
          /\ seen \in Seq(Kinds) /\ Len(seen) <= MaxTokens + 2
          /\ live \subseteq Positions /\ copies \subseteq Positions
          /\ Len(cases) <= MaxCases
          /\ \A i \in DOMAIN cases :
                /\ cases[i].url \in Positions
                /\ cases[i].body \in {0} \cup Positions
                /\ Len(cases[i].assertions) <= MaxAssertions
                /\ Range(cases[i].assertions) \subseteq Assertions
          /\ outOfMemory \in BOOLEAN

Init == /\ pc = "file"
        /\ seen = << >>
        /\ live = {}
        /\ cases = << >>
        /\ copies = {}
        /\ outOfMemory = FALSE

current  == Len(seen)          \* positions; 0 when there is no such token
previous == Len(seen) - 1
check(kind) == seen[current] = kind

(***************************************************************************)
(* The tokens.                                                             *)
(***************************************************************************)
\* Once BODY is lexed the next token is the rest of its line, whatever it is.
NextKinds == IF seen # << >> /\ check("BODY_STMT") THEN {"BODY_RAW", "ERROR"}
             ELSE IF Len(seen) >= MaxTokens THEN {"EOF"}
             ELSE Kinds \ {"BODY_RAW"}

\* advance_parser frees the older token; it could also just overwrite it.
OnlyForgets == {}
Outdated    == {previous}

advance_parser ==
    \E kind \in NextKinds :
        /\ seen' = Append(seen, kind)
        /\ live' = (live \ Outdated) \cup (IF kind = "EOF" THEN {} ELSE {current + 1})

parser_error == pc' = "failed"

\* An error: no further token is read and the plan stays as it is.
GiveUp == parser_error /\ UNCHANGED <<seen, live, cases, copies, outOfMemory>>

ReadOver(next) == /\ advance_parser
                  /\ pc' = next
                  /\ UNCHANGED <<cases, copies, outOfMemory>>

\* The token is of this kind and read over, or it is an error.
consume(kind, next) == \/ check(kind) /\ ReadOver(next)
                       \/ ~ check(kind) /\ GiveUp

\* strdup of the text of the token at p, and what is left when it fails.
Copied(p, plan, next) ==
    /\ copies' = copies \cup {p}
    /\ cases' = plan
    /\ pc' = next
    /\ UNCHANGED outOfMemory

NotCopied(plan, left) ==
    /\ copies' = left
    /\ cases' = plan
    /\ parser_error
    /\ outOfMemory' = TRUE

(***************************************************************************)
(* The plan.                                                               *)
(***************************************************************************)
last == Len(cases)

\* A line belongs to the case above it, not to the first one.
TopCase   == 1
CaseAbove == last

\* The limits of the plan, and the same off by one.
CaseNearlyFits   == last <= MaxCases
CaseFits         == last < MaxCases
ExpectNearlyFits == Len(cases[last].assertions) <= MaxAssertions
ExpectFits       == Len(cases[last].assertions) < MaxAssertions

Asserting(type, from) ==
    [cases EXCEPT ![CaseAbove].assertions = Append(@, [type |-> type, from |-> from])]

\* The texts free_run_plan frees: the code of a status assertion is a number.
AssertionTexts(a) == IF a.type = "status" THEN {} ELSE Range(a.from)
CaseTexts(c)      == ({c.url, c.body} \ {0}) \cup UNION {AssertionTexts(a) : a \in Range(c.assertions)}
PlanTexts(plan)   == UNION {CaseTexts(c) : c \in Range(plan)}

(***************************************************************************)
(* The functions.                                                          *)
(***************************************************************************)
read_file == /\ pc = "file"
             /\ pc' \in {"create", "unread"}
             /\ UNCHANGED <<seen, live, cases, copies, outOfMemory>>

dsl_parser_create ==
    /\ pc = "create"
    /\ \/ /\ advance_parser
          /\ pc' = "statement"
          /\ UNCHANGED outOfMemory
       \/ /\ pc' = "rejected"
          /\ outOfMemory' = TRUE
          /\ UNCHANGED <<seen, live>>
    /\ UNCHANGED <<cases, copies>>

\* parse_program ends at EOF; parse_statement takes one line.
parse_program == /\ pc = "statement"
                 /\ check("EOF")
                 /\ pc' = "parsed"
                 /\ UNCHANGED <<seen, live, cases, copies, outOfMemory>>

\* A blank line is read over; accepted where it stands it would stay current.
stay_on_blank == /\ pc = "statement"
                 /\ check("NEWLINE")
                 /\ UNCHANGED vars

parse_blank == /\ pc = "statement"
               /\ check("NEWLINE")
               /\ ReadOver("statement")

parse_request_stmt == /\ pc = "statement"
                      /\ check("METHOD")
                      /\ \/ CaseFits /\ ReadOver("url")
                         \/ ~ CaseFits /\ GiveUp

parse_body_stmt == /\ pc = "statement"
                   /\ check("BODY_STMT")
                   /\ \/ last # 0 /\ ReadOver("raw")
                      \/ last = 0 /\ GiveUp

\* The limit is looked at once EXPECT is read over.
parse_expect_stmt ==
    /\ pc = "statement"
    /\ check("EXPECT")
    /\ \/ /\ last # 0
          /\ ReadOver(IF ExpectFits THEN "assertion" ELSE "failed")
       \/ last = 0 /\ GiveUp

parse_statement_error == /\ pc = "statement"
                         /\ seen[current] \notin {"EOF", "NEWLINE", "METHOD", "BODY_STMT", "EXPECT"}
                         /\ GiveUp

\* The rest of a request statement: the case is counted only with its URL.
request_url ==
    /\ pc = "url"
    /\ \/ /\ check("IDENT")
          /\ advance_parser
          /\ \/ Copied(current, Append(cases, [url |-> current, body |-> 0, assertions |-> << >>]),
                       "end_of_line")
             \/ NotCopied(cases, copies)
       \/ ~ check("IDENT") /\ GiveUp

\* The rest of a BODY statement: an earlier body of the case is freed first.
body_raw ==
    /\ pc = "raw"
    /\ \/ /\ check("BODY_RAW")
          /\ advance_parser
          /\ LET old == cases[CaseAbove].body
             IN  \/ /\ copies' = (copies \ {old}) \cup {current}
                    /\ cases' = [cases EXCEPT ![CaseAbove].body = current]
                    /\ pc' = "end_of_line"
                    /\ UNCHANGED outOfMemory
                 \/ NotCopied([cases EXCEPT ![CaseAbove].body = 0], copies \ {old})
       \/ ~ check("BODY_RAW") /\ GiveUp

parse_assertion ==
    /\ pc = "assertion"
    /\ \/ check("STATUS") /\ ReadOver("code")
       \/ check("BODY") /\ ReadOver("contains")
       \/ check("HEADER") /\ ReadOver("header_name")
       \/ seen[current] \notin {"STATUS", "BODY", "HEADER"} /\ GiveUp

parse_status_assertion ==
    /\ pc = "code"
    /\ \/ /\ check("INT")
          /\ advance_parser
          /\ cases' = Asserting("status", <<current>>)
          /\ pc' = "end_of_line"
          /\ UNCHANGED <<copies, outOfMemory>>
       \/ ~ check("INT") /\ GiveUp

\* The assertion is counted before its text is copied; without memory it is
\* an assertion without text.
parse_body_assertion ==
    \/ pc = "contains" /\ consume("CONTAINS", "string")
    \/ /\ pc = "string"
       /\ \/ /\ check("STRING")
             /\ advance_parser
             /\ \/ Copied(current, Asserting("body", <<current>>), "end_of_line")
                \/ NotCopied(Asserting("body", <<current>>), copies)
          \/ ~ check("STRING") /\ GiveUp

\* The copy of the name is the function's own until the value is there too.
parse_header_name ==
    /\ pc = "header_name"
    /\ \/ /\ check("IDENT")
          /\ advance_parser
          /\ \/ Copied(current, cases, "header_value")
             \/ NotCopied(cases, copies)
       \/ ~ check("IDENT") /\ GiveUp

\* An error after the name was copied frees the copy, or it would be lost.
WithName(name)    == copies
WithoutName(name) == copies \ {name}

HeaderValues == {"IDENT", "STRING", "INT"}

parse_header_assertion ==
    LET name == previous
    IN  /\ pc = "header_value"
        /\ \/ /\ seen[current] \in HeaderValues
              /\ advance_parser
              /\ \/ Copied(current, Asserting("header", <<name, current>>), "end_of_line")
                 \/ NotCopied(cases, WithoutName(name))
           \/ /\ seen[current] \notin HeaderValues
              /\ parser_error
              /\ copies' = WithoutName(name)
              /\ UNCHANGED <<seen, live, cases, outOfMemory>>

\* A statement ends with its line or with the file.
end_of_line ==
    /\ pc = "end_of_line"
    /\ \/ check("NEWLINE") /\ ReadOver("statement")
       \/ /\ check("EOF")
          /\ pc' = "statement"
          /\ UNCHANGED <<seen, live, cases, copies, outOfMemory>>
       \/ seen[current] \notin {"NEWLINE", "EOF"} /\ GiveUp

dsl_parser_destroy == live' = live \ {current, previous}

free_run_plan == /\ copies' = copies \ PlanTexts(cases)
                 /\ cases' = << >>

\* dsl_parse_run_plan returns.
return_plan == /\ pc = "parsed"
               /\ dsl_parser_destroy
               /\ pc' = "accepted"
               /\ UNCHANGED <<seen, cases, copies, outOfMemory>>

return_error == /\ pc = "failed"
                /\ dsl_parser_destroy
                /\ free_run_plan
                /\ pc' = "rejected"
                /\ UNCHANGED <<seen, outOfMemory>>

Next == \/ read_file \/ dsl_parser_create \/ parse_program
        \/ parse_blank \/ parse_request_stmt \/ parse_body_stmt \/ parse_expect_stmt
        \/ parse_statement_error
        \/ request_url \/ body_raw
        \/ parse_assertion \/ parse_status_assertion \/ parse_body_assertion
        \/ parse_header_name \/ parse_header_assertion
        \/ end_of_line \/ return_plan \/ return_error

\* One thread, no call that waits for anyone: the parser keeps running.
Spec == Init /\ [][Next]_vars /\ WF_vars(Next)

=============================================================================
