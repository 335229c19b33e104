----------------------------- MODULE DslGrammar -----------------------------
(***************************************************************************)
(* The language of .fman files, line by line, and the plan a file stands   *)
(* for, defined without a parser; and what DslParser owes to both.         *)
(***************************************************************************)
EXTENDS DslParser

(***************************************************************************)
(* A text is a sequence of token kinds without its EOF.                    *)
(***************************************************************************)
LegalLines ==
    { << >>, <<"METHOD", "IDENT">>, <<"BODY_STMT", "BODY_RAW">>,
      <<"EXPECT", "STATUS", "INT">>, <<"EXPECT", "BODY", "CONTAINS", "STRING">> }
    \cup { <<"EXPECT", "HEADER", "IDENT", value>> : value \in {"IDENT", "STRING", "INT"} }

\* The elements of a finite set of numbers in ascending order.
Sorted(S) == [k \in 1 .. Cardinality(S) |->
                 CHOOSE x \in S : Cardinality({y \in S : y < x}) = k - 1]

At(text, kind) == {i \in DOMAIN text : text[i] = kind}

\* The k-th line lies between the k-th and the next of these positions.
Breaks(text) == Sorted({0, Len(text) + 1} \cup At(text, "NEWLINE"))
Lines(text)  == LET b == Breaks(text)
                IN  [k \in 1 .. Len(b) - 1 |-> SubSeq(text, b[k] + 1, b[k + 1] - 1)]

\* The tokens that belong to the k-th case: from its method to the next one.
Methods(text)      == Sorted(At(text, "METHOD"))
CaseTokens(text, k) ==
    LET m == Methods(text) \o <<Len(text) + 1>>
    IN  m[k] .. m[k + 1] - 1

\* Not too many cases and expectations, and none of them before its case.
InContext(text) ==
    /\ Len(Methods(text)) <= MaxCases
    /\ \A i \in At(text, "EXPECT") \cup At(text, "BODY_STMT") :
          \E j \in At(text, "METHOD") : j < i
    /\ \A k \in DOMAIN Methods(text) :
          Cardinality(At(text, "EXPECT") \cap CaseTokens(text, k)) <= MaxAssertions

Legal(text) == Range(Lines(text)) \subseteq LegalLines /\ InContext(text)

\* Some legal text begins like this.
Viable(text) == /\ Range(Front(Lines(text))) \subseteq LegalLines
                /\ \E line \in LegalLines : IsPrefix(Last(Lines(text)), line)
                /\ InContext(text)

(***************************************************************************)
(* The plan of a legal text: the last BODY of a case counts.               *)
(***************************************************************************)
Expectation(text, e) ==
    CASE text[e + 1] = "STATUS" -> [type |-> "status", from |-> <<e + 2>>]
      [] text[e + 1] = "BODY"   -> [type |-> "body",   from |-> <<e + 3>>]
      [] text[e + 1] = "HEADER" -> [type |-> "header", from |-> <<e + 2, e + 3>>]

PlanCase(text, k) ==
    LET tokens  == CaseTokens(text, k)
        expects == Sorted(At(text, "EXPECT") \cap tokens)
    IN  [url        |-> Methods(text)[k] + 1,
         body       |-> Max({0} \cup (At(text, "BODY_RAW") \cap tokens)),
         assertions |-> [j \in DOMAIN expects |-> Expectation(text, expects[j])]]

Plan(text) == [k \in DOMAIN Methods(text) |-> PlanCase(text, k)]

(***************************************************************************)
(* Properties of the parser.                                               *)
(***************************************************************************)
\* A file is accepted exactly when it is legal, and the parser stops at the
\* first token no legal file has there, or, at an EXPECT too many for its case,
\* one token later: a file it gives up on without being out of memory is not
\* the beginning of a legal one.  The text it consumed before is always the
\* beginning of a legal file.
Recognizes ==
    /\ pc = "statement" => Viable(Front(seen))
    /\ pc = "accepted" => Last(seen) = "EOF" /\ Legal(Front(seen))
    /\ pc = "rejected" /\ ~ outOfMemory =>
          IF Last(seen) = "EOF" THEN ~ Legal(Front(seen)) ELSE ~ Viable(seen)

\* Between statements the plan is that of the lines read so far: every
\* BODY and EXPECT has gone to the case above it, in order, with the text
\* of its own tokens although the parser is by then a token ahead.
PlanIsText == pc \in {"statement", "parsed", "accepted"} => cases = Plan(Front(seen))

\* The parser holds exactly the texts of the current and the previous token,
\* so what it copies is still there and nothing older is kept; when it
\* returns, on whatever path, it has freed both.
TokensOwned ==
    live = IF pc \in Ended THEN {}
           ELSE {p \in {current, previous} : p \in DOMAIN seen /\ seen[p] # "EOF"}

\* Every copy made for the plan is held by the plan, or is gone: between
\* statements and on acceptance the allocated copies are those free_run_plan
\* will find, also after a second BODY for a case; after an error, whichever
\* allocation or token caused it, none is left.
NothingKept ==
    /\ pc \in {"statement", "end_of_line", "parsed", "accepted"} => copies = PlanTexts(cases)
    /\ pc \in {"rejected", "unread"} => copies = {} /\ cases = << >>

\* The parser returns for every file: each turn of its loop consumes a token.
ParsingEnds == <>(pc \in Ended)

=============================================================================
