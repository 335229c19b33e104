------------------------------- MODULE DslLexer -------------------------------
(***************************************************************************)
(* src/dsl/dsl_lexer.c: a text becomes tokens, one for each call of        *)
(* dsl_lexer_next_token, and dsl_lexer_get_tokens collects them.           *)
(*                                                                         *)
(* A character stands for its class, a keyword for its whole word: "B" is  *)
(* BODY, "G" any other keyword, "a" a letter that makes a name, "mark" a   *)
(* character inside of names only, "hash" begins a comment or is inside of a *)
(* name, "1" is a digit, "quote" the quotation mark, "n" and "r" are the ends *)
(* of a line, "blank" is space and tab, "other" any character no token has. *)
(* A place is an index of the text; the one behind it is the NUL.  A token *)
(* remembers the places of its text.                                       *)
(***************************************************************************)
EXTENDS FiniteSetsExt, Sequences

CONSTANTS MaxLength,         \* bound on the length of a text
          InitialCapacity    \* of the array of tokens: 16

ASSUME LexerAssumption == MaxLength \in Nat /\ InitialCapacity \in Nat \ {0}

Chars == {"B", "G", "a", "mark", "1", "quote", "n", "r", "blank", "hash", "other"}

VARIABLES input, pos, line, column,
          read_body_raw_next,
          tokens, capacity,
          status,       \* of dsl_lexer_get_tokens: "lexing", "ended" or "no array"
          outOfMemory   \* a text could not be copied (history)

lexer == <<pos, line, column, read_body_raw_next>>
vars  == <<input, lexer, tokens, capacity, status, outOfMemory>>

Init == /\ input \in UNION {[1 .. n -> Chars] : n \in 0 .. MaxLength}
        /\ pos = 1 /\ line = 1 /\ column = 1
        /\ read_body_raw_next = FALSE
        /\ tokens = <<>> /\ capacity = InitialCapacity
        /\ status = "lexing"
        /\ outOfMemory = FALSE

NUL   == Len(input) + 1
At(p) == IF p < NUL THEN input[p] ELSE "NUL"

\* The first place from p on with a character of the set.
FirstOf(set, p) == Min({q \in p .. NUL : At(q) \in set \cup {"NUL"}})

skip_spaces_and_tabs == FirstOf(Chars \ {"blank", "r"}, pos)
is_ident_start(c)    == c \in {"B", "G", "a"}
NoDigits(c)          == c \in {"B", "G", "a", "mark", "hash"}
is_ident_char(c)     == c \in {"B", "G", "a", "mark", "hash", "1"}

keyword_type(word) == CASE word = <<"B">> -> "BODY_STMT"
                        [] word = <<"G">> -> "KEYWORD"
                        [] OTHER          -> "IDENT"

\* Where the next token begins: behind blanks, and behind a comment unless a
\* raw body is expected.
TokenStart == LET p == skip_spaces_and_tabs
              IN  IF At(p) = "hash" /\ ~read_body_raw_next THEN FirstOf({"n"}, p) ELSE p

\* advance, from pos to q: only NEWLINE moves over the end of a line.
AdvanceTo(q) == /\ pos' = q
                /\ IF \E p \in pos .. q - 1 : At(p) = "n"
                   THEN line' = line + 1 /\ column' = 1
                   ELSE line' = line /\ column' = column + (q - pos)

-----------------------------------------------------------------------------
(* dsl_lexer_get_tokens *)

Overfull == Len(tokens) > capacity
Full     == Len(tokens) >= capacity

\* No array for the first token, or it is full and cannot grow: all tokens are
\* freed.
GrowFails == /\ status = "lexing" /\ (tokens = <<>> \/ Full)
             /\ tokens' = <<>>
             /\ status' = "no array"
             /\ UNCHANGED <<input, lexer, capacity, outOfMemory>>

\* The call of dsl_lexer_next_token gave this token; it moved on to next.
Collect(type, from, to, next) ==
    /\ status = "lexing"
    /\ capacity' = IF Full THEN capacity * 2 ELSE capacity
    /\ tokens' = Append(tokens, [type |-> type, from |-> from, to |-> to,
                                 line |-> line, column |-> column + (from - pos)])
    /\ status' = IF type \in {"EOF", "ERROR"} THEN "ended" ELSE "lexing"
    /\ AdvanceTo(next)
    /\ UNCHANGED input

-----------------------------------------------------------------------------
(* dsl_lexer_next_token *)

AnyKeyword(type) == type \in {"BODY_STMT", "KEYWORD"}
ReadsRaw(type)   == type = "BODY_STMT"

\* A token whose text is copied, or ERROR when there is no memory for the copy.
Copied(type, from, to, next) ==
    \/ /\ Collect(type, from, to, next)
       /\ read_body_raw_next' = ReadsRaw(type)
       /\ UNCHANGED outOfMemory
    \/ /\ Collect("ERROR", from, from, next)
       /\ read_body_raw_next' = FALSE
       /\ outOfMemory' = TRUE

Plain(type, from, to, next) == /\ Collect(type, from, to, next)
                               /\ UNCHANGED <<read_body_raw_next, outOfMemory>>

Begins(set) == ~read_body_raw_next /\ At(TokenStart) \in set

EndOfFile == /\ Begins({"NUL"})
             /\ Plain("EOF", TokenStart, TokenStart, TokenStart)

Newline == /\ Begins({"n"})
           /\ Plain("NEWLINE", TokenStart, TokenStart + 1, TokenStart + 1)

ClosingQuote(p) == FirstOf({"quote", "n"}, p + 1)

scan_string ==
    LET p == TokenStart
        q == ClosingQuote(p)
    IN  /\ Begins({"quote"})
        /\ IF At(q) = "quote" THEN Copied("STRING", p, q + 1, q + 1)
                              ELSE Plain("ERROR", p, p, q)

scan_number == LET q == FirstOf(Chars \ {"1"}, TokenStart)
               IN  /\ Begins({"1"})
                   /\ Copied("INT", TokenStart, q, q)

scan_identifier ==
    LET p == TokenStart
        q == FirstOf({c \in Chars : ~is_ident_char(c)}, p)
    IN  /\ Begins({c \in Chars : is_ident_start(c)})
        /\ Copied(keyword_type(SubSeq(input, p, q - 1)), p, q, q)

unexpected_character == /\ Begins({"mark", "other"})
                        /\ Plain("ERROR", TokenStart, TokenStart, TokenStart + 1)

WholeLine(p) == FirstOf({"n"}, p)
RawEnd(p)    == FirstOf({"n", "r"}, p)

\* Without the blanks around it.
scan_body_raw ==
    LET p  == TokenStart
        to == Max({q \in p .. RawEnd(p) : q = p \/ At(q - 1) # "blank"})
    IN  /\ read_body_raw_next
        /\ Copied("BODY_RAW", p, to, RawEnd(p))

dsl_lexer_next_token == \/ EndOfFile \/ Newline \/ scan_string \/ scan_number
                        \/ scan_identifier \/ unexpected_character \/ scan_body_raw

Next == dsl_lexer_next_token \/ GrowFails
Spec == Init /\ [][Next]_vars

-----------------------------------------------------------------------------
(* Properties *)

Only(set, a, b) == \A p \in a .. b - 1 : At(p) \in set
Name            == {"B", "G", "a", "mark", "hash", "1"}
Word(a, b)      == SubSeq(input, a, b - 1)

\* What the text from a to b is, with the character behind it where the token
\* has to be the longest.
Reads(type, a, b) ==
    CASE type = "EOF"       -> a = NUL /\ b = NUL
      [] type = "NEWLINE"   -> Word(a, b) = <<"n">>
      [] type = "INT"       -> a < b /\ Only({"1"}, a, b) /\ At(b) # "1"
      [] type = "STRING"    -> /\ a + 1 < b /\ At(a) = "quote" /\ At(b - 1) = "quote"
                               /\ Only(Chars \ {"quote", "n"}, a + 1, b - 1)
      [] type = "BODY_STMT" -> Word(a, b) = <<"B">> /\ At(b) \notin Name
      [] type = "KEYWORD"   -> Word(a, b) = <<"G">> /\ At(b) \notin Name
      [] type = "IDENT"     -> /\ a < b /\ At(a) \in {"B", "G", "a"} /\ Only(Name, a, b)
                               /\ At(b) \notin Name /\ Word(a, b) \notin {<<"B">>, <<"G">>}
      [] type = "BODY_RAW"  -> /\ Only(Chars \ {"n", "r"}, a, b)
                               /\ a < b => At(a) # "blank" /\ At(b - 1) # "blank"
                               /\ \E e \in b .. NUL : /\ Only({"blank"}, b, e)
                                                      /\ At(e) \in {"n", "r", "NUL"}
      [] type = "ERROR"     -> \/ outOfMemory
                               \/ At(a) \in {"mark", "other"}
                               \/ /\ At(a) = "quote"
                                  /\ \E e \in a + 1 .. NUL :
                                        /\ Only(Chars \ {"quote", "n"}, a + 1, e)
                                        /\ At(e) \in {"n", "NUL"}

\* Blanks, and before all but a raw body a comment up to the end of its line.
Skipped(type, a, b) ==
    \/ Only({"blank", "r"}, a, b)
    \/ /\ type # "BODY_RAW"
       /\ \E h \in a .. b - 1 : /\ Only({"blank", "r"}, a, h) /\ At(h) = "hash"
                                /\ Only(Chars \ {"n"}, h, b) /\ At(b) \in {"n", "NUL"}

EndOf(i) == IF i = 0 THEN 1 ELSE tokens[i].to

\* The tokens are the text, cut as the grammar of tokens says: each is the
\* longest of its kind, nothing but blanks and comments lies between two, and
\* the line and column of each are where its text begins.
CutsText ==
    \A i \in DOMAIN tokens :
       LET t    == tokens[i]
           ends == {p \in 1 .. t.from - 1 : At(p) = "n"}
       IN  /\ EndOf(i - 1) <= t.from /\ t.from <= t.to
           /\ Skipped(t.type, EndOf(i - 1), t.from)
           /\ Reads(t.type, t.from, t.to)
           /\ t.line = Cardinality(ends) + 1
           /\ t.column = t.from - (IF ends = {} THEN 0 ELSE Max(ends))

\* What the parser takes for granted (NextKinds of DslParser): after BODY the
\* rest of the line comes as one token, and only there; the last token, and no
\* other, is EOF or ERROR.
FitsParser ==
    \A i \in DOMAIN tokens :
       /\ tokens[i].type = "BODY_RAW" => i > 1 /\ tokens[i - 1].type = "BODY_STMT"
       /\ i > 1 /\ tokens[i - 1].type = "BODY_STMT" => tokens[i].type \in {"BODY_RAW", "ERROR"}
       /\ tokens[i].type \in {"EOF", "ERROR"} <=> i = Len(tokens) /\ status = "ended"

\* The array has room for the tokens, and a text has no more of them than it
\* has characters, but for empty raw bodies and the last one: every call gets
\* on, so that the lexer ends.
Bounded == /\ Len(tokens) <= capacity
           /\ Len(tokens) <= Len(input) + 1
                + Cardinality({i \in DOMAIN tokens : tokens[i].type = "BODY_RAW"})
=============================================================================
