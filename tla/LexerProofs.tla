----------------------------- MODULE LexerProofs -----------------------------
(***************************************************************************)
(* What the lexer promises for a text of any length.                       *)
(***************************************************************************)
EXTENDS DslLexer, FiniteSetTheorems, SequenceTheorems, TLAPS

USE LexerAssumption

-----------------------------------------------------------------------------
(* The first and the last place of a set *)

\* The intervals 1 .. x of the members x of a set are ordered by inclusion,
\* which is well-founded.
LEMMA LeastExists ==
  ASSUME NEW n \in Nat, NEW S \in SUBSET (1 .. n), S # {}
  PROVE  \E x \in S : \A y \in S : x <= y
<1> DEFINE T == {1 .. x : x \in S}
           R == StrictSubsetOrdering(1 .. n)
<1>1. T \subseteq FiniteSubsetsOf(1 .. n) /\ T # {}
  <2>1. ASSUME NEW x \in S PROVE 1 .. x \in FiniteSubsetsOf(1 .. n)
    BY FS_Interval DEF FiniteSubsetsOf
  <2> QED
    BY <2>1
<1>2. IsWellFoundedOn(R, FiniteSubsetsOf(1 .. n))
  BY FS_StrictSubsetOrderingWellFounded
<1>3. \E t \in T : \A u \in T : <<u, t>> \notin R
  <2> HIDE DEF T, R
  <2> QED
    BY <1>1, <1>2, WFMin
<1>4. PICK x \in S : \A u \in T : <<u, 1 .. x>> \notin R
  BY <1>3
<1>5. ASSUME NEW y \in S, y < x PROVE FALSE
  <2>1. 1 .. y \in T /\ 1 .. y \subseteq 1 .. n /\ 1 .. x \subseteq 1 .. n
    OBVIOUS
  <2>2. 1 .. y \subseteq 1 .. x /\ x \in 1 .. x /\ x \notin 1 .. y
    BY <1>5
  <2>3. <<1 .. y, 1 .. x>> \in R
    BY <2>1, <2>2 DEF StrictSubsetOrdering
  <2> QED
    BY <1>4, <2>1, <2>3
<1> QED
  BY <1>5

LEMMA MinIsLeast ==
  ASSUME NEW n \in Nat, NEW S \in SUBSET (1 .. n), S # {}
  PROVE  Min(S) \in S /\ \A y \in S : Min(S) <= y
<1>1. \E x \in S : \A y \in S : x <= y
  BY LeastExists
<1> QED
  BY <1>1 DEF Min

LEMMA MaxIsGreatest ==
  ASSUME NEW n \in Nat, NEW S \in SUBSET (1 .. n), S # {}
  PROVE  Max(S) \in S /\ \A y \in S : y <= Max(S)
<1> DEFINE T == {n + 1 - x : x \in S}
<1>1. T \in SUBSET (1 .. n) /\ T # {}
  <2>1. ASSUME NEW x \in S PROVE n + 1 - x \in 1 .. n
    <3>1. x \in Nat /\ 1 <= x /\ x <= n
      OBVIOUS
    <3> QED
      BY <3>1
  <2> QED
    BY <2>1
<1>2. PICK t \in T : \A u \in T : t <= u
  <2> HIDE DEF T
  <2> QED
    BY <1>1, LeastExists
<1>3. PICK x \in S : t = n + 1 - x
  OBVIOUS
<1>4. ASSUME NEW y \in S PROVE y <= x
  <2>1. n + 1 - y \in T
    OBVIOUS
  <2>2. n + 1 - x <= n + 1 - y
    BY <1>2, <1>3, <2>1
  <2> QED
    BY <2>2
<1>5. \E z \in S : \A y \in S : z >= y
  BY <1>4
<1> QED
  BY <1>5 DEF Max

-----------------------------------------------------------------------------
(* Scanning *)

Input == input \in Seq(Chars)

LEMMA Places ==
  ASSUME Input
  PROVE  /\ Len(input) \in Nat /\ NUL \in Nat \ {0}
         /\ \A p \in 1 .. NUL : At(p) \in Chars \cup {"NUL"} /\ (At(p) = "NUL" <=> p = NUL)
         /\ \A p \in 1 .. Len(input) : At(p) \in Chars /\ At(p) = input[p]
<1>1. Len(input) \in Nat /\ \A p \in 1 .. Len(input) : input[p] \in Chars
  BY DEF Input
<1>2. "NUL" \notin Chars
  BY DEF Chars
<1> QED
  BY <1>1, <1>2 DEF NUL, At

LEMMA FirstOfIsFirst ==
  ASSUME Input, NEW set, NEW p \in 1 .. NUL
  PROVE  /\ FirstOf(set, p) \in p .. NUL
         /\ At(FirstOf(set, p)) \in set \cup {"NUL"}
         /\ \A q \in p .. FirstOf(set, p) - 1 : At(q) \in Chars \ set
<1> DEFINE S == {q \in p .. NUL : At(q) \in set \cup {"NUL"}}
<1>1. NUL \in Nat /\ p \in Nat /\ 1 <= p /\ p <= NUL
  BY Places
<1>2. NUL \in S /\ S \in SUBSET (1 .. NUL)
  BY <1>1, Places
<1>3. Min(S) \in S /\ \A y \in S : Min(S) <= y
  <2> HIDE DEF S
  <2> QED
    BY <1>1, <1>2, MinIsLeast
<1>4. FirstOf(set, p) = Min(S)
  BY DEF FirstOf
<1>5. ASSUME NEW q \in p .. Min(S) - 1 PROVE At(q) \in Chars \ set
  <2>1. q \in p .. NUL /\ q < Min(S) /\ Min(S) \in Nat
    BY <1>1, <1>3
  <2>2. q \notin S
    BY <1>3, <2>1
  <2> QED
    BY <1>1, <2>1, <2>2, Places
<1> QED
  BY <1>3, <1>4, <1>5

\* Where a token begins, and what the text before it is.
Blank == {"blank", "r"}

LEMMA BlanksSkipped ==
  ASSUME Input, pos \in 1 .. NUL
  PROVE  LET p == skip_spaces_and_tabs
         IN  /\ p \in pos .. NUL
             /\ At(p) \notin Blank
             /\ Only(Blank, pos, p)
<1> DEFINE p == skip_spaces_and_tabs
<1>1. /\ p \in pos .. NUL
      /\ At(p) \in (Chars \ Blank) \cup {"NUL"}
      /\ \A q \in pos .. p - 1 : At(q) \in Chars \ (Chars \ Blank)
  BY FirstOfIsFirst DEF skip_spaces_and_tabs, Blank
<1>2. Blank \subseteq Chars /\ "NUL" \notin Blank
  BY DEF Blank, Chars
<1> HIDE DEF p
<1>3. At(p) \notin Blank /\ Only(Blank, pos, p)
  BY <1>1, <1>2 DEF Only
<1> QED
  BY <1>1, <1>3 DEF p

LEMMA TokenStartIs ==
  ASSUME Input, pos \in 1 .. NUL
  PROVE  /\ TokenStart \in pos .. NUL
         /\ \A type : (type = "BODY_RAW" => read_body_raw_next) => Skipped(type, pos, TokenStart)
         /\ \A q \in pos .. TokenStart - 1 : At(q) # "n"
         /\ read_body_raw_next => At(TokenStart) \notin Blank
<1> DEFINE p == skip_spaces_and_tabs
<1>1. p \in pos .. NUL /\ At(p) \notin Blank /\ Only(Blank, pos, p)
  BY BlanksSkipped
<1>2. "n" \notin Blank
  BY DEF Blank
<1>3. CASE ~(At(p) = "hash" /\ ~read_body_raw_next)
  <2>1. TokenStart = p
    BY <1>3 DEF TokenStart
  <2> HIDE DEF p
  <2>2. \A type : Skipped(type, pos, p)
    BY <1>1 DEF Skipped, Blank
  <2>3. \A q \in pos .. p - 1 : At(q) # "n"
    BY <1>1, <1>2 DEF Only
  <2> QED
    BY <1>1, <2>1, <2>2, <2>3
<1>4. CASE At(p) = "hash" /\ ~read_body_raw_next
  <2> DEFINE t == FirstOf({"n"}, p)
  <2>1. TokenStart = t
    BY <1>4 DEF TokenStart
  <2> HIDE DEF p
  <2>2. p \in 1 .. NUL /\ p \in Nat /\ pos \in Nat
    BY <1>1, Places
  <2>3. t \in p .. NUL /\ At(t) \in {"n", "NUL"} /\ \A q \in p .. t - 1 : At(q) \in Chars \ {"n"}
    BY <2>2, FirstOfIsFirst
  <2> HIDE DEF t
  <2>4. t # p
    BY <1>4, <2>3
  <2>5. p \in pos .. t - 1 /\ Only(Chars \ {"n"}, p, t)
    BY <1>1, <2>2, <2>3, <2>4, Places DEF Only
  <2>6. \A type : type # "BODY_RAW" => Skipped(type, pos, t)
    BY <1>1, <1>4, <2>3, <2>5 DEF Skipped, Blank
  <2>7. \A q \in pos .. t - 1 : At(q) # "n"
    <3> SUFFICES ASSUME NEW q \in pos .. t - 1 PROVE At(q) # "n"
      OBVIOUS
    <3>1. CASE q < p
      BY <1>1, <1>2, <2>2, <3>1 DEF Only
    <3>2. CASE p <= q
      <4>1. q \in p .. t - 1
        BY <2>2, <2>3, <3>2, Places
      <4> QED
        BY <2>3, <4>1
    <3> QED
      BY <2>2, <3>1, <3>2
  <2>8. t \in pos .. NUL
    BY <1>1, <2>2, <2>3, Places
  <2> QED
    BY <1>4, <2>1, <2>6, <2>7, <2>8
<1> QED
  BY <1>3, <1>4

-----------------------------------------------------------------------------
(* The tokens *)

LastType == IF tokens = <<>> THEN "none" ELSE tokens[Len(tokens)].type
Ends(p)  == {q \in 1 .. p - 1 : At(q) = "n"}
LineAt(p, l)   == l = Cardinality(Ends(p)) + 1
ColumnAt(p, c) == c = p - (IF Ends(p) = {} THEN 0 ELSE Max(Ends(p)))

IsSeq(s) == \E S : s \in Seq(S)

TokenKinds == {"EOF", "NEWLINE", "INT", "STRING", "BODY_STMT", "KEYWORD", "IDENT", "BODY_RAW", "ERROR"}

\* The token is cut from the text as CutsText says, behind one that ended at a.
Cut(t, a) == /\ t.type \in TokenKinds
             /\ a <= t.from /\ t.from <= t.to
             /\ Skipped(t.type, a, t.from)
             /\ Reads(t.type, t.from, t.to)
             /\ LineAt(t.from, t.line)
             /\ ColumnAt(t.from, t.column)

\* How the tokens follow one another: the shape FitsParser asks for.
Follows(i) == /\ tokens[i].type = "BODY_RAW" => i > 1 /\ tokens[i - 1].type = "BODY_STMT"
              /\ i > 1 /\ tokens[i - 1].type = "BODY_STMT" => tokens[i].type \in {"BODY_RAW", "ERROR"}
              /\ tokens[i].type \in {"EOF", "ERROR"} <=> i = Len(tokens) /\ status = "ended"

Placed  == Input /\ IsSeq(tokens) /\ pos \in 1 .. NUL /\ LineAt(pos, line) /\ ColumnAt(pos, column)
Kept    == /\ status \in {"lexing", "ended", "no array"}
           /\ capacity \in Nat \ {0} /\ Len(tokens) <= capacity
           /\ outOfMemory \in BOOLEAN /\ read_body_raw_next \in BOOLEAN
Chained == \A i \in DOMAIN tokens : tokens[i].to \in 1 .. pos /\ Follows(i)
Resumes == status = "lexing" => /\ Only({"blank"}, EndOf(Len(tokens)), pos)
                                /\ read_body_raw_next <=> LastType = "BODY_STMT"
\* Every token but a raw body and the last one took a character.
RawBodies == {i \in DOMAIN tokens : tokens[i].type = "BODY_RAW"}
Counted == Len(tokens) <= pos - 1 + Cardinality(RawBodies) + (IF status = "ended" THEN 1 ELSE 0)

Lexed == Placed /\ Kept /\ Chained /\ Resumes /\ Counted

Cuts == \A i \in DOMAIN tokens : \A t, a : t = tokens[i] /\ a = EndOf(i - 1) => Cut(t, a)

LEMMA ReadsStays ==
  ASSUME input' = input, outOfMemory => outOfMemory',
         NEW type \in TokenKinds, NEW a, NEW b, Reads(type, a, b)
  PROVE  Reads(type, a, b)'
<1>1. NUL' = NUL /\ \A p : At(p)' = At(p)
  BY DEF NUL, At
<1>2. \A set, c, d : Only(set, c, d)' <=> Only(set, c, d)
  BY <1>1 DEF Only
<1>3. Word(a, b)' = Word(a, b)
  BY DEF Word
<1>4. CASE type = "ERROR"
  <2>1. CASE outOfMemory
    BY <1>4, <2>1 DEF Reads
  <2>2. CASE ~outOfMemory
    BY <1>1, <1>2, <1>4, <2>2 DEF Reads
  <2> QED
    BY <2>1, <2>2
<1>5. CASE type # "ERROR"
  BY <1>1, <1>2, <1>3, <1>5 DEF Reads, TokenKinds
<1> QED
  BY <1>4, <1>5

LEMMA CutStays ==
  ASSUME input' = input, outOfMemory => outOfMemory', NEW t, NEW a, Cut(t, a)
  PROVE  Cut(t, a)'
<1>1. Reads(t.type, t.from, t.to)'
  BY ReadsStays DEF Cut
<1>2. Skipped(t.type, a, t.from)'
  BY DEF Cut, Skipped, Only, At, NUL
<1>3. LineAt(t.from, t.line)' /\ ColumnAt(t.from, t.column)'
  BY DEF Cut, LineAt, ColumnAt, Ends, At, NUL
<1> QED
  BY <1>1, <1>2, <1>3 DEF Cut

LEMMA EndsFinite ==
  ASSUME NEW p \in Nat
  PROVE  IsFiniteSet(Ends(p)) /\ Ends(p) \in SUBSET (1 .. p - 1) /\ Cardinality(Ends(p)) \in Nat
<1>1. IsFiniteSet(1 .. p - 1)
  BY FS_Interval
<1>2. Ends(p) \in SUBSET (1 .. p - 1)
  BY DEF Ends
<1> QED
  BY <1>1, <1>2, FS_Subset, FS_CardinalityType

\* Within a line the column counts places.
LEMMA SameLine ==
  ASSUME NEW p \in Nat \ {0}, NEW q \in Nat, p <= q, \A r \in p .. q - 1 : At(r) # "n",
         NEW l, NEW c, LineAt(p, l), ColumnAt(p, c)
  PROVE  LineAt(q, l) /\ ColumnAt(q, c + (q - p))
<1>1. Ends(q) = Ends(p)
  BY DEF Ends
<1>2. LineAt(q, l)
  BY <1>1 DEF LineAt
<1>3. (IF Ends(p) = {} THEN 0 ELSE Max(Ends(p))) \in Int
  <2>1. Ends(p) # {} => Max(Ends(p)) \in Ends(p)
    <3>1. p - 1 \in Nat /\ Ends(p) \in SUBSET (1 .. p - 1)
      BY EndsFinite
    <3> QED
      BY <3>1, MaxIsGreatest
  <2> QED
    BY <2>1, EndsFinite
<1> QED
  BY <1>1, <1>2, <1>3 DEF ColumnAt

\* The end of a line begins the next.
LEMMA NextLine ==
  ASSUME NEW p \in Nat \ {0}, At(p) = "n", NEW l, LineAt(p, l)
  PROVE  LineAt(p + 1, l + 1) /\ ColumnAt(p + 1, 1)
<1>1. Ends(p + 1) = Ends(p) \cup {p} /\ p \notin Ends(p)
  BY DEF Ends
<1>2. Cardinality(Ends(p + 1)) = Cardinality(Ends(p)) + 1
  BY <1>1, EndsFinite, FS_AddElement
<1>3. Max(Ends(p + 1)) = p
  <2>1. Ends(p + 1) \in SUBSET (1 .. p) /\ Ends(p + 1) # {}
    BY <1>1, EndsFinite
  <2>2. Max(Ends(p + 1)) \in 1 .. p /\ p <= Max(Ends(p + 1))
    BY <1>1, <2>1, MaxIsGreatest
  <2> QED
    BY <2>2
<1> QED
  BY <1>1, <1>2, <1>3, EndsFinite DEF LineAt, ColumnAt

LEMMA Appended ==
  ASSUME NEW s, IsSeq(s), NEW e
  PROVE  /\ IsSeq(Append(s, e)) /\ Len(s) \in Nat /\ DOMAIN s = 1 .. Len(s)
         /\ Len(Append(s, e)) = Len(s) + 1 /\ DOMAIN Append(s, e) = 1 .. Len(s) + 1
         /\ \A i \in 1 .. Len(s) : Append(s, e)[i] = s[i]
         /\ Append(s, e)[Len(s) + 1] = e
         /\ Append(s, e) # <<>>
<1>1. PICK S : s \in Seq(S)
  BY DEF IsSeq
<1>2. s \in Seq(S \cup {e})
  BY <1>1, SeqMonotonic
<1>3. Append(s, e) \in Seq(S \cup {e})
  BY <1>2
<1>4. IsSeq(Append(s, e))
  BY <1>3 DEF IsSeq
<1>5. Len(s) \in Nat /\ DOMAIN s = 1 .. Len(s)
  BY <1>1, LenProperties
<1>6. Len(Append(s, e)) = Len(s) + 1 /\ DOMAIN Append(s, e) = 1 .. Len(s) + 1
  BY <1>2, <1>3, <1>5
<1>7. (\A i \in 1 .. Len(s) : Append(s, e)[i] = s[i]) /\ Append(s, e)[Len(s) + 1] = e
  BY <1>2, <1>5
<1> QED
  BY <1>4, <1>5, <1>6, <1>7

\* A token that next_token may give, as the scan functions find it.
Scanned(type, from, to, next) ==
    /\ from \in pos .. NUL /\ to \in from .. NUL /\ next \in to .. NUL
    /\ Skipped(type, pos, from)
    /\ \A q \in pos .. from - 1 : At(q) # "n"
    /\ \/ At(from) = "n" /\ next = from + 1
       \/ \A q \in from .. next - 1 : At(q) # "n"
    /\ type \notin {"EOF", "ERROR"} => Only({"blank"}, to, next)
    /\ type \notin {"EOF", "ERROR", "BODY_RAW"} => from < next
    /\ IF read_body_raw_next THEN type \in {"BODY_RAW", "ERROR"} ELSE type # "BODY_RAW"

LEMMA AdvanceLine ==
  ASSUME Lexed, NEW type, NEW from, NEW to, NEW next, Scanned(type, from, to, next), AdvanceTo(next)
  PROVE  /\ LineAt(from, line) /\ ColumnAt(from, column + (from - pos))
         /\ LineAt(next, line') /\ ColumnAt(next, column')
<1>1. /\ pos \in Nat \ {0} /\ from \in Nat \ {0} /\ next \in Nat \ {0}
      /\ pos <= from /\ from <= next /\ LineAt(pos, line) /\ ColumnAt(pos, column)
  <2>1. NUL \in Nat /\ pos \in 1 .. NUL /\ LineAt(pos, line) /\ ColumnAt(pos, column)
    BY Places DEF Lexed, Placed, Kept, Chained, Resumes
  <2>2. from \in pos .. NUL /\ to \in from .. NUL /\ next \in to .. NUL
    BY DEF Scanned
  <2> QED
    BY <2>1, <2>2
<1>2. \A q \in pos .. from - 1 : At(q) # "n"
  BY DEF Scanned
<1>3. LineAt(from, line) /\ ColumnAt(from, column + (from - pos))
  BY <1>1, <1>2, SameLine
<1>4. CASE At(from) = "n" /\ next = from + 1
  <2>1. from \in pos .. next - 1
    BY <1>1, <1>4
  <2>2. line' = line + 1 /\ column' = 1
    BY <1>4, <2>1 DEF AdvanceTo
  <2> QED
    BY <1>1, <1>3, <1>4, <2>2, NextLine
<1>5. CASE \A q \in from .. next - 1 : At(q) # "n"
  <2>1. \A q \in pos .. next - 1 : At(q) # "n"
    <3> SUFFICES ASSUME NEW q \in pos .. next - 1 PROVE At(q) # "n"
      OBVIOUS
    <3>1. q \in pos .. from - 1 \/ q \in from .. next - 1
      BY <1>1
    <3> QED
      BY <1>2, <1>5, <3>1
  <2>2. line' = line /\ column' = column + (next - pos)
    BY <2>1 DEF AdvanceTo
  <2> QED
    BY <1>1, <1>3, <2>1, <2>2, SameLine
<1> QED
  BY <1>3, <1>4, <1>5 DEF Scanned

LEMMA SkippedFurther ==
  ASSUME NEW a \in Nat, NEW p \in Nat, a <= p, Only({"blank"}, a, p),
         NEW type, NEW q \in Nat, p <= q, Skipped(type, p, q)
  PROVE  Skipped(type, a, q)
<1>1. ASSUME NEW set, {"blank"} \subseteq set, NEW h \in Nat, Only(set, p, h) PROVE Only(set, a, h)
  <2> SUFFICES ASSUME NEW r \in a .. h - 1 PROVE At(r) \in set
    BY DEF Only
  <2>1. CASE r < p
    BY <1>1, <2>1 DEF Only
  <2>2. CASE p <= r
    BY <1>1, <2>2 DEF Only
  <2> QED
    BY <2>1, <2>2
<1>2. CASE Only({"blank", "r"}, p, q)
  BY <1>1, <1>2 DEF Skipped
<1>3. ASSUME type # "BODY_RAW", NEW h \in p .. q - 1, Only({"blank", "r"}, p, h), At(h) = "hash",
             Only(Chars \ {"n"}, h, q), At(q) \in {"n", "NUL"}
      PROVE  Skipped(type, a, q)
  <2>1. h \in a .. q - 1 /\ h \in Nat
    OBVIOUS
  <2>2. Only({"blank", "r"}, a, h)
    BY <1>1, <1>3, <2>1
  <2> QED
    BY <1>3, <2>1, <2>2 DEF Skipped
<1> QED
  BY <1>2, <1>3 DEF Skipped

LEMMA RawBodiesFinite ==
  ASSUME IsSeq(tokens)
  PROVE  /\ IsFiniteSet(RawBodies) /\ Cardinality(RawBodies) \in Nat
         /\ RawBodies \subseteq 1 .. Len(tokens) /\ Len(tokens) \in Nat
<1>1. Len(tokens) \in Nat /\ DOMAIN tokens = 1 .. Len(tokens)
  BY Appended
<1>2. RawBodies \subseteq 1 .. Len(tokens)
  BY <1>1 DEF RawBodies
<1>3. IsFiniteSet(1 .. Len(tokens))
  BY <1>1, FS_Interval
<1>4. IsFiniteSet(RawBodies)
  BY <1>2, <1>3, FS_Subset
<1> QED
  BY <1>1, <1>2, <1>4, FS_CardinalityType

\* What dsl_lexer_get_tokens does with a token.
LEMMA CollectLexed ==
  ASSUME Lexed, Cuts, NEW type \in TokenKinds, NEW from, NEW to, NEW next,
         Scanned(type, from, to, next), Collect(type, from, to, next),
         outOfMemory => outOfMemory', outOfMemory' \in BOOLEAN,
         Reads(type, from, to)',
         read_body_raw_next' = (type = "BODY_STMT")
  PROVE  Lexed' /\ Cuts'
<1> DEFINE e == [type |-> type, from |-> from, to |-> to,
                 line |-> line, column |-> column + (from - pos)]
<1>0. PICK n : n = Len(tokens)
  OBVIOUS
<1>1. /\ status = "lexing" /\ tokens' = Append(tokens, e) /\ input' = input /\ AdvanceTo(next)
      /\ status' = IF type \in {"EOF", "ERROR"} THEN "ended" ELSE "lexing"
      /\ capacity' = IF Full THEN capacity * 2 ELSE capacity
      /\ pos' = next
  BY DEF Collect, AdvanceTo
<1>2. e.type = type /\ e.from = from /\ e.to = to /\ e.line = line /\ e.column = column + (from - pos)
  OBVIOUS
<1> HIDE DEF e
<1>3. IsSeq(tokens)
  BY DEF Lexed, Placed, Kept, Chained, Resumes
<1>4. /\ IsSeq(tokens') /\ n \in Nat /\ DOMAIN tokens = 1 .. n
      /\ Len(tokens') = n + 1 /\ DOMAIN tokens' = 1 .. n + 1
      /\ \A i \in 1 .. n : tokens'[i] = tokens[i]
      /\ tokens'[n + 1] = e /\ tokens' # <<>>
  BY <1>0, <1>1, <1>3, Appended
<1>a. \A i \in 1 .. n : tokens[i].to \in 1 .. pos /\ Follows(i)
  BY <1>4, Zenon DEF Lexed, Placed, Kept, Chained, Resumes
<1>5. /\ NUL \in Nat /\ pos \in 1 .. NUL /\ NUL' = NUL
      /\ from \in pos .. NUL /\ to \in from .. NUL /\ next \in to .. NUL
  BY <1>1, Places DEF Lexed, Placed, Kept, Chained, Resumes, Scanned, NUL
<1>6. Input' /\ pos' \in 1 .. NUL'
  BY <1>1, <1>5 DEF Input, Lexed, Placed, Kept, Chained, Resumes
<1>7. LineAt(pos, line)' /\ ColumnAt(pos, column)'
  <2>1. LineAt(next, line') /\ ColumnAt(next, column')
    BY <1>1, AdvanceLine
  <2>2. Ends(pos)' = Ends(next)
    BY <1>1 DEF Ends, At, NUL
  <2> QED
    BY <1>1, <2>1, <2>2 DEF LineAt, ColumnAt
<1>8. capacity' \in Nat \ {0} /\ Len(tokens') <= capacity'
  BY <1>0, <1>1, <1>4 DEF Lexed, Placed, Kept, Chained, Resumes, Full
<1>9. status' \in {"lexing", "ended", "no array"} /\ read_body_raw_next' \in BOOLEAN
  BY <1>1
<1>10. \A i \in DOMAIN tokens' : tokens'[i].to \in 1 .. pos'
  <2>1. ASSUME NEW i \in 1 .. n PROVE tokens'[i].to \in 1 .. pos'
    <3>1. tokens[i].to \in 1 .. pos
      BY <1>4 DEF Lexed, Placed, Kept, Chained, Resumes
    <3> QED
      BY <1>1, <1>4, <1>5, <3>1
  <2>2. tokens'[n + 1].to \in 1 .. pos'
    BY <1>1, <1>2, <1>4, <1>5
  <2> QED
    BY <1>4, <2>1, <2>2
<1>11. \A i \in DOMAIN tokens' : Follows(i)'
  <2>1. n > 0 => tokens[n].type = LastType
    BY <1>0, <1>4 DEF LastType
  <2>2. read_body_raw_next <=> n > 0 /\ tokens[n].type = "BODY_STMT"
    <3>1. read_body_raw_next <=> LastType = "BODY_STMT"
      BY <1>1, Zenon DEF Lexed, Placed, Kept, Chained, Resumes
    <3>2. n > 0 <=> tokens # <<>>
      BY <1>0, <1>3, <1>4 DEF IsSeq
    <3> QED
      BY <1>0, <3>1, <3>2 DEF LastType
  <2>3. ASSUME NEW i \in 1 .. n PROVE Follows(i)'
    <3>1. Follows(i) /\ tokens'[i] = tokens[i] /\ (i > 1 => tokens'[i - 1] = tokens[i - 1])
      BY <1>4, <1>a, <2>3
    <3>2. tokens[i].type \notin {"EOF", "ERROR"}
      BY <1>1, <3>1 DEF Follows
    <3> QED
      BY <1>4, <3>1, <3>2 DEF Follows
  <2>4. Follows(n + 1)'
    <3>1. tokens'[n + 1].type = type /\ (n > 0 => tokens'[n] = tokens[n])
      BY <1>2, <1>4
    <3>2. type = "BODY_RAW" => n > 0 /\ tokens[n].type = "BODY_STMT"
      BY <2>2 DEF Scanned
    <3>3. n > 0 /\ tokens[n].type = "BODY_STMT" => type \in {"BODY_RAW", "ERROR"}
      BY <2>2 DEF Scanned
    <3>4. n + 1 > 1 <=> n > 0
      BY <1>4
    <3>5. n + 1 - 1 = n
      BY <1>4
    <3>6. type \in {"EOF", "ERROR"} <=> status' = "ended"
      BY <1>1
    <3>7. tokens'[n + 1 - 1] = tokens'[n]
      BY <3>5
    <3>8. n + 1 = Len(tokens')
      BY <1>4
    <3> QED
      BY <1>4, <3>1, <3>2, <3>3, <3>6 DEF Follows
  <2> QED
    <3> SUFFICES ASSUME NEW i \in 1 .. n + 1 PROVE Follows(i)'
      BY <1>4
    <3>1. i \in 1 .. n \/ i = n + 1
      BY <1>4
    <3> QED
      BY <2>3, <2>4, <3>1
<1>12. status' = "lexing" => /\ Only({"blank"}, EndOf(Len(tokens)), pos)'
                             /\ read_body_raw_next' <=> LastType' = "BODY_STMT"
  <2>1. LastType' = "BODY_STMT" <=> type = "BODY_STMT"
    BY <1>2, <1>4 DEF LastType
  <2>2. ASSUME status' = "lexing" PROVE Only({"blank"}, EndOf(Len(tokens)), pos)'
    <3>1. EndOf(Len(tokens))' = to
      BY <1>2, <1>4 DEF EndOf
    <3>2. Only({"blank"}, to, next)
      BY <1>1, <2>2 DEF Scanned
    <3> QED
      BY <1>1, <3>1, <3>2 DEF Only, At, NUL
  <2> QED
    BY <2>1, <2>2
<1>c. Counted'
  <2>1. /\ IsFiniteSet(RawBodies) /\ Cardinality(RawBodies) \in Nat /\ n + 1 \notin RawBodies
    BY <1>0, <1>3, <1>4, RawBodiesFinite
  <2>2. n <= pos - 1 + Cardinality(RawBodies)
    <3>1. n <= pos - 1 + Cardinality(RawBodies) + (IF status = "ended" THEN 1 ELSE 0)
      BY <1>0 DEF Lexed, Counted
    <3>2. status # "ended"
      BY <1>1
    <3> QED
      BY <1>5, <2>1, <3>1, <3>2
  <2>3. Len(tokens') = n + 1 /\ pos' = next /\ pos <= from /\ from <= next
        /\ pos \in Nat /\ from \in Nat /\ next \in Nat
    BY <1>1, <1>4, <1>5
  <2>4. CASE type = "BODY_RAW"
    <3>1. RawBodies' = RawBodies \cup {n + 1}
      BY <1>2, <1>4, <2>4 DEF RawBodies
    <3>2. Cardinality(RawBodies)' = Cardinality(RawBodies) + 1
      BY <2>1, <3>1, FS_AddElement
    <3>3. status' # "ended"
      BY <1>1, <2>4
    <3> QED
      BY <1>4, <2>1, <2>2, <2>3, <3>2, <3>3 DEF Counted
  <2>5. CASE type # "BODY_RAW"
    <3>1. RawBodies' = RawBodies
      BY <1>2, <1>4, <2>5 DEF RawBodies
    <3>2. CASE type \in {"EOF", "ERROR"}
      <4>1. status' = "ended"
        BY <1>1, <3>2
      <4> QED
        BY <1>4, <2>1, <2>2, <2>3, <3>1, <4>1 DEF Counted
    <3>3. CASE type \notin {"EOF", "ERROR"}
      <4>1. from < next /\ status' # "ended"
        BY <1>1, <2>5, <3>3 DEF Scanned
      <4> QED
        BY <1>4, <2>1, <2>2, <2>3, <3>1, <4>1 DEF Counted
    <3> QED
      BY <3>2, <3>3
  <2> QED
    BY <2>4, <2>5
<1>13. Lexed'
  <2>1. \A i \in DOMAIN tokens' : tokens'[i].to \in 1 .. pos' /\ Follows(i)'
    BY <1>10, <1>11, Zenon
  <2>2. IsSeq(tokens')
    BY <1>4
  <2>3. Placed'
    BY <1>6, <1>7, <2>2 DEF Placed
  <2>4. Kept'
    BY <1>8, <1>9, Zenon DEF Kept
  <2>5. Chained'
    BY <2>1, Zenon DEF Chained
  <2>6. Resumes'
    BY <1>12, Zenon DEF Resumes
  <2> QED
    BY <1>c, <2>3, <2>4, <2>5, <2>6 DEF Lexed
<1>14. Cuts'
  <2> SUFFICES ASSUME NEW i \in 1 .. n + 1, NEW t, NEW a, t = tokens'[i], a = EndOf(i - 1)'
               PROVE  Cut(t, a)'
    BY <1>4 DEF Cuts
  <2>1. EndOf(i - 1)' = EndOf(i - 1)
    BY <1>4 DEF EndOf
  <2>2. CASE i \in 1 .. n
    <3>1. t = tokens[i] /\ a = EndOf(i - 1)
      BY <1>4, <2>1, <2>2
    <3>2. Cut(t, a)
      BY <1>4, <2>2, <3>1 DEF Cuts
    <3> QED
      BY <1>1, <3>2, CutStays
  <2>3. CASE i = n + 1
    <3>1. t = e /\ a = EndOf(n)
      BY <1>4, <2>1, <2>3
    <3>2. Only({"blank"}, a, pos)
      BY <1>0, <1>1, <3>1 DEF Lexed, Placed, Kept, Chained, Resumes
    <3>3. a \in 1 .. pos
      BY <1>4, <1>5, <1>a, <3>1 DEF EndOf
    <3>4. Skipped(type, a, from)
      BY <1>5, <3>2, <3>3, SkippedFurther DEF Scanned
    <3>5. Skipped(type, a, from)'
      BY <1>1, <3>4 DEF Skipped, Only, At, NUL
    <3>6. LineAt(from, t.line) /\ ColumnAt(from, t.column)
      BY <1>1, <1>2, <3>1, AdvanceLine
    <3>7. LineAt(from, t.line)' /\ ColumnAt(from, t.column)'
      <4>1. Ends(from)' = Ends(from)
        BY <1>1 DEF Ends, At, NUL
      <4> QED
        BY <3>6, <4>1 DEF LineAt, ColumnAt
    <3>8. a <= from /\ from <= to
      BY <1>5, <3>3
    <3> QED
      BY <1>2, <3>1, <3>5, <3>7, <3>8 DEF Cut
  <2> QED
    BY <1>4, <2>2, <2>3
<1> QED
  BY <1>13, <1>14

LEMMA CopiedLexed ==
  ASSUME Lexed, Cuts, NEW type \in TokenKinds, type \notin {"EOF", "ERROR"},
         NEW from, NEW to, NEW next,
         Scanned(type, from, to, next), Copied(type, from, to, next), Reads(type, from, to)
  PROVE  Lexed' /\ Cuts'
<1>1. outOfMemory \in BOOLEAN
  BY DEF Lexed, Kept
<1>2. CASE /\ Collect(type, from, to, next)
           /\ read_body_raw_next' = ReadsRaw(type)
           /\ UNCHANGED outOfMemory
  <2>1. input' = input /\ (outOfMemory => outOfMemory') /\ outOfMemory' \in BOOLEAN
    BY <1>1, <1>2 DEF Collect
  <2>2. Reads(type, from, to)'
    BY <2>1, ReadsStays
  <2>3. read_body_raw_next' = (type = "BODY_STMT")
    BY <1>2 DEF ReadsRaw
  <2> QED
    BY <1>2, <2>1, <2>2, <2>3, CollectLexed
<1>3. CASE /\ Collect("ERROR", from, from, next)
           /\ read_body_raw_next' = FALSE
           /\ outOfMemory' = TRUE
  <2>1. Reads("ERROR", from, from)'
    BY <1>3 DEF Reads
  <2>2. /\ from \in pos .. NUL /\ from \in from .. NUL /\ next \in from .. NUL
    BY Places DEF Scanned, Lexed, Placed
  <2>3. Skipped("ERROR", pos, from)
    BY DEF Scanned, Skipped
  <2>4. IF read_body_raw_next THEN "ERROR" \in {"BODY_RAW", "ERROR"} ELSE "ERROR" # "BODY_RAW"
    OBVIOUS
  <2>5. /\ \A q \in pos .. from - 1 : At(q) # "n"
        /\ \/ At(from) = "n" /\ next = from + 1
           \/ \A q \in from .. next - 1 : At(q) # "n"
    BY DEF Scanned
  <2>6. Scanned("ERROR", from, from, next)
    BY <2>2, <2>3, <2>4, <2>5 DEF Scanned
  <2>7. "ERROR" \in TokenKinds /\ read_body_raw_next' = ("ERROR" = "BODY_STMT")
    BY <1>3 DEF TokenKinds
  <2> QED
    BY <1>3, <2>1, <2>6, <2>7, CollectLexed
<1> QED
  BY <1>2, <1>3 DEF Copied

LEMMA PlainLexed ==
  ASSUME Lexed, Cuts, ~read_body_raw_next, NEW type \in {"EOF", "NEWLINE", "ERROR"},
         NEW from, NEW to, NEW next,
         Scanned(type, from, to, next), Plain(type, from, to, next), Reads(type, from, to)
  PROVE  Lexed' /\ Cuts'
<1>1. outOfMemory \in BOOLEAN
  BY DEF Lexed, Kept
<1>2. Collect(type, from, to, next) /\ UNCHANGED read_body_raw_next /\ UNCHANGED outOfMemory
  BY DEF Plain
<1>3. type \in TokenKinds /\ input' = input
  BY <1>2 DEF TokenKinds, Collect
<1>4. (outOfMemory => outOfMemory') /\ outOfMemory' \in BOOLEAN
  BY <1>1, <1>2
<1>5. Reads(type, from, to)'
  BY <1>3, <1>4, ReadsStays
<1>6. read_body_raw_next' = (type = "BODY_STMT")
  BY <1>2, <1>1 DEF Lexed, Kept
<1> QED
  BY <1>2, <1>3, <1>4, <1>5, <1>6, CollectLexed

-----------------------------------------------------------------------------
(* The steps *)

\* The token starts at p: what all scan functions know.
LEMMA Started ==
  ASSUME Lexed, NEW p, p = TokenStart
  PROVE  /\ Input /\ NUL \in Nat /\ p \in pos .. NUL /\ p \in 1 .. NUL /\ p \in Nat /\ pos \in Nat
         /\ \A type : (type = "BODY_RAW" => read_body_raw_next) => Skipped(type, pos, p)
         /\ \A q \in pos .. p - 1 : At(q) # "n"
         /\ read_body_raw_next => At(p) \notin Blank
         /\ At(p) # "NUL" => p \in 1 .. Len(input) /\ p + 1 \in 1 .. NUL
<1>1. Input /\ pos \in 1 .. NUL
  BY DEF Lexed, Placed
<1>2. NUL \in Nat /\ Len(input) \in Nat /\ NUL = Len(input) + 1
  BY <1>1, Places DEF NUL
<1>3. p \in pos .. NUL /\ p \in 1 .. NUL /\ p \in Nat /\ pos \in Nat
  BY <1>1, <1>2, TokenStartIs
<1>4. At(p) # "NUL" => p \in 1 .. Len(input) /\ p + 1 \in 1 .. NUL
  BY <1>1, <1>2, <1>3, Places
<1> QED
  BY <1>1, <1>2, <1>3, <1>4, TokenStartIs

LEMMA EndOfFileLexed ==
  ASSUME Lexed, Cuts, EndOfFile
  PROVE  Lexed' /\ Cuts'
<1>0. PICK p : p = TokenStart
  OBVIOUS
<1>1. ~read_body_raw_next /\ At(p) = "NUL" /\ Plain("EOF", p, p, p)
  BY <1>0 DEF EndOfFile, Begins
<1>2. Scanned("EOF", p, p, p)
  BY <1>0, <1>1, Started DEF Scanned
<1>3. Reads("EOF", p, p)
  BY <1>0, <1>1, Started, Places DEF Reads
<1> QED
  BY <1>1, <1>2, <1>3, PlainLexed

LEMMA OneCharacter ==
  ASSUME Input, NEW p \in 1 .. Len(input)
  PROVE  Word(p, p + 1) = <<At(p)>>
<1>1. input \in Seq(Chars) /\ Len(input) \in Nat /\ p \in Nat /\ 1 <= p /\ p <= Len(input)
  BY Places DEF Input
<1>2. Word(p, p + 1) = SubSeq(input, p, p)
  BY <1>1 DEF Word
<1>3. SubSeq(input, p, p) = <<input[p]>>
  <2>1. PICK s : s = SubSeq(input, p, p)
    OBVIOUS
  <2>2. PICK t : t = <<input[p]>>
    OBVIOUS
  <2>3. s \in Seq(Chars) /\ Len(s) = 1 /\ s[1] = input[p]
    BY <1>1, <2>1, SubSeqProperties
  <2>4. t \in Seq(Chars) /\ Len(t) = 1 /\ t[1] = input[p]
    BY <1>1, <2>2
  <2>5. \A i \in 1 .. Len(s) : s[i] = t[i]
    BY <2>3, <2>4
  <2>6. s = t
    BY <2>3, <2>4, <2>5, SeqEqual
  <2> QED
    BY <2>1, <2>2, <2>6
<1> QED
  BY <1>2, <1>3, Places

LEMMA NewlineLexed ==
  ASSUME Lexed, Cuts, Newline
  PROVE  Lexed' /\ Cuts'
<1>0. PICK p : p = TokenStart
  OBVIOUS
<1>1. ~read_body_raw_next /\ At(p) = "n" /\ Plain("NEWLINE", p, p + 1, p + 1)
  BY <1>0 DEF Newline, Begins
<1>2. Scanned("NEWLINE", p, p + 1, p + 1)
  BY <1>0, <1>1, Started DEF Scanned, Only
<1>3. Reads("NEWLINE", p, p + 1)
  BY <1>0, <1>1, Started, OneCharacter DEF Reads
<1> QED
  BY <1>1, <1>2, <1>3, PlainLexed

LEMMA UnexpectedLexed ==
  ASSUME Lexed, Cuts, unexpected_character
  PROVE  Lexed' /\ Cuts'
<1>0. PICK p : p = TokenStart
  OBVIOUS
<1>1. ~read_body_raw_next /\ At(p) \in {"mark", "other"} /\ Plain("ERROR", p, p, p + 1)
  BY <1>0 DEF unexpected_character, Begins
<1>2. Scanned("ERROR", p, p, p + 1)
  BY <1>0, <1>1, Started DEF Scanned
<1>3. Reads("ERROR", p, p)
  BY <1>1 DEF Reads
<1> QED
  BY <1>1, <1>2, <1>3, PlainLexed

\* A run of characters of one set, up to the first other one.
LEMMA RunLexed ==
  ASSUME Lexed, Cuts, ~read_body_raw_next, NEW p, p = TokenStart,
         NEW set, "n" \notin set, set \subseteq Chars, At(p) \in set, NEW q, q = FirstOf(Chars \ set, p),
         NEW type \in {"INT", "BODY_STMT", "KEYWORD", "IDENT"},
         Only(set, p, q) /\ p < q /\ At(q) \notin set => Reads(type, p, q),
         Copied(type, p, q, q)
  PROVE  Lexed' /\ Cuts'
<1>1. /\ q \in p .. NUL /\ At(q) \in (Chars \ set) \cup {"NUL"}
      /\ \A r \in p .. q - 1 : At(r) \in Chars \ (Chars \ set)
  BY Started, FirstOfIsFirst
<1>2. "NUL" \notin Chars
  BY DEF Chars
<1>3. At(q) \notin set /\ Only(set, p, q) /\ p < q
  <2>1. At(q) \notin set
    BY <1>1, <1>2
  <2>2. Only(set, p, q)
    BY <1>1 DEF Only
  <2>3. q # p /\ p \in Nat /\ NUL \in Nat
    BY <2>1, Started
  <2> QED
    BY <1>1, <2>1, <2>2, <2>3
<1>4. Scanned(type, p, q, q)
  <2>1. \A r \in p .. q - 1 : At(r) # "n"
    BY <1>3 DEF Only
  <2>2. Only({"blank"}, q, q)
    BY <1>1, Started DEF Only
  <2>3. p \in pos .. NUL /\ q \in p .. NUL /\ q \in q .. NUL
    BY <1>1, Started
  <2>4. Skipped(type, pos, p) /\ \A r \in pos .. p - 1 : At(r) # "n"
    BY Started
  <2> QED
    BY <1>3, <2>1, <2>2, <2>3, <2>4 DEF Scanned
<1>5. type \in TokenKinds /\ type \notin {"EOF", "ERROR"}
  BY DEF TokenKinds
<1> QED
  BY <1>3, <1>4, <1>5, CopiedLexed

LEMMA NumberLexed ==
  ASSUME Lexed, Cuts, scan_number
  PROVE  Lexed' /\ Cuts'
<1>0. PICK p, q : p = TokenStart /\ q = FirstOf(Chars \ {"1"}, p)
  OBVIOUS
<1>1. ~read_body_raw_next /\ At(p) = "1" /\ Copied("INT", p, q, q)
  BY <1>0 DEF scan_number, Begins
<1>2. Only({"1"}, p, q) /\ p < q /\ At(q) \notin {"1"} => Reads("INT", p, q)
  BY DEF Reads
<1> QED
  BY <1>0, <1>1, <1>2, RunLexed DEF Chars

LEMMA IdentifierLexed ==
  ASSUME Lexed, Cuts, scan_identifier
  PROVE  Lexed' /\ Cuts'
<1>0. PICK p, q : p = TokenStart /\ q = FirstOf(Chars \ Name, p)
  OBVIOUS
<1>1. {c \in Chars : ~is_ident_char(c)} = Chars \ Name
  BY DEF is_ident_char, Name
<1>2. ~read_body_raw_next /\ At(p) \in {"B", "G", "a"}
  BY <1>0 DEF scan_identifier, Begins, is_ident_start
<1>3. PICK w : w = Word(p, q)
  OBVIOUS
<1>4. Copied(keyword_type(w), p, q, q)
  BY <1>0, <1>1, <1>3 DEF scan_identifier, Word
<1>5. Name \subseteq Chars /\ "n" \notin Name /\ At(p) \in Name
  BY <1>2 DEF Name, Chars
<1>6. ASSUME Only(Name, p, q) /\ p < q /\ At(q) \notin Name
      PROVE  Reads(keyword_type(w), p, q)
  <2>1. CASE w = <<"B">>
    BY <1>3, <1>6, <2>1 DEF Reads, keyword_type
  <2>2. CASE w = <<"G">>
    <3>1. <<"G">> # <<"B">>
      OBVIOUS
    <3> QED
      BY <1>3, <1>6, <2>2, <3>1 DEF Reads, keyword_type
  <2>3. CASE w # <<"B">> /\ w # <<"G">>
    BY <1>2, <1>3, <1>6, <2>3 DEF Reads, keyword_type
  <2> QED
    BY <2>1, <2>2, <2>3
<1>7. keyword_type(w) \in {"INT", "BODY_STMT", "KEYWORD", "IDENT"}
  BY DEF keyword_type
<1> QED
  BY <1>0, <1>2, <1>4, <1>5, <1>6, <1>7, RunLexed

LEMMA StringLexed ==
  ASSUME Lexed, Cuts, scan_string
  PROVE  Lexed' /\ Cuts'
<1>0. PICK p, q : p = TokenStart /\ q = ClosingQuote(p)
  OBVIOUS
<1>1. /\ ~read_body_raw_next /\ At(p) = "quote"
      /\ At(q) = "quote" => Copied("STRING", p, q + 1, q + 1)
      /\ At(q) # "quote" => Plain("ERROR", p, p, q)
  BY <1>0 DEF scan_string, Begins
<1>2. /\ p \in pos .. NUL /\ p + 1 \in 1 .. NUL /\ p \in Nat /\ pos \in Nat /\ NUL \in Nat
      /\ Skipped("STRING", pos, p) /\ Skipped("ERROR", pos, p)
      /\ \A r \in pos .. p - 1 : At(r) # "n"
  BY <1>0, <1>1, Started
<1>3. /\ q \in p + 1 .. NUL /\ At(q) \in {"quote", "n", "NUL"}
      /\ Only(Chars \ {"quote", "n"}, p + 1, q)
  <2>1. q = FirstOf({"quote", "n"}, p + 1)
    BY <1>0 DEF ClosingQuote
  <2>2. Input
    BY <1>0, Started
  <2> QED
    BY <1>2, <2>1, <2>2, FirstOfIsFirst DEF Only
<1>4. \A r \in p .. q - 1 : At(r) # "n"
  <2> SUFFICES ASSUME NEW r \in p .. q - 1 PROVE At(r) # "n"
    OBVIOUS
  <2>1. r = p \/ r \in p + 1 .. q - 1
    BY <1>2, <1>3
  <2> QED
    BY <1>1, <1>3, <2>1 DEF Only
<1>5. CASE At(q) = "quote"
  <2>1. q + 1 \in 1 .. NUL /\ q \in Nat
    <3>1. Input /\ q \in 1 .. NUL
      BY <1>0, <1>2, <1>3, Started
    <3>2. q # NUL
      BY <1>5, <3>1, Places
    <3> QED
      BY <1>2, <3>1, <3>2
  <2>2. \A r \in p .. (q + 1) - 1 : At(r) # "n"
    <3> SUFFICES ASSUME NEW r \in p .. (q + 1) - 1 PROVE At(r) # "n"
      OBVIOUS
    <3>1. r = q \/ r \in p .. q - 1
      BY <1>2, <2>1
    <3> QED
      BY <1>4, <1>5, <3>1
  <2>3. Only({"blank"}, q + 1, q + 1)
    BY <2>1 DEF Only
  <2>4. Scanned("STRING", p, q + 1, q + 1)
    BY <1>1, <1>2, <1>3, <2>1, <2>2, <2>3 DEF Scanned
  <2>5. Reads("STRING", p, q + 1)
    <3>1. p + 1 < q + 1 /\ (q + 1) - 1 = q
      BY <1>2, <1>3, <2>1
    <3> QED
      BY <1>1, <1>3, <1>5, <3>1 DEF Reads
  <2>6. "STRING" \in TokenKinds
    BY DEF TokenKinds
  <2> QED
    BY <1>1, <1>5, <2>4, <2>5, <2>6, CopiedLexed
<1>6. CASE At(q) # "quote"
  <2>1. Scanned("ERROR", p, p, q)
    BY <1>1, <1>2, <1>3, <1>4 DEF Scanned
  <2>2. Reads("ERROR", p, p)
    BY <1>1, <1>3, <1>6 DEF Reads
  <2> QED
    BY <1>1, <1>6, <2>1, <2>2, PlainLexed
<1> QED
  BY <1>5, <1>6

LEMMA BodyRawLexed ==
  ASSUME Lexed, Cuts, scan_body_raw
  PROVE  Lexed' /\ Cuts'
<1>0. PICK p, e : p = TokenStart /\ e = RawEnd(p)
  OBVIOUS
<1> DEFINE S == {q \in p .. e : q = p \/ At(q - 1) # "blank"}
<1>1. PICK to : to = Max(S)
  OBVIOUS
<1>2. read_body_raw_next /\ Copied("BODY_RAW", p, to, e)
  BY <1>0, <1>1 DEF scan_body_raw
<1>3. /\ Input /\ p \in pos .. NUL /\ p \in 1 .. NUL /\ p \in Nat /\ pos \in Nat /\ NUL \in Nat
      /\ Skipped("BODY_RAW", pos, p) /\ At(p) \notin Blank
      /\ \A r \in pos .. p - 1 : At(r) # "n"
  BY <1>0, <1>2, Started
<1>4. /\ e \in p .. NUL /\ At(e) \in {"n", "r", "NUL"}
      /\ \A r \in p .. e - 1 : At(r) \in Chars \ {"n", "r"}
  <2>1. e = FirstOf({"n", "r"}, p)
    BY <1>0 DEF RawEnd
  <2> QED
    BY <1>3, <2>1, FirstOfIsFirst
<1>5. to \in S /\ \A y \in S : y <= to
  <2>1. S \in SUBSET (1 .. NUL) /\ p \in S
    BY <1>3, <1>4
  <2> HIDE DEF S
  <2> QED
    BY <1>1, <1>3, <2>1, MaxIsGreatest
<1>6. to \in p .. e /\ to \in Nat /\ e \in Nat /\ (to = p \/ At(to - 1) # "blank")
  BY <1>3, <1>4, <1>5
<1>7. Only({"blank"}, to, e)
  <2> SUFFICES ASSUME NEW r \in to .. e - 1 PROVE At(r) = "blank"
    BY DEF Only
  <2>1. r + 1 \in p .. e /\ ~(r + 1 <= to) /\ r + 1 # p /\ (r + 1) - 1 = r
    BY <1>3, <1>4, <1>6
  <2>2. r + 1 \notin S
    BY <1>5, <2>1
  <2> QED
    BY <2>1, <2>2
<1> HIDE DEF S
<1>8. Scanned("BODY_RAW", p, to, e)
  <2>1. \A r \in p .. e - 1 : At(r) # "n"
    BY <1>4
  <2>2. to \in p .. NUL /\ e \in to .. NUL
    BY <1>3, <1>4, <1>6
  <2> QED
    BY <1>2, <1>3, <1>7, <2>1, <2>2 DEF Scanned
<1>9. Reads("BODY_RAW", p, to)
  <2>1. Only(Chars \ {"n", "r"}, p, to)
    BY <1>3, <1>4, <1>6 DEF Only
  <2>2. p < to => At(p) # "blank" /\ At(to - 1) # "blank"
    BY <1>3, <1>6 DEF Blank
  <2>3. e \in to .. NUL
    BY <1>3, <1>4, <1>6
  <2> QED
    BY <1>4, <1>7, <2>1, <2>2, <2>3 DEF Reads
<1>10. "BODY_RAW" \in TokenKinds
  BY DEF TokenKinds
<1> QED
  BY <1>2, <1>8, <1>9, <1>10, CopiedLexed

LEMMA NoTokens == IsSeq(<<>>) /\ DOMAIN <<>> = {} /\ Len(<<>>) = 0
<1>1. <<>> \in Seq({})
  OBVIOUS
<1>2. IsSeq(<<>>)
  BY <1>1 DEF IsSeq
<1>3. DOMAIN <<>> = {} /\ Len(<<>>) = 0
  OBVIOUS
<1> QED
  BY <1>2, <1>3

LEMMA InitLexed ==
  ASSUME Init
  PROVE  Lexed /\ Cuts
<1>1. PICK n \in 0 .. MaxLength : input \in [1 .. n -> Chars]
  BY DEF Init
<1>2. Input
  BY <1>1 DEF Input
<1>3. pos = 1 /\ line = 1 /\ column = 1 /\ tokens = <<>> /\ status = "lexing"
      /\ capacity = InitialCapacity /\ outOfMemory = FALSE /\ read_body_raw_next = FALSE
  BY DEF Init
<1>4. Ends(1) = {}
  BY DEF Ends
<1>5. LineAt(pos, line) /\ ColumnAt(pos, column)
  BY <1>3, <1>4, FS_EmptySet DEF LineAt, ColumnAt
<1>6. IsSeq(tokens) /\ DOMAIN tokens = {} /\ Len(tokens) = 0
  BY <1>3, NoTokens
<1>7. Placed
  BY <1>2, <1>3, <1>5, <1>6, Places DEF Placed
<1>8. Kept
  <2>1. capacity \in Nat \ {0} /\ Len(tokens) <= capacity
    BY <1>3, <1>6, LexerAssumption
  <2>2. status \in {"lexing", "ended", "no array"}
    BY <1>3
  <2> QED
    BY <1>3, <2>1, <2>2, Zenon DEF Kept
<1>9. Chained /\ Cuts
  BY <1>6 DEF Chained, Cuts
<1>10. Resumes
  BY <1>3, <1>6 DEF Resumes, Only, EndOf, LastType
<1>11. Counted
  <2>1. RawBodies = {}
    BY <1>6 DEF RawBodies
  <2> QED
    BY <1>3, <1>6, <2>1, FS_EmptySet DEF Counted
<1> QED
  BY <1>7, <1>8, <1>9, <1>10, <1>11 DEF Lexed

LEMMA GrowFailsLexed ==
  ASSUME Lexed, GrowFails
  PROVE  Lexed' /\ Cuts'
<1>1. /\ tokens' = <<>> /\ status' = "no array" /\ input' = input /\ capacity' = capacity
      /\ pos' = pos /\ line' = line /\ column' = column
      /\ read_body_raw_next' = read_body_raw_next /\ outOfMemory' = outOfMemory
  BY DEF GrowFails, lexer
<1>2. IsSeq(tokens') /\ DOMAIN tokens' = {} /\ Len(tokens') = 0
  BY <1>1, NoTokens
<1>3. Placed'
  <2>1. Input /\ pos \in 1 .. NUL /\ LineAt(pos, line) /\ ColumnAt(pos, column)
    BY DEF Lexed, Placed
  <2>2. Input' /\ NUL' = NUL /\ Ends(pos)' = Ends(pos)
    BY <1>1, <2>1 DEF Input, NUL, Ends, At
  <2>3. LineAt(pos, line)' /\ ColumnAt(pos, column)'
    BY <1>1, <2>1, <2>2 DEF LineAt, ColumnAt
  <2>4. pos' \in 1 .. NUL'
    BY <1>1, <2>1, <2>2
  <2> QED
    BY <1>2, <2>2, <2>3, <2>4 DEF Placed
<1>4. Kept'
  <2>1. capacity \in Nat \ {0} /\ outOfMemory \in BOOLEAN /\ read_body_raw_next \in BOOLEAN
    BY Zenon DEF Lexed, Kept
  <2>a. capacity \in Nat \ {0}
    BY <2>1, Zenon
  <2>b. capacity' = capacity
    BY <1>1, Zenon
  <2>2. Len(tokens') <= capacity' /\ capacity' \in Nat \ {0}
    BY <1>2, <2>a, <2>b
  <2> QED
    BY <1>1, <2>1, <2>2, Zenon DEF Kept
<1>5. Chained' /\ Cuts'
  BY <1>2 DEF Chained, Cuts
<1>6. Resumes'
  BY <1>1 DEF Resumes
<1>7. Counted'
  <2>1. RawBodies' = {}
    BY <1>2 DEF RawBodies
  <2>2. Len(tokens') = 0 /\ pos' = pos /\ pos \in Nat \ {0} /\ status' # "ended"
    <3>1. NUL \in Nat /\ pos \in 1 .. NUL
      BY Places DEF Lexed, Placed
    <3>2. pos' = pos
      BY <1>1, Zenon
    <3>3. status' # "ended"
      BY <1>1
    <3> QED
      BY <1>2, <3>1, <3>2, <3>3
  <2>3. Cardinality(RawBodies)' = 0
    BY <2>1, FS_EmptySet
  <2> QED
    BY <2>2, <2>3 DEF Counted
<1> QED
  BY <1>3, <1>4, <1>5, <1>6, <1>7 DEF Lexed

LEMMA NextLexed ==
  ASSUME Lexed, Cuts, [Next]_vars
  PROVE  Lexed' /\ Cuts'
<1>1. CASE dsl_lexer_next_token
  BY <1>1, EndOfFileLexed, NewlineLexed, StringLexed, NumberLexed, IdentifierLexed,
     UnexpectedLexed, BodyRawLexed DEF dsl_lexer_next_token
<1>2. CASE GrowFails
  BY <1>2, GrowFailsLexed
<1>3. CASE UNCHANGED vars
  <2>1. /\ input' = input /\ pos' = pos /\ line' = line /\ column' = column
        /\ read_body_raw_next' = read_body_raw_next /\ tokens' = tokens
        /\ capacity' = capacity /\ status' = status /\ outOfMemory' = outOfMemory
    BY <1>3 DEF vars, lexer
  <2>2. Placed'
    BY <2>1 DEF Lexed, Placed, Input, LineAt, ColumnAt, Ends, At, NUL
  <2>3. Kept' /\ Chained' /\ Resumes' /\ Counted'
    BY <2>1, Zenon DEF Lexed, Kept, Chained, Resumes, Counted, RawBodies, Follows, Only, EndOf, LastType, At, NUL
  <2>4. Cuts'
    <3> SUFFICES ASSUME NEW i \in DOMAIN tokens, NEW t, NEW a, t = tokens[i], a = EndOf(i - 1)
                 PROVE  Cut(t, a)'
      BY <2>1 DEF Cuts, EndOf
    <3>1. Cut(t, a)
      BY DEF Cuts
    <3> QED
      BY <2>1, <3>1, CutStays
  <2> QED
    BY <2>2, <2>3, <2>4 DEF Lexed
<1> QED
  BY <1>1, <1>2, <1>3 DEF Next

\* The parser is given no other sequence of tokens than the ones it takes for
\* granted, whatever the text (NextKinds of DslParser).
THEOREM ParserCanRely == Spec => []FitsParser
<1>1. Lexed => FitsParser
  BY Zenon DEF Lexed, Chained, Follows, FitsParser
<1> QED
  BY <1>1, InitLexed, NextLexed, PTL DEF Spec

\* Whatever the text, its tokens are the text: none is cut short, misread or
\* misplaced, and what no token holds is blank or comment.
THEOREM TokensAreTheText == Spec => []CutsText
<1>1. Cuts => CutsText
  BY DEF Cuts, Cut, CutsText, LineAt, ColumnAt, Ends
<1> QED
  BY <1>1, InitLexed, NextLexed, PTL DEF Spec

\* The lexer always gets on: it gives no more tokens than the text has
\* characters, raw bodies and the last token aside, and the array has room.
THEOREM LexerGetsOn == Spec => []Bounded
<1>1. Lexed => Bounded
  <2> SUFFICES ASSUME Lexed PROVE Bounded
    OBVIOUS
  <2>1. PICK c : c = Cardinality({i \in DOMAIN tokens : tokens[i].type = "BODY_RAW"})
    OBVIOUS
  <2>2. Len(tokens) <= pos - 1 + c + (IF status = "ended" THEN 1 ELSE 0)
    BY <2>1 DEF Lexed, Counted, RawBodies
  <2>3. pos \in 1 .. Len(input) + 1 /\ Len(input) \in Nat
    BY Places DEF Lexed, Placed, NUL
  <2>4. Len(tokens) \in Nat /\ DOMAIN tokens = 1 .. Len(tokens)
    BY Appended DEF Lexed, Placed
  <2>5. c \in Nat
    BY <2>1, RawBodiesFinite DEF Lexed, Placed, RawBodies
  <2>6. Len(tokens) <= Len(input) + 1 + c
    BY <2>2, <2>3, <2>4, <2>5
  <2>7. Len(tokens) <= capacity
    BY DEF Lexed, Kept
  <2> QED
    BY <2>1, <2>6, <2>7 DEF Bounded
<1> QED
  BY <1>1, InitLexed, NextLexed, PTL DEF Spec
=============================================================================
