------------------------------ MODULE Assertions ------------------------------
(***************************************************************************)
(* src/core/assertion.c: what an assertion says of a response.  A text is  *)
(* a sequence of bytes; the NUL at the end of a C string is the place      *)
(* behind the sequence.  A loop that looks for a place in a text and       *)
(* changes nothing is a quantifier or a minimum over the places.           *)
(***************************************************************************)
EXTENDS Naturals, Sequences, FiniteSetsExt

CONSTANT NoText   \* a NULL pointer

Byte  == 0 .. 255
Text  == Seq(Byte)

ASSUME NullAssumption == NoText \notin Text

Tab   == 9
LF    == 10
CR    == 13
Space == 32
Colon == 58

IsPlace(h, i) == i \in 1 .. Len(h)

\* memcmp of n with the bytes of h behind the first i
ComparesEqual(h, i, n) == SubSeq(h, i + 1, i + Len(n)) = n

BeforeLast(h, n) == {i \in 0 .. Len(h) - Len(n) : i < Len(h) - Len(n)}
Offsets(h, n)    == 0 .. Len(h) - Len(n)

bytes_contains(h, n) ==
    \/ n = <<>>
    \/ Len(h) >= Len(n) /\ \E i \in Offsets(h, n) : ComparesEqual(h, i, n)

tolower(c) == IF c \in 65 .. 90 THEN c + 32 ELSE c

strncasecmp_equal(a, b) == Len(a) = Len(b) /\ \A i \in DOMAIN a : tolower(a[i]) = tolower(b[i])

\* The first place from p on that is no blank; it may be that of the NUL.
skip_spaces(h, p) ==
    Min({q \in p .. Len(h) + 1 : IsPlace(h, q) => h[q] \notin {Space, Tab}})

\* The end of the text from s to before e without the blanks at its end.
NoCR(h, s, e)      == Max({q \in s .. e : q = s \/ h[q - 1] \notin {Space, Tab}})
rtrim_end(h, s, e) == Max({q \in s .. e : q = s \/ h[q - 1] \notin {Space, Tab, CR}})

\* Where the loop of header_contains stands: at the start, then behind each LF
\* as long as the NUL is not there.
LineStarts(h) == {s \in DOMAIN h : s = 1 \/ h[s - 1] = LF}
LineEnd(h, s) == Min({q \in s .. Len(h) + 1 : IsPlace(h, q) => h[q] = LF})
Colons(h, s)  == {q \in s .. LineEnd(h, s) - 1 : h[q] = Colon}

LineMatches(h, s, name, value) ==
    LET e == LineEnd(h, s)
        c == Min(Colons(h, s))
        v == skip_spaces(h, c + 1)
    IN  /\ Colons(h, s) # {}
        /\ strncasecmp_equal(SubSeq(h, s, rtrim_end(h, s, c) - 1), name)
        /\ SubSeq(h, v, rtrim_end(h, v, e) - 1) = value

header_contains(h, name, value) ==
    /\ NoText \notin {name, value}
    /\ \E s \in LineStarts(h) : LineMatches(h, s, name, value)

\* The Boolean of eval_assertion.  expected is a number, a text, or a pair of
\* texts; one that could not be copied is NoText.
eval_assertion(status, headers, body, assertion) ==
    CASE assertion.type = "status" -> status = assertion.expected
      [] assertion.type = "body"   -> /\ body \notin {NoText, <<>>}
                                      /\ assertion.expected # NoText
                                      /\ bytes_contains(body, assertion.expected)
      [] assertion.type = "header" -> /\ headers \notin {NoText, <<>>}
                                      /\ header_contains(headers, assertion.expected[1],
                                                         assertion.expected[2])

-----------------------------------------------------------------------------
(* What the assertions mean *)

\* The needle is somewhere in the text.
IsInfix(n, h) == \E i, j \in 0 .. Len(h) : i <= j /\ SubSeq(h, i + 1, j) = n

AllIn(w, set)   == \A i \in DOMAIN w : w[i] \in set
EndsIn(t, set)   == t # <<>> /\ t[Len(t)] \in set
StartsIn(t, set) == t # <<>> /\ t[1] \in set
SameName(a, b)   == Len(a) = Len(b) /\ \A i \in DOMAIN a : tolower(a[i]) = tolower(b[i])

\* A line that says so, cut into name, blanks, the first colon, blanks, value,
\* blanks with the end of the line.  No line has a value with blanks around it.
SaysHeader(l, name, value) ==
    \E i, j, k, m \in 0 .. Len(l) :
       LET Part(a, b) == SubSeq(l, a + 1, b)
       IN  /\ i <= j /\ j < k /\ k <= m
           /\ SameName(Part(0, i), name) /\ ~EndsIn(name, {Space, Tab, CR})
           /\ AllIn(Part(i, j), {Space, Tab, CR})
           /\ l[j + 1] = Colon /\ \A q \in 1 .. j : l[q] # Colon
           /\ AllIn(Part(j + 1, k), {Space, Tab})
           /\ Part(k, m) = value
           /\ ~StartsIn(value, {Space, Tab}) /\ ~EndsIn(value, {Space, Tab, CR, LF})
           /\ AllIn(Part(m, Len(l)), {Space, Tab, CR, LF})
=============================================================================
