-------------------------------- MODULE MCGet --------------------------------
(* Values for the constants of GetCommand that a cfg cannot write down.  The *)
(* texts are ASCII: x 120, y 121, a 97, A 65, digits from 48.                *)
EXTENDS GetCommand

Status == <<1>>
Body   == <<2>>
Header == <<3>>
HexWord == <<104, 58>>   \* "h:" for "hex:"

\* Words of one, two and no letters; 78, 7A, 7, 7g in hex, and no digits.
BodyWords == {<<120>>, <<121, 120>>, <<120, 120>>, <<>>}
             \cup {HexWord \o d : d \in {<<55, 56>>, <<55, 57, 55, 56>>, <<55, 65>>, <<55>>, <<55, 103>>, <<>>}}

\* "2", "02", " -2", no number, "0", and "9", which is no int here.
StatusWords == {<<50>>, <<48, 50>>, <<32, 45, 50>>, <<120>>, <<48>>, <<57>>}

Options == {<<Status, w>> : w \in StatusWords}
          \cup {<<Body, w>> : w \in BodyWords}
          \cup {<<Header, <<97>>, v>> : v \in {<<120>>, <<>>, <<120, 32>>, <<120, 58, 120>>}}
          \cup {<<Header, <<32>>, <<120>>>>, <<Header, Status, <<120>>>>}

\* No value, one value of two, no option at all.
Malformed == {<<Status>>, <<Body>>, <<Header, <<97>>>>, <<<<120>>>>}

\* None, one, two or three options; the last may be malformed.
NoneOrOne == {<<>>} \cup Options \cup Malformed
Firsts    == {<<Status, <<50>>>>, <<Body, <<120, 120>>>>, <<Body, HexWord \o <<55, 56>>>>,
              <<Header, <<97>>, <<>>>>, <<Header, <<97>>, <<120, 58, 120>>>>}
Two       == {o \o p : o \in Firsts,
                       p \in Malformed \cup {<<Status, <<50>>>>, <<Body, <<120>>>>}}
Three     == {<<Status, <<50>>, Body, <<120>>, Header, <<97>>, <<120>>>>}
\* Words that are flags, and stand where a value is due.
Swallowed == {<<Status, Body, <<120>>>>, <<Body, Status, Status, <<50>>>>, <<Header, Body, Body, <<120>>>>}
Lines     == NoneOrOne \cup Two \cup Three \cup Swallowed

Get == {[command |-> "get", url |-> "u"], [command |-> "get", url |-> ""],
        [command |-> "post", url |-> "u"], [command |-> "put", url |-> "u"]}

\* "x" (a status line), "a: x", "A :x" without CR, "a:<tab>x<space>",
\* "a:x:x", "a: " and the empty line.
ServerLines == {<<120, 13, 10>>, <<97, 58, 32, 120, 13, 10>>, <<65, 32, 58, 120, 10>>,
                <<97, 58, 9, 120, 32, 13, 10>>, <<97, 58, 120, 58, 120, 13, 10>>,
                <<97, 58, 32, 13, 10>>, <<13, 10>>}

Pieces == {<<120>>, <<121, 120>>}

\* Answers of earlier runs: complete, and one whose connection broke behind its
\* headers and a first piece of the body.
Complete(code, lines, text) ==
    [result |-> "ok", status_code |-> code, sentStatus |-> code,
     headers |-> FlattenSeq(lines), sentLines |-> lines, body |-> text, sentBody |-> text]
CutShort(code, lines, text, rest) ==
    [Complete(code, lines, text) EXCEPT !.result = "curl_error", !.status_code = 0,
                                        !.sentBody = text \o rest]
Earlier == {Complete(2, <<<<97, 58, 120, 13, 10>>, <<13, 10>>>>, <<120>>),
            Complete(4, <<<<13, 10>>>>, <<>>),
            CutShort(2, <<<<97, 58, 120, 10>>>>, <<121>>, <<120>>)}
=============================================================================
