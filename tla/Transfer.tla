------------------------------- MODULE Transfer -------------------------------
(***************************************************************************)
(* src/core/worker.c: the callbacks with which libcurl fills a Response,   *)
(* and what a Response keeps in the database (src/core/db_manager.c).      *)
(*                                                                         *)
(* libcurl and the server are external: libcurl calls header_callback once *)
(* for each line of each answer, those of redirects and interim answers    *)
(* included, and write_callback for pieces of the body of the last one.  A *)
(* callback that does not return the size it was given ends the transfer,  *)
(* and so may the network or a timeout, at any moment.                     *)
(***************************************************************************)
EXTENDS Assertions, SequencesExt

CONSTANTS INITIAL_CAPACITY,
          HeaderLines,   \* the lines a server may send
          Chunks,        \* the pieces of a body libcurl may pass on
          StatusCodes,   \* of a complete answer; 0 is that of a file: URL, which has none
          MaxLines,      \* bounds on the lines and pieces of a transfer
          MaxChunks

ASSUME CapacityAssumption == INITIAL_CAPACITY \in Nat
\* libcurl passes on complete lines only.
IsLine(l) == l \in Text /\ l # <<>> /\ \A i \in DOMAIN l : l[i] = LF <=> i = Len(l)

ASSUME ServerAssumption   == /\ \A l \in HeaderLines : IsLine(l)
                             /\ Chunks \subseteq Text
                             /\ StatusCodes \subseteq Nat
ASSUME LimitAssumption    == MaxLines \in Nat /\ MaxChunks \in Nat

VARIABLES
    phase,             \* of the transfer: "headers", "body", "ended"
    body, body_capacity, headers, headers_capacity,   \* of the Response
    status_code, result,
    sentHeaders,       \* what the server has sent (history)
    sentBody,
    sentStatus,        \* the code of its last answer, 0 before its headers are complete
    sentLines, sentChunks

bodyVars   == <<body, body_capacity>>
headerVars == <<headers, headers_capacity>>
endVars    == <<status_code, result>>
sent       == <<sentHeaders, sentBody, sentStatus, sentLines, sentChunks>>
transferVars == <<phase, bodyVars, headerVars, endVars, sent>>

\* A Response of calloc; the curl_easy_perform of the worker begins.
TransferInit == /\ phase = "headers"
                /\ body = <<>> /\ body_capacity = 0
                /\ headers = <<>> /\ headers_capacity = 0
                /\ status_code = 0 /\ result = "none"
                /\ sentHeaders = <<>> /\ sentBody = <<>> /\ sentStatus = 0
                /\ sentLines = <<>> /\ sentChunks = 0

max_size(a, b, c) == IF a > b THEN IF a > c THEN a ELSE c
                              ELSE IF b > c THEN b ELSE c

\* The capacity after a callback that needs so many bytes.
Grown(capacity, required) ==
    IF required > capacity THEN max_size(INITIAL_CAPACITY, capacity * 2, required)
                           ELSE capacity

BodyRequired(c)    == Len(body) + Len(c)
WithoutNul(l)      == Len(headers) + Len(l)
HeadersRequired(l) == Len(headers) + Len(l) + 1

Overwritten(t, l) == l
Appended(t, l)    == t \o l

SendLine(l) == /\ phase = "headers" /\ Len(sentLines) < MaxLines
               /\ sentHeaders' = sentHeaders \o l
               /\ sentLines' = Append(sentLines, l)
               /\ UNCHANGED <<sentBody, sentStatus, sentChunks>>

SendChunk(c) == /\ phase = "body" /\ sentChunks < MaxChunks
                /\ sentBody' = sentBody \o c
                /\ sentChunks' = sentChunks + 1
                /\ UNCHANGED <<sentHeaders, sentStatus, sentLines>>

header_callback(l) ==
    /\ SendLine(l)
    /\ headers_capacity' = Grown(headers_capacity, HeadersRequired(l))
    /\ headers' = Appended(headers, l)
    /\ UNCHANGED <<phase, bodyVars, endVars>>

write_callback(c) ==
    /\ SendChunk(c)
    /\ body_capacity' = Grown(body_capacity, BodyRequired(c))
    /\ body' = Appended(body, c)
    /\ UNCHANGED <<phase, headerVars, endVars>>

\* res # CURLE_OK: the status code stays 0, and what was received stays.
Broken == phase' = "ended" /\ result' = "curl_error" /\ UNCHANGED status_code

\* realloc fails, the callback returns 0.
header_callback_fails(l) == /\ SendLine(l)
                            /\ HeadersRequired(l) > headers_capacity
                            /\ Broken
                            /\ UNCHANGED <<bodyVars, headerVars>>

write_callback_fails(c) == /\ SendChunk(c)
                           /\ BodyRequired(c) > body_capacity
                           /\ Broken
                           /\ UNCHANGED <<bodyVars, headerVars>>

HeadersEnd(code) == /\ phase = "headers"
                    /\ phase' = "body"
                    /\ sentStatus' = code
                    /\ UNCHANGED <<bodyVars, headerVars, endVars>>
                    /\ UNCHANGED <<sentHeaders, sentBody, sentLines, sentChunks>>

TransferBreaks == /\ phase \in {"headers", "body"}
                  /\ Broken
                  /\ UNCHANGED <<bodyVars, headerVars, sent>>

TransferEnds == /\ phase = "body"
                /\ phase' = "ended"
                /\ result' = "ok" /\ status_code' = sentStatus
                /\ UNCHANGED <<bodyVars, headerVars, sent>>

OutOfMemory == \/ \E l \in HeaderLines : header_callback_fails(l)
               \/ \E c \in Chunks : write_callback_fails(c)

TransferStep == \/ \E l \in HeaderLines : header_callback(l)
                \/ \E c \in Chunks : write_callback(c)
                \/ \E code \in StatusCodes : HeadersEnd(code)
                \/ TransferBreaks \/ TransferEnds

TransferNext == TransferStep \/ OutOfMemory

TransferSpec == TransferInit /\ [][TransferNext]_transferVars

\* db_save_response and map_row_to_response: a text of length 0 becomes NULL,
\* any other comes back as it was.
ThroughDatabase(text) == IF text = <<>> THEN NoText ELSE text

-----------------------------------------------------------------------------
(* Properties *)

\* The copies of the callbacks, and the NUL behind the headers, stay within
\* what was allocated, which is never more than twice what was needed.
BuffersFit ==
    /\ Len(body) <= body_capacity
    /\ headers # <<>> => Len(headers) + 1 <= headers_capacity
    /\ body_capacity <= max_size(INITIAL_CAPACITY, 2 * Len(body), 0)
    /\ headers_capacity <= max_size(INITIAL_CAPACITY, 2 * (Len(headers) + 1), 0)

\* The response has what the server sent, in order and without gaps: all of
\* it unless the transfer broke, and then a prefix of it.
Received ==
    /\ IsPrefix(headers, sentHeaders)
    /\ IsPrefix(body, sentBody)
    /\ result # "curl_error" => headers = sentHeaders /\ body = sentBody
=============================================================================
