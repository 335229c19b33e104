------------------------------ MODULE MCEngine ------------------------------
(* Values for the constants of Engine that a cfg cannot write down. *)
EXTENDS Engine

\* Every case asks something else; all ask the same; the third repeats the first.
Distinct       == [i \in Cases |-> i]
Repeated       == [i \in Cases |-> 1]
FirstRepeated == [i \in Cases |-> IF i = 3 THEN 1 ELSE i]

\* Every case has time for one poll.
OnePoll == [i \in Cases |-> 100]
\* A case of its own timeout, the others wait for DefaultTimeout.
Mixed   == [i \in Cases |-> IF i = 1 THEN 150 ELSE 0]

NoHistory == <<>>
OneOld    == <<1>>
=============================================================================
