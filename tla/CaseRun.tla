------------------------------ MODULE CaseRun ------------------------------
(***************************************************************************)
(* What a test run promises to whoever reads its exit code: every case is  *)
(* submitted at most once and its answer recorded at most once; a case is  *)
(* reported answered only when its own answer of this run is recorded; the *)
(* run ends when nothing it started is still under way; and it ends with   *)
(* exit code 0 only if all its cases were answered as asserted.  The       *)
(* module Engine implements this.                                          *)
(***************************************************************************)
EXTENDS Naturals

CONSTANTS MaxCases,   \* a plan has at most this many cases
          Lossy       \* an answer may get lost on the way

Cases == 1 .. MaxCases

VARIABLES size,      \* the number of cases in the plan
          phase,     \* how far each case has come
          verdict,   \* what the run says of each case
          ended, exit

vars == <<size, phase, verdict, ended, exit>>

Phases   == {"planned", "submitted", "met", "unmet", "lost"}
Recorded == {"met", "unmet"}

TypeOK == /\ size \in 0 .. MaxCases + 1
          /\ phase \in [Cases -> Phases]
          /\ verdict \in [Cases -> {"none", "answered", "missing"}]
          /\ ended \in BOOLEAN
          /\ exit \in {0, 1}

Init == /\ size \in 0 .. MaxCases + 1
        /\ phase = [i \in Cases |-> "planned"]
        /\ verdict = [i \in Cases |-> "none"]
        /\ ended = FALSE
        /\ exit = 1

\* Cases are submitted in the order of the plan, each once.
Submit(i) == /\ ~ended
             /\ i <= size /\ size <= MaxCases
             /\ phase[i] = "planned"
             /\ \A j \in 1 .. i - 1 : phase[j] # "planned"
             /\ phase' = [phase EXCEPT ![i] = "submitted"]
             /\ UNCHANGED <<size, verdict, ended, exit>>

Record(i) == /\ ~ended
             /\ phase[i] = "submitted"
             /\ \E p \in Recorded : phase' = [phase EXCEPT ![i] = p]
             /\ UNCHANGED <<size, verdict, ended, exit>>

Lose(i) == /\ Lossy
           /\ ~ended
           /\ phase[i] = "submitted"
           /\ phase' = [phase EXCEPT ![i] = "lost"]
           /\ UNCHANGED <<size, verdict, ended, exit>>

\* The verdicts are given in order and only once every case is submitted.
Judge(i) == /\ ~ended
            /\ i <= size
            /\ verdict[i] = "none"
            /\ \A j \in 1 .. size : phase[j] # "planned" /\ (j < i => verdict[j] # "none")
            /\ \/ /\ phase[i] \in Recorded
                  /\ verdict' = [verdict EXCEPT ![i] = "answered"]
               \/ verdict' = [verdict EXCEPT ![i] = "missing"]
            /\ UNCHANGED <<size, phase, ended, exit>>

AllMet == /\ size <= MaxCases
          /\ \A i \in 1 .. size : verdict[i] = "answered" /\ phase[i] = "met"

End == /\ ~ended
       /\ \A i \in Cases : phase[i] # "submitted"
       /\ ended' = TRUE
       /\ exit' \in IF AllMet THEN {0, 1} ELSE {1}
       /\ UNCHANGED <<size, phase, verdict>>

Next == \/ \E i \in Cases : Submit(i) \/ Record(i) \/ Lose(i) \/ Judge(i)
        \/ End

Safety == Init /\ [][Next]_vars
=============================================================================
