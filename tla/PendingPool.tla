----------------------------- MODULE PendingPool -----------------------------
(***************************************************************************)
(* What claiming pending requests promises: a request is added once, given *)
(* to one worker at a time, and stays in the table whatever happens to the *)
(* worker.  A commit may carry the changes of several threads, so a step   *)
(* changes any number of jobs, but gives out one.  PendingClaim implements *)
(* this.                                                                   *)
(***************************************************************************)
EXTENDS Naturals

CONSTANTS Jobs,      \* the identities of requests
          Workers,   \* those who claim
          None       \* no job

VARIABLES state,     \* what the table says of each job
          holder,    \* the job each worker holds
          faults     \* how often the storage has failed

vars == <<state, holder, faults>>

States == {"absent", "pending", "taken", "finished"}

Init == /\ state \in [Jobs -> {"absent", "pending"}]
        /\ holder = [w \in Workers |-> None]
        /\ faults = 0

\* What other threads may do to a job: add it, finish it, put it back.  They
\* never take it, and never make it disappear.
OtherChange(j) == \/ state'[j] = state[j]
                  \/ state[j] = "absent" /\ state'[j] = "pending"
                  \/ /\ state[j] # "absent" \/ faults' > 0
                     /\ state'[j] \in {"pending", "finished"}

Free(j) == \A w \in Workers : holder[w] # j

\* Worker w is given job j that nobody else has, and the table says so from the
\* same step on.
Take(w, j) == /\ holder[w] = None /\ Free(j) /\ state[j] # "finished"
              /\ holder' = [holder EXCEPT ![w] = j]
              /\ state'[j] = "taken"
              /\ \A i \in Jobs \ {j} : OtherChange(i)
              /\ UNCHANGED faults

\* Once the storage has failed, another worker may have j as well, and the
\* table may not say of j that it is taken.
TakeAfterFault(w, j) == /\ faults' > 0
                        /\ holder[w] = None
                        /\ holder' = [holder EXCEPT ![w] = j]
                        /\ state'[j] = "taken" \/ OtherChange(j)
                        /\ \A i \in Jobs \ {j} : OtherChange(i)

\* w is done with its job, recorded or not; other threads change the table.
Release(w) == /\ holder[w] # None
              /\ holder' = [holder EXCEPT ![w] = None]
              /\ \A i \in Jobs : OtherChange(i)

Change == /\ \A i \in Jobs : OtherChange(i)
          /\ UNCHANGED holder

Typed == state' \in [Jobs -> States]

Next == /\ Typed
        /\ \/ \E w \in Workers, j \in Jobs : Take(w, j) \/ TakeAfterFault(w, j)
           \/ \E w \in Workers : Release(w)
           \/ Change

Safety == Init /\ [][Next]_vars
=============================================================================
