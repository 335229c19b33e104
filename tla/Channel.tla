------------------------------ MODULE Channel ------------------------------
(***************************************************************************)
(* What a queue of the runtime promises to the threads that share it: the  *)
(* data accepted are handed out once each, in the order of acceptance;     *)
(* after the channel is closed nothing is accepted; a receiver is told     *)
(* that there is no more only when the channel is closed and empty.  The   *)
(* module Queue models queue.c and implements this specification.          *)
(***************************************************************************)
EXTENDS Naturals, Sequences

CONSTANTS Data,        \* the pointers a sender may offer, each at most once
          Receivers,   \* the threads that take data out
          Quitters     \* receivers that may stop on their own

VARIABLES unsent,      \* data not offered yet, or whose offer is not decided
          refused,     \* data whose offer failed: the sender still owns them
          contents,    \* data accepted and not handed out, oldest first
          taken,       \* the data handed out to each receiver
          open,        \* nobody closed the channel
          stopped      \* receivers that take nothing any more

vars == <<unsent, refused, contents, taken, open, stopped>>

TypeOK == /\ unsent \subseteq Data
          /\ refused \subseteq Data
          /\ contents \in Seq(Data)
          /\ taken \in [Receivers -> SUBSET Data]
          /\ open \in BOOLEAN
          /\ stopped \subseteq Receivers

Init == /\ unsent = Data
        /\ refused = {}
        /\ contents = <<>>
        /\ taken = [r \in Receivers |-> {}]
        /\ open = TRUE
        /\ stopped = {}

Send(d) == /\ open
           /\ d \in unsent
           /\ unsent' = unsent \ {d}
           /\ contents' = Append(contents, d)
           /\ UNCHANGED <<refused, taken, open, stopped>>

\* An offer may fail while the channel is open too: there was no memory.
Refuse(d) == /\ d \in unsent
             /\ unsent' = unsent \ {d}
             /\ refused' = refused \cup {d}
             /\ UNCHANGED <<contents, taken, open, stopped>>

Take(r) == /\ r \notin stopped
           /\ contents # <<>>
           /\ contents' = Tail(contents)
           /\ taken' = [taken EXCEPT ![r] = @ \cup {Head(contents)}]
           /\ UNCHANGED <<unsent, refused, open, stopped>>

Tell(r) == /\ ~open
           /\ contents = <<>>
           /\ stopped' = stopped \cup {r}
           /\ UNCHANGED <<unsent, refused, contents, taken, open>>

\* What a receiver took may tell it to stop.
Quit(r) == /\ r \in Quitters
           /\ taken[r] # {}
           /\ stopped' = stopped \cup {r}
           /\ UNCHANGED <<unsent, refused, contents, taken, open>>

Close == /\ open
         /\ open' = FALSE
         /\ UNCHANGED <<unsent, refused, contents, taken, stopped>>

Next == \/ \E d \in Data : Send(d) \/ Refuse(d)
        \/ \E r \in Receivers : Take(r) \/ Tell(r) \/ Quit(r)
        \/ Close

Safety == Init /\ [][Next]_vars

\* Somebody takes what is there, and everybody hears of the end.
Fairness == /\ WF_vars(\E r \in Receivers : Take(r))
            /\ \A r \in Receivers : WF_vars(Tell(r))

Spec == Safety /\ Fairness
=============================================================================
