---------------------------- MODULE PendingClaim ----------------------------
(***************************************************************************)
(* src/core/db_manager.c: db_get_next_pending_request next to the other    *)
(* writers of the table requests.  A claim is a transaction of several     *)
(* calls of SQLite.  The threads of a process share one connection, so     *)
(* their calls come between those of a claim; a second process with the    *)
(* same database file has a connection of its own.                         *)
(*                                                                         *)
(* The table is a sequence of rows in the order of their ids; created_at   *)
(* follows that order.  SQLite is external: one transaction writes at a    *)
(* time (no busy timeout is set, so the others fail at once), and a        *)
(* connection sees its own transaction, the other connections do not.      *)
(***************************************************************************)
EXTENDS Naturals, Sequences, FiniteSets, Functions

CONSTANTS Processes,     \* each with its connection
          Claimers,      \* threads that call db_get_next_pending_request
          Savers,        \* threads that call db_save_request
          Process,       \* the process of each thread
          Identities,    \* what the UNIQUE constraint tells apart
          Unmappable,    \* requests map_row_to_request rejects
          OldRows,       \* the requests an earlier run left
          None,          \* nobody, nothing
          MaxFailures,   \* bound on calls that fail for other reasons
          MaxPutBacks    \* bound on requests set back to pending

ASSUME RowsAssumption == /\ OldRows \in Seq(Identities)
                         /\ \A j, k \in DOMAIN OldRows : OldRows[j] = OldRows[k] => j = k
ASSUME BoundsAssumption == MaxFailures \in Nat /\ MaxPutBacks \in Nat

Pending == 0   \* the values of the column status
Taken   == 1
Done    == 2
Statuses == {Pending, Taken, Done}

Rows == [identity : Identities, status : Statuses]
Held == [id : Nat \ {0}, identity : Identities]

ASSUME ProcessAssumption ==
    /\ Process \in [Claimers \cup Savers -> Processes]
    /\ None \notin Identities \cup Processes \cup Held

VARIABLES
    rows,        \* the table as committed
    writer,      \* the process whose connection has a transaction open
    view,        \* the table as that transaction sees it
    pc,          \* where each claimer is
    picked,      \* the row the SELECT of a claimer gave
    held,        \* the request a claimer was given and works on, with its id
    failures, putBacks,
    unrecorded   \* the ids given out by a claim whose COMMIT failed (history)

table  == <<rows, writer, view>>
bounds == <<failures, putBacks>>
vars   == <<table, pc, picked, held, bounds, unrecorded>>

Init == /\ rows = [k \in DOMAIN OldRows |-> [identity |-> OldRows[k], status |-> Pending]]
        /\ writer = None
        /\ view = <<>>
        /\ pc = [c \in Claimers |-> "idle"]
        /\ picked = [c \in Claimers |-> 0]
        /\ held = [c \in Claimers |-> None]
        /\ failures = 0 /\ putBacks = 0
        /\ unrecorded = {}

Goto(c, l) == pc' = [pc EXCEPT ![c] = l]

Fails == failures < MaxFailures /\ failures' = failures + 1

\* A statement outside of a claim: part of the open transaction if that is of
\* the same connection, committed at once if nobody has one open, else BUSY.
Visible(p)   == IF writer = p THEN view ELSE rows
CanWrite(p)  == writer \in {p, None}
Write(p, t)  == IF writer = p THEN view' = t /\ UNCHANGED <<rows, writer>>
                              ELSE rows' = t /\ UNCHANGED <<view, writer>>

-----------------------------------------------------------------------------
(* db_get_next_pending_request *)

\* A connection with a transaction open cannot begin another, and a second
\* connection is BUSY: both are errors.
Always   == TRUE
CanBegin == writer = None

Begin(c) == /\ pc[c] = "idle" /\ held[c] = None
            /\ CanBegin
            /\ writer' = Process[c]
            /\ view' = rows
            /\ Goto(c, "selecting")
            /\ UNCHANGED <<rows, picked, held, bounds, unrecorded>>

\* BEGIN IMMEDIATE fails: NULL, and no ROLLBACK.
BeginFails(c) == /\ pc[c] = "idle" /\ held[c] = None
                 /\ ~CanBegin
                 /\ UNCHANGED vars

PendingRows(t) == {k \in DOMAIN t : t[k].status = Pending}

\* ORDER BY created_at ASC LIMIT 1
NewestRow(t, k) == k \in PendingRows(t) /\ \A j \in PendingRows(t) : k >= j
OldestRow(t, k) == k \in PendingRows(t) /\ \A j \in PendingRows(t) : k <= j

\* map_row_to_request has memory for everything and finds a url.
Mappable(row) == row.identity \notin Unmappable

\* A row, and a Request can be made of it.
Select(c) == /\ pc[c] = "selecting"
             /\ \E k \in DOMAIN view :
                   /\ OldestRow(view, k)
                   /\ Mappable(view[k])
                   /\ picked' = [picked EXCEPT ![c] = k]
             /\ Goto(c, "updating")
             /\ UNCHANGED <<table, held, bounds, unrecorded>>

\* No row, a row without a url, or a failing call: to the ROLLBACK.
SelectFails(c) ==
    /\ pc[c] = "selecting"
    /\ \/ PendingRows(view) = {} /\ UNCHANGED bounds
       \/ /\ \E k \in DOMAIN view : OldestRow(view, k) /\ ~Mappable(view[k])
          /\ UNCHANGED bounds
       \/ Fails /\ UNCHANGED putBacks
    /\ Goto(c, "failing")
    /\ UNCHANGED <<table, picked, held, unrecorded>>

\* UPDATE requests SET status = 1 WHERE id = ?
LeftPending(t, k) == t
AllTaken(t, k)    == [j \in DOMAIN t |-> [t[j] EXCEPT !.status = Taken]]
MarkTaken(t, k)   == [t EXCEPT ![k].status = Taken]

Update(c) == /\ pc[c] = "updating"
             /\ view' = MarkTaken(view, picked[c])
             /\ Goto(c, "committing")
             /\ UNCHANGED <<rows, writer, picked, held, bounds, unrecorded>>

UpdateFails(c) == /\ pc[c] = "updating"
                  /\ Fails
                  /\ Goto(c, "failing")
                  /\ UNCHANGED <<table, picked, held, putBacks, unrecorded>>

\* The request is handed out: to the callback of the DBTask, or the caller.
HandOut(c) == /\ held' = [held EXCEPT ![c] = [id |-> picked[c],
                                               identity |-> view[picked[c]].identity]]
              /\ picked' = [picked EXCEPT ![c] = 0]
              /\ writer' = None
              /\ view' = <<>>
              /\ Goto(c, "idle")

Commit(c) == /\ pc[c] = "committing"
             /\ rows' = view
             /\ HandOut(c)
             /\ UNCHANGED <<bounds, unrecorded>>

\* The result of COMMIT is ignored; SQLite has rolled the transaction back.
CommitFails(c) == /\ pc[c] = "committing"
                  /\ Fails
                  /\ unrecorded' = unrecorded \cup {picked[c]}
                  /\ HandOut(c)
                  /\ UNCHANGED <<rows, putBacks>>

\* ROLLBACK undoes whatever the connection did since BEGIN, for all threads.
Rollback(c) == /\ pc[c] = "failing"
               /\ writer' = None
               /\ view' = <<>>
               /\ picked' = [picked EXCEPT ![c] = 0]
               /\ Goto(c, "idle")
               /\ UNCHANGED <<rows, held, bounds, unrecorded>>

-----------------------------------------------------------------------------
(* db_update_request_status, by the claimer that has worked on a request *)

\* No row has the id: nothing to update, and no error.
WithStatus(t, k, s) == IF k \in DOMAIN t THEN [t EXCEPT ![k].status = s] ELSE t

UpdateStatus(c, s) ==
    /\ held[c] # None
    /\ CanWrite(Process[c])
    /\ Write(Process[c], WithStatus(Visible(Process[c]), held[c].id, s))
    /\ held' = [held EXCEPT ![c] = None]
    /\ IF s = Pending THEN putBacks < MaxPutBacks /\ putBacks' = putBacks + 1
                      ELSE UNCHANGED putBacks
    /\ UNCHANGED <<pc, picked, failures, unrecorded>>

\* The error is printed; the caller does not try again.
UpdateStatusFails(c) ==
    /\ held[c] # None
    /\ ~CanWrite(Process[c])
    /\ held' = [held EXCEPT ![c] = None]
    /\ UNCHANGED <<table, pc, picked, bounds, unrecorded>>

Claimer(c) == \/ Begin(c) \/ BeginFails(c) \/ Select(c) \/ SelectFails(c)
              \/ Update(c) \/ UpdateFails(c) \/ Commit(c) \/ CommitFails(c) \/ Rollback(c)
              \/ UpdateStatus(c, Done) \/ UpdateStatus(c, Pending) \/ UpdateStatusFails(c)

-----------------------------------------------------------------------------
(* db_save_request, by a thread next to the claimers *)

Duplicates(t, i) == FALSE
IsIn(t, i) == \E k \in DOMAIN t : t[k].identity = i

\* INSERT OR IGNORE; a new row is pending.
SaveRequest(s, i) ==
    /\ CanWrite(Process[s])
    /\ ~IsIn(Visible(Process[s]), i)
    /\ Write(Process[s], Append(Visible(Process[s]), [identity |-> i, status |-> Pending]))
    /\ UNCHANGED <<pc, picked, held, bounds, unrecorded>>

Next == \/ \E c \in Claimers : Claimer(c)
        \/ \E s \in Savers, i \in Identities : SaveRequest(s, i)

\* A claimer goes on claiming and working; nobody has to save or to fail.
Fairness == \A c \in Claimers :
               WF_vars(\/ Begin(c) \/ Select(c) \/ SelectFails(c) \/ Update(c)
                       \/ Commit(c) \/ Rollback(c)
                       \/ UpdateStatus(c, Done) \/ UpdateStatusFails(c))

Safety == Init /\ [][Next]_vars
Spec   == Safety /\ Fairness

-----------------------------------------------------------------------------
(* Properties *)

ClaimLabels == {"idle", "selecting", "updating", "committing", "failing"}

\* Types, and one row for an identity.
TypeOK == /\ rows \in Seq(Rows) /\ view \in Seq(Rows)
          /\ \A j, k \in DOMAIN rows : rows[j].identity = rows[k].identity => j = k
          /\ \A j, k \in DOMAIN view : view[j].identity = view[k].identity => j = k
          /\ writer \in Processes \cup {None}
          /\ pc \in [Claimers -> ClaimLabels]
          /\ picked \in [Claimers -> Nat]
          /\ held \in [Claimers -> Held \cup {None}]
          /\ failures \in 0 .. MaxFailures /\ putBacks \in 0 .. MaxPutBacks
          /\ unrecorded \subseteq Nat

Claiming(c) == pc[c] # "idle"

\* The transaction of a connection belongs to one claim: a thread that finds it
\* open neither commits nor rolls back what another one began.
TransactionOwned ==
    /\ \A c, d \in Claimers : Claiming(c) /\ Claiming(d) => c = d
    /\ \A p \in Processes : writer = p <=> \E c \in Claimers : Claiming(c) /\ Process[c] = p

\* A row is with one claimer at a time, over all processes, and is the row of
\* the request the claimer works on and taken, unless the COMMIT of a claim of
\* that id was lost: then the id may belong to nobody, or to a later request.
HandedOutOnce ==
    \A c \in Claimers : held[c] # None /\ held[c].id \notin unrecorded =>
       /\ \A d \in Claimers \ {c} : held[d] # None => held[d].id # held[c].id
       /\ held[c].id \in DOMAIN rows
       /\ rows[held[c].id] = [identity |-> held[c].identity, status |-> Taken]

\* Committed rows that wait their turn: pending, with no row before them that
\* cannot be mapped and so fails every claim.
Waiting(i) ==
    \E k \in DOMAIN rows :
       /\ rows[k].identity = i /\ rows[k].status = Pending
       /\ \A j \in 1 .. k : rows[j].identity \in Unmappable => rows[j].status # Pending

HandedOut(i) == \E c \in Claimers : held[c] # None /\ held[c].identity = i
Finished(i)  == \E k \in DOMAIN rows : rows[k].identity = i /\ rows[k].status = Done

\* A waiting request is handed out whatever rolls back on the way, or finished
\* by a claimer that had it from a claim whose COMMIT was lost.
Delivered == \A i \in Identities : Waiting(i) ~> HandedOut(i) \/ Finished(i)

StateIn(t, i) == IF ~IsIn(t, i) THEN "absent"
                 ELSE LET k == CHOOSE n \in DOMAIN t : t[n].identity = i
                      IN  CASE t[k].status = Pending -> "pending"
                            [] t[k].status = Taken   -> "taken"
                            [] t[k].status = Done    -> "finished"

P == INSTANCE PendingPool WITH
        Jobs <- Identities, Workers <- Claimers, faults <- failures,
        state <- [i \in Identities |-> StateIn(rows, i)],
        holder <- [c \in Claimers |-> IF held[c] = None THEN None ELSE held[c].identity]

\* Each claim, four calls long and open to other threads, is one atomic step of
\* the pool: request and status change hands together.
ImplementsPool == P!Safety
=============================================================================
