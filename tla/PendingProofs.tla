--------------------------- MODULE PendingProofs ---------------------------
(***************************************************************************)
(* Claims of pending requests, for every value of the constants: any       *)
(* number of processes and threads, any table, any number of failures.     *)
(* A transaction belongs to one claim, a request is with one claimer, and  *)
(* a claim of several calls is one step of the pool.                       *)
(***************************************************************************)
EXTENDS PendingClaim, TLAPS

USE ProcessAssumption, RowsAssumption, BoundsAssumption
USE DEF Pending, Taken, Done

LEMMA StatusValues == Pending \in Statuses /\ Taken \in Statuses /\ Done \in Statuses
BY DEF Statuses

-----------------------------------------------------------------------------
(* The inductive invariant *)

Picking(c) == pc[c] \in {"updating", "committing"}

\* Row k is that of request h, and taken.
IsTakenRow(t, h) == h.id \in DOMAIN t /\ t[h.id] = [identity |-> h.identity, status |-> Taken]

\* Claimer c holds a request whose claim was committed.
Holds(c) == held[c] # None /\ held[c].id \notin unrecorded

\* The open transaction has all the rows, and at most more of them.
ViewGrows == writer # None => /\ DOMAIN rows \subseteq DOMAIN view
                              /\ \A k \in DOMAIN rows : view[k].identity = rows[k].identity

\* What a claimer holds is taken, in the table and in the open transaction.
HeldTaken == \A c \in Claimers : Holds(c) =>
                IsTakenRow(rows, held[c]) /\ (writer # None => IsTakenRow(view, held[c]))

HeldApart == \A c \in Claimers : Holds(c) =>
                \A d \in Claimers \ {c} : held[d] # None => held[d].id # held[c].id

\* A claim that has picked a row: nobody holds it, and it is as it should be.
PickedApart ==
    \A c \in Claimers : Picking(c) =>
       /\ picked[c] \in DOMAIN view
       /\ picked[c] \notin unrecorded =>
             /\ view[picked[c]].status = IF pc[c] = "updating" THEN Pending ELSE Taken
             /\ \A d \in Claimers : held[d] # None => held[d].id # picked[c]

ClaimersFree == \A c \in Claimers : Claiming(c) => held[c] = None

Claimed == /\ TransactionOwned /\ ViewGrows /\ HeldTaken /\ HeldApart
           /\ PickedApart /\ ClaimersFree

-----------------------------------------------------------------------------
(* Tables *)

\* One row for an identity.
Table(t) == /\ t \in Seq(Rows)
            /\ \A j, k \in DOMAIN t : t[j].identity = t[k].identity => j = k

\* Table u has the rows of t, changed at most at k and but for their identity,
\* and may have more.
ChangedAt(t, k, u) == /\ DOMAIN t \subseteq DOMAIN u
                      /\ \A j \in DOMAIN t \ {k} : u[j] = t[j]
                      /\ \A j \in DOMAIN t : u[j].identity = t[j].identity

NewRows(t, u) == \A j \in DOMAIN u \ DOMAIN t : u[j].status = Pending

LEMMA TableGrows ==
  ASSUME NEW t, Table(t), NEW i \in Identities, ~IsIn(t, i),
         NEW u, u = Append(t, [identity |-> i, status |-> Pending])
  PROVE  /\ Table(u)
         /\ \A k : ChangedAt(t, k, u)
         /\ NewRows(t, u)
<1> DEFINE r == [identity |-> i, status |-> Pending]
<1>1. t \in Seq(Rows) /\ r \in Rows
  BY StatusValues DEF Table, Rows
<1>2. /\ u \in Seq(Rows) /\ DOMAIN u = DOMAIN t \cup {Len(t) + 1}
      /\ u[Len(t) + 1] = r /\ \A k \in DOMAIN t : u[k] = t[k]
  BY <1>1
<1>3. \A k \in DOMAIN t : t[k].identity # i
  BY DEF IsIn
<1>4. Table(u)
  BY <1>1, <1>2, <1>3 DEF Table
<1> QED
  BY <1>2, <1>4 DEF ChangedAt, NewRows

\* What setting a status does to a table: at row k only, if it is there.
LEMMA WithStatusChanges ==
  ASSUME NEW t, Table(t), NEW k, NEW s \in Statuses, NEW u, u = WithStatus(t, k, s)
  PROVE  /\ Table(u)
         /\ DOMAIN u = DOMAIN t
         /\ ChangedAt(t, k, u)
         /\ k \in DOMAIN t => u[k].status = s
<1>1. CASE k \in DOMAIN t
  <2>1. t \in Seq(Rows) /\ \A j \in DOMAIN t : t[j] \in Rows
    BY DEF Table
  <2>2. /\ DOMAIN u = DOMAIN t /\ u[k] = [t[k] EXCEPT !.status = s]
        /\ \A j \in DOMAIN t \ {k} : u[j] = t[j]
    BY <1>1 DEF WithStatus
  <2>3. u[k] = [identity |-> t[k].identity, status |-> s] /\ t[k].identity \in Identities
    BY <1>1, <2>1, <2>2 DEF Rows
  <2>4. u \in Seq(Rows)
    <3>1. [t[k] EXCEPT !.status = s] \in Rows
      BY <1>1, <2>1 DEF Rows
    <3> QED
      BY <1>1, <2>1, <3>1 DEF WithStatus
  <2>5. \A j \in DOMAIN t : u[j].identity = t[j].identity
    BY <2>2, <2>3
  <2>6. Table(u)
    BY <2>2, <2>4, <2>5 DEF Table
  <2> QED
    BY <2>2, <2>3, <2>5, <2>6 DEF ChangedAt
<1>2. CASE k \notin DOMAIN t
  BY <1>2 DEF WithStatus, ChangedAt
<1> QED
  BY <1>1, <1>2

LEMMA MarkTakenIs ==
  ASSUME NEW t, NEW k \in DOMAIN t
  PROVE  MarkTaken(t, k) = WithStatus(t, k, Taken)
BY DEF MarkTaken, WithStatus

LEMMA TypesAreTables == TypeOK => Table(rows) /\ Table(view)
BY DEF TypeOK, Table

LEMMA EmptyTable == Table(<<>>)
BY DEF Table

-----------------------------------------------------------------------------
(* Types *)

LEMMA InitTypes == Init => TypeOK
<1> SUFFICES ASSUME Init PROVE TypeOK
  OBVIOUS
<1>1. /\ DOMAIN rows = DOMAIN OldRows
      /\ \A k \in DOMAIN rows : rows[k] = [identity |-> OldRows[k], status |-> Pending]
  BY DEF Init
<1>2. rows \in Seq(Rows)
  <2>1. DOMAIN OldRows = 1 .. Len(OldRows) /\ Len(OldRows) \in Nat
    OBVIOUS
  <2>2. \A k \in 1 .. Len(OldRows) : [identity |-> OldRows[k], status |-> Pending] \in Rows
    BY <2>1, StatusValues DEF Rows
  <2>3. rows = [k \in 1 .. Len(OldRows) |-> [identity |-> OldRows[k], status |-> Pending]]
    BY <2>1 DEF Init
  <2> QED
    BY <2>1, <2>2, <2>3
<1>3. \A j, k \in DOMAIN rows : rows[j].identity = rows[k].identity => j = k
  BY <1>1
<1>4. Table(view)
  BY EmptyTable DEF Init
<1> QED
  BY <1>2, <1>3, <1>4 DEF Init, TypeOK, Table, ClaimLabels

\* The request a claim hands out.
LEMMA HandOutTypes ==
  ASSUME TypeOK, NEW c \in Claimers, picked[c] \in DOMAIN view, HandOut(c)
  PROVE  /\ held' \in [Claimers -> Held \cup {None}]
         /\ picked' \in [Claimers -> Nat]
         /\ pc' \in [Claimers -> ClaimLabels]
         /\ writer' = None /\ view' = <<>>
         /\ [id |-> picked[c], identity |-> view[picked[c]].identity] \in Held
<1>1. view \in Seq(Rows)
  BY DEF TypeOK
<1>2. picked[c] \in Nat \ {0} /\ view[picked[c]] \in Rows
  BY <1>1
<1>3. [id |-> picked[c], identity |-> view[picked[c]].identity] \in Held
  BY <1>2 DEF Held, Rows
<1> QED
  BY <1>3 DEF HandOut, TypeOK, Goto, ClaimLabels

\* Write changes the table of the open transaction, or the committed one.
LEMMA WriteTypes ==
  ASSUME TypeOK, NEW p \in Processes, CanWrite(p), NEW t, Table(t), Write(p, t)
  PROVE  /\ Table(rows') /\ Table(view') /\ writer' = writer
         /\ \/ writer = p /\ Visible(p) = view /\ view' = t /\ rows' = rows
            \/ writer = None /\ Visible(p) = rows /\ rows' = t /\ view' = view
<1>1. Table(rows) /\ Table(view)
  BY TypesAreTables
<1>2. None # p
  OBVIOUS
<1> QED
  BY <1>1, <1>2 DEF Write, CanWrite, Visible

LEMMA FailsTypes == TypeOK /\ Fails => failures' \in 0 .. MaxFailures /\ failures' > 0
BY DEF TypeOK, Fails

LEMMA StepTypes == TypeOK /\ PickedApart /\ [Next]_vars => TypeOK'
<1> SUFFICES ASSUME TypeOK, PickedApart, [Next]_vars PROVE TypeOK'
  OBVIOUS
<1>t. Table(rows) /\ Table(view) /\ Table(<<>>)
  BY TypesAreTables, EmptyTable
<1>1. ASSUME NEW c \in Claimers, Claimer(c) PROVE TypeOK'
  <2>p. Process[c] \in Processes
    OBVIOUS
  <2>g. ASSUME NEW l \in ClaimLabels, Goto(c, l) PROVE pc' \in [Claimers -> ClaimLabels]
    BY <2>g DEF Goto, TypeOK
  <2>1. CASE Begin(c)
    BY <2>1, <2>p, <2>g DEF Begin, TypeOK, bounds, ClaimLabels
  <2>2. CASE BeginFails(c)
    BY <2>2 DEF BeginFails, vars, table, bounds, TypeOK
  <2>3. CASE Select(c)
    <3>1. picked' \in [Claimers -> Nat]
      BY <2>3 DEF Select, TypeOK
    <3> QED
      BY <2>3, <2>g, <3>1 DEF Select, TypeOK, table, bounds, ClaimLabels
  <2>4. CASE SelectFails(c)
    <3>1. failures' \in 0 .. MaxFailures /\ putBacks' = putBacks
      BY <2>4, FailsTypes DEF SelectFails, bounds, TypeOK
    <3> QED
      BY <2>4, <2>g, <3>1 DEF SelectFails, TypeOK, table, ClaimLabels
  <2>5. CASE Update(c)
    <3>1. picked[c] \in DOMAIN view
      BY <2>5 DEF Update, PickedApart, Picking
    <3>2. Table(view')
      <4>1. view' = WithStatus(view, picked[c], Taken)
        BY <2>5, <3>1, MarkTakenIs DEF Update
      <4> QED
        BY <1>t, <3>1, <4>1, StatusValues, WithStatusChanges
    <3> QED
      BY <2>5, <2>g, <3>2 DEF Update, TypeOK, Table, bounds, ClaimLabels
  <2>6. CASE UpdateFails(c)
    BY <2>6, <2>g, FailsTypes DEF UpdateFails, TypeOK, table, ClaimLabels
  <2>7. CASE Commit(c)
    <3>1. picked[c] \in DOMAIN view
      BY <2>7 DEF Commit, PickedApart, Picking
    <3>2. HandOut(c) /\ Table(rows')
      BY <2>7, <1>t DEF Commit
    <3> QED
      BY <2>7, <1>t, <3>1, <3>2, HandOutTypes DEF Commit, TypeOK, Table, bounds
  <2>8. CASE CommitFails(c)
    <3>1. picked[c] \in DOMAIN view
      BY <2>8 DEF CommitFails, PickedApart, Picking
    <3>2. unrecorded' \subseteq Nat
      BY <2>8 DEF CommitFails, TypeOK
    <3>3. HandOut(c) /\ Fails /\ UNCHANGED <<rows, putBacks>>
      BY <2>8 DEF CommitFails
    <3> QED
      BY <1>t, <3>1, <3>2, <3>3, HandOutTypes, FailsTypes DEF TypeOK, Table
  <2>9. CASE Rollback(c)
    <3>1. picked' \in [Claimers -> Nat]
      BY <2>9 DEF Rollback, TypeOK
    <3> QED
      BY <2>9, <2>g, <1>t, <3>1 DEF Rollback, TypeOK, Table, bounds, ClaimLabels
  <2>10. ASSUME NEW s \in {Pending, Done}, UpdateStatus(c, s) PROVE TypeOK'
    <3>1. Table(Visible(Process[c]))
      BY <1>t DEF Visible
    <3>2. Table(rows') /\ Table(view') /\ writer' = writer
      BY <2>10, <2>p, <3>1, StatusValues, WithStatusChanges, WriteTypes DEF UpdateStatus
    <3>3. held' \in [Claimers -> Held \cup {None}] /\ putBacks' \in 0 .. MaxPutBacks
      BY <2>10 DEF UpdateStatus, TypeOK
    <3> QED
      BY <2>10, <3>2, <3>3 DEF UpdateStatus, TypeOK, Table
  <2>11. CASE UpdateStatusFails(c)
    BY <2>11 DEF UpdateStatusFails, TypeOK, table, bounds
  <2> QED
    BY <1>1, <2>1, <2>2, <2>3, <2>4, <2>5, <2>6, <2>7, <2>8, <2>9, <2>10, <2>11 DEF Claimer
<1>2. ASSUME NEW s \in Savers, NEW i \in Identities, SaveRequest(s, i) PROVE TypeOK'
  <2>1. Process[s] \in Processes /\ Table(Visible(Process[s]))
    BY <1>t DEF Visible
  <2>2. Table(rows') /\ Table(view') /\ writer' = writer
    <3>1. PICK t : t = Append(Visible(Process[s]), [identity |-> i, status |-> Pending])
      OBVIOUS
    <3>2. CanWrite(Process[s]) /\ ~IsIn(Visible(Process[s]), i) /\ Write(Process[s], t)
      BY <1>2, <3>1 DEF SaveRequest
    <3>3. Table(t)
      BY <2>1, <3>1, <3>2, TableGrows
    <3> QED
      BY <2>1, <3>2, <3>3, WriteTypes
  <2> QED
    BY <1>2, <2>2 DEF SaveRequest, TypeOK, Table, bounds
<1>3. CASE UNCHANGED vars
  BY <1>3 DEF vars, table, bounds, TypeOK
<1> QED
  BY <1>1, <1>2, <1>3 DEF Next

-----------------------------------------------------------------------------
(* Steps of a claim *)

LEMMA InitClaimed == Init => Claimed
<1> SUFFICES ASSUME Init PROVE Claimed
  OBVIOUS
<1>1. writer = None /\ \A c \in Claimers : pc[c] = "idle" /\ held[c] = None
  BY DEF Init
<1>2. TransactionOwned
  BY <1>1 DEF TransactionOwned, Claiming
<1> QED
  BY <1>1, <1>2 DEF Claimed, ViewGrows, HeldTaken, HeldApart, PickedApart, ClaimersFree,
     Holds, Picking, Claiming

\* Where the threads are, and whose transaction it is, when c goes on claiming,
\* begins or ends.
LEMMA Owns ==
  ASSUME TypeOK, TransactionOwned, NEW c \in Claimers
  PROVE  /\ \A l : Goto(c, l) => pc'[c] = l /\ \A d \in Claimers \ {c} : pc'[d] = pc[d]
         /\ Claiming(c) => writer = Process[c] /\ \A d \in Claimers \ {c} : pc[d] = "idle"
         /\ writer = None => \A d \in Claimers : pc[d] = "idle"
<1>1. ASSUME NEW l, Goto(c, l)
      PROVE  pc'[c] = l /\ \A d \in Claimers \ {c} : pc'[d] = pc[d]
  BY <1>1 DEF Goto, TypeOK
<1>2. Process[c] \in Processes /\ \A d \in Claimers : Process[d] \in Processes
  OBVIOUS
<1>3. ASSUME writer = None, NEW d \in Claimers PROVE pc[d] = "idle"
  BY <1>2, <1>3 DEF TransactionOwned, Claiming
<1>4. ASSUME Claiming(c)
      PROVE  writer = Process[c] /\ \A d \in Claimers \ {c} : pc[d] = "idle"
  BY <1>2, <1>4 DEF TransactionOwned, Claiming
<1> QED
  BY <1>1, <1>3, <1>4

LEMMA StaysOwned ==
  ASSUME TransactionOwned, writer' = writer,
         \A c \in Claimers : pc'[c] # "idle" <=> pc[c] # "idle"
  PROVE  TransactionOwned'
BY DEF TransactionOwned, Claiming

LEMMA BecomesOwned ==
  ASSUME NEW c \in Claimers, writer' = Process[c], pc'[c] # "idle",
         \A d \in Claimers \ {c} : pc'[d] = "idle"
  PROVE  TransactionOwned'
BY DEF TransactionOwned, Claiming

LEMMA BecomesFree ==
  ASSUME writer' = None, \A d \in Claimers : pc'[d] = "idle"
  PROVE  TransactionOwned'
<1>1. \A p \in Processes : p # None
  OBVIOUS
<1> QED
  BY <1>1 DEF TransactionOwned, Claiming

LEMMA BeginKeeps ==
  ASSUME TypeOK, Claimed, NEW c \in Claimers, Begin(c)
  PROVE  Claimed'
<1>1. /\ pc'[c] = "selecting" /\ \A d \in Claimers \ {c} : pc'[d] = "idle"
      /\ writer' = Process[c] /\ view' = rows /\ held[c] = None
      /\ UNCHANGED <<rows, picked, held, unrecorded>>
  BY Owns DEF Begin, CanBegin, Claimed
<1>2. TransactionOwned'
  BY <1>1, BecomesOwned
<1>3. HeldTaken' /\ HeldApart' /\ ViewGrows'
  BY <1>1 DEF Claimed, HeldTaken, HeldApart, ViewGrows, Holds
<1>4. PickedApart' /\ ClaimersFree'
  BY <1>1 DEF PickedApart, ClaimersFree, Picking, Claiming
<1> QED
  BY <1>2, <1>3, <1>4 DEF Claimed

LEMMA SelectKeeps ==
  ASSUME TypeOK, Claimed, NEW c \in Claimers, Select(c)
  PROVE  Claimed'
<1>1. /\ pc[c] = "selecting" /\ pc'[c] = "updating"
      /\ \A d \in Claimers \ {c} : pc'[d] = pc[d] /\ pc[d] = "idle"
      /\ UNCHANGED <<rows, writer, view, held, unrecorded>> /\ writer # None
  BY Owns DEF Select, Claimed, Claiming, table
<1>2. /\ picked'[c] \in DOMAIN view
      /\ view[picked'[c]].status = Pending
  BY DEF Select, OldestRow, PendingRows, TypeOK
<1>3. TransactionOwned'
  BY <1>1, StaysOwned DEF Claimed
<1>4. HeldTaken' /\ HeldApart' /\ ViewGrows'
  BY <1>1 DEF Claimed, HeldTaken, HeldApart, ViewGrows, Holds
<1>5. ClaimersFree'
  BY <1>1 DEF Claimed, ClaimersFree, Claiming
<1>6. ASSUME NEW d \in Claimers, held[d] # None, held[d].id = picked'[c],
             picked'[c] \notin unrecorded
      PROVE  FALSE
  <2>1. IsTakenRow(view, held[d])
    BY <1>1, <1>6 DEF Claimed, HeldTaken, Holds
  <2>2. view[picked'[c]].status = Taken
    BY <1>6, <2>1 DEF IsTakenRow
  <2> QED
    BY <1>2, <2>2
<1>7. PickedApart'
  BY <1>1, <1>2, <1>6 DEF PickedApart, Picking
<1> QED
  BY <1>3, <1>4, <1>5, <1>7 DEF Claimed

LEMMA GivesUpKeeps ==
  ASSUME TypeOK, Claimed, NEW c \in Claimers, SelectFails(c) \/ UpdateFails(c)
  PROVE  Claimed'
<1>1. /\ pc[c] # "idle" /\ pc'[c] = "failing"
      /\ \A d \in Claimers \ {c} : pc'[d] = pc[d] /\ pc[d] = "idle"
      /\ UNCHANGED <<rows, writer, view, picked, held, unrecorded>>
  BY Owns DEF SelectFails, UpdateFails, Claimed, Claiming, table
<1>2. TransactionOwned'
  BY <1>1, StaysOwned DEF Claimed
<1>3. HeldTaken' /\ HeldApart' /\ ViewGrows'
  BY <1>1 DEF Claimed, HeldTaken, HeldApart, ViewGrows, Holds
<1>4. PickedApart' /\ ClaimersFree'
  BY <1>1 DEF Claimed, PickedApart, ClaimersFree, Picking, Claiming
<1> QED
  BY <1>2, <1>3, <1>4 DEF Claimed

LEMMA UpdateKeeps ==
  ASSUME TypeOK, Claimed, NEW c \in Claimers, Update(c)
  PROVE  Claimed'
<1>1. /\ pc[c] = "updating" /\ pc'[c] = "committing"
      /\ \A d \in Claimers \ {c} : pc'[d] = pc[d] /\ pc[d] = "idle"
      /\ UNCHANGED <<rows, writer, picked, held, unrecorded>>
  BY Owns DEF Update, Claimed, Claiming
<1>2. picked[c] \in DOMAIN view
  BY <1>1 DEF Claimed, PickedApart, Picking
<1>3. /\ DOMAIN view' = DOMAIN view
      /\ view'[picked[c]].status = Taken
      /\ \A j \in DOMAIN view \ {picked[c]} : view'[j] = view[j]
      /\ \A j \in DOMAIN view : view'[j].identity = view[j].identity
  <2>1. view' = WithStatus(view, picked[c], Taken)
    BY <1>2, MarkTakenIs DEF Update
  <2>2. Table(view) /\ Taken \in Statuses
    BY TypesAreTables, StatusValues
  <2>3. /\ DOMAIN view' = DOMAIN view /\ ChangedAt(view, picked[c], view')
        /\ view'[picked[c]].status = Taken
    BY <1>2, <2>1, <2>2, WithStatusChanges
  <2> QED
    BY <2>3 DEF ChangedAt
<1>4. TransactionOwned'
  BY <1>1, StaysOwned DEF Claimed
<1>5. ViewGrows' /\ HeldApart' /\ ClaimersFree'
  BY <1>1, <1>3 DEF Claimed, ViewGrows, HeldApart, ClaimersFree, Claiming, Holds
<1>6. HeldTaken'
  <2>1. ASSUME NEW d \in Claimers, Holds(d), writer # None
        PROVE  IsTakenRow(view', held[d])
    <3>1. IsTakenRow(view, held[d]) /\ held[d] # None /\ held[d].id \notin unrecorded
      BY <2>1 DEF Claimed, HeldTaken, Holds
    <3>2. held[d].id # picked[c]
      BY <1>1, <3>1 DEF Claimed, PickedApart, Picking
    <3> QED
      BY <1>3, <3>1, <3>2 DEF IsTakenRow
  <2> QED
    BY <1>1, <2>1 DEF Claimed, HeldTaken, Holds
<1>7. PickedApart'
  BY <1>1, <1>2, <1>3 DEF Claimed, PickedApart, Picking
<1> QED
  BY <1>4, <1>5, <1>6, <1>7 DEF Claimed

LEMMA HandOutKeeps ==
  ASSUME TypeOK, Claimed, NEW c \in Claimers, Commit(c) \/ CommitFails(c)
  PROVE  Claimed'
<1> DEFINE k == picked[c]
           h == [id |-> k, identity |-> view[k].identity]
<1>1. /\ pc[c] = "committing" /\ HandOut(c) /\ pc'[c] = "idle"
      /\ \A d \in Claimers \ {c} : pc'[d] = pc[d] /\ pc[d] = "idle"
      /\ writer # None
  BY Owns DEF Commit, CommitFails, HandOut, Claimed, Claiming
<1>2. /\ held[c] = None /\ k \in DOMAIN view
      /\ k \notin unrecorded => view[k].status = Taken
      /\ k \notin unrecorded => \A d \in Claimers : held[d] # None => held[d].id # k
  BY <1>1 DEF Claimed, ClaimersFree, Claiming, PickedApart, Picking
<1>3. /\ held'[c] = h /\ \A d \in Claimers \ {c} : held'[d] = held[d]
      /\ writer' = None
  BY <1>1 DEF HandOut, TypeOK
<1>4. TransactionOwned'
  BY <1>1, <1>3, BecomesFree
<1>5. ViewGrows' /\ PickedApart' /\ ClaimersFree'
  BY <1>1, <1>3 DEF ViewGrows, PickedApart, ClaimersFree, Claiming, Picking
<1>6. unrecorded \subseteq unrecorded' /\ (CommitFails(c) => k \in unrecorded')
  BY <1>1 DEF Commit, CommitFails
<1>7. HeldTaken'
  <2>1. ASSUME NEW d \in Claimers, d # c, Holds(d)' PROVE IsTakenRow(rows', held[d])
    <3>1. Holds(d)
      BY <1>3, <1>6, <2>1 DEF Holds
    <3>2. rows' \in {rows, view}
      BY DEF Commit, CommitFails
    <3> QED
      BY <1>1, <3>1, <3>2 DEF Claimed, HeldTaken
  <2>2. ASSUME Holds(c)' PROVE IsTakenRow(rows', h)
    <3>1. k \notin unrecorded' /\ k \notin unrecorded
      BY <1>3, <1>6, <2>2 DEF Holds
    <3>2. rows' = view
      BY <1>6, <3>1 DEF Commit
    <3>3. view[k] \in Rows
      BY <1>2 DEF TypeOK
    <3>4. view[k] = [identity |-> view[k].identity, status |-> Taken]
      BY <1>2, <3>1, <3>3 DEF Rows
    <3> QED
      BY <1>2, <3>2, <3>4 DEF IsTakenRow
  <2> QED
    BY <1>3, <2>1, <2>2 DEF HeldTaken
<1>8. HeldApart'
  <2>1. ASSUME NEW d \in Claimers, Holds(d)', NEW e \in Claimers \ {d}, held'[e] # None
        PROVE  held'[e].id # held'[d].id
    <3>1. CASE d = c
      BY <1>2, <1>3, <1>6, <2>1, <3>1 DEF Holds
    <3>2. CASE e = c
      BY <1>2, <1>3, <1>6, <2>1, <3>2 DEF Holds
    <3>3. CASE d # c /\ e # c
      BY <1>3, <1>6, <2>1, <3>3 DEF Claimed, HeldApart, Holds
    <3> QED
      BY <3>1, <3>2, <3>3
  <2> QED
    BY <2>1 DEF HeldApart
<1> QED
  BY <1>4, <1>5, <1>7, <1>8 DEF Claimed

LEMMA RollbackKeeps ==
  ASSUME TypeOK, Claimed, NEW c \in Claimers, Rollback(c)
  PROVE  Claimed'
<1>1. /\ pc[c] # "idle" /\ pc'[c] = "idle"
      /\ \A d \in Claimers \ {c} : pc'[d] = pc[d] /\ pc[d] = "idle"
      /\ writer' = None /\ UNCHANGED <<rows, held, unrecorded>>
  BY Owns DEF Rollback, Claimed, Claiming
<1>2. TransactionOwned'
  BY <1>1, BecomesFree
<1>3. HeldTaken' /\ HeldApart' /\ ViewGrows'
  BY <1>1 DEF Claimed, HeldTaken, HeldApart, ViewGrows, Holds
<1>4. PickedApart' /\ ClaimersFree'
  BY <1>1 DEF PickedApart, ClaimersFree, Picking, Claiming
<1> QED
  BY <1>2, <1>3, <1>4 DEF Claimed

-----------------------------------------------------------------------------
(* Writes next to the claims *)

\* A statement of process p that changes at most row k, when k is the row of
\* nobody else's request, and adds at most new rows.
LEMMA WriteKeeps ==
  ASSUME TypeOK, Claimed, NEW p \in Processes, CanWrite(p), NEW t, Table(t), Write(p, t),
         UNCHANGED <<pc, picked, unrecorded>>, NEW k,
         ChangedAt(Visible(p), k, t),
         \A c \in Claimers : held'[c] = held[c] \/ held'[c] = None,
         \A c \in Claimers : Holds(c) /\ held'[c] # None => held[c].id # k,
         \A c \in Claimers : Picking(c) /\ picked[c] \notin unrecorded => picked[c] # k
  PROVE  Claimed'
<1>1. /\ writer' = writer
      /\ \/ writer = p /\ Visible(p) = view /\ view' = t /\ rows' = rows
         \/ writer = None /\ Visible(p) = rows /\ rows' = t /\ view' = view
  BY WriteTypes
<1>2. TransactionOwned'
  BY <1>1, StaysOwned DEF Claimed
<1>3. ViewGrows'
  <2>1. p # None
    OBVIOUS
  <2> QED
    BY <1>1, <2>1 DEF Claimed, ViewGrows, ChangedAt
<1>4. \A c \in Claimers : Holds(c)' => Holds(c) /\ held'[c] = held[c] /\ held[c].id # k
  BY DEF Holds
<1>5. ASSUME NEW h, h.id # k PROVE IsTakenRow(Visible(p), h) => IsTakenRow(t, h)
  BY <1>5 DEF IsTakenRow, ChangedAt
<1>6. HeldTaken'
  BY <1>1, <1>4, <1>5 DEF Claimed, HeldTaken
<1>7. HeldApart'
  BY <1>4 DEF Claimed, HeldApart
<1>8. PickedApart'
  <2>1. ASSUME NEW c \in Claimers, Picking(c)
        PROVE  /\ picked[c] \in DOMAIN view'
               /\ picked[c] \notin unrecorded => view'[picked[c]] = view[picked[c]]
    <3>1. writer # None
      BY <2>1, Owns DEF Claimed, Picking
    <3>2. picked[c] \in DOMAIN view
      BY <2>1 DEF Claimed, PickedApart
    <3> QED
      BY <1>1, <2>1, <3>1, <3>2 DEF ChangedAt
  <2>2. ASSUME NEW c \in Claimers, Picking(c), picked[c] \notin unrecorded
        PROVE  \A d \in Claimers : held'[d] # None => held'[d].id # picked[c]
    BY <2>2 DEF Claimed, PickedApart
  <2> QED
    BY <2>1, <2>2 DEF Claimed, PickedApart, Picking
<1>9. ClaimersFree'
  BY DEF Claimed, ClaimersFree, Claiming
<1> QED
  BY <1>2, <1>3, <1>6, <1>7, <1>8, <1>9 DEF Claimed

LEMMA UpdateStatusKeeps ==
  ASSUME TypeOK, Claimed, NEW c \in Claimers, NEW s \in {Pending, Done}, UpdateStatus(c, s)
  PROVE  Claimed'
<1> DEFINE p == Process[c]
           k == held[c].id
<1>1. PICK t : t = WithStatus(Visible(p), k, s)
  OBVIOUS
<1>2. /\ held[c] # None /\ CanWrite(p) /\ Write(p, t)
      /\ UNCHANGED <<pc, picked, unrecorded>>
      /\ held'[c] = None /\ \A d \in Claimers \ {c} : held'[d] = held[d]
  BY <1>1 DEF UpdateStatus, TypeOK
<1>3. p \in Processes /\ Table(Visible(p)) /\ s \in Statuses
  BY TypesAreTables, StatusValues DEF Visible
<1>4. Table(t) /\ ChangedAt(Visible(p), k, t)
  BY <1>1, <1>3, WithStatusChanges
<1>5. \A d \in Claimers : Holds(d) /\ held'[d] # None => held[d].id # k
  BY <1>2 DEF Claimed, HeldApart
<1>6. \A d \in Claimers : Picking(d) /\ picked[d] \notin unrecorded => picked[d] # k
  BY <1>2 DEF Claimed, PickedApart
<1> QED
  BY <1>2, <1>3, <1>4, <1>5, <1>6, WriteKeeps

LEMMA UpdateStatusFailsKeeps ==
  ASSUME TypeOK, Claimed, NEW c \in Claimers, UpdateStatusFails(c)
  PROVE  Claimed'
<1>1. /\ UNCHANGED <<rows, writer, view, pc, picked, unrecorded>>
      /\ \A d \in Claimers : held'[d] = held[d] \/ held'[d] = None
  BY DEF UpdateStatusFails, table, TypeOK
<1>2. TransactionOwned'
  BY <1>1, StaysOwned DEF Claimed
<1>3. HeldTaken' /\ HeldApart' /\ ViewGrows'
  BY <1>1 DEF Claimed, HeldTaken, HeldApart, ViewGrows, Holds
<1>4. PickedApart' /\ ClaimersFree'
  BY <1>1 DEF Claimed, PickedApart, ClaimersFree, Picking, Claiming
<1> QED
  BY <1>2, <1>3, <1>4 DEF Claimed

LEMMA SaveRequestKeeps ==
  ASSUME TypeOK, Claimed, NEW s \in Savers, NEW i \in Identities, SaveRequest(s, i)
  PROVE  Claimed'
<1> DEFINE p == Process[s]
<1>1. PICK t : t = Append(Visible(p), [identity |-> i, status |-> Pending])
  OBVIOUS
<1>2. /\ CanWrite(p) /\ Write(p, t) /\ ~IsIn(Visible(p), i)
      /\ UNCHANGED <<pc, picked, held, unrecorded>>
  BY <1>1 DEF SaveRequest
<1>3. p \in Processes /\ Table(Visible(p))
  BY TypesAreTables DEF Visible
<1>4. Table(t) /\ ChangedAt(Visible(p), 0, t)
  BY <1>1, <1>2, <1>3, TableGrows
<1>5. \A d \in Claimers : held[d] # None => held[d].id # 0
  BY DEF TypeOK, Held
<1>6. \A d \in Claimers : Picking(d) => picked[d] # 0
  BY DEF Claimed, PickedApart, TypeOK
<1> QED
  BY <1>2, <1>3, <1>4, <1>5, <1>6, WriteKeeps DEF Holds

-----------------------------------------------------------------------------

LEMMA StepClaimed == TypeOK /\ Claimed /\ [Next]_vars => Claimed'
<1> SUFFICES ASSUME TypeOK, Claimed, [Next]_vars PROVE Claimed'
  OBVIOUS
<1>1. CASE UNCHANGED vars
  <2>1. UNCHANGED <<rows, writer, view, pc, picked, held, unrecorded>>
    BY <1>1 DEF vars, table
  <2> QED
    BY <2>1 DEF Claimed, TransactionOwned, Claiming, ViewGrows, HeldTaken, HeldApart, Holds,
       PickedApart, Picking, ClaimersFree
<1>2. ASSUME NEW c \in Claimers, Claimer(c) PROVE Claimed'
  BY <1>1, <1>2, BeginKeeps, SelectKeeps, GivesUpKeeps, UpdateKeeps, HandOutKeeps,
     RollbackKeeps, UpdateStatusKeeps, UpdateStatusFailsKeeps DEF Claimer, BeginFails
<1>3. ASSUME NEW s \in Savers, NEW i \in Identities, SaveRequest(s, i) PROVE Claimed'
  BY <1>3, SaveRequestKeeps
<1> QED
  BY <1>1, <1>2, <1>3 DEF Next

LEMMA ClaimedImplies == TypeOK /\ Claimed => TransactionOwned /\ HandedOutOnce
BY DEF Claimed, HeldTaken, HeldApart, Holds, IsTakenRow, HandedOutOnce

\* The tables have one row for an identity, and the claims under way and the
\* requests that are held are of their kinds: an UPDATE of a claim finds the row
\* that its SELECT found, although the threads of a process share the connection.
THEOREM TablesTyped == Safety => []TypeOK
<1>1. Init => TypeOK /\ Claimed
  BY InitTypes, InitClaimed
<1>2. TypeOK /\ Claimed /\ [Next]_vars => (TypeOK /\ Claimed)'
  BY StepTypes, StepClaimed DEF Claimed
<1>3. TypeOK /\ Claimed => TypeOK
  OBVIOUS
<1> QED
  BY <1>1, <1>2, <1>3, PTL DEF Safety

\* db_get_next_pending_request: the transaction that is open on a connection
\* was begun by exactly one thread, who alone ends it, although the threads of
\* a process share the connection and others write between its calls.
THEOREM OneClaimAtATime == Safety => []TransactionOwned
<1>1. Init => TypeOK /\ Claimed
  BY InitTypes, InitClaimed
<1>2. TypeOK /\ Claimed /\ [Next]_vars => (TypeOK /\ Claimed)'
  BY StepTypes, StepClaimed DEF Claimed
<1>3. TypeOK /\ Claimed => TransactionOwned
  BY ClaimedImplies
<1> QED
  BY <1>1, <1>2, <1>3, PTL DEF Safety

\* A request is given to one worker at a time, over all processes and threads,
\* and the table says so, unless the COMMIT of a claim of its id was lost.
THEOREM OneWorkerPerRequest == Safety => []HandedOutOnce
<1>1. Init => TypeOK /\ Claimed
  BY InitTypes, InitClaimed
<1>2. TypeOK /\ Claimed /\ [Next]_vars => (TypeOK /\ Claimed)'
  BY StepTypes, StepClaimed DEF Claimed
<1>3. TypeOK /\ Claimed => HandedOutOnce
  BY ClaimedImplies
<1> QED
  BY <1>1, <1>2, <1>3, PTL DEF Safety

-----------------------------------------------------------------------------
(* A claim is one step of the pool *)

\* As long as no call has failed: what the open transaction took, it took for
\* the claim under way; a request that is done stays done, and was there before.
FaultsCounted == unrecorded # {} => failures > 0
TakenBefore ==
    \A k \in DOMAIN view : writer # None /\ view[k].status = Taken =>
       \/ k \in DOMAIN rows /\ rows[k].status = Taken
       \/ \E c \in Claimers : pc[c] = "committing" /\ picked[c] = k
DoneBefore ==
    writer # None /\ failures = 0 =>
       /\ \A k \in DOMAIN view \ DOMAIN rows : view[k].status # Done
       /\ \A k \in DOMAIN rows : rows[k].status = Done => view[k].status = Done
       /\ \A c \in Claimers : Picking(c) /\ picked[c] \in DOMAIN rows =>
             rows[picked[c]].status # Done

Clean == FaultsCounted /\ TakenBefore /\ DoneBefore

LEMMA InitClean == Init => Clean
BY DEF Init, Clean, FaultsCounted, TakenBefore, DoneBefore

\* Whatever is not committed is forgotten; a step that leaves table, claims and
\* failures alone keeps what is known of them.
LEMMA CleanIfFree == ASSUME writer' = None, FaultsCounted' PROVE Clean'
BY DEF Clean, TakenBefore, DoneBefore

LEMMA CleanKept ==
  ASSUME Clean, UNCHANGED <<rows, writer, view, unrecorded>>, failures \in Nat, failures' \in Nat,
         failures' >= failures,
         \A c \in Claimers : pc[c] = "committing" => pc'[c] = pc[c] /\ picked'[c] = picked[c],
         \A c \in Claimers : Picking(c)' => pc[c] = pc'[c] /\ picked'[c] = picked[c]
  PROVE  Clean'
<1>1. FaultsCounted'
  BY DEF Clean, FaultsCounted
<1>2. TakenBefore'
  BY DEF Clean, TakenBefore
<1>3. DoneBefore'
  BY DEF Clean, DoneBefore, Picking
<1> QED
  BY <1>1, <1>2, <1>3 DEF Clean

\* A write changes row k, which is taken when no call has failed, to done or
\* pending, and adds pending rows.
LEMMA WriteClean ==
  ASSUME TypeOK, Claimed, Clean,
         NEW p \in Processes, CanWrite(p), NEW t, Table(t), Write(p, t),
         UNCHANGED <<pc, picked, unrecorded, failures>>, NEW k,
         ChangedAt(Visible(p), k, t), NewRows(Visible(p), t),
         k \in DOMAIN Visible(p) => t[k].status # Taken,
         failures = 0 /\ k \in DOMAIN Visible(p) => k \in DOMAIN rows /\ rows[k].status = Taken
  PROVE  Clean'
<1>1. /\ writer' = writer
      /\ \/ writer = p /\ Visible(p) = view /\ view' = t /\ rows' = rows
         \/ writer = None /\ Visible(p) = rows /\ rows' = t /\ view' = view
  BY WriteTypes
<1>2. FaultsCounted'
  BY DEF Clean, FaultsCounted
<1>3. CASE writer = None
  BY <1>1, <1>2, <1>3, CleanIfFree
<1>4. CASE writer = p /\ Visible(p) = view /\ view' = t /\ rows' = rows
  <2>1. TakenBefore'
    <3> SUFFICES ASSUME NEW j \in DOMAIN t, t[j].status = Taken
                 PROVE  \/ j \in DOMAIN rows /\ rows[j].status = Taken
                        \/ \E c \in Claimers : pc[c] = "committing" /\ picked[c] = j
      BY <1>1, <1>4 DEF TakenBefore
    <3>1. j \in DOMAIN view
      BY <1>4 DEF NewRows
    <3>2. view[j].status = Taken
      BY <1>4, <3>1 DEF ChangedAt
    <3>3. writer # None
      BY <1>4
    <3> QED
      BY <3>1, <3>2, <3>3 DEF Clean, TakenBefore
  <2>2. DoneBefore'
    <3> SUFFICES ASSUME failures = 0 PROVE DoneBefore'
      BY DEF DoneBefore
    <3>1. DoneBefore /\ writer # None
      BY <1>4 DEF Clean
    <3>2. DOMAIN rows \subseteq DOMAIN view /\ DOMAIN view \subseteq DOMAIN t
      BY <1>4, <3>1 DEF Claimed, ViewGrows, ChangedAt
    <3>3. ASSUME NEW j \in DOMAIN t \ DOMAIN rows PROVE t[j].status # Done
      <4>1. CASE j \in DOMAIN view
        <5>1. j # k
          BY <1>4, <3>3, <4>1
        <5> QED
          BY <1>4, <3>1, <3>3, <4>1, <5>1 DEF DoneBefore, ChangedAt
      <4>2. CASE j \notin DOMAIN view
        BY <1>4, <3>3, <4>2 DEF NewRows
      <4> QED
        BY <4>1, <4>2
    <3>4. ASSUME NEW j \in DOMAIN rows, rows[j].status = Done PROVE t[j].status = Done
      <4>1. j \in DOMAIN view /\ j # k
        BY <1>4, <3>2, <3>4
      <4> QED
        BY <1>4, <3>1, <3>4, <4>1 DEF DoneBefore, ChangedAt
    <3> QED
      BY <1>1, <1>4, <3>1, <3>3, <3>4 DEF DoneBefore, Picking
  <2> QED
    BY <1>2, <2>1, <2>2 DEF Clean
<1> QED
  BY <1>1, <1>3, <1>4

LEMMA ClaimerClean ==
  ASSUME TypeOK, TypeOK', Claimed, Clean, NEW c \in Claimers, Claimer(c)
  PROVE  Clean'
<1>a. ASSUME NEW l, Goto(c, l)
      PROVE  pc'[c] = l /\ \A d \in Claimers \ {c} : pc'[d] = pc[d]
  BY <1>a, Owns DEF Claimed
<1>b. failures \in Nat /\ failures' \in Nat
  BY DEF TypeOK
<1>c. Claiming(c) => writer # None /\ \A d \in Claimers \ {c} : pc[d] = "idle"
  BY Owns DEF Claimed
<1>1. CASE Begin(c)
  <2>1. /\ view' = rows /\ UNCHANGED <<rows, picked, unrecorded, failures>>
        /\ pc'[c] = "selecting" /\ \A d \in Claimers \ {c} : pc'[d] = "idle"
    BY <1>1, <1>a, Owns DEF Begin, bounds, CanBegin, Claimed
  <2> QED
    BY <2>1 DEF Clean, FaultsCounted, TakenBefore, DoneBefore, Picking
<1>2. CASE BeginFails(c)
  BY <1>2, <1>b, CleanKept DEF BeginFails, vars, table, bounds, Picking
<1>3. CASE Select(c)
  <2>1. /\ UNCHANGED <<rows, writer, view, unrecorded, failures>> /\ writer # None
        /\ pc[c] = "selecting" /\ pc'[c] = "updating"
        /\ \A d \in Claimers \ {c} : pc'[d] = pc[d] /\ pc[d] = "idle"
        /\ picked'[c] \in DOMAIN view /\ view[picked'[c]].status = Pending
    BY <1>3, <1>a, <1>c DEF Select, table, bounds, Claiming, OldestRow, PendingRows, TypeOK
  <2>2. TakenBefore'
    BY <2>1 DEF Clean, TakenBefore
  <2>3. DoneBefore'
    BY <2>1 DEF Clean, DoneBefore, Picking
  <2>4. FaultsCounted'
    BY <2>1 DEF Clean, FaultsCounted
  <2> QED
    BY <2>2, <2>3, <2>4 DEF Clean
<1>4. CASE SelectFails(c) \/ UpdateFails(c)
  <2>1. /\ UNCHANGED <<rows, writer, view, unrecorded, picked>>
        /\ pc[c] # "committing" /\ pc'[c] = "failing"
        /\ \A d \in Claimers \ {c} : pc'[d] = pc[d]
    BY <1>4, <1>a DEF SelectFails, UpdateFails, table
  <2>2. failures' >= failures
    BY <1>4, <1>b DEF SelectFails, UpdateFails, Fails, bounds
  <2> QED
    BY <1>b, <2>1, <2>2, CleanKept DEF Picking
<1>5. CASE Update(c)
  <2>1. /\ UNCHANGED <<rows, writer, unrecorded, picked, failures>> /\ writer # None
        /\ pc[c] = "updating" /\ pc'[c] = "committing"
        /\ \A d \in Claimers \ {c} : pc'[d] = pc[d] /\ pc[d] = "idle"
    BY <1>5, <1>a, <1>c DEF Update, bounds, Claiming
  <2>2. picked[c] \in DOMAIN view
    BY <2>1 DEF Claimed, PickedApart, Picking
  <2>3. /\ DOMAIN view' = DOMAIN view /\ ChangedAt(view, picked[c], view')
        /\ view'[picked[c]].status = Taken
    <3>1. view' = WithStatus(view, picked[c], Taken) /\ Table(view) /\ Taken \in Statuses
      BY <1>5, <2>2, MarkTakenIs, TypesAreTables, StatusValues DEF Update
    <3> QED
      BY <2>2, <3>1, WithStatusChanges
  <2>4. TakenBefore'
    BY <2>1, <2>2, <2>3 DEF Clean, TakenBefore, ChangedAt
  <2>5. DoneBefore'
    <3> SUFFICES ASSUME failures = 0 PROVE DoneBefore'
      BY <2>1 DEF DoneBefore
    <3>1. picked[c] \in DOMAIN rows => rows[picked[c]].status # Done
      BY <2>1 DEF Clean, DoneBefore, Picking
    <3>2. \A k \in DOMAIN view' \ DOMAIN rows : view'[k].status # Done
      BY <2>1, <2>3 DEF Clean, DoneBefore, ChangedAt
    <3>3. DOMAIN rows \subseteq DOMAIN view
      BY <2>1 DEF Claimed, ViewGrows
    <3>4. \A k \in DOMAIN rows : rows[k].status = Done => view'[k].status = Done
      BY <2>1, <2>3, <3>1, <3>3 DEF Clean, DoneBefore, ChangedAt
    <3> QED
      BY <2>1, <3>1, <3>2, <3>4 DEF DoneBefore, Picking
  <2>6. FaultsCounted'
    BY <2>1 DEF Clean, FaultsCounted
  <2> QED
    BY <2>4, <2>5, <2>6 DEF Clean
<1>6. CASE Commit(c) \/ CommitFails(c) \/ Rollback(c)
  <2>1. writer' = None
    BY <1>6 DEF Commit, CommitFails, Rollback, HandOut
  <2>2. FaultsCounted'
    BY <1>6, <1>b DEF Commit, CommitFails, Rollback, Fails, bounds, Clean, FaultsCounted
  <2> QED
    BY <2>1, <2>2, CleanIfFree
<1>7. ASSUME NEW s \in {Pending, Done}, UpdateStatus(c, s) PROVE Clean'
  <2> DEFINE p == Process[c]
             k == held[c].id
  <2>1. PICK t : t = WithStatus(Visible(p), k, s)
    OBVIOUS
  <2>2. /\ held[c] # None /\ CanWrite(p) /\ Write(p, t)
        /\ UNCHANGED <<pc, picked, unrecorded, failures>>
    BY <1>7, <2>1 DEF UpdateStatus
  <2>3. p \in Processes /\ Table(Visible(p)) /\ s \in Statuses
    BY TypesAreTables, StatusValues DEF Visible
  <2>4. /\ Table(t) /\ DOMAIN t = DOMAIN Visible(p) /\ ChangedAt(Visible(p), k, t)
        /\ k \in DOMAIN Visible(p) => t[k].status = s
    BY <2>1, <2>3, WithStatusChanges
  <2>5. NewRows(Visible(p), t)
    BY <2>4 DEF NewRows
  <2>6. ASSUME failures = 0 PROVE k \in DOMAIN rows /\ rows[k].status = Taken
    <3>1. unrecorded = {}
      BY <2>6 DEF Clean, FaultsCounted
    <3>2. Holds(c)
      BY <2>2, <3>1 DEF Holds
    <3>3. IsTakenRow(rows, held[c])
      BY <3>2 DEF Claimed, HeldTaken
    <3> QED
      BY <3>3 DEF IsTakenRow
  <2> QED
    BY <2>2, <2>3, <2>4, <2>5, <2>6, WriteClean
<1>8. CASE UpdateStatusFails(c)
  BY <1>8, <1>b, CleanKept DEF UpdateStatusFails, table, bounds, Picking
<1> QED
  BY <1>1, <1>2, <1>3, <1>4, <1>5, <1>6, <1>7, <1>8 DEF Claimer

LEMMA StepClean == TypeOK /\ TypeOK' /\ Claimed /\ Clean /\ [Next]_vars => Clean'
<1> SUFFICES ASSUME TypeOK, TypeOK', Claimed, Clean, [Next]_vars PROVE Clean'
  OBVIOUS
<1>1. ASSUME NEW s \in Savers, NEW i \in Identities, SaveRequest(s, i) PROVE Clean'
  <2> DEFINE p == Process[s]
  <2>1. PICK t : t = Append(Visible(p), [identity |-> i, status |-> Pending])
    OBVIOUS
  <2>2. /\ CanWrite(p) /\ Write(p, t) /\ ~IsIn(Visible(p), i)
        /\ UNCHANGED <<pc, picked, unrecorded, failures>>
    BY <1>1, <2>1 DEF SaveRequest, bounds
  <2>3. p \in Processes /\ Table(Visible(p))
    BY TypesAreTables DEF Visible
  <2>4. Table(t) /\ ChangedAt(Visible(p), 0, t) /\ NewRows(Visible(p), t)
    BY <2>1, <2>2, <2>3, TableGrows
  <2>5. 0 \notin DOMAIN Visible(p)
    BY <2>3 DEF Table
  <2> QED
    BY <2>2, <2>3, <2>4, <2>5, WriteClean
<1>2. CASE UNCHANGED vars
  BY <1>2, CleanKept DEF vars, table, bounds, TypeOK, Picking
<1> QED
  BY <1>1, <1>2, ClaimerClean DEF Next

-----------------------------------------------------------------------------
(* The steps of the pool *)

\* What the pool says of the request in row k.
LEMMA RowState ==
  ASSUME NEW t, Table(t), NEW k \in DOMAIN t
  PROVE  /\ t[k].status = Pending => StateIn(t, t[k].identity) = "pending"
         /\ t[k].status = Taken => StateIn(t, t[k].identity) = "taken"
         /\ t[k].status = Done => StateIn(t, t[k].identity) = "finished"
<1>i. PICK i : i = t[k].identity
  OBVIOUS
<1> DEFINE n == CHOOSE j \in DOMAIN t : t[j].identity = i
<1>1. n = k
  <2>1. \A j \in DOMAIN t : t[j].identity = i => j = k
    BY <1>i DEF Table
  <2>2. n \in DOMAIN t /\ t[n].identity = i
    BY <1>i
  <2> QED
    BY <2>1, <2>2
<1>2. IsIn(t, i)
  BY <1>i DEF IsIn
<1>3. StateIn(t, i) = CASE t[n].status = Pending -> "pending"
                        [] t[n].status = Taken   -> "taken"
                        [] t[n].status = Done    -> "finished"
  BY <1>2 DEF StateIn
<1> HIDE DEF n
<1> QED
  BY <1>i, <1>1, <1>3

LEMMA NoRowState ==
  ASSUME NEW t, NEW i, ~IsIn(t, i)
  PROVE  StateIn(t, i) = "absent"
BY DEF StateIn

LEMMA StatusIs ==
  ASSUME NEW t, Table(t), NEW k \in DOMAIN t
  PROVE  t[k].identity \in Identities /\ t[k].status \in {Pending, Taken, Done}
<1>1. t[k] \in Rows
  BY DEF Table
<1> QED
  BY <1>1 DEF Rows, Statuses

\* The states of the pool are those of a table.
LEMMA StateTypes ==
  ASSUME NEW t, Table(t), NEW i \in Identities
  PROVE  StateIn(t, i) \in P!States
<1>1. CASE IsIn(t, i)
  <2>1. PICK k \in DOMAIN t : t[k].identity = i
    BY <1>1 DEF IsIn
  <2> QED
    BY <2>1, RowState, StatusIs DEF P!States
<1>2. CASE ~IsIn(t, i)
  BY <1>2, NoRowState DEF P!States
<1> QED
  BY <1>1, <1>2

\* A table that has the rows of another one, and differs from it in allowed
\* ways: the row k of request i was not taken, or no longer is.
MayBecome(i) ==
    \A k \in DOMAIN rows' : rows'[k].identity = i =>
       \/ k \in DOMAIN rows /\ rows'[k] = rows[k]
       \/ k \notin DOMAIN rows /\ rows'[k].status = Pending
       \/ /\ k \in DOMAIN rows \/ failures' > 0
          /\ rows'[k].status \in {Pending, Done}

RowsStay == /\ DOMAIN rows \subseteq DOMAIN rows'
            /\ \A k \in DOMAIN rows : rows'[k].identity = rows[k].identity

LEMMA OtherChanges ==
  ASSUME TypeOK, TypeOK', RowsStay, NEW i \in Identities, MayBecome(i)
  PROVE  P!OtherChange(i)
<1>t. Table(rows) /\ Table(rows')
  BY DEF TypeOK, Table
<1>1. CASE ~IsIn(rows', i)
  <2>1. ~IsIn(rows, i)
    BY <1>1 DEF IsIn, RowsStay
  <2> QED
    BY <1>1, <2>1, NoRowState DEF P!OtherChange
<1>2. CASE IsIn(rows', i)
  <2>1. PICK k \in DOMAIN rows' : rows'[k].identity = i
    BY <1>2 DEF IsIn
  <2>2. CASE k \in DOMAIN rows
    <3>1. rows[k].identity = i
      BY <2>1, <2>2 DEF RowsStay
    <3>2. StateIn(rows, i) # "absent"
      BY <1>t, <2>2, <3>1, RowState, StatusIs
    <3>3. CASE rows'[k] = rows[k]
      BY <1>t, <2>1, <2>2, <3>1, <3>3, RowState, StatusIs DEF P!OtherChange
    <3>4. CASE rows'[k].status \in {Pending, Done}
      <4>1. StateIn(rows', i) \in {"pending", "finished"}
        BY <1>t, <2>1, <3>4, RowState
      <4> QED
        BY <3>2, <4>1 DEF P!OtherChange
    <3> QED
      BY <2>1, <2>2, <3>3, <3>4 DEF MayBecome
  <2>3. CASE k \notin DOMAIN rows
    <3>1. ~IsIn(rows, i)
      <4>1. ASSUME NEW j \in DOMAIN rows, rows[j].identity = i PROVE FALSE
        BY <1>t, <2>1, <2>3, <4>1 DEF RowsStay, Table
      <4> QED
        BY <4>1 DEF IsIn
    <3>2. StateIn(rows, i) = "absent"
      BY <3>1, NoRowState
    <3>3. CASE rows'[k].status = Pending
      BY <1>t, <2>1, <3>2, <3>3, RowState DEF P!OtherChange
    <3>4. CASE failures' > 0 /\ rows'[k].status \in {Pending, Done}
      <4>1. StateIn(rows', i) \in {"pending", "finished"}
        BY <1>t, <2>1, <3>4, RowState
      <4> QED
        BY <3>4, <4>1 DEF P!OtherChange
    <3> QED
      BY <2>1, <2>3, <3>3, <3>4 DEF MayBecome
  <2> QED
    BY <2>2, <2>3
<1> QED
  BY <1>1, <1>2

\* Who has what, for the pool.
Holder == [c \in Claimers |-> IF held[c] = None THEN None ELSE held[c].identity]

LEMMA HolderChanges ==
  ASSUME TypeOK, NEW c \in Claimers, NEW h, held' = [held EXCEPT ![c] = h]
  PROVE  Holder' = [Holder EXCEPT ![c] = IF h = None THEN None ELSE h.identity]
<1>1. held'[c] = h /\ \A d \in Claimers \ {c} : held'[d] = held[d]
  BY DEF TypeOK
<1>2. \A d \in Claimers : Holder'[d] = IF d = c THEN IF h = None THEN None ELSE h.identity
                                       ELSE Holder[d]
  BY <1>1 DEF Holder
<1>3. /\ Holder' = [d \in Claimers |-> Holder'[d]]
      /\ Holder = [d \in Claimers |-> Holder[d]]
  BY DEF Holder
<1> QED
  BY ONLY <1>2, <1>3

\* A step that gives nothing out: the pool changes, or c is done with its job.
LEMMA PoolChanges ==
  ASSUME TypeOK, TypeOK', RowsStay, \A i \in Identities : MayBecome(i)
  PROVE  /\ held' = held => P!Next
         /\ \A c \in Claimers :
               held[c] # None /\ held' = [held EXCEPT ![c] = None] => P!Next
<1>1. P!Typed
  <2>1. Table(rows')
    BY DEF TypeOK, Table
  <2> QED
    BY <2>1, StateTypes DEF P!Typed
<1>2. \A i \in Identities : P!OtherChange(i)
  BY OtherChanges
<1>3. held' = held => P!Change
  BY <1>2 DEF P!Change
<1>4. ASSUME NEW c \in Claimers, held[c] # None, held' = [held EXCEPT ![c] = None]
      PROVE  P!Release(c)
  <2>1. held[c].identity # None
    BY <1>4 DEF TypeOK, Held
  <2>2. Holder[c] # None
    BY <1>4, <2>1 DEF Holder
  <2>3. Holder' = [Holder EXCEPT ![c] = None]
    BY <1>4, HolderChanges
  <2> QED
    BY <1>2, <2>2, <2>3 DEF P!Release, Holder
<1> QED
  BY <1>1, <1>3, <1>4 DEF P!Next

LEMMA RowsKept == ASSUME rows' = rows PROVE RowsStay /\ \A i \in Identities : MayBecome(i)
BY DEF RowsStay, MayBecome

LEMMA RowsWritten ==
  ASSUME TypeOK, NEW p \in Processes, CanWrite(p), NEW t, Table(t), Write(p, t), NEW k,
         ChangedAt(Visible(p), k, t), NewRows(Visible(p), t),
         k \in DOMAIN Visible(p) => t[k].status # Taken
  PROVE  RowsStay /\ \A i \in Identities : MayBecome(i)
<1>1. \/ rows' = rows
      \/ Visible(p) = rows /\ rows' = t
  BY WriteTypes
<1>2. CASE Visible(p) = rows /\ rows' = t
  <2>1. RowsStay
    BY <1>2 DEF RowsStay, ChangedAt
  <2>2. \A j \in DOMAIN t : t[j].status \in {Pending, Taken, Done}
    BY StatusIs
  <2> QED
    BY <1>2, <2>1, <2>2 DEF MayBecome, ChangedAt, NewRows
<1> QED
  BY <1>1, <1>2, RowsKept

\* COMMIT: the claim becomes visible, and with it what others did meanwhile.
LEMMA CommitRows ==
  ASSUME TypeOK, Claimed, Clean, NEW c \in Claimers, Commit(c)
  PROVE  /\ RowsStay
         /\ \A i \in Identities : i # view[picked[c]].identity => MayBecome(i)
         /\ failures > 0 /\ view[picked[c]].status # Taken
               => MayBecome(view[picked[c]].identity)
<1>1. /\ rows' = view /\ failures' = failures
      /\ pc[c] = "committing" /\ picked[c] \in DOMAIN view
      /\ writer # None /\ \A d \in Claimers \ {c} : pc[d] = "idle"
  BY Owns DEF Commit, bounds, Claimed, Claiming, PickedApart, Picking
<1>2. RowsStay
  BY <1>1 DEF RowsStay, Claimed, ViewGrows
<1>t. Table(rows) /\ Table(view)
  BY TypesAreTables
<1>3. ASSUME NEW m \in DOMAIN view, m # picked[c] \/ (failures > 0 /\ view[m].status # Taken)
      PROVE  \/ m \in DOMAIN rows /\ view[m] = rows[m]
             \/ m \notin DOMAIN rows /\ view[m].status = Pending
             \/ /\ m \in DOMAIN rows \/ failures > 0
                /\ view[m].status \in {Pending, Done}
  <2>1. CASE view[m].status = Taken
    <3>1. m \in DOMAIN rows /\ rows[m].status = Taken
      BY <1>1, <1>3, <2>1 DEF Clean, TakenBefore
    <3>2. view[m] \in Rows /\ rows[m] \in Rows /\ view[m].identity = rows[m].identity
      BY <1>1, <1>t, <3>1 DEF Table, Claimed, ViewGrows
    <3> QED
      BY <2>1, <3>1, <3>2 DEF Rows
  <2>2. CASE view[m].status = Pending
    BY <2>2
  <2>3. CASE view[m].status = Done
    <3>1. failures \in Nat
      BY DEF TypeOK
    <3>2. m \in DOMAIN rows \/ failures > 0
      BY <1>1, <2>3, <3>1 DEF Clean, DoneBefore
    <3> QED
      BY <2>3, <3>2
  <2> QED
    BY <1>t, <2>1, <2>2, <2>3, StatusIs
<1>4. \A i \in Identities : i # view[picked[c]].identity => MayBecome(i)
  BY <1>1, <1>3 DEF MayBecome
<1>5. ASSUME failures > 0, view[picked[c]].status # Taken
      PROVE  MayBecome(view[picked[c]].identity)
  BY <1>1, <1>t, <1>3, <1>5 DEF MayBecome, Table
<1> QED
  BY <1>2, <1>4, <1>5

LEMMA HandOutTakes ==
  ASSUME TypeOK, TypeOK', Claimed, Clean, NEW c \in Claimers, Commit(c) \/ CommitFails(c)
  PROVE  P!Next
<1>t. Table(rows) /\ Table(view) /\ Table(rows')
  BY TypesAreTables DEF TypeOK, Table
<1>1. /\ pc[c] = "committing" /\ HandOut(c)
      /\ held[c] = None /\ picked[c] \in DOMAIN view
      /\ writer # None /\ \A d \in Claimers \ {c} : pc[d] = "idle"
  BY Owns DEF Commit, CommitFails, Claimed, Claiming, ClaimersFree, PickedApart, Picking
<1>k. PICK k, j : k = picked[c] /\ j = view[k].identity
  OBVIOUS
<1>2. j \in Identities /\ j # None
  BY <1>t, <1>1, <1>k, StatusIs
<1>3. /\ held' = [held EXCEPT ![c] = [id |-> k, identity |-> j]]
      /\ [id |-> k, identity |-> j] # None
  BY <1>1, <1>k, HandOutTypes DEF HandOut
<1>4. P!Typed
  BY <1>t, StateTypes DEF P!Typed
<1>5. Holder[c] = None /\ Holder' = [Holder EXCEPT ![c] = j]
  <2>1. PICK h : h = [id |-> k, identity |-> j]
    OBVIOUS
  <2>2. Holder' = [Holder EXCEPT ![c] = IF h = None THEN None ELSE h.identity]
    BY <1>3, <2>1, HolderChanges
  <2>3. h # None /\ h.identity = j
    BY <1>3, <2>1
  <2>4. Holder[c] = None
    BY <1>1 DEF Holder
  <2> QED
    BY <2>2, <2>3, <2>4
<1>6. CASE CommitFails(c)
  <2>1. rows' = rows /\ failures' > 0
    BY <1>6, FailsTypes DEF CommitFails
  <2>2. \A i \in Identities : P!OtherChange(i)
    BY <2>1, RowsKept, OtherChanges
  <2>3. P!TakeAfterFault(c, j)
    BY <1>2, <1>5, <2>1, <2>2 DEF P!TakeAfterFault, Holder
  <2> QED
    BY <1>2, <1>4, <2>3 DEF P!Next
<1>7. CASE Commit(c) /\ failures > 0
  <2>1. rows' = view /\ failures' = failures
    BY <1>7 DEF Commit, bounds
  <2>2. \A i \in Identities \ {j} : P!OtherChange(i)
    BY <1>7, <1>k, CommitRows, OtherChanges
  <2>3. StateIn(view, j) = "taken" \/ P!OtherChange(j)
    <3>1. CASE view[k].status = Taken
      BY <1>t, <1>1, <1>k, <3>1, RowState
    <3>2. CASE view[k].status # Taken
      <4>1. MayBecome(j) /\ RowsStay
        BY <1>7, <1>k, <3>2, CommitRows
      <4> QED
        BY <1>2, <4>1, OtherChanges
    <3> QED
      BY <3>1, <3>2
  <2>4. P!TakeAfterFault(c, j)
    BY <1>2, <1>5, <1>7, <2>1, <2>2, <2>3 DEF P!TakeAfterFault, Holder
  <2> QED
    BY <1>2, <1>4, <2>4 DEF P!Next
<1>8. CASE Commit(c) /\ failures = 0
  <2>1. rows' = view /\ failures' = failures /\ unrecorded = {}
    BY <1>8 DEF Commit, bounds, Clean, FaultsCounted
  <2>2. \A i \in Identities \ {j} : P!OtherChange(i)
    BY <1>8, <1>k, CommitRows, OtherChanges
  <2>3. view[k].status = Taken /\ \A d \in Claimers : held[d] # None => held[d].id # k
    BY <1>1, <1>k, <2>1 DEF Claimed, PickedApart, Picking
  <2>4. StateIn(view, j) = "taken"
    BY <1>t, <1>1, <1>k, <2>3, RowState
  <2>5. \A d \in Claimers : Holder[d] # j
    <3> SUFFICES ASSUME NEW d \in Claimers, held[d] # None, held[d].identity = j PROVE FALSE
      BY <1>2 DEF Holder
    <3>1. Holds(d)
      BY <2>1 DEF Holds
    <3>2. IsTakenRow(view, held[d])
      BY <1>1, <3>1 DEF Claimed, HeldTaken
    <3>3. held[d].id \in DOMAIN view /\ view[held[d].id].identity = j
      BY <3>2 DEF IsTakenRow
    <3>4. held[d].id = k
      BY <1>t, <1>1, <1>k, <3>3 DEF Table
    <3> QED
      BY <2>3, <3>4
  <2>6. StateIn(rows, j) # "finished"
    <3>1. CASE k \in DOMAIN rows
      <4>1. rows[k].identity = j /\ rows[k].status # Done
        BY <1>1, <1>8, <1>k, <3>1 DEF Claimed, ViewGrows, Clean, DoneBefore, Picking
      <4> QED
        BY <1>t, <3>1, <4>1, RowState, StatusIs
    <3>2. CASE k \notin DOMAIN rows
      <4>1. ASSUME NEW m \in DOMAIN rows, rows[m].identity = j PROVE FALSE
        BY <1>t, <1>1, <1>k, <3>2, <4>1 DEF Claimed, ViewGrows, Table
      <4> QED
        BY <4>1, NoRowState DEF IsIn
    <3> QED
      BY <3>1, <3>2
  <2>7. P!Free(j)
    BY <2>5 DEF P!Free, Holder
  <2>8. P!Take(c, j)
    BY <1>2, <1>5, <2>1, <2>2, <2>4, <2>6, <2>7 DEF P!Take, Holder
  <2> QED
    BY <1>2, <1>4, <2>8 DEF P!Next
<1>9. failures \in Nat
  BY DEF TypeOK
<1> QED
  BY <1>6, <1>7, <1>8, <1>9

LEMMA StepPool ==
  TypeOK /\ TypeOK' /\ Claimed /\ Clean /\ [Next]_vars => [P!Next]_(P!vars)
<1> SUFFICES ASSUME TypeOK, TypeOK', Claimed, Clean, [Next]_vars PROVE P!Next
  OBVIOUS
<1>1. ASSUME UNCHANGED <<rows, held>> PROVE P!Next
  BY <1>1, RowsKept, PoolChanges
<1>2. ASSUME NEW c \in Claimers, Claimer(c) PROVE P!Next
  <2>1. CASE \/ Begin(c) \/ BeginFails(c) \/ Select(c) \/ SelectFails(c)
             \/ Update(c) \/ UpdateFails(c) \/ Rollback(c)
    BY <1>1, <2>1 DEF Begin, BeginFails, Select, SelectFails, Update, UpdateFails, Rollback,
       vars, table
  <2>2. ASSUME NEW s \in {Pending, Done}, UpdateStatus(c, s) PROVE P!Next
    <3> DEFINE p == Process[c]
               k == held[c].id
    <3>1. PICK t : t = WithStatus(Visible(p), k, s)
      OBVIOUS
    <3>2. /\ held[c] # None /\ CanWrite(p) /\ Write(p, t)
          /\ held' = [held EXCEPT ![c] = None]
      BY <2>2, <3>1 DEF UpdateStatus
    <3>3. p \in Processes /\ Table(Visible(p)) /\ s \in Statuses
      BY TypesAreTables, StatusValues DEF Visible
    <3>4. /\ Table(t) /\ DOMAIN t = DOMAIN Visible(p) /\ ChangedAt(Visible(p), k, t)
          /\ k \in DOMAIN Visible(p) => t[k].status = s
      BY <3>1, <3>3, WithStatusChanges
    <3>5. NewRows(Visible(p), t)
      BY <3>4 DEF NewRows
    <3>6. RowsStay /\ \A i \in Identities : MayBecome(i)
      BY <3>2, <3>3, <3>4, <3>5, RowsWritten
    <3> QED
      BY <3>2, <3>6, PoolChanges
  <2>3. CASE UpdateStatusFails(c)
    BY <2>3, RowsKept, PoolChanges DEF UpdateStatusFails, table
  <2> QED
    BY <1>2, <2>1, <2>2, <2>3, HandOutTakes DEF Claimer
<1>3. ASSUME NEW s \in Savers, NEW i \in Identities, SaveRequest(s, i) PROVE P!Next
  <2> DEFINE p == Process[s]
  <2>1. PICK t : t = Append(Visible(p), [identity |-> i, status |-> Pending])
    OBVIOUS
  <2>2. CanWrite(p) /\ Write(p, t) /\ ~IsIn(Visible(p), i) /\ held' = held
    BY <1>3, <2>1 DEF SaveRequest
  <2>3. p \in Processes /\ Table(Visible(p))
    BY TypesAreTables DEF Visible
  <2>4. Table(t) /\ ChangedAt(Visible(p), 0, t) /\ NewRows(Visible(p), t)
    BY <2>1, <2>2, <2>3, TableGrows
  <2>5. 0 \notin DOMAIN Visible(p)
    BY <2>3 DEF Table
  <2>6. RowsStay /\ \A j \in Identities : MayBecome(j)
    BY <2>2, <2>3, <2>4, <2>5, RowsWritten
  <2> QED
    BY <2>2, <2>6, PoolChanges
<1>4. CASE UNCHANGED vars
  BY <1>1, <1>4 DEF vars, table
<1> QED
  BY <1>2, <1>3, <1>4 DEF Next

LEMMA InitPool == Init => P!Init
<1> SUFFICES ASSUME Init PROVE P!Init
  OBVIOUS
<1>1. Table(rows) /\ \A k \in DOMAIN rows : rows[k].status = Pending
  BY InitTypes DEF Init, TypeOK, Table
<1>2. ASSUME NEW i \in Identities PROVE StateIn(rows, i) \in {"absent", "pending"}
  <2>1. CASE IsIn(rows, i)
    BY <1>1, <2>1, RowState DEF IsIn
  <2> QED
    BY <2>1, NoRowState
<1> QED
  BY <1>2 DEF P!Init, Init

\* A claim makes several calls to SQLite, and threads on its connection and on
\* others come in between; the whole of it is one step that takes a request out
\* of the pool, or none, and a request that is there never disappears.
THEOREM ClaimsAreSteps == Safety => ImplementsPool
<1>1. Init => TypeOK /\ Claimed /\ Clean
  BY InitTypes, InitClaimed, InitClean
<1>2. TypeOK /\ Claimed /\ Clean /\ [Next]_vars => (TypeOK /\ Claimed /\ Clean)'
  BY StepTypes, StepClaimed, StepClean DEF Claimed
<1>3. TypeOK /\ TypeOK' /\ Claimed /\ Clean /\ [Next]_vars => [P!Next]_(P!vars)
  BY StepPool
<1> QED
  BY <1>1, <1>2, <1>3, InitPool, PTL DEF Safety, ImplementsPool, P!Safety
=============================================================================
