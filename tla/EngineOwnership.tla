-------------------------- MODULE EngineOwnership --------------------------
(***************************************************************************)
(* Who holds a case, for every value of the constants: each of its task,   *)
(* its response and its answer is in one place of the pipeline at most, so *)
(* that it is stored once, freed once, and not used after; and with it,    *)
(* when the cases differ, that a case is given its own answer; and in what *)
(* order one HTTP worker answers them.                                     *)
(***************************************************************************)
EXTENDS EngineInvariants, FiniteSetTheorems

USE CasesAssumption, ThreadsAssumption, PlanAssumption

-----------------------------------------------------------------------------
(* Seats *)

\* A case can be with a thread, in a queue, or in the table of responses.
Seat(c) == <<"thread", c>>
Line(q) == <<"queue", q>>
Table   == <<"table", "responses">>
Seats   == {Seat(c) : c \in Consumers} \cup {Line(q) : q \in Queues} \cup {Table}

\* The cases at each seat, when a thread holds its case at the given labels,
\* and when only the given queues and rows count.
Taken(c, labels) == IF pc[c] \in labels THEN {job[c]} ELSE {}
Queued(q, lines) == IF q \in lines THEN Range(queue[q]) ELSE {}

At(labels, lines, rows) ==
    [s \in Seats |-> CASE s[1] = "thread" -> Taken(s[2], labels)
                       [] s[1] = "queue"  -> Queued(s[2], lines)
                       [] s[1] = "table"  -> rows]

LEMMA AtSeats ==
  ASSUME NEW labels, NEW lines, NEW rows
  PROVE  /\ \A c \in Consumers : At(labels, lines, rows)[Seat(c)] = Taken(c, labels)
         /\ \A q \in Queues : At(labels, lines, rows)[Line(q)] = Queued(q, lines)
         /\ At(labels, lines, rows)[Table] = rows
         /\ \A c \in Consumers : Seat(c) \in Seats
         /\ \A q \in Queues : Line(q) \in Seats
         /\ Table \in Seats
<1>1. ASSUME NEW c \in Consumers PROVE Seat(c) \in Seats /\ Seat(c)[1] = "thread" /\ Seat(c)[2] = c
  BY DEF Seats, Seat
<1>2. ASSUME NEW q \in Queues PROVE Line(q) \in Seats /\ Line(q)[1] = "queue" /\ Line(q)[2] = q
  BY DEF Seats, Line
<1>3. Table \in Seats /\ Table[1] = "table"
  BY DEF Seats, Table
<1> QED
  BY <1>1, <1>2, <1>3 DEF At

LEMMA AtSeatsNext ==
  ASSUME NEW labels, NEW lines, NEW rows
  PROVE  /\ \A c \in Consumers : At(labels, lines, rows)'[Seat(c)] = Taken(c, labels)'
         /\ \A q \in Queues : At(labels, lines, rows)'[Line(q)] = Queued(q, lines)'
         /\ At(labels, lines, rows)'[Table] = rows
<1>1. ASSUME NEW c \in Consumers PROVE Seat(c) \in Seats /\ Seat(c)[1] = "thread" /\ Seat(c)[2] = c
  BY DEF Seats, Seat
<1>2. ASSUME NEW q \in Queues PROVE Line(q) \in Seats /\ Line(q)[1] = "queue" /\ Line(q)[2] = q
  BY DEF Seats, Line
<1>3. Table \in Seats /\ Table[1] = "table"
  BY DEF Seats, Table
<1> QED
  BY <1>1, <1>2, <1>3 DEF At

LEMMA AtBoth ==
  ASSUME NEW labels, NEW lines, NEW rows, NEW H, NEW G,
         H = At(labels, lines, rows), G = At(labels, lines, rows)'
  PROVE  /\ \A c \in Consumers : Seat(c) \in Seats /\ H[Seat(c)] = Taken(c, labels)
         /\ \A c \in Consumers : G[Seat(c)] = Taken(c, labels)'
         /\ \A r \in Queues : H[Line(r)] = Queued(r, lines)
         /\ \A r \in Queues : G[Line(r)] = Queued(r, lines)'
<1>1. ASSUME NEW c \in Consumers
      PROVE  Seat(c) \in Seats /\ H[Seat(c)] = Taken(c, labels)
  BY AtSeats
<1>2. ASSUME NEW c \in Consumers PROVE G[Seat(c)] = Taken(c, labels)'
  BY AtSeatsNext
<1>3. ASSUME NEW r \in Queues PROVE H[Line(r)] = Queued(r, lines)
  BY AtSeats
<1>4. ASSUME NEW r \in Queues PROVE G[Line(r)] = Queued(r, lines)'
  BY AtSeatsNext
<1> QED
  BY <1>1, <1>2, <1>3, <1>4

LEMMA OtherSeats ==
  /\ \A c, d \in Consumers : Seat(c) = Seat(d) => c = d
  /\ \A q, r \in Queues : Line(q) = Line(r) => q = r
  /\ \A c \in Consumers, q \in Queues : Seat(c) # Line(q)
  /\ \A c \in Consumers : Seat(c) # Table
  /\ \A q \in Queues : Line(q) # Table
BY DEF Seat, Line, Table

Apart(H) == \A s, t \in Seats : s # t => H[s] \cap H[t] = {}

\* A case that moves from one seat to another, enters or leaves.
Moves(H, G, i, to) == /\ \A s \in Seats \ {to} : G[s] \subseteq H[s] \ {i}
                      /\ G[to] \subseteq H[to] \cup {i}

LEMMA MoveApart ==
  ASSUME NEW H, NEW G, Apart(H), NEW to \in Seats, NEW i, Moves(H, G, i, to)
  PROVE  Apart(G)
<1> USE DEF Moves
<1> SUFFICES ASSUME NEW s \in Seats, NEW t \in Seats, s # t, NEW x \in G[s] \cap G[t] PROVE FALSE
  BY DEF Apart
<1>1. CASE s # to /\ t # to
  BY <1>1 DEF Apart
<1>2. CASE s = to \/ t = to
  BY <1>2 DEF Apart
<1> QED
  BY <1>1, <1>2

LEMMA FewerApart ==
  ASSUME NEW H, NEW G, Apart(H), \A s \in Seats : G[s] \subseteq H[s]
  PROVE  Apart(G)
BY DEF Apart

Distinct(s) == \A a, b \in DOMAIN s : s[a] = s[b] => a = b

LEMMA TailDistinct ==
  ASSUME NEW s \in Seq(Cases), s # <<>>, Distinct(s)
  PROVE  /\ Tail(s) \in Seq(Cases) /\ Distinct(Tail(s))
         /\ Range(Tail(s)) \subseteq Range(s) \ {Head(s)}
         /\ Head(s) \in Range(s)
<1>1. /\ Len(s) \in Nat \ {0} /\ DOMAIN s = 1 .. Len(s)
      /\ Tail(s) \in Seq(Cases) /\ Len(Tail(s)) = Len(s) - 1 /\ Head(s) = s[1]
      /\ \A i \in 1 .. Len(Tail(s)) : Tail(s)[i] = s[i + 1]
  BY HeadTailProperties, LenProperties, EmptySeq
<1>2. DOMAIN Tail(s) = 1 .. Len(s) - 1
  BY <1>1, LenProperties
<1>3. Distinct(Tail(s))
  <2> SUFFICES ASSUME NEW a \in 1 .. Len(s) - 1, NEW b \in 1 .. Len(s) - 1, s[a + 1] = s[b + 1]
               PROVE  a = b
    BY <1>1, <1>2 DEF Distinct
  <2>1. a + 1 \in DOMAIN s /\ b + 1 \in DOMAIN s
    BY <1>1
  <2>2. a + 1 = b + 1
    BY <2>1 DEF Distinct
  <2> QED
    BY <2>2
<1>4. ASSUME NEW x \in Range(Tail(s)) PROVE x \in Range(s) \ {Head(s)}
  <2>1. PICK i \in 1 .. Len(s) - 1 : x = s[i + 1]
    BY <1>1, <1>2, <1>4 DEF Range
  <2>2. i + 1 \in DOMAIN s /\ 1 \in DOMAIN s /\ i + 1 # 1
    BY <1>1
  <2> QED
    BY <1>1, <2>1, <2>2 DEF Range, Distinct
<1>5. Head(s) \in Range(s)
  BY <1>1 DEF Range
<1> QED
  BY <1>1, <1>3, <1>4, <1>5

LEMMA AppendDistinct ==
  ASSUME NEW s \in Seq(Cases), NEW i \in Cases
  PROVE  /\ Range(Append(s, i)) = Range(s) \cup {i}
         /\ Distinct(s) /\ i \notin Range(s) => Distinct(Append(s, i))
<1>1. /\ Len(s) \in Nat /\ DOMAIN s = 1 .. Len(s)
      /\ Append(s, i) \in Seq(Cases) /\ DOMAIN Append(s, i) = 1 .. Len(s) + 1
      /\ \A k \in 1 .. Len(s) : Append(s, i)[k] = s[k]
      /\ Append(s, i)[Len(s) + 1] = i
  BY AppendProperties, LenProperties
<1>2. Range(Append(s, i)) = Range(s) \cup {i}
  BY <1>1 DEF Range
<1>3. ASSUME Distinct(s), i \notin Range(s), NEW a \in 1 .. Len(s) + 1, NEW b \in 1 .. Len(s) + 1,
             Append(s, i)[a] = Append(s, i)[b]
      PROVE  a = b
  <2>1. CASE a \in 1 .. Len(s) /\ b \in 1 .. Len(s)
    BY <1>1, <1>3, <2>1 DEF Distinct
  <2>2. CASE a = Len(s) + 1 /\ b \in 1 .. Len(s)
    BY <1>1, <1>3, <2>2 DEF Range
  <2>3. CASE b = Len(s) + 1 /\ a \in 1 .. Len(s)
    BY <1>1, <1>3, <2>3 DEF Range
  <2>4. CASE a = Len(s) + 1 /\ b = Len(s) + 1
    BY <2>4
  <2>5. \A k \in 1 .. Len(s) + 1 : k \in 1 .. Len(s) \/ k = Len(s) + 1
    BY <1>1
  <2> QED
    BY <2>1, <2>2, <2>3, <2>4, <2>5
<1> QED
  BY <1>1, <1>2, <1>3 DEF Distinct

-----------------------------------------------------------------------------
(* Steps, as the seats see them *)

\* Nobody is at two seats, and only what was submitted has one.
Spread(labels, lines, rows) ==
    /\ Apart(At(labels, lines, rows))
    /\ \A s \in Seats : At(labels, lines, rows)[s] \subseteq submitted

\* One of queue_pop's callers goes on with the case it was given.
LEMMA PopSpread ==
  ASSUME TypeOK, \A q \in Queues : Distinct(queue[q]),
         NEW labels, NEW lines, NEW rows, "idle" \notin labels, Spread(labels, lines, rows),
         NEW c \in Consumers, NEW q \in lines, lines \subseteq Queues, NEW l \in labels,
         Pop(c, q, l), submitted' = submitted
  PROVE  Spread(labels, lines, rows)'
<1>1. PICK i : i = Head(queue[q])
  OBVIOUS
<1>2. PICK H, G : H = At(labels, lines, rows) /\ G = At(labels, lines, rows)'
  OBVIOUS
<1>h. /\ \A c1 \in Consumers : Seat(c1) \in Seats /\ H[Seat(c1)] = Taken(c1, labels)
      /\ \A c1 \in Consumers : G[Seat(c1)] = Taken(c1, labels)'
      /\ \A r \in Queues : H[Line(r)] = Queued(r, lines)
      /\ \A r \in Queues : G[Line(r)] = Queued(r, lines)'
  BY <1>2, AtBoth
<1>3. queue[q] \in Seq(Cases) /\ queue[q] # <<>> /\ q \in Queues
  BY DEF TypeOK, ObjectTypes, Pop
<1>4. Range(Tail(queue[q])) \subseteq Range(queue[q]) \ {i} /\ i \in Range(queue[q])
  BY <1>1, <1>3, TailDistinct
<1>5. /\ pc'[c] = l /\ job'[c] = i /\ queue'[q] = Tail(queue[q])
      /\ \A d \in Consumers \ {c} : pc'[d] = pc[d] /\ job'[d] = job[d]
      /\ \A r \in Queues \ {q} : queue'[r] = queue[r]
  BY <1>1, <1>3 DEF Pop, Goto, Rest, TypeOK, ThreadTypes, ObjectTypes, Threads
<1>6. /\ Seat(c) \in Seats /\ Line(q) \in Seats
      /\ H[Line(q)] = Range(queue[q]) /\ G[Seat(c)] = {i}
      /\ G[Line(q)] \subseteq H[Line(q)] \ {i}
  <2>1. H[Line(q)] = Queued(q, lines) /\ G[Line(q)] = Queued(q, lines)' /\ G[Seat(c)] = Taken(c, labels)'
    BY <1>3, <1>h
  <2>2. Queued(q, lines) = Range(queue[q]) /\ Queued(q, lines)' = Range(Tail(queue[q]))
    BY <1>5 DEF Queued
  <2>3. Taken(c, labels)' = {i}
    BY <1>5 DEF Taken
  <2>4. Seat(c) \in Seats /\ Line(q) \in Seats
    BY <1>3, AtSeats
  <2> QED
    BY <1>4, <2>1, <2>2, <2>3, <2>4
<1>7. ASSUME NEW s \in Seats, s # Seat(c), s # Line(q) PROVE G[s] = H[s]
  <2>1. CASE s = Table
    BY <1>2, <2>1 DEF At, Table
  <2>2. ASSUME NEW d \in Consumers, s = Seat(d) PROVE G[s] = H[s]
    <3>1. d # c
      BY <1>7, <2>2
    <3>2. Taken(d, labels)' = Taken(d, labels)
      BY <1>5, <3>1 DEF Taken
    <3> QED
      BY <1>h, <2>2, <3>2
  <2>3. ASSUME NEW r \in Queues, s = Line(r) PROVE G[s] = H[s]
    <3>1. r # q
      BY <1>7, <2>3
    <3>2. Queued(r, lines)' = Queued(r, lines)
      BY <1>5, <3>1 DEF Queued
    <3> QED
      BY <1>h, <2>3, <3>2
  <2> QED
    BY <2>1, <2>2, <2>3 DEF Seats
<1>8. \A s \in Seats \ {Seat(c)} : G[s] \subseteq H[s] \ {i}
  <2> SUFFICES ASSUME NEW s \in Seats, s # Seat(c), s # Line(q) PROVE G[s] \subseteq H[s] \ {i}
    BY <1>6
  <2>1. H[s] \cap H[Line(q)] = {}
    BY <1>2, <1>6 DEF Spread, Apart
  <2> QED
    BY <1>4, <1>6, <1>7, <2>1
<1>9. Apart(G)
  <2>1. Apart(H)
    BY <1>2 DEF Spread
  <2>2. Moves(H, G, i, Seat(c)) /\ Seat(c) \in Seats
    BY <1>6, <1>8 DEF Moves
  <2> QED
    BY ONLY <2>1, <2>2, MoveApart
<1>10. \A s \in Seats : G[s] \subseteq submitted
  <2>1. i \in submitted
    BY <1>2, <1>4, <1>6 DEF Spread
  <2>2. \A s \in Seats : H[s] \subseteq submitted
    BY <1>2 DEF Spread
  <2>3. G[Seat(c)] = {i}
    BY <1>6
  <2> QED
    BY ONLY <1>8, <2>1, <2>2, <2>3
<1> QED
  BY <1>2, <1>9, <1>10 DEF Spread

\* Nothing comes to a seat: a thread goes on with its case or is done with it,
\* the queues that count are as they were, or lose something.
LEMMA QuietSpread ==
  ASSUME NEW labels, NEW lines, NEW rows, Spread(labels, lines, rows),
         \A c \in Consumers : pc'[c] \in labels => pc[c] \in labels /\ job'[c] = job[c],
         \A q \in Queues \cap lines : Range(queue'[q]) \subseteq Range(queue[q]),
         submitted \subseteq submitted'
  PROVE  Spread(labels, lines, rows)'
<1>1. PICK H, G : H = At(labels, lines, rows) /\ G = At(labels, lines, rows)'
  OBVIOUS
<1>h. /\ \A c1 \in Consumers : Seat(c1) \in Seats /\ H[Seat(c1)] = Taken(c1, labels)
      /\ \A c1 \in Consumers : G[Seat(c1)] = Taken(c1, labels)'
      /\ \A r \in Queues : H[Line(r)] = Queued(r, lines)
      /\ \A r \in Queues : G[Line(r)] = Queued(r, lines)'
  BY <1>1, AtBoth
<1>2. ASSUME NEW s \in Seats PROVE G[s] \subseteq H[s]
  <2>1. CASE s = Table
    BY <1>1, <2>1 DEF At, Table
  <2>2. ASSUME NEW d \in Consumers, s = Seat(d) PROVE G[s] \subseteq H[s]
    <3>1. Taken(d, labels)' \subseteq Taken(d, labels)
      BY DEF Taken
    <3> QED
      BY <1>h, <2>2, <3>1
  <2>3. ASSUME NEW r \in Queues, s = Line(r) PROVE G[s] \subseteq H[s]
    <3>1. Queued(r, lines)' \subseteq Queued(r, lines)
      BY DEF Queued
    <3> QED
      BY <1>h, <2>3, <3>1
  <2> QED
    BY <2>1, <2>2, <2>3 DEF Seats
<1>3. Apart(G)
  BY <1>1, <1>2, FewerApart DEF Spread
<1> QED
  BY <1>1, <1>2, <1>3 DEF Spread

\* A case comes to the end of a queue, from nowhere or from a thread.
Enters(i) == i \notin submitted /\ UNCHANGED job /\ \A c \in Consumers : pc'[c] = pc[c]

Leaves(i, labels) ==
    \E c \in Consumers : /\ pc[c] \in labels /\ job[c] = i /\ pc'[c] \notin labels
                         /\ \A d \in Consumers \ {c} : pc'[d] = pc[d] /\ job'[d] = job[d]

LEMMA PushSpread ==
  ASSUME TypeOK, NEW labels, NEW lines, NEW rows, Spread(labels, lines, rows),
         NEW q \in lines, lines \subseteq Queues, NEW i \in Cases, Push(q, i),
         Enters(i) \/ Leaves(i, labels),
         submitted' = submitted \cup {i}
  PROVE  Spread(labels, lines, rows)'
<1>1. PICK H, G : H = At(labels, lines, rows) /\ G = At(labels, lines, rows)'
  OBVIOUS
<1>h. /\ \A c1 \in Consumers : Seat(c1) \in Seats /\ H[Seat(c1)] = Taken(c1, labels)
      /\ \A c1 \in Consumers : G[Seat(c1)] = Taken(c1, labels)'
      /\ \A r \in Queues : H[Line(r)] = Queued(r, lines)
      /\ \A r \in Queues : G[Line(r)] = Queued(r, lines)'
  BY <1>1, AtBoth
<1>2. /\ Line(q) \in Seats /\ H[Line(q)] = Range(queue[q]) /\ G[Line(q)] = H[Line(q)] \cup {i}
      /\ \A r \in Queues \ {q} : queue'[r] = queue[r]
  <2>1. q \in Queues /\ queue[q] \in Seq(Cases)
    BY DEF TypeOK, ObjectTypes
  <2>2. queue'[q] = Append(queue[q], i) /\ \A r \in Queues \ {q} : queue'[r] = queue[r]
    BY <2>1 DEF Push, AtBack, TypeOK, ObjectTypes
  <2>3. Range(queue'[q]) = Range(queue[q]) \cup {i}
    BY <2>1, <2>2, AppendDistinct
  <2> QED
    <3>1. Queued(q, lines) = Range(queue[q]) /\ Queued(q, lines)' = Range(queue'[q])
      BY DEF Queued
    <3> QED
      BY <1>h, <2>1, <2>2, <2>3, <3>1, AtSeats
<1>3. ASSUME NEW s \in Seats, s # Line(q) PROVE G[s] \subseteq H[s] \ {i}
  <2>1. CASE s = Table \/ \E r \in Queues : s = Line(r)
    <3>1. G[s] = H[s]
      <4>1. CASE s = Table
        BY <1>1, <4>1 DEF At, Table
      <4>2. ASSUME NEW r \in Queues, s = Line(r) PROVE G[s] = H[s]
        <5>1. r # q
          BY <1>3, <4>2
        <5>2. Queued(r, lines)' = Queued(r, lines)
          BY <1>2, <5>1 DEF Queued
        <5> QED
          BY <1>h, <4>2, <5>2
      <4> QED
        BY <2>1, <4>1, <4>2
    <3>2. i \notin H[s]
      <4>1. CASE i \notin submitted
        BY <1>1, <4>1 DEF Spread
      <4>2. ASSUME NEW c \in Consumers, pc[c] \in labels, job[c] = i PROVE i \notin H[s]
        <5>1. i \in H[Seat(c)] /\ Seat(c) \in Seats
          BY <1>h, <4>2 DEF Taken
        <5>2. s # Seat(c)
          BY <2>1, OtherSeats
        <5> QED
          BY <1>1, <5>1, <5>2 DEF Spread, Apart
      <4> QED
        BY <4>1, <4>2 DEF Enters, Leaves
    <3> QED
      BY <3>1, <3>2
  <2>2. ASSUME NEW d \in Consumers, s = Seat(d) PROVE G[s] \subseteq H[s] \ {i}
    <3>1. /\ H[s] = Taken(d, labels) /\ G[s] = Taken(d, labels)'
          /\ Taken(d, labels) = IF pc[d] \in labels THEN {job[d]} ELSE {}
          /\ Taken(d, labels)' = IF pc'[d] \in labels THEN {job'[d]} ELSE {}
      <4>1. H[s] = Taken(d, labels) /\ G[s] = Taken(d, labels)'
        BY <1>h, <2>2
      <4> QED
        BY <4>1 DEF Taken
    <3>2. CASE Enters(i)
      <4>1. i \notin H[s]
        BY <1>1, <3>2 DEF Spread, Enters
      <4> QED
        BY <3>1, <3>2, <4>1 DEF Enters
    <3>3. ASSUME NEW c \in Consumers, pc[c] \in labels, job[c] = i, pc'[c] \notin labels,
                 \A e \in Consumers \ {c} : pc'[e] = pc[e] /\ job'[e] = job[e]
          PROVE  G[s] \subseteq H[s] \ {i}
      <4>1. CASE c = d
        BY <3>1, <3>3, <4>1
      <4>2. CASE c # d
        <5>1. i \in H[Seat(c)] /\ Seat(c) \in Seats
          BY <1>h, <3>3 DEF Taken
        <5>3. s # Seat(c)
          BY <2>2, <4>2, OtherSeats
        <5>2. i \notin H[s]
          BY <1>1, <5>1, <5>3 DEF Spread, Apart
        <5> QED
          BY <3>1, <3>3, <4>2, <5>2
      <4> QED
        BY <4>1, <4>2
    <3> QED
      BY <3>2, <3>3 DEF Leaves
  <2> QED
    BY <2>1, <2>2 DEF Seats
<1>4. Apart(G)
  <2>1. PICK to : to = Line(q)
    OBVIOUS
  <2>2. Apart(H) /\ to \in Seats /\ G[to] \subseteq H[to] \cup {i}
    BY <1>1, <1>2, <2>1 DEF Spread
  <2>3. \A s \in Seats \ {to} : G[s] \subseteq H[s] \ {i}
    BY <1>3, <2>1
  <2>4. ASSUME NEW s \in Seats, NEW t \in Seats, s # t PROVE G[s] \cap G[t] = {}
    <3>1. H[s] \cap H[t] = {}
      BY <2>2, <2>4 DEF Apart
    <3>2. CASE s = to
      BY <2>2, <2>3, <2>4, <3>1, <3>2
    <3>3. CASE t = to
      BY <2>2, <2>3, <2>4, <3>1, <3>3
    <3>4. CASE s # to /\ t # to
      BY <2>3, <2>4, <3>1, <3>4
    <3> QED
      BY <3>2, <3>3, <3>4
  <2> QED
    BY <2>4 DEF Apart
<1>5. ASSUME NEW s \in Seats PROVE G[s] \subseteq submitted'
  <2>1. H[s] \subseteq submitted
    BY <1>1 DEF Spread
  <2> QED
    BY <1>2, <1>3, <2>1
<1> QED
  BY <1>1, <1>4, <1>5 DEF Spread

\* The DB worker puts the answer of its case into the table.
LEMMA InsertSpread ==
  ASSUME NEW labels, NEW lines, NEW rows, Spread(labels, lines, rows),
         NEW c \in Consumers, NEW i, pc[c] \in labels, job[c] = i, pc'[c] \notin labels,
         \A d \in Consumers \ {c} : pc'[d] = pc[d],
         UNCHANGED <<job, queue, submitted>>
  PROVE  Spread(labels, lines, rows \cup {i})'
<1>1. PICK H, G : H = At(labels, lines, rows) /\ G = At(labels, lines, rows \cup {i})'
  OBVIOUS
<1>2. \A d \in Consumers : H[Seat(d)] = Taken(d, labels) /\ Seat(d) \in Seats
  BY <1>1, AtSeats
<1>3. \A d \in Consumers : G[Seat(d)] = Taken(d, labels)'
  BY <1>1, AtSeatsNext
<1>4. i \in H[Seat(c)] /\ Seat(c) \in Seats
  BY <1>2 DEF Taken
<1>5. H[Table] = rows /\ G[Table] = rows \cup {i} /\ Table \in Seats /\ Table # Seat(c)
  BY <1>1, AtSeats, AtSeatsNext, OtherSeats
<1>6. ASSUME NEW s \in Seats, s # Table PROVE G[s] \subseteq H[s] \ {i}
  <2>1. ASSUME NEW r \in Queues, s = Line(r) PROVE G[s] \subseteq H[s] \ {i}
    <3>1. H[s] = Queued(r, lines) /\ G[s] = Queued(r, lines)'
      BY <1>1, <2>1, AtSeats, AtSeatsNext
    <3>2. Queued(r, lines)' = Queued(r, lines)
      BY DEF Queued
    <3>3. s # Seat(c)
      BY <2>1, OtherSeats
    <3>4. i \notin H[s]
      BY <1>1, <1>4, <3>3 DEF Spread, Apart
    <3> QED
      BY <3>1, <3>2, <3>4
  <2>2. ASSUME NEW d \in Consumers, s = Seat(d), d # c PROVE G[s] \subseteq H[s] \ {i}
    <3>1. H[s] = Taken(d, labels) /\ G[s] = Taken(d, labels)'
      BY <1>2, <1>3, <2>2
    <3>2. Taken(d, labels)' = Taken(d, labels)
      BY <2>2 DEF Taken
    <3>3. s # Seat(c)
      BY <2>2, OtherSeats
    <3>4. i \notin H[s]
      BY <1>1, <1>4, <3>3 DEF Spread, Apart
    <3> QED
      BY <3>1, <3>2, <3>4
  <2>3. ASSUME s = Seat(c) PROVE G[s] = {}
    <3>1. Taken(c, labels)' = {}
      BY DEF Taken
    <3> QED
      BY <1>3, <2>3, <3>1
  <2> QED
    BY <1>6, <2>1, <2>2, <2>3 DEF Seats
<1>7. Apart(G)
  <2>1. Apart(H) /\ G[Table] \subseteq H[Table] \cup {i}
    BY <1>1, <1>5 DEF Spread
  <2>2. Moves(H, G, i, Table) /\ Table \in Seats
    BY <1>5, <1>6, <2>1 DEF Moves
  <2> QED
    BY ONLY <2>1, <2>2, MoveApart
<1>8. ASSUME NEW s \in Seats PROVE G[s] \subseteq submitted'
  <2>1. H[s] \subseteq submitted /\ H[Seat(c)] \subseteq submitted
    BY <1>1, <1>4 DEF Spread
  <2> QED
    BY <1>4, <1>5, <1>6, <2>1
<1> QED
  BY <1>1, <1>7, <1>8 DEF Spread

-----------------------------------------------------------------------------
(* The inductive invariant *)

\* While a case has a task, a response, and an answer not stored yet.
ResponseLabels == {"setup", "performing", "pushing", "forwarding"} \cup DbLabels

Origins == {responses[k].origin : k \in DOMAIN responses} \ {0}

TasksSpread     == Spread(WorkerLabels, {"request"}, {})
ResponsesSpread == Spread(ResponseLabels, Queues, {})
AnswersSpread   == Spread(AnswerLabels, Queues, Origins)

QueuesDistinct == \A q \in Queues : Distinct(queue[q])
RowsDistinct   == \A j, k \in DOMAIN responses :
                     responses[j].origin = responses[k].origin /\ responses[j].origin # 0 => j = k

\* The case main holds, or will make next, was not submitted.
NotYetSubmitted ==
    /\ held # {} => pc[Main] \in {"dispatching", "cleanup"}
    /\ held # {} \/ pc[Main] \in {"starting", "creating", "submitting", "dispatching"} =>
          \A i \in submitted : i < current

Owned == /\ TasksSpread /\ ResponsesSpread /\ AnswersSpread
         /\ QueuesDistinct /\ RowsDistinct /\ NotYetSubmitted

LEMMA InitOwned == Init => Owned
<1> SUFFICES ASSUME Init PROVE Owned
  OBVIOUS
<1>1. /\ \A c \in Consumers : pc[c] = "unborn"
      /\ \A q \in Queues : queue[q] = <<>>
      /\ submitted = {} /\ held = {}
  BY DEF Init, Threads, Consumers
<1>2. Origins = {} /\ \A k \in DOMAIN responses : responses[k].origin = 0
  BY DEF Init, DbInit, Origins
<1>3. ASSUME NEW labels, NEW lines, "unborn" \notin labels PROVE Spread(labels, lines, {})
  <2>1. PICK H : H = At(labels, lines, {})
    OBVIOUS
  <2>2. \A c \in Consumers : Taken(c, labels) = {}
    BY <1>1, <1>3 DEF Taken
  <2>3. \A q \in Queues : Queued(q, lines) = {}
    BY <1>1 DEF Queued, Range
  <2>4. \A s \in Seats : H[s] = {}
    BY <2>1, <2>2, <2>3, AtSeats DEF Seats
  <2> QED
    BY <2>1, <2>4 DEF Spread, Apart
<1>4. TasksSpread /\ ResponsesSpread /\ AnswersSpread
  BY <1>2, <1>3 DEF TasksSpread, ResponsesSpread, AnswersSpread, WorkerLabels,
     ResponseLabels, AnswerLabels, DbLabels
<1>5. QueuesDistinct /\ RowsDistinct /\ NotYetSubmitted
  BY <1>1, <1>2 DEF QueuesDistinct, RowsDistinct, NotYetSubmitted, Distinct
<1> QED
  BY <1>4, <1>5 DEF Owned

\* The three systems of seats take the same steps, as long as no row is added.
LEMMA OriginsStay ==
  ASSUME responses' = responses
  PROVE  /\ RowsDistinct => RowsDistinct'
         /\ Origins' = Origins
BY DEF Origins, RowsDistinct

LEMMA AnswersNext ==
  ASSUME NEW Org, Origins' = Org, Spread(AnswerLabels, Queues, Org)'
  PROVE  AnswersSpread'
<1>1. At(AnswerLabels, Queues, Origins)' = At(AnswerLabels, Queues, Org)'
  BY DEF At
<1> QED
  BY <1>1 DEF AnswersSpread, Spread

LEMMA OwnedQuietly ==
  ASSUME Owned, UNCHANGED <<responses, submitted>>,
         NotYetSubmitted',
         \A c \in Consumers : \A labels \in {WorkerLabels, ResponseLabels, AnswerLabels} :
            pc'[c] \in labels => pc[c] \in labels /\ job'[c] = job[c],
         \A q \in Queues : queue'[q] = queue[q] \/ queue'[q] = <<>>
  PROVE  Owned'
<1>1. \A q \in Queues : Range(queue'[q]) \subseteq Range(queue[q])
  BY DEF Range
<1>2. TasksSpread'
  BY <1>1, QuietSpread DEF Owned, TasksSpread, Queues
<1>3. ResponsesSpread'
  BY <1>1, QuietSpread DEF Owned, ResponsesSpread
<1>4. AnswersSpread'
  <2>1. PICK Org : Org = Origins
    OBVIOUS
  <2>2. Origins' = Org
    BY <2>1, OriginsStay
  <2>3. Spread(AnswerLabels, Queues, Org)
    BY <2>1 DEF Owned, AnswersSpread
  <2>4. Spread(AnswerLabels, Queues, Org)'
    BY <1>1, <2>3, QuietSpread
  <2> QED
    BY <2>2, <2>4, AnswersNext
<1>5. QueuesDistinct'
  BY DEF Owned, QueuesDistinct, Distinct
<1> QED
  BY <1>2, <1>3, <1>4, <1>5, OriginsStay DEF Owned

\* Nothing of main's changes, and main does not move.
LEMMA MainRests ==
  ASSUME NotYetSubmitted, pc'[Main] = pc[Main], UNCHANGED mainVars
  PROVE  NotYetSubmitted'
BY DEF NotYetSubmitted, mainVars

\* queue_pop: where the case goes depends on the queue.
Received(q) == CASE q = "request" -> "setup" [] q = "response" -> "forwarding" [] q = "db" -> "inserting"

LEMMA OwnedPop ==
  ASSUME TypeOK, Owned, NEW q \in Queues, NEW c \in Consumers, Pop(c, q, Received(q)),
         NotYetSubmitted', UNCHANGED <<responses, submitted>>
  PROVE  Owned'
<1>1. PICK l : l = Received(q)
  OBVIOUS
<1>2. Pop(c, q, l) /\ l \in ResponseLabels /\ l \in AnswerLabels
      /\ (q = "request" => l \in WorkerLabels) /\ (q # "request" => l \notin WorkerLabels)
  BY <1>1 DEF Received, ResponseLabels, AnswerLabels, WorkerLabels, DbLabels, Queues
<1>3. "idle" \notin ResponseLabels /\ "idle" \notin AnswerLabels /\ "idle" \notin WorkerLabels
  BY DEF ResponseLabels, AnswerLabels, WorkerLabels, DbLabels
<1>4. \A r \in Queues : Distinct(queue[r])
  BY DEF Owned, QueuesDistinct
<1>5. ResponsesSpread'
  <2>1. Spread(ResponseLabels, Queues, {})
    BY DEF Owned, ResponsesSpread
  <2>2. Spread(ResponseLabels, Queues, {})'
    BY <1>2, <1>3, <1>4, <2>1, PopSpread
  <2> QED
    BY <2>2 DEF ResponsesSpread
<1>6. AnswersSpread'
  <2>1. PICK Org : Org = Origins
    OBVIOUS
  <2>2. Origins' = Org
    BY <2>1, OriginsStay
  <2>3. Spread(AnswerLabels, Queues, Org)
    BY <2>1 DEF Owned, AnswersSpread
  <2>4. Spread(AnswerLabels, Queues, Org)'
    BY <1>2, <1>3, <1>4, <2>3, PopSpread
  <2> QED
    BY <2>2, <2>4, AnswersNext
<1>7. TasksSpread'
  <2>1. Spread(WorkerLabels, {"request"}, {})
    BY DEF Owned, TasksSpread
  <2>2. CASE q = "request"
    <3>1. PICK lines : lines = {"request"} /\ q \in lines /\ lines \subseteq Queues
      BY <2>2 DEF Queues
    <3>2. Spread(WorkerLabels, lines, {})'
      BY <1>2, <1>3, <1>4, <2>1, <2>2, <3>1, PopSpread
    <3> QED
      BY <3>1, <3>2 DEF TasksSpread
  <2>3. CASE q # "request"
    <3>1. \A d \in Consumers : pc'[d] \in WorkerLabels => pc[d] \in WorkerLabels /\ job'[d] = job[d]
      BY <1>2, <2>3 DEF Pop, Goto, TypeOK, ThreadTypes, Threads
    <3>2. \A r \in Queues \cap {"request"} : Range(queue'[r]) \subseteq Range(queue[r])
      BY <2>3 DEF Pop, TypeOK, ObjectTypes
    <3>3. Spread(WorkerLabels, {"request"}, {})'
      BY <2>1, <3>1, <3>2, QuietSpread
    <3> QED
      BY <3>3 DEF TasksSpread
  <2> QED
    BY <2>2, <2>3
<1>8. QueuesDistinct'
  <2> SUFFICES ASSUME NEW r \in Queues PROVE Distinct(queue'[r])
    BY DEF QueuesDistinct, Distinct
  <2>1. CASE r = q
    <3>1. queue[q] \in Seq(Cases) /\ queue[q] # <<>> /\ queue'[q] = Tail(queue[q])
      BY DEF TypeOK, ObjectTypes, Pop, Rest
    <3> QED
      BY <1>4, <2>1, <3>1, TailDistinct
  <2>2. CASE r # q
    BY <1>4, <2>2 DEF TypeOK, ObjectTypes, Pop
  <2> QED
    BY <2>1, <2>2
<1> QED
  BY <1>5, <1>6, <1>7, <1>8, OriginsStay DEF Owned

\* queue_push, by main, by an HTTP worker or by the dispatcher.
LEMMA OwnedPush ==
  ASSUME TypeOK, Owned, NEW q \in Queues, NEW i \in Cases, Push(q, i),
         Enters(i) \/ (Leaves(i, ResponseLabels) /\ Leaves(i, AnswerLabels)),
         q = "request" => Enters(i),
         q # "request" => \A d \in Consumers :
            pc'[d] \in WorkerLabels => pc[d] \in WorkerLabels /\ job'[d] = job[d],
         NotYetSubmitted', responses' = responses, submitted' = submitted \cup {i}
  PROVE  Owned'
<1>1. ResponsesSpread'
  <2>1. Spread(ResponseLabels, Queues, {})
    BY DEF Owned, ResponsesSpread
  <2>2. Spread(ResponseLabels, Queues, {})'
    BY <2>1, PushSpread
  <2> QED
    BY <2>2 DEF ResponsesSpread
<1>2. AnswersSpread'
  <2>1. PICK Org : Org = Origins
    OBVIOUS
  <2>2. Origins' = Org
    BY <2>1, OriginsStay
  <2>3. Spread(AnswerLabels, Queues, Org)
    BY <2>1 DEF Owned, AnswersSpread
  <2>4. Spread(AnswerLabels, Queues, Org)'
    BY <2>3, PushSpread
  <2> QED
    BY <2>2, <2>4, AnswersNext
<1>3. TasksSpread'
  <2>1. Spread(WorkerLabels, {"request"}, {})
    BY DEF Owned, TasksSpread
  <2>2. CASE q = "request"
    <3>1. PICK lines : lines = {"request"} /\ q \in lines /\ lines \subseteq Queues
      BY <2>2 DEF Queues
    <3>2. Spread(WorkerLabels, lines, {})'
      BY <2>1, <2>2, <3>1, PushSpread
    <3> QED
      BY <3>1, <3>2 DEF TasksSpread
  <2>3. CASE q # "request"
    <3>1. \A r \in Queues \cap {"request"} : Range(queue'[r]) \subseteq Range(queue[r])
      BY <2>3 DEF Push, TypeOK, ObjectTypes
    <3>2. Spread(WorkerLabels, {"request"}, {})'
      BY <2>1, <2>3, <3>1, QuietSpread
    <3> QED
      BY <3>2 DEF TasksSpread
  <2> QED
    BY <2>2, <2>3
<1>4. i \notin Range(queue[q])
  <2>1. PICK H : H = At(ResponseLabels, Queues, {})
    OBVIOUS
  <2>2. Line(q) \in Seats /\ H[Line(q)] = Range(queue[q])
    <3>1. Line(q) \in Seats /\ H[Line(q)] = Queued(q, Queues)
      BY <2>1, AtSeats
    <3> QED
      BY <3>1 DEF Queued
  <2>3. Apart(H) /\ \A s \in Seats : H[s] \subseteq submitted
    BY <2>1 DEF Owned, ResponsesSpread, Spread
  <2>4. CASE Enters(i)
    BY <2>2, <2>3, <2>4 DEF Enters
  <2>5. ASSUME NEW c \in Consumers, pc[c] \in ResponseLabels, job[c] = i
        PROVE  i \notin Range(queue[q])
    <3>1. Seat(c) \in Seats /\ H[Seat(c)] = Taken(c, ResponseLabels)
      BY <2>1, AtSeats
    <3>2. Taken(c, ResponseLabels) = {i} /\ Seat(c) # Line(q)
      BY <2>5, OtherSeats DEF Taken
    <3> QED
      BY <2>2, <2>3, <3>1, <3>2 DEF Apart
  <2> QED
    BY <2>4, <2>5 DEF Leaves
<1>5. QueuesDistinct'
  <2> SUFFICES ASSUME NEW r \in Queues PROVE Distinct(queue'[r])
    BY DEF QueuesDistinct, Distinct
  <2>1. Distinct(queue[r]) /\ queue[r] \in Seq(Cases)
    BY DEF Owned, QueuesDistinct, TypeOK, ObjectTypes
  <2>2. CASE r = q
    <3>1. queue'[q] = Append(queue[q], i)
      BY DEF Push, AtBack, TypeOK, ObjectTypes
    <3> QED
      BY <1>4, <2>1, <2>2, <3>1, AppendDistinct
  <2>3. CASE r # q
    BY <2>1, <2>3 DEF TypeOK, ObjectTypes, Push
  <2> QED
    BY <2>2, <2>3
<1> QED
  BY <1>1, <1>2, <1>3, <1>5, OriginsStay DEF Owned

LEMMA RowAdded ==
  ASSUME TypeOK, DbWorkerInsert
  PROVE  \E row \in Rows : row.origin = job[DbWorker] /\ responses' = Append(responses, row)
<1>1. PICK i \in Cases : i = job[DbWorker]
  BY DEF DbWorkerInsert, TypeOK, ThreadTypes, Idle, Consumers
<1>2. requestId[i] \in Int /\ i \in 0 .. MaxCases /\ answer[i] \in Answers
  BY <1>1 DEF TypeOK, RunTypes, ObjectTypes, Cases
<1>3. PICK r : r = [request |-> requestId[i], origin |-> i,
                    ok |-> answer[i].ok, meets |-> answer[i].meets]
  OBVIOUS
<1>4. r \in Rows /\ r.origin = i
  BY <1>2, <1>3 DEF Rows, Answers
<1>5. responses' = Append(responses, r)
  BY <1>1, <1>3 DEF DbWorkerInsert, InsertResponse
<1> QED
  BY <1>1, <1>4, <1>5

\* db_save_response: the answer of the DB worker's case gets the only row of it.
LEMMA OwnedInsert ==
  ASSUME TypeOK, Owned, DbWorkerInsert, NotYetSubmitted'
  PROVE  Owned'
<1>1. PICK i \in Cases : i = job[DbWorker]
  BY DEF DbWorkerInsert, TypeOK, ThreadTypes, Idle, Consumers
<1>2. /\ pc[DbWorker] = "inserting" /\ pc'[DbWorker] = "reading" /\ DbWorker \in Consumers
      /\ \A d \in Consumers \ {DbWorker} : pc'[d] = pc[d]
      /\ UNCHANGED <<job, queue, submitted>>
  BY DEF DbWorkerInsert, Goto, TypeOK, ThreadTypes, Threads, Consumers, queueVars, mainVars
<1>3. PICK row \in Rows : row.origin = i /\ responses' = Append(responses, row)
  BY <1>1, RowAdded
<1>4. /\ responses \in Seq(Rows) /\ Len(responses) \in Nat
      /\ DOMAIN responses = 1 .. Len(responses) /\ DOMAIN responses' = 1 .. Len(responses) + 1
      /\ \A k \in 1 .. Len(responses) : responses'[k] = responses[k]
      /\ responses'[Len(responses) + 1] = row
  BY <1>3, AppendProperties, LenProperties DEF TypeOK, TableTypes
<1>5. i # 0 /\ Origins' = Origins \cup {i}
  <2>1. i # 0
    BY <1>1 DEF Cases
  <2>2. ASSUME NEW x \in Origins' PROVE x \in Origins \cup {i}
    <3>1. PICK k \in DOMAIN responses' : x = responses'[k].origin /\ x # 0
      BY <2>2 DEF Origins
    <3>2. CASE k \in 1 .. Len(responses)
      BY <1>4, <3>1, <3>2 DEF Origins
    <3>3. CASE k = Len(responses) + 1
      BY <1>3, <1>4, <3>1, <3>3
    <3> QED
      BY <1>4, <3>2, <3>3
  <2>3. ASSUME NEW x \in Origins PROVE x \in Origins'
    <3>1. PICK k \in DOMAIN responses : x = responses[k].origin /\ x # 0
      BY <2>3 DEF Origins
    <3>2. k \in DOMAIN responses' /\ responses'[k].origin = x
      BY <1>4, <3>1
    <3> QED
      BY <3>1, <3>2 DEF Origins
  <2>4. i \in Origins'
    <3>1. Len(responses) + 1 \in DOMAIN responses' /\ responses'[Len(responses) + 1].origin = i
      BY <1>3, <1>4
    <3> QED
      BY <2>1, <3>1 DEF Origins
  <2> QED
    BY <2>1, <2>2, <2>3, <2>4
<1>6. i \notin Origins
  <2>1. PICK H : H = At(AnswerLabels, Queues, Origins)
    OBVIOUS
  <2>2. Seat(DbWorker) \in Seats /\ H[Seat(DbWorker)] = Taken(DbWorker, AnswerLabels)
    BY <1>2, <2>1, AtSeats
  <2>3. Table \in Seats /\ H[Table] = Origins /\ Seat(DbWorker) # Table
    BY <1>2, <2>1, AtSeats, OtherSeats
  <2>4. i \in Taken(DbWorker, AnswerLabels)
    BY <1>1, <1>2 DEF Taken, AnswerLabels
  <2> QED
    BY <2>1, <2>2, <2>3, <2>4 DEF Owned, AnswersSpread, Spread, Apart
<1>7. AnswersSpread'
  <2>1. PICK Org : Org = Origins
    OBVIOUS
  <2>2. Spread(AnswerLabels, Queues, Org)
    BY <2>1 DEF Owned, AnswersSpread
  <2>3. pc[DbWorker] \in AnswerLabels /\ pc'[DbWorker] \notin AnswerLabels
    BY <1>2 DEF AnswerLabels
  <2>4. Spread(AnswerLabels, Queues, Org \cup {i})'
    BY <1>1, <1>2, <2>2, <2>3, InsertSpread
  <2>5. PICK N : N = Org \cup {i}
    OBVIOUS
  <2>6. Origins' = N /\ Spread(AnswerLabels, Queues, N)'
    BY <1>5, <2>1, <2>4, <2>5
  <2> QED
    BY <2>6, AnswersNext
<1>8. TasksSpread' /\ ResponsesSpread'
  <2>1. \A c \in Consumers : \A labels \in {WorkerLabels, ResponseLabels} :
           pc'[c] \in labels => pc[c] \in labels /\ job'[c] = job[c]
    BY <1>2 DEF WorkerLabels, ResponseLabels, DbLabels
  <2>2. Spread(WorkerLabels, {"request"}, {})'
    BY <1>2, <2>1, QuietSpread DEF Owned, TasksSpread
  <2>3. Spread(ResponseLabels, Queues, {})'
    BY <1>2, <2>1, QuietSpread DEF Owned, ResponsesSpread
  <2> QED
    BY <2>2, <2>3 DEF TasksSpread, ResponsesSpread
<1>9. QueuesDistinct'
  BY <1>2 DEF Owned, QueuesDistinct, Distinct
<1>10. RowsDistinct'
  <2> SUFFICES ASSUME NEW j \in DOMAIN responses', NEW k \in DOMAIN responses',
                      responses'[j].origin = responses'[k].origin, responses'[j].origin # 0
               PROVE  j = k
    BY DEF RowsDistinct
  <2>1. CASE j \in DOMAIN responses /\ k \in DOMAIN responses
    BY <1>4, <2>1 DEF Owned, RowsDistinct
  <2>2. CASE j = Len(responses) + 1 /\ k \in DOMAIN responses
    BY <1>3, <1>4, <1>6, <2>2 DEF Origins
  <2>3. CASE k = Len(responses) + 1 /\ j \in DOMAIN responses
    BY <1>3, <1>4, <1>6, <2>3 DEF Origins
  <2>4. CASE j = Len(responses) + 1 /\ k = Len(responses) + 1
    BY <2>4
  <2>5. \A m \in DOMAIN responses' : m \in DOMAIN responses \/ m = Len(responses) + 1
    BY <1>4
  <2> QED
    BY <2>1, <2>2, <2>3, <2>4, <2>5
<1> QED
  BY <1>7, <1>8, <1>9, <1>10 DEF Owned

\* A thread that has a case has it alone, and it was submitted.
LEMMA AloneAt ==
  ASSUME NEW labels, NEW lines, NEW rows, Spread(labels, lines, rows),
         NEW c \in Consumers, pc[c] \in labels
  PROVE  /\ \A d \in Consumers \ {c} : pc[d] \in labels => job[d] # job[c]
         /\ \A q \in Queues \cap lines : job[c] \notin Range(queue[q])
         /\ job[c] \in submitted
<1>1. PICK H : H = At(labels, lines, rows)
  OBVIOUS
<1>2. Apart(H) /\ \A s \in Seats : H[s] \subseteq submitted
  BY <1>1 DEF Spread
<1>3. Seat(c) \in Seats /\ job[c] \in H[Seat(c)]
  <2>1. Seat(c) \in Seats /\ H[Seat(c)] = Taken(c, labels)
    BY <1>1, AtSeats
  <2> QED
    BY <2>1 DEF Taken
<1>4. ASSUME NEW d \in Consumers \ {c}, pc[d] \in labels PROVE job[d] # job[c]
  <2>1. Seat(d) \in Seats /\ H[Seat(d)] = Taken(d, labels)
    BY <1>1, AtSeats
  <2>2. job[d] \in H[Seat(d)] /\ Seat(d) # Seat(c)
    BY <1>4, <2>1, OtherSeats DEF Taken
  <2> QED
    BY <1>2, <1>3, <2>1, <2>2 DEF Apart
<1>5. ASSUME NEW q \in Queues \cap lines PROVE job[c] \notin Range(queue[q])
  <2>1. Line(q) \in Seats /\ H[Line(q)] = Queued(q, lines)
    BY <1>1, AtSeats
  <2>2. H[Line(q)] = Range(queue[q]) /\ Line(q) # Seat(c)
    BY <2>1, OtherSeats DEF Queued
  <2> QED
    BY <1>2, <1>3, <2>1, <2>2 DEF Apart
<1> QED
  BY <1>2, <1>3, <1>4, <1>5

-----------------------------------------------------------------------------
(* The steps of each thread *)

LEMMA HttpWorkerOwned ==
  ASSUME TypeOK, Owned, NEW w \in Workers, HttpWorker(w)
  PROVE  Owned'
<1>a. w \in Consumers /\ pc'[Main] = pc[Main] /\ UNCHANGED mainVars
  BY HttpWorkerTypes DEF Consumers
<1>b. NotYetSubmitted' /\ submitted' = submitted
  BY <1>a, MainRests DEF Owned, mainVars
<1>c. responses' = responses
  BY DEF HttpWorker, WorkerPop, WorkerExit, PopNull, WorkerNoResponse, WorkerSetupFails,
         WorkerSetup, WorkerPerform, Answer, WorkerPush, WorkerRelease, dbVars
<1>d. ASSUME NEW l, Goto(w, l) PROVE pc'[w] = l /\ \A d \in Consumers \ {w} : pc'[d] = pc[d]
  BY <1>a, <1>d DEF Goto, TypeOK, ThreadTypes, Threads
<1>e. ASSUME NEW l, Goto(w, l), UNCHANGED <<job, queue>>,
             pc[w] \in {"setup", "performing"}, l \in {"performing", "pushing", "releasing"}
      PROVE  Owned'
  <2>1. \A c \in Consumers : \A labels \in {WorkerLabels, ResponseLabels, AnswerLabels} :
           pc'[c] \in labels => pc[c] \in labels /\ job'[c] = job[c]
    BY <1>d, <1>e DEF WorkerLabels, ResponseLabels, AnswerLabels
  <2> QED
    BY <1>b, <1>c, <1>e, <2>1, OwnedQuietly
<1>f. ASSUME NEW l, Goto(w, l), \A d \in Consumers \ {w} : job'[d] = job[d], queue' = queue,
             l \in {"idle", "exited"}
      PROVE  Owned'
  <2>1. \A c \in Consumers : \A labels \in {WorkerLabels, ResponseLabels, AnswerLabels} :
           pc'[c] \in labels => pc[c] \in labels /\ job'[c] = job[c]
    BY <1>d, <1>f DEF WorkerLabels, ResponseLabels, AnswerLabels, DbLabels
  <2> QED
    BY <1>b, <1>c, <1>f, <2>1, OwnedQuietly
<1>1. CASE WorkerPop(w)
  <2>1. "request" \in Queues /\ Pop(w, "request", Received("request"))
    BY <1>1 DEF WorkerPop, Received, Queues
  <2> QED
    BY <1>a, <1>b, <1>c, <2>1, OwnedPop
<1>2. CASE WorkerExit(w)
  BY <1>2, <1>f DEF WorkerExit, PopNull, Leave, queueVars
<1>3. CASE WorkerNoResponse(w)
  BY <1>3, <1>e DEF WorkerNoResponse, queueVars
<1>4. CASE WorkerSetupFails(w)
  <2>1. pc[w] = "setup" /\ Goto(w, "pushing") /\ UNCHANGED <<job, queue>>
    BY <1>4 DEF WorkerSetupFails, Answer, queueVars
  <2> QED
    BY <1>e, <2>1
<1>5. CASE WorkerSetup(w)
  BY <1>5, <1>e DEF WorkerSetup, queueVars
<1>6. CASE WorkerPerform(w)
  BY <1>6, <1>e DEF WorkerPerform, Answer, queueVars
<1>7. CASE WorkerPush(w)
  <2>1. /\ pc[w] = "pushing" /\ pc'[w] = "releasing" /\ job' = job
        /\ \A d \in Consumers \ {w} : pc'[d] = pc[d]
    BY <1>7, <1>d DEF WorkerPush
  <2>2. PICK i \in Cases : i = job[w]
    BY <1>a, <2>1 DEF TypeOK, ThreadTypes, Idle
  <2>3. \A d \in Consumers : pc'[d] \in WorkerLabels => pc[d] \in WorkerLabels /\ job'[d] = job[d]
    BY <2>1 DEF WorkerLabels
  <2>4. CASE Push("response", i)
    <3>1. Leaves(i, ResponseLabels) /\ Leaves(i, AnswerLabels)
      BY <1>a, <2>1, <2>2 DEF Leaves, ResponseLabels, AnswerLabels, DbLabels
    <3>2. i \in submitted
      BY <1>a, <2>1, <2>2, AloneAt DEF Owned, ResponsesSpread, ResponseLabels
    <3>3. submitted' = submitted \cup {i}
      BY <1>b, <3>2
    <3> QED
      BY <1>b, <1>c, <2>3, <2>4, <3>1, <3>3, OwnedPush DEF Queues
  <2>5. CASE queue' = queue
    <3>1. \A c \in Consumers : \A labels \in {WorkerLabels, ResponseLabels, AnswerLabels} :
             pc'[c] \in labels => pc[c] \in labels /\ job'[c] = job[c]
      BY <2>1 DEF WorkerLabels, ResponseLabels, AnswerLabels, DbLabels
    <3> QED
      BY <1>b, <1>c, <2>5, <3>1, OwnedQuietly
  <2> QED
    BY <1>7, <2>2, <2>4, <2>5 DEF WorkerPush, PushFails, queueVars
<1>8. CASE WorkerRelease(w)
  <2>1. Goto(w, "idle") /\ queue' = queue /\ \A d \in Consumers \ {w} : job'[d] = job[d]
    BY <1>8 DEF WorkerRelease, Release, queueVars, TypeOK, ThreadTypes
  <2> QED
    BY <1>f, <2>1
<1> QED
  BY <1>1, <1>2, <1>3, <1>4, <1>5, <1>6, <1>7, <1>8 DEF HttpWorker

LEMMA DispatcherOwned ==
  ASSUME TypeOK, Owned, DispatcherStep
  PROVE  Owned'
<1> DEFINE c == Dispatcher
<1>a. c \in Consumers /\ pc'[Main] = pc[Main] /\ UNCHANGED mainVars
  BY DispatcherTypes DEF Consumers
<1>b. NotYetSubmitted' /\ submitted' = submitted
  BY <1>a, MainRests DEF Owned, mainVars
<1>c. responses' = responses
  BY DEF DispatcherStep, DispatcherPop, DispatcherExit, PopNull, DispatcherForward,
         DispatcherDrops, dbVars
<1>d. ASSUME NEW l, Goto(c, l) PROVE pc'[c] = l /\ \A d \in Consumers \ {c} : pc'[d] = pc[d]
  BY <1>a, <1>d DEF Goto, TypeOK, ThreadTypes, Threads
<1>f. ASSUME NEW l, Goto(c, l), \A d \in Consumers \ {c} : job'[d] = job[d], queue' = queue,
             l \in {"idle", "exited"}
      PROVE  Owned'
  <2>1. \A d \in Consumers : \A labels \in {WorkerLabels, ResponseLabels, AnswerLabels} :
           pc'[d] \in labels => pc[d] \in labels /\ job'[d] = job[d]
    BY <1>d, <1>f DEF WorkerLabels, ResponseLabels, AnswerLabels, DbLabels
  <2> QED
    BY <1>b, <1>c, <1>f, <2>1, OwnedQuietly
<1>1. CASE DispatcherPop
  <2>1. "response" \in Queues /\ Pop(c, "response", Received("response"))
    BY <1>1 DEF DispatcherPop, Received, Queues
  <2> QED
    BY <1>a, <1>b, <1>c, <2>1, OwnedPop
<1>2. CASE DispatcherExit
  BY <1>2, <1>f DEF DispatcherExit, PopNull, Leave, queueVars
<1>3. CASE DispatcherForward
  <2>1. /\ pc[c] = "forwarding" /\ pc'[c] = "idle"
        /\ \A d \in Consumers \ {c} : pc'[d] = pc[d] /\ job'[d] = job[d]
    BY <1>3, <1>d DEF DispatcherForward, Release, TypeOK, ThreadTypes
  <2>2. PICK i \in Cases : i = job[c] /\ Push("db", i)
    BY <1>3, <1>a, <2>1 DEF TypeOK, ThreadTypes, Idle, DispatcherForward
  <2>3. \A d \in Consumers : pc'[d] \in WorkerLabels => pc[d] \in WorkerLabels /\ job'[d] = job[d]
    BY <2>1 DEF WorkerLabels
  <2>4. Leaves(i, ResponseLabels) /\ Leaves(i, AnswerLabels)
    BY <1>a, <2>1, <2>2 DEF Leaves, ResponseLabels, AnswerLabels, DbLabels
  <2>5. i \in submitted
    BY <1>a, <2>1, <2>2, AloneAt DEF Owned, ResponsesSpread, ResponseLabels
  <2>6. submitted' = submitted \cup {i}
    BY <1>b, <2>5
  <2> QED
    BY <1>b, <1>c, <2>2, <2>3, <2>4, <2>6, OwnedPush DEF Queues
<1>4. CASE DispatcherDrops
  <2>1. Goto(c, "idle") /\ queue' = queue /\ \A d \in Consumers \ {c} : job'[d] = job[d]
    BY <1>4 DEF DispatcherDrops, PushFails, Release, queueVars, TypeOK, ThreadTypes
  <2> QED
    BY <1>f, <2>1
<1> QED
  BY <1>1, <1>2, <1>3, <1>4 DEF DispatcherStep

LEMMA DbWorkerOwned ==
  ASSUME TypeOK, Owned, DbWorkerStep
  PROVE  Owned'
<1> DEFINE c == DbWorker
<1>a. c \in Consumers /\ pc'[Main] = pc[Main] /\ UNCHANGED mainVars
  BY DbWorkerTypes DEF Consumers
<1>b. NotYetSubmitted' /\ submitted' = submitted
  BY <1>a, MainRests DEF Owned, mainVars
<1>d. ASSUME NEW l, Goto(c, l) PROVE pc'[c] = l /\ \A d \in Consumers \ {c} : pc'[d] = pc[d]
  BY <1>a, <1>d DEF Goto, TypeOK, ThreadTypes, Threads
<1>e. ASSUME NEW l, Goto(c, l), \A d \in Consumers \ {c} : job'[d] = job[d],
             UNCHANGED <<queue, responses>>,
             \/ l \in {"idle", "exited"}
             \/ l \in {"logging", "freeing"} /\ job' = job /\ pc[c] \in {"inserting", "reading"}
      PROVE  Owned'
  <2>1. \A d \in Consumers : \A labels \in {WorkerLabels, ResponseLabels, AnswerLabels} :
           pc'[d] \in labels => pc[d] \in labels /\ job'[d] = job[d]
    BY <1>d, <1>e DEF WorkerLabels, ResponseLabels, AnswerLabels, DbLabels
  <2> QED
    BY <1>b, <1>e, <2>1, OwnedQuietly
<1>1. CASE DbWorkerPop
  <2>1. "db" \in Queues /\ Pop(c, "db", Received("db")) /\ responses' = responses
    BY <1>1 DEF DbWorkerPop, Received, Queues, dbVars
  <2> QED
    BY <1>a, <1>b, <2>1, OwnedPop
<1>2. CASE DbWorkerExit
  BY <1>2, <1>e DEF DbWorkerExit, PopNull, Leave, queueVars, dbVars
<1>3. CASE DbWorkerInsert
  BY <1>3, <1>b, OwnedInsert
<1>4. CASE DbWorkerInsertFails
  BY <1>4, <1>e DEF DbWorkerInsertFails, queueVars, dbVars
<1>5. CASE DbWorkerRowid
  BY <1>5, <1>e DEF DbWorkerRowid, ReadRowid, queueVars
<1>6. CASE DbWorkerFree
  <2>1. /\ Goto(c, "idle") /\ UNCHANGED <<queue, responses>>
        /\ \A d \in Consumers \ {c} : job'[d] = job[d]
    BY <1>6 DEF DbWorkerFree, Release, queueVars, dbVars, TypeOK, ThreadTypes
  <2> QED
    BY <1>e, <2>1
<1> QED
  BY <1>1, <1>2, <1>3, <1>4, <1>5, <1>6 DEF DbWorkerStep

\* What the steps of main leave to the threads.
LEMMA MainQuietOwned ==
  ASSUME TypeOK, Owned, NotYetSubmitted', UNCHANGED <<responses, submitted, job>>,
         queue' = queue \/ \A q \in Queues : queue'[q] = <<>>,
         \A c \in Consumers : pc'[c] = pc[c] \/ pc'[c] = "idle"
  PROVE  Owned'
<1>1. \A d \in Consumers : \A labels \in {WorkerLabels, ResponseLabels, AnswerLabels} :
         pc'[d] \in labels => pc[d] \in labels /\ job'[d] = job[d]
  BY DEF WorkerLabels, ResponseLabels, AnswerLabels, DbLabels
<1> QED
  BY <1>1, OwnedQuietly

\* The steps at labels where main holds nothing, dispatch_task aside.
HoldsNothing ==
    \/ RunRefused \/ OpenDatabase \/ NoRuntime \/ StartThread \/ StartFails \/ RuntimeReady
    \/ AllDispatched \/ WaitStep \/ AllWaited \/ DestroyRuntime \/ CloseDatabase

First == {"starting", "creating", "submitting"}

LEMMA HoldsNothingMoves ==
  ASSUME TypeOK, HoldsNothing
  PROVE  /\ pc[Main] \notin {"dispatching", "cleanup"} /\ pc'[Main] # "dispatching"
         /\ pc'[Main] \in First => pc[Main] \in First /\ current' = current
         /\ \A c \in Consumers : pc'[c] = pc[c] \/ pc'[c] = "idle"
         /\ UNCHANGED <<held, submitted, job, exitTo, live, responses>>
         /\ queue' = queue \/ \A q \in Queues : queue'[q] = <<>>
<1>a. pc[Main] \notin {"dispatching", "cleanup"} /\ UNCHANGED <<held, submitted, job, exitTo, live>>
      /\ responses' = responses /\ (queue' = queue \/ \A q \in Queues : queue'[q] = <<>>)
  BY DEF HoldsNothing, RunRefused, OpenDatabase, NoRuntime, StartThread, StartFails, RuntimeReady,
         AllDispatched, WaitStep, CaseAnswered, PollFinds, CaseTimedOut, PollEnds, PollMisses,
         PollAgain, AllWaited, DestroyRuntime, CloseRequestQueue, CloseResponseQueue,
         CloseDbQueue, Shutdown, JoinWorkers, JoinDispatcher, JoinDbWorker, Join, FreeRuntime,
         CloseDatabase, mainVars, dbVars, queueVars, threadVars, heapVars
<1>b. /\ \A c \in Consumers : pc'[c] = pc[c] \/ pc'[c] = "idle"
      /\ pc'[Main] # "dispatching"
      /\ pc'[Main] \in First => pc[Main] \in First /\ current' = current
  <2>1. CASE StartThread
    BY <2>1 DEF StartThread, Goto, TypeOK, ThreadTypes, Threads, Consumers, mainVars, First
  <2>2. CASE CaseAnswered
    BY <2>2 DEF CaseAnswered, PollFinds, threadVars, First
  <2>3. CASE OpenDatabase \/ RuntimeReady
    <3>1. Goto(Main, "creating") \/ Goto(Main, "submitting")
      BY <2>3 DEF OpenDatabase, RuntimeReady
    <3>2. pc[Main] \in First /\ current' = current
      BY <2>3 DEF OpenDatabase, RuntimeReady, mainVars, First
    <3> QED
      BY <3>1, <3>2 DEF First, Goto, TypeOK, ThreadTypes, Threads, Consumers
  <2>4. CASE ~ (StartThread \/ CaseAnswered \/ OpenDatabase \/ RuntimeReady)
    <3>1. \E l \in MainLabels \ (First \cup {"dispatching"}) : Goto(Main, l)
      BY <2>4 DEF HoldsNothing, RunRefused, NoRuntime, StartFails,
         AllDispatched, WaitStep, CaseTimedOut, PollMisses,
         PollAgain, AllWaited, DestroyRuntime, CloseRequestQueue, CloseResponseQueue,
         CloseDbQueue, Shutdown, JoinWorkers, JoinDispatcher, JoinDbWorker, Join, FreeRuntime,
         CloseDatabase, MainLabels, First
    <3> QED
      BY <3>1 DEF First, Goto, TypeOK, ThreadTypes, Threads, Consumers
  <2> QED
    BY <2>1, <2>2, <2>3, <2>4
<1> QED
  BY <1>a, <1>b

LEMMA HoldsNothingOwned ==
  ASSUME TypeOK, Owned, HoldsNothing
  PROVE  Owned'
<1>1. held = {}
  BY HoldsNothingMoves DEF Owned, NotYetSubmitted
<1>2. NotYetSubmitted'
  BY <1>1, HoldsNothingMoves DEF Owned, NotYetSubmitted, First
<1> QED
  BY <1>2, HoldsNothingMoves, MainQuietOwned

LEMMA SubmittingOwned ==
  ASSUME TypeOK, Bounded, Owned,
         SubmitCase \/ SubmitFails \/ DispatchCase \/ DispatchFails \/ FreeHeld
  PROVE  Owned'
<1>a. ASSUME NEW l, Goto(Main, l) PROVE pc'[Main] = l /\ \A c \in Consumers : pc'[c] = pc[c]
  BY <1>a DEF Goto, TypeOK, ThreadTypes, Threads, Consumers
<1>1. CASE SubmitCase \/ SubmitFails
  <2>1. /\ pc[Main] = "submitting" /\ pc'[Main] \in {"dispatching", "cleanup"}
        /\ \A c \in Consumers : pc'[c] = pc[c]
    BY <1>1, <1>a DEF SubmitCase, SubmitFails
  <2>2. UNCHANGED <<responses, submitted, current, job, queue>>
    BY <1>1 DEF SubmitCase, SubmitFails, SaveRequestRow, queueVars, dbVars
  <2>3. NotYetSubmitted'
    BY <2>1, <2>2 DEF Owned, NotYetSubmitted
  <2> QED
    BY <2>1, <2>2, <2>3, MainQuietOwned
<1>2. CASE DispatchFails \/ FreeHeld
  <2>1. /\ pc[Main] \in {"dispatching", "cleanup"} /\ pc'[Main] \in {"cleanup", "close_request"}
        /\ \A c \in Consumers : pc'[c] = pc[c]
        /\ held' = {} \/ (held' = held /\ pc'[Main] = "cleanup")
    BY <1>2, <1>a DEF DispatchFails, FreeHeld
  <2>2. UNCHANGED <<responses, submitted, current, job, queue>>
    BY <1>2 DEF DispatchFails, FreeHeld, PushFails, queueVars, dbVars
  <2>3. NotYetSubmitted'
    BY <2>1, <2>2 DEF Owned, NotYetSubmitted
  <2> QED
    BY <2>1, <2>2, <2>3, MainQuietOwned
<1>3. CASE DispatchCase
  <2>1. /\ pc[Main] = "dispatching" /\ pc'[Main] = "submitting"
        /\ \A c \in Consumers : pc'[c] = pc[c]
    BY <1>3, <1>a DEF DispatchCase
  <2>2. PICK i \in Cases : i = current
    BY <2>1 DEF Bounded, TypeOK, RunTypes, Cases
  <2>3. /\ Push("request", i) /\ submitted' = submitted \cup {i} /\ held' = {}
        /\ current' = i + 1 /\ UNCHANGED <<job, responses>>
    BY <1>3, <2>2 DEF DispatchCase, dbVars
  <2>4. \A j \in submitted : j < i /\ j \in Cases
    BY <2>1, <2>2 DEF Owned, NotYetSubmitted, TypeOK, RunTypes
  <2>5. Enters(i)
    <3>1. i \notin submitted
      BY <2>4 DEF Cases
    <3> QED
      BY <2>1, <2>3, <3>1 DEF Enters
  <2>6. NotYetSubmitted'
    BY <2>2, <2>3, <2>4 DEF NotYetSubmitted, Cases
  <2> QED
    BY <2>3, <2>5, <2>6, OwnedPush DEF Queues
<1> QED
  BY <1>1, <1>2, <1>3

LEMMA StepOwned == TypeOK /\ Bounded /\ Owned /\ [Next]_vars => Owned'
<1> SUFFICES ASSUME TypeOK, Bounded, Owned, [Next]_vars PROVE Owned'
  OBVIOUS
<1>1. CASE RunPlan
  BY <1>1, HoldsNothingOwned, SubmittingOwned DEF RunPlan, HoldsNothing
<1>2. ASSUME NEW w \in Workers, HttpWorker(w) PROVE Owned'
  BY <1>2, HttpWorkerOwned
<1>3. CASE DispatcherStep
  BY <1>3, DispatcherOwned
<1>4. CASE DbWorkerStep
  BY <1>4, DbWorkerOwned
<1>5. CASE UNCHANGED vars
  <2>1. UNCHANGED <<responses, submitted, job, queue, pc, held, current>>
    BY <1>5 DEF vars, threadVars, queueVars, dbVars, mainVars
  <2>2. NotYetSubmitted'
    BY <2>1 DEF Owned, NotYetSubmitted
  <2> QED
    BY <2>1, <2>2, MainQuietOwned
<1> QED
  BY <1>1, <1>2, <1>3, <1>4, <1>5 DEF Next, Returned

-----------------------------------------------------------------------------
(* One place *)

LEMMA AtMostOne ==
  ASSUME NEW S, \A x, y \in S : x = y
  PROVE  Cardinality(S) = IF S = {} THEN 0 ELSE 1
<1>1. CASE S = {}
  BY <1>1, FS_EmptySet
<1>2. CASE S # {}
  <2>1. PICK x : x \in S
    BY <1>2
  <2>2. S = {x}
    BY <2>1
  <2> QED
    BY <1>2, <2>2, FS_Singleton
<1> QED
  BY <1>1, <1>2

LEMMA OwnedIsOnePlace ==
  ASSUME TypeOK, Owned
  PROVE  OnePlace
<1> SUFFICES ASSUME NEW i \in Cases PROVE Places(i) <= IF i \in submitted THEN 1 ELSE 0
  BY DEF OnePlace
<1> DEFINE A == {c \in Answering : job[c] = i}
           B == {s \in Queues \X Cases : s[2] \in DOMAIN queue[s[1]] /\ queue[s[1]][s[2]] = i}
           C == {k \in DOMAIN responses : responses[k].origin = i}
<1>1. PICK H : H = At(AnswerLabels, Queues, Origins)
  OBVIOUS
<1>2. Apart(H) /\ \A s \in Seats : H[s] \subseteq submitted
  BY <1>1 DEF Owned, AnswersSpread, Spread
<1>3. ASSUME NEW c \in A PROVE Seat(c) \in Seats /\ i \in H[Seat(c)] /\ c \in Consumers
  <2>1. c \in Consumers /\ pc[c] \in AnswerLabels /\ job[c] = i
    BY DEF Answering, AnswerLabels
  <2>2. Seat(c) \in Seats /\ H[Seat(c)] = Taken(c, AnswerLabels)
    BY <1>1, <2>1, AtSeats
  <2> QED
    BY <2>1, <2>2 DEF Taken
<1>4. ASSUME NEW s \in B
      PROVE  s[1] \in Queues /\ Line(s[1]) \in Seats /\ i \in H[Line(s[1])]
  <2>1. s[1] \in Queues /\ i \in Range(queue[s[1]])
    BY DEF Range
  <2>2. Line(s[1]) \in Seats /\ H[Line(s[1])] = Queued(s[1], Queues)
    BY <1>1, <2>1, AtSeats
  <2> QED
    BY <2>1, <2>2 DEF Queued
<1>5. ASSUME NEW k \in C PROVE Table \in Seats /\ i \in H[Table]
  <2>1. i \in Origins
    BY DEF Origins, Cases
  <2> QED
    BY <1>1, <2>1, AtSeats
<1>6. \A c, d \in A : c = d
  <2> SUFFICES ASSUME NEW c \in A, NEW d \in A PROVE c = d
    OBVIOUS
  <2>1. Seat(c) = Seat(d)
    BY <1>2, <1>3 DEF Apart
  <2> QED
    BY <1>3, <2>1, OtherSeats
<1>7. \A s, t \in B : s = t
  <2> SUFFICES ASSUME NEW s \in B, NEW t \in B PROVE s = t
    OBVIOUS
  <2>1. Line(s[1]) = Line(t[1])
    BY <1>2, <1>4 DEF Apart
  <2>2. s[1] = t[1]
    BY <1>4, <2>1, OtherSeats
  <2>3. Distinct(queue[s[1]])
    BY <1>4 DEF Owned, QueuesDistinct
  <2>4. s[2] = t[2]
    BY <2>2, <2>3 DEF Distinct
  <2> QED
    BY <2>2, <2>4
<1>8. \A j, k \in C : j = k
  BY DEF Owned, RowsDistinct, Cases
<1>9. /\ A = {} \/ (B = {} /\ C = {})
      /\ B = {} \/ C = {}
  <2>1. ASSUME NEW c \in A, NEW s \in B PROVE FALSE
    BY <1>2, <1>3, <1>4, OtherSeats DEF Apart
  <2>2. ASSUME NEW c \in A, NEW k \in C PROVE FALSE
    BY <1>2, <1>3, <1>5, OtherSeats DEF Apart
  <2>3. ASSUME NEW s \in B, NEW k \in C PROVE FALSE
    BY <1>2, <1>4, <1>5, OtherSeats DEF Apart
  <2> HIDE DEF A, B, C
  <2> QED
    BY <2>1, <2>2, <2>3
<1>10. i \notin submitted => A = {} /\ B = {} /\ C = {}
  BY <1>2, <1>3, <1>4, <1>5
<1>11. Places(i) = Cardinality(A) + Cardinality(B) + Cardinality(C)
  BY DEF Places
<1> HIDE DEF A, B, C
<1>12. /\ Cardinality(A) = IF A = {} THEN 0 ELSE 1
       /\ Cardinality(B) = IF B = {} THEN 0 ELSE 1
       /\ Cardinality(C) = IF C = {} THEN 0 ELSE 1
  BY <1>6, <1>7, <1>8, AtMostOne
<1> QED
  BY <1>9, <1>10, <1>11, <1>12

\* The pipeline hands a case on, it never copies it: the answer to a submitted
\* case is with one thread, in one queue, or in one row, and a case that was not
\* submitted is nowhere, for any number of workers and any failure.
THEOREM OnePlaceAtATime == Safety => []OnePlace
<1>1. Init => TypeOK /\ Bounded /\ Owned
  BY InitTypes, InitOwned
<1>2. TypeOK /\ Bounded /\ Owned /\ [Next]_vars => (TypeOK /\ Bounded /\ Owned)'
  BY StepTypes, StepOwned
<1>3. TypeOK /\ Bounded /\ Owned => OnePlace
  BY OwnedIsOnePlace
<1> QED
  BY <1>1, <1>2, <1>3, PTL DEF Safety

-----------------------------------------------------------------------------
(* Nothing freed too early *)

\* NoDangling, holder by holder.
HandsAlive == \A c \in Consumers : \A k \in InHands(c) : <<k, job[c]>> \in live
LinesAlive == \A q \in Queues : \A i \in Range(queue[q]) : \A k \in Carried(q) : <<k, i>> \in live
MainAlive  == \A k \in MainObjects : <<k, current>> \in live

Alive == HandsAlive /\ LinesAlive /\ MainAlive

LEMMA AliveNoDangling == Alive => NoDangling
<1> SUFFICES ASSUME Alive, NEW o \in Reachable PROVE o \in live
  BY DEF NoDangling
<1>1. CASE \E c \in Consumers : o \in InHands(c) \X {job[c]}
  <2>1. PICK c \in Consumers : \E k \in InHands(c) : o = <<k, job[c]>>
    BY ONLY <1>1
  <2> QED
    BY <2>1 DEF Alive, HandsAlive
<1>2. CASE \E q \in Queues : o \in Carried(q) \X Range(queue[q])
  <2>1. PICK q \in Queues : \E k \in Carried(q), i \in Range(queue[q]) : o = <<k, i>>
    BY ONLY <1>2
  <2> QED
    BY <2>1 DEF Alive, LinesAlive
<1>3. CASE o \in MainObjects \X {current}
  <2>1. PICK k \in MainObjects : o = <<k, current>>
    BY ONLY <1>3
  <2> QED
    BY <2>1 DEF Alive, MainAlive
<1> QED
  BY <1>1, <1>2, <1>3 DEF Reachable

LEMMA InitAlive == Init => Alive
<1> SUFFICES ASSUME Init PROVE Alive
  OBVIOUS
<1>1. \A c \in Consumers : InHands(c) = {}
  BY DEF Init, Threads, Consumers, InHands, DbLabels
<1>2. \A q \in Queues : Range(queue[q]) = {}
  BY DEF Init, Range
<1>3. MainObjects = {}
  BY DEF Init, MainObjects, Threads
<1> QED
  BY <1>1, <1>2, <1>3 DEF Alive, HandsAlive, LinesAlive, MainAlive

\* Who can refer to the kinds made for the transfer, and for the answer.
TransferKinds == {"task", "request", "curl", "headers"}
AnswerKinds   == {"response", "dbtask"}

LEMMA WhoRefers ==
  ASSUME TypeOK, NEW c \in Consumers, NEW k \in InHands(c)
  PROVE  /\ k \in TransferKinds => pc[c] \in WorkerLabels
         /\ k \in AnswerKinds => pc[c] \in ResponseLabels
<1>1. CASE pc[c] \in WorkerLabels \cup {"forwarding"} \cup DbLabels
  BY <1>1 DEF InHands, TransferKinds, AnswerKinds, WorkerLabels, ResponseLabels, DbLabels,
     TaskObjects, CurlObjects, HeaderList, FreedFrom
<1>2. CASE pc[c] \notin WorkerLabels \cup {"forwarding"} \cup DbLabels
  BY <1>2 DEF InHands, WorkerLabels, DbLabels
<1> QED
  BY <1>1, <1>2

LEMMA WhoCarries ==
  ASSUME NEW q \in Queues, NEW k \in Carried(q)
  PROVE  k \in TransferKinds => q = "request"
BY DEF Queues, Carried, TransferKinds, AnswerKinds, TaskObjects

LEMMA HandsStay ==
  ASSUME TypeOK, NEW d \in Consumers, pc'[d] = pc[d], job'[d] = job[d],
         d \in Workers => exitTo'[d] = exitTo[d]
  PROVE  InHands(d)' = InHands(d)
<1>1. CASE d \in Workers
  BY <1>1 DEF InHands
<1>2. CASE d \notin Workers
  <2>1. pc[d] \in DispatcherLabels \cup DbLabels \cup Idle
    BY <1>2 DEF TypeOK, ThreadTypes, Consumers
  <2> QED
    BY <2>1 DEF InHands, DispatcherLabels, DbLabels, Idle
<1> QED
  BY <1>1, <1>2

\* A step of thread c that frees at most the objects of kinds K of case i.
Spares(c, K, i) ==
    /\ \A k, j : <<k, j>> \in live /\ ~ (k \in K /\ j = i) => <<k, j>> \in live'
    /\ \A d \in Consumers \ {c} : /\ pc'[d] = pc[d] /\ job'[d] = job[d]
                                  /\ d \in Workers => exitTo'[d] = exitTo[d]
                                  /\ job[d] = i => K \cap InHands(d) = {}
    /\ \A q \in Queues : i \in Range(queue[q]) => K \cap Carried(q) = {}
    /\ i = current => K \cap MainObjects = {}

LEMMA ConsumerAlive ==
  ASSUME TypeOK, Alive, NEW c \in Consumers, NEW K, NEW i, Spares(c, K, i),
         pc'[Main] = pc[Main], UNCHANGED mainVars,
         \A q \in Queues : \A j \in Range(queue'[q]) :
            j \in Range(queue[q]) \/ \A k \in Carried(q) : <<k, j>> \in live',
         \A k \in InHands(c)' : <<k, job'[c]>> \in live'
  PROVE  Alive'
<1>1. HandsAlive'
  <2> SUFFICES ASSUME NEW d \in Consumers, d # c, NEW k \in InHands(d)'
               PROVE  <<k, job'[d]>> \in live'
    BY DEF HandsAlive
  <2>1. k \in InHands(d) /\ job'[d] = job[d]
    BY HandsStay DEF Spares
  <2>2. <<k, job[d]>> \in live
    BY <2>1 DEF Alive, HandsAlive
  <2> QED
    BY <2>1, <2>2 DEF Spares
<1>2. LinesAlive'
  <2> SUFFICES ASSUME NEW q \in Queues, NEW j \in Range(queue'[q]), NEW k \in Carried(q)
               PROVE  <<k, j>> \in live'
    BY DEF LinesAlive, Carried
  <2>1. CASE j \in Range(queue[q])
    <3>1. <<k, j>> \in live
      BY <2>1 DEF Alive, LinesAlive
    <3> QED
      BY <2>1, <3>1 DEF Spares
  <2> QED
    BY <2>1
<1>3. MainAlive'
  <2>1. MainObjects' = MainObjects /\ current' = current
    BY DEF MainObjects, mainVars
  <2> QED
    BY <2>1 DEF MainAlive, Alive, Spares
<1> QED
  BY <1>1, <1>2, <1>3 DEF Alive

\* The others stay where they are.
Alone(c) == \A d \in Consumers \ {c} : /\ pc'[d] = pc[d] /\ job'[d] = job[d]
                                       /\ d \in Workers => exitTo'[d] = exitTo[d]

FreesOnly(K, i) == \A k, j : <<k, j>> \in live /\ ~ (k \in K /\ j = i) => <<k, j>> \in live'

LEMMA SparesAll ==
  ASSUME NEW c \in Consumers, Alone(c), live \subseteq live'
  PROVE  Spares(c, {}, 0)
BY DEF Spares, Alone

LEMMA SparesTransfer ==
  ASSUME TypeOK, Owned, NEW c \in Consumers, pc[c] \in WorkerLabels, Alone(c),
         NEW K \in SUBSET TransferKinds, FreesOnly(K, job[c])
  PROVE  Spares(c, K, job[c])
<1>1. /\ \A d \in Consumers \ {c} : pc[d] \in WorkerLabels => job[d] # job[c]
      /\ job[c] \notin Range(queue["request"])
      /\ job[c] \in submitted
  <2>1. Spread(WorkerLabels, {"request"}, {})
    BY DEF Owned, TasksSpread
  <2>2. "request" \in Queues \cap {"request"}
    BY DEF Queues
  <2> QED
    BY <2>1, <2>2, AloneAt
<1>2. ASSUME NEW d \in Consumers \ {c}, job[d] = job[c] PROVE K \cap InHands(d) = {}
  BY <1>1, <1>2, WhoRefers
<1>3. ASSUME NEW q \in Queues, job[c] \in Range(queue[q]) PROVE K \cap Carried(q) = {}
  BY <1>1, <1>3, WhoCarries
<1>4. ASSUME job[c] = current PROVE MainObjects = {}
  <2>1. current \in Nat /\ current \in submitted
    BY <1>1, <1>4 DEF TypeOK, RunTypes
  <2>2. held = {} /\ pc[Main] # "dispatching"
    BY <2>1 DEF Owned, NotYetSubmitted
  <2> QED
    BY <2>2 DEF MainObjects
<1> QED
  BY <1>2, <1>3, <1>4 DEF Spares, Alone, FreesOnly

LEMMA SparesAnswer ==
  ASSUME TypeOK, Owned, NEW c \in Consumers, pc[c] \in ResponseLabels, Alone(c),
         NEW K \in SUBSET AnswerKinds, FreesOnly(K, job[c])
  PROVE  Spares(c, K, job[c])
<1>1. /\ \A d \in Consumers \ {c} : pc[d] \in ResponseLabels => job[d] # job[c]
      /\ \A q \in Queues : job[c] \notin Range(queue[q])
  BY AloneAt DEF Owned, ResponsesSpread
<1>2. ASSUME NEW d \in Consumers \ {c}, job[d] = job[c] PROVE K \cap InHands(d) = {}
  BY <1>1, <1>2, WhoRefers
<1>3. K \cap MainObjects = {}
  BY DEF MainObjects, TaskObjects, AnswerKinds, TypeOK, RunTypes
<1> QED
  BY <1>1, <1>2, <1>3 DEF Spares, Alone, FreesOnly

LEMMA PopAlive ==
  ASSUME TypeOK, Alive, NEW q \in Queues, NEW c \in Consumers, Pop(c, q, Received(q)),
         UNCHANGED <<exitTo, live, mainVars>>
  PROVE  Alive'
<1>1. queue[q] \in Seq(Cases) /\ queue[q] # <<>>
  BY DEF TypeOK, ObjectTypes, Pop
<1>2. PICK i : i = Head(queue[q]) /\ i \in Range(queue[q])
  BY <1>1, HeadTailProperties, LenProperties, EmptySeq DEF Range
<1>3. /\ pc'[c] = Received(q) /\ job'[c] = i /\ queue'[q] = Tail(queue[q])
      /\ \A r \in Queues \ {q} : queue'[r] = queue[r]
      /\ Alone(c) /\ pc'[Main] = pc[Main]
  BY <1>2 DEF Pop, Rest, Goto, Alone, TypeOK, ThreadTypes, ObjectTypes, Threads, Consumers
<1>4. Range(Tail(queue[q])) \subseteq Range(queue[q])
  <2>1. /\ DOMAIN queue[q] = 1 .. Len(queue[q]) /\ Len(queue[q]) \in Nat \ {0}
        /\ DOMAIN Tail(queue[q]) = 1 .. Len(queue[q]) - 1
        /\ \A k \in 1 .. Len(queue[q]) - 1 : Tail(queue[q])[k] = queue[q][k + 1]
    BY <1>1, HeadTailProperties, LenProperties, EmptySeq
  <2>2. \A k \in 1 .. Len(queue[q]) - 1 : k + 1 \in 1 .. Len(queue[q])
    BY <2>1
  <2> QED
    BY <2>1, <2>2 DEF Range
<1>5. InHands(c)' \subseteq Carried(q)
  BY <1>3 DEF InHands, Carried, Received, Queues, DbLabels
<1>6. \A k \in InHands(c)' : <<k, job'[c]>> \in live'
  BY <1>2, <1>3, <1>5 DEF Alive, LinesAlive
<1>7. \A r \in Queues : Range(queue'[r]) \subseteq Range(queue[r])
  BY <1>3, <1>4
<1> QED
  BY <1>3, <1>6, <1>7, SparesAll, ConsumerAlive

\* queue_pop gives NULL, or the consumer is done with its case.
LEMMA IdleHands ==
  ASSUME NEW c \in Consumers, pc'[c] \in {"idle", "exited"}
  PROVE  InHands(c)' = {}
BY DEF InHands, DbLabels

LEMMA WorkerHands ==
  ASSUME NEW w
  PROVE  /\ pc[w] = "setup" => InHands(w) = TaskObjects
         /\ pc[w] = "performing" => InHands(w) = TaskObjects \cup CurlObjects(job[w])
         /\ pc[w] = "pushing" => InHands(w) = {"response"} \cup FreedFrom(exitTo[w], job[w])
         /\ pc'[w] = "performing" => InHands(w)' = TaskObjects \cup CurlObjects(job'[w])
         /\ pc'[w] = "pushing" => InHands(w)' = {"response"} \cup FreedFrom(exitTo'[w], job'[w])
         /\ pc'[w] = "releasing" => InHands(w)' = FreedFrom(exitTo'[w], job'[w])
BY DEF InHands, DbLabels

LEMMA HttpWorkerAlive ==
  ASSUME TypeOK, Owned, Alive, NEW w \in Workers, HttpWorker(w)
  PROVE  Alive'
<1>a. w \in Consumers /\ pc'[Main] = pc[Main] /\ UNCHANGED mainVars
  BY HttpWorkerTypes DEF Consumers
<1>b. ASSUME NEW l, Goto(w, l), \A d \in Consumers \ {w} : job'[d] = job[d],
             \A d \in Workers \ {w} : exitTo'[d] = exitTo[d]
      PROVE  pc'[w] = l /\ Alone(w)
  BY <1>a, <1>b DEF Goto, Alone, TypeOK, ThreadTypes, Threads
<1>c. \A k \in InHands(w) : <<k, job[w]>> \in live
  BY <1>a DEF Alive, HandsAlive
\* Within the body of the loop, as long as nothing is freed.
<1>d. ASSUME Alone(w), live \subseteq live', UNCHANGED <<job, queue>>,
             \A k \in InHands(w)' : k \in InHands(w) \/ <<k, job[w]>> \in live'
      PROVE  Alive'
  <2>1. \A k \in InHands(w)' : <<k, job'[w]>> \in live'
    BY <1>c, <1>d
  <2> QED
    BY <1>a, <1>d, <2>1, SparesAll, ConsumerAlive
<1>e. ASSUME NEW ok, NEW made, NEW l, Answer(w, ok, made, l)
      PROVE  /\ pc'[w] = "pushing" /\ Alone(w) /\ live' = Made(made, job[w])
             /\ UNCHANGED <<job, queue>> /\ exitTo'[w] = l
             /\ InHands(w)' = {"response"} \cup FreedFrom(l, job[w])
  <2>1. /\ pc'[w] = "pushing" /\ Alone(w) /\ live' = Made(made, job[w])
        /\ UNCHANGED <<job, queue>> /\ exitTo'[w] = l
    BY <1>b, <1>e DEF Answer, queueVars, TypeOK, ThreadTypes
  <2> QED
    BY <2>1, WorkerHands
<1>1. CASE WorkerPop(w)
  BY <1>1, <1>a, PopAlive DEF WorkerPop, Received, Queues, heapVars
<1>2. CASE WorkerExit(w)
  <2>1. pc'[w] = "exited" /\ Alone(w) /\ UNCHANGED <<job, queue, live>>
    BY <1>2, <1>b DEF WorkerExit, PopNull, Leave, queueVars, heapVars
  <2> QED
    BY <1>a, <1>d, <2>1, IdleHands
<1>3. CASE WorkerNoResponse(w)
  <2>1. /\ pc[w] = "setup" /\ pc'[w] = "releasing" /\ Alone(w) /\ UNCHANGED <<job, queue, live>>
        /\ exitTo'[w] = "cleanup_task"
    BY <1>3, <1>b DEF WorkerNoResponse, queueVars, heapVars, TypeOK, ThreadTypes
  <2>2. InHands(w)' = TaskObjects /\ InHands(w) = TaskObjects
    BY <2>1, WorkerHands DEF FreedFrom
  <2> QED
    BY <1>d, <2>1, <2>2
<1>4. CASE WorkerSetupFails(w)
  <2>1. pc[w] = "setup" /\ InHands(w) = TaskObjects
    BY <1>4, WorkerHands DEF WorkerSetupFails
  <2>2. ASSUME NEW made, NEW l, Answer(w, FALSE, made, l),
               {"response"} \cup FreedFrom(l, job[w]) \subseteq TaskObjects \cup made
        PROVE  Alive'
    <3>0. live' = live \cup (made \X {job[w]})
      BY <1>e, <2>2 DEF Made
    <3>1. \A k \in made : <<k, job[w]>> \in live'
      BY <3>0
    <3>2. live \subseteq live'
      BY <3>0
    <3> QED
      BY <1>d, <1>e, <2>1, <2>2, <3>1, <3>2
  <2>3. CASE Answer(w, FALSE, {"response"}, "cleanup_task")
    BY <2>2, <2>3 DEF FreedFrom, TaskObjects
  <2>4. CASE Answer(w, FALSE, {"response", "curl"}, "cleanup_curl")
    BY <2>2, <2>4 DEF FreedFrom, TaskObjects
  <2>5. CASE Answer(w, FALSE, CurlObjects(job[w]), "cleanup_curl")
    BY <2>2, <2>5 DEF FreedFrom, TaskObjects, CurlObjects
  <2> QED
    BY <1>4, <2>3, <2>4, <2>5 DEF WorkerSetupFails
<1>5. CASE WorkerSetup(w)
  <2>1. /\ pc[w] = "setup" /\ pc'[w] = "performing" /\ Alone(w) /\ UNCHANGED <<job, queue>>
        /\ live' = Made(CurlObjects(job[w]), job[w])
    BY <1>5, <1>b DEF WorkerSetup, queueVars
  <2>2. InHands(w)' = TaskObjects \cup CurlObjects(job[w]) /\ InHands(w) = TaskObjects
    BY <2>1, WorkerHands
  <2>3. live \subseteq live' /\ \A k \in CurlObjects(job[w]) : <<k, job[w]>> \in live'
    BY <2>1 DEF Made
  <2> QED
    BY <1>d, <2>1, <2>2, <2>3
<1>6. CASE WorkerPerform(w)
  <2>1. PICK ok : pc[w] = "performing" /\ Answer(w, ok, {}, "cleanup_header_list")
    BY <1>6 DEF WorkerPerform
  <2>2. InHands(w) = TaskObjects \cup CurlObjects(job[w])
    BY <2>1, WorkerHands
  <2>3. {"response"} \cup FreedFrom("cleanup_header_list", job[w]) \subseteq InHands(w)
    BY <2>2 DEF FreedFrom, CurlObjects
  <2>4. live \subseteq live'
    BY <1>e, <2>1 DEF Made
  <2> QED
    BY <1>d, <1>e, <2>1, <2>3, <2>4
<1>7. CASE WorkerPush(w)
  <2>1. /\ pc[w] = "pushing" /\ pc'[w] = "releasing" /\ Alone(w) /\ UNCHANGED <<job, exitTo>>
    BY <1>7, <1>b DEF WorkerPush
  <2>2. PICK i \in Cases : i = job[w]
    BY <1>a, <2>1 DEF TypeOK, ThreadTypes, Idle
  <2>3. InHands(w)' = FreedFrom(exitTo[w], i) /\ InHands(w) = {"response"} \cup FreedFrom(exitTo[w], i)
    BY <2>1, <2>2, WorkerHands
  <2>4. CASE Push("response", i) /\ UNCHANGED live
    <3>1. \A q \in Queues : \A j \in Range(queue'[q]) :
             j \in Range(queue[q]) \/ (q = "response" /\ j = i)
      <4>1. /\ queue'["response"] = Append(queue["response"], i)
            /\ \A q \in Queues \ {"response"} : queue'[q] = queue[q]
        BY <2>4 DEF Push, AtBack, TypeOK, ObjectTypes, Queues
      <4>2. Range(Append(queue["response"], i)) = Range(queue["response"]) \cup {i}
        BY AppendDistinct DEF TypeOK, ObjectTypes, Queues
      <4> QED
        BY <4>1, <4>2
    <3>2. \A k \in Carried("response") : <<k, i>> \in live'
      BY <1>c, <2>2, <2>3, <2>4 DEF Carried
    <3>3. \A k \in InHands(w)' : <<k, job'[w]>> \in live'
      BY <1>c, <2>1, <2>2, <2>3, <2>4
    <3> QED
      BY <1>a, <2>1, <2>4, <3>1, <3>2, <3>3, SparesAll, ConsumerAlive
  <2>5. CASE queue' = queue /\ live' = Freed(FreeUnpushed, i)
    <3>1. FreesOnly({"response"}, i)
      BY <2>5 DEF Freed, FreeUnpushed, FreesOnly
    <3>2. pc[w] \in ResponseLabels /\ {"response"} \in SUBSET AnswerKinds
      BY <2>1 DEF ResponseLabels, AnswerKinds
    <3>3. Spares(w, {"response"}, i)
      BY <1>a, <2>1, <2>2, <3>1, <3>2, SparesAnswer
    <3>4. "response" \notin FreedFrom(exitTo[w], i)
      BY DEF FreedFrom, TaskObjects, HeaderList
    <3>5. \A k \in InHands(w)' : <<k, job'[w]>> \in live'
      BY <1>c, <2>1, <2>2, <2>3, <3>1, <3>4 DEF FreesOnly
    <3> QED
      BY <1>a, <2>5, <3>3, <3>5, ConsumerAlive
  <2> QED
    BY <1>7, <2>2, <2>4, <2>5 DEF WorkerPush, PushFails, queueVars
<1>8. CASE WorkerRelease(w)
  <2>1. /\ pc[w] = "releasing" /\ pc'[w] = "idle" /\ Alone(w) /\ queue' = queue
        /\ live' = Freed(FreedFrom(exitTo[w], job[w]), job[w])
    <3>1. Goto(w, "idle") /\ \A d \in Consumers \ {w} : job'[d] = job[d]
      BY <1>8 DEF WorkerRelease, Release, TypeOK, ThreadTypes
    <3> QED
      BY <1>8, <1>b, <3>1 DEF WorkerRelease, queueVars
  <2>2. PICK K : K = FreedFrom(exitTo[w], job[w])
    OBVIOUS
  <2>3. K \in SUBSET TransferKinds
    BY <2>2 DEF FreedFrom, TaskObjects, HeaderList, TransferKinds
  <2>4. FreesOnly(K, job[w]) /\ pc[w] \in WorkerLabels
    BY <2>1, <2>2 DEF Freed, FreesOnly, WorkerLabels
  <2>5. Spares(w, K, job[w])
    BY <1>a, <2>1, <2>3, <2>4, SparesTransfer
  <2>6. InHands(w)' = {}
    BY <1>a, <2>1, IdleHands
  <2> QED
    BY <1>a, <2>1, <2>5, <2>6, ConsumerAlive
<1> QED
  BY <1>1, <1>2, <1>3, <1>4, <1>5, <1>6, <1>7, <1>8 DEF HttpWorker

LEMMA DispatcherAlive ==
  ASSUME TypeOK, Owned, Alive, DispatcherStep
  PROVE  Alive'
<1> DEFINE c == Dispatcher
<1>a. c \in Consumers /\ pc'[Main] = pc[Main] /\ UNCHANGED mainVars
  BY DispatcherTypes DEF Consumers
<1>b. ASSUME NEW l, Goto(c, l), \A d \in Consumers \ {c} : job'[d] = job[d], exitTo' = exitTo
      PROVE  pc'[c] = l /\ Alone(c)
  BY <1>a, <1>b DEF Goto, Alone, TypeOK, ThreadTypes, Threads
<1>c. \A k \in InHands(c) : <<k, job[c]>> \in live
  BY <1>a DEF Alive, HandsAlive
<1>1. CASE DispatcherPop
  BY <1>1, <1>a, PopAlive DEF DispatcherPop, Received, Queues, heapVars
<1>2. CASE DispatcherExit
  <2>1. pc'[c] = "exited" /\ Alone(c) /\ UNCHANGED <<job, queue, live>>
    BY <1>2, <1>b DEF DispatcherExit, PopNull, Leave, queueVars, heapVars
  <2>2. InHands(c)' = {}
    BY <1>a, <2>1, IdleHands
  <2> QED
    BY <1>a, <2>1, <2>2, SparesAll, ConsumerAlive
<1>3. CASE DispatcherForward \/ DispatcherDrops
  <2>1. pc[c] = "forwarding" /\ pc'[c] = "idle" /\ Alone(c)
    <3>1. Goto(c, "idle") /\ (\A d \in Consumers \ {c} : job'[d] = job[d]) /\ exitTo' = exitTo
      BY <1>3 DEF DispatcherForward, DispatcherDrops, Release, TypeOK, ThreadTypes
    <3> QED
      BY <1>3, <1>b, <3>1 DEF DispatcherForward, DispatcherDrops
  <2>2. PICK i \in Cases : i = job[c]
    BY <1>a, <2>1 DEF TypeOK, ThreadTypes, Idle
  <2>3. InHands(c) = {"response"} /\ InHands(c)' = {}
    BY <2>1 DEF InHands, DbLabels
  <2>4. CASE DispatcherForward
    <3>1. Push("db", i) /\ live \subseteq live' /\ <<"dbtask", i>> \in live'
      BY <2>2, <2>4 DEF DispatcherForward, Made, KeepForwarded
    <3>2. \A q \in Queues : \A j \in Range(queue'[q]) : j \in Range(queue[q]) \/ (q = "db" /\ j = i)
      <4>1. /\ queue'["db"] = Append(queue["db"], i)
            /\ \A q \in Queues \ {"db"} : queue'[q] = queue[q]
        BY <3>1 DEF Push, AtBack, TypeOK, ObjectTypes, Queues
      <4>2. Range(Append(queue["db"], i)) = Range(queue["db"]) \cup {i}
        BY AppendDistinct DEF TypeOK, ObjectTypes, Queues
      <4> QED
        BY <4>1, <4>2
    <3>3. \A k \in Carried("db") : <<k, i>> \in live'
      BY <1>c, <2>2, <2>3, <3>1 DEF Carried
    <3> QED
      BY <1>a, <2>1, <2>3, <3>1, <3>2, <3>3, SparesAll, ConsumerAlive
  <2>5. CASE DispatcherDrops
    <3>1. FreesOnly({"response"}, i) /\ queue' = queue
      BY <2>2, <2>5 DEF DispatcherDrops, PushFails, Freed, FreesOnly, queueVars
    <3>2. pc[c] \in ResponseLabels /\ {"response"} \in SUBSET AnswerKinds
      BY <2>1 DEF ResponseLabels, AnswerKinds
    <3>3. Spares(c, {"response"}, i)
      BY <1>a, <2>1, <2>2, <3>1, <3>2, SparesAnswer
    <3> QED
      BY <1>a, <2>3, <3>1, <3>3, ConsumerAlive
  <2> QED
    BY <1>3, <2>4, <2>5
<1> QED
  BY <1>1, <1>2, <1>3 DEF DispatcherStep

LEMMA DbWorkerAlive ==
  ASSUME TypeOK, Owned, Alive, DbWorkerStep
  PROVE  Alive'
<1> DEFINE c == DbWorker
<1>a. c \in Consumers /\ pc'[Main] = pc[Main] /\ UNCHANGED mainVars
  BY DbWorkerTypes DEF Consumers
<1>b. ASSUME NEW l, Goto(c, l), \A d \in Consumers \ {c} : job'[d] = job[d], exitTo' = exitTo
      PROVE  pc'[c] = l /\ Alone(c)
  BY <1>a, <1>b DEF Goto, Alone, TypeOK, ThreadTypes, Threads
<1>c. \A k \in InHands(c) : <<k, job[c]>> \in live
  BY <1>a DEF Alive, HandsAlive
<1>1. CASE DbWorkerPop
  BY <1>1, <1>a, PopAlive DEF DbWorkerPop, Received, Queues, heapVars
<1>2. CASE DbWorkerExit
  <2>1. pc'[c] = "exited" /\ Alone(c) /\ UNCHANGED <<job, queue, live>>
    BY <1>2, <1>b DEF DbWorkerExit, PopNull, Leave, queueVars, heapVars
  <2>2. InHands(c)' = {}
    BY <1>a, <2>1, IdleHands
  <2> QED
    BY <1>a, <2>1, <2>2, SparesAll, ConsumerAlive
<1>3. CASE DbWorkerInsert \/ DbWorkerInsertFails \/ DbWorkerRowid
  <2>1. /\ pc[c] \in DbLabels /\ pc'[c] \in DbLabels /\ Alone(c) /\ UNCHANGED <<job, queue, live>>
    <3>1. PICK l \in DbLabels : Goto(c, l)
      BY <1>3 DEF DbWorkerInsert, DbWorkerInsertFails, DbWorkerRowid, DbLabels
    <3>2. pc[c] \in DbLabels /\ UNCHANGED <<job, queue, live, exitTo>>
      BY <1>3 DEF DbWorkerInsert, DbWorkerInsertFails, DbWorkerRowid, DbLabels,
         queueVars, heapVars
    <3> QED
      BY <1>b, <3>1, <3>2
  <2>2. InHands(c)' = InHands(c)
    BY <2>1 DEF InHands, DbLabels
  <2> QED
    BY <1>a, <1>c, <2>1, <2>2, SparesAll, ConsumerAlive
<1>4. CASE DbWorkerFree
  <2>1. /\ pc[c] \in DbLabels /\ pc'[c] = "idle" /\ Alone(c) /\ queue' = queue
        /\ live' = Freed(AnswerKinds, job[c])
    <3>1. Goto(c, "idle") /\ (\A d \in Consumers \ {c} : job'[d] = job[d]) /\ exitTo' = exitTo
      BY <1>4 DEF DbWorkerFree, Release, TypeOK, ThreadTypes
    <3> QED
      BY <1>4, <1>b, <3>1 DEF DbWorkerFree, queueVars, DbLabels, AnswerKinds
  <2>2. FreesOnly(AnswerKinds, job[c]) /\ pc[c] \in ResponseLabels
    BY <2>1 DEF Freed, FreesOnly, ResponseLabels
  <2>3. Spares(c, AnswerKinds, job[c])
    BY <1>a, <2>1, <2>2, SparesAnswer
  <2>4. InHands(c)' = {}
    BY <1>a, <2>1, IdleHands
  <2> QED
    BY <1>a, <2>1, <2>3, <2>4, ConsumerAlive
<1> QED
  BY <1>1, <1>2, <1>3, <1>4 DEF DbWorkerStep

LEMMA MainKeepsAlive ==
  ASSUME TypeOK, Alive, NEW K, FreesOnly(K, current),
         \A c \in Consumers : pc'[c] = pc[c] \/ pc'[c] = "idle", UNCHANGED <<job, exitTo>>,
         \A c \in Consumers : job[c] = current => K \cap InHands(c) = {},
         \A q \in Queues : current \in Range(queue[q]) => K \cap Carried(q) = {},
         \A q \in Queues : \A j \in Range(queue'[q]) :
            j \in Range(queue[q]) \/ \A k \in Carried(q) : <<k, j>> \in live',
         MainAlive'
  PROVE  Alive'
<1>1. HandsAlive'
  <2> SUFFICES ASSUME NEW c \in Consumers, NEW k \in InHands(c)'
               PROVE  <<k, job[c]>> \in live'
    BY DEF HandsAlive
  <2>1. k \in InHands(c)
    BY HandsStay, IdleHands
  <2>2. <<k, job[c]>> \in live
    BY <2>1 DEF Alive, HandsAlive
  <2> QED
    BY <2>1, <2>2 DEF FreesOnly
<1>2. LinesAlive'
  <2> SUFFICES ASSUME NEW q \in Queues, NEW j \in Range(queue'[q]), NEW k \in Carried(q)
               PROVE  <<k, j>> \in live'
    BY DEF LinesAlive, Carried
  <2>1. CASE j \in Range(queue[q])
    <3>1. <<k, j>> \in live
      BY <2>1 DEF Alive, LinesAlive
    <3> QED
      BY <2>1, <3>1 DEF FreesOnly
  <2> QED
    BY <2>1
<1> QED
  BY <1>1, <1>2 DEF Alive

LEMMA RunPlanAlive ==
  ASSUME TypeOK, Bounded, Owned, Alive, RunPlan
  PROVE  Alive'
<1>a. ASSUME NEW l, Goto(Main, l) PROVE pc'[Main] = l /\ \A c \in Consumers : pc'[c] = pc[c]
  BY <1>a DEF Goto, TypeOK, ThreadTypes, Threads, Consumers
<1>b. ASSUME live \subseteq live' PROVE FreesOnly({}, current)
  BY <1>b DEF FreesOnly
<1>c. held \subseteq TaskObjects
  BY DEF TypeOK, RunTypes, TaskObjects
<1>1. CASE HoldsNothing
  <2>1. held = {}
    BY <1>1, HoldsNothingMoves DEF Owned, NotYetSubmitted
  <2>2. MainObjects' = {}
    BY <1>1, <2>1, HoldsNothingMoves DEF MainObjects
  <2>3. MainAlive' /\ live' = live
    BY <1>1, <2>2, HoldsNothingMoves DEF MainAlive
  <2>4. \A q \in Queues : Range(queue'[q]) \subseteq Range(queue[q])
    BY <1>1, HoldsNothingMoves DEF Range
  <2> QED
    BY <1>1, <1>b, <2>3, <2>4, HoldsNothingMoves, MainKeepsAlive
<1>2. CASE SubmitCase
  <2>1. /\ pc'[Main] = "dispatching" /\ live' = live \cup ({"request", "task"} \X {current})
        /\ UNCHANGED <<current, job, exitTo, queue>> /\ \A c \in Consumers : pc'[c] = pc[c]
    BY <1>2, <1>a DEF SubmitCase, Made, queueVars
  <2>2. MainAlive'
    BY <2>1 DEF MainAlive, MainObjects, TaskObjects
  <2>3. live \subseteq live'
    BY <2>1
  <2> QED
    BY <1>b, <2>1, <2>2, <2>3, MainKeepsAlive
<1>3. CASE SubmitFails
  <2>1. /\ pc[Main] = "submitting" /\ pc'[Main] = "cleanup"
        /\ UNCHANGED <<current, job, exitTo, queue>> /\ \A c \in Consumers : pc'[c] = pc[c]
    BY <1>3, <1>a DEF SubmitFails, queueVars
  <2>2. \/ UNCHANGED <<live, held>>
        \/ live' = live \cup ({"request"} \X {current}) /\ held' = {"request"}
    BY <1>3 DEF SubmitFails, Made
  <2>3. held = {}
    BY <2>1 DEF Owned, NotYetSubmitted
  <2>4. MainAlive'
    BY <2>1, <2>2, <2>3 DEF MainAlive, MainObjects
  <2>5. live \subseteq live'
    BY <2>2
  <2> QED
    BY <1>b, <2>1, <2>4, <2>5, MainKeepsAlive
<1>4. CASE DispatchCase
  <2>1. /\ pc[Main] = "dispatching" /\ pc'[Main] = "submitting" /\ held' = {}
        /\ UNCHANGED <<job, exitTo, live>> /\ \A c \in Consumers : pc'[c] = pc[c]
    BY <1>4, <1>a DEF DispatchCase, heapVars
  <2>2. PICK i \in Cases : i = current /\ Push("request", i)
    BY <1>4, <2>1 DEF DispatchCase, Bounded, TypeOK, RunTypes, Cases
  <2>3. \A q \in Queues : \A j \in Range(queue'[q]) :
           j \in Range(queue[q]) \/ (q = "request" /\ j = i)
    <3>1. /\ queue'["request"] = Append(queue["request"], i)
          /\ \A q \in Queues \ {"request"} : queue'[q] = queue[q]
      BY <2>2 DEF Push, AtBack, TypeOK, ObjectTypes, Queues
    <3>2. Range(Append(queue["request"], i)) = Range(queue["request"]) \cup {i}
      BY AppendDistinct DEF TypeOK, ObjectTypes, Queues
    <3> QED
      BY <3>1, <3>2
  <2>4. \A k \in Carried("request") : <<k, i>> \in live'
    BY <2>1, <2>2 DEF Carried, Alive, MainAlive, MainObjects
  <2>5. MainAlive'
    BY <2>1 DEF MainAlive, MainObjects
  <2> QED
    BY <1>b, <2>1, <2>3, <2>4, <2>5, MainKeepsAlive
<1>5. CASE DispatchFails
  <2>1. /\ pc[Main] = "dispatching" /\ pc'[Main] = "cleanup"
        /\ UNCHANGED <<held, current, live, job, exitTo, queue>>
        /\ \A c \in Consumers : pc'[c] = pc[c]
    BY <1>5, <1>a DEF DispatchFails, PushFails, queueVars, heapVars
  <2>2. \A k \in TaskObjects : <<k, current>> \in live
    BY <2>1 DEF Alive, MainAlive, MainObjects
  <2>3. MainAlive'
    BY <1>c, <2>1, <2>2 DEF MainAlive, MainObjects
  <2> QED
    BY <1>b, <2>1, <2>3, MainKeepsAlive
<1>6. CASE FreeHeld
  <2>1. /\ pc'[Main] = "close_request" /\ held' = {} /\ live' = Freed(held, current)
        /\ UNCHANGED <<current, job, exitTo, queue>> /\ \A c \in Consumers : pc'[c] = pc[c]
    BY <1>6, <1>a DEF FreeHeld, queueVars
  <2>2. MainAlive'
    BY <2>1 DEF MainAlive, MainObjects
  <2>3. FreesOnly(held, current)
    BY <2>1 DEF FreesOnly, Freed
  <2>4. held # {} => current \notin submitted
    <3>1. current \in Nat
      BY DEF TypeOK, RunTypes
    <3> QED
      BY <3>1 DEF Owned, NotYetSubmitted
  <2>5. held \subseteq TransferKinds
    BY <1>c DEF TaskObjects, TransferKinds
  <2>6. ASSUME NEW c \in Consumers, job[c] = current PROVE held \cap InHands(c) = {}
    <3>1. pc[c] \in WorkerLabels => job[c] \in submitted
      BY AloneAt DEF Owned, TasksSpread
    <3> QED
      BY <2>4, <2>5, <2>6, <3>1, WhoRefers
  <2>7. ASSUME NEW q \in Queues, current \in Range(queue[q]) PROVE held \cap Carried(q) = {}
    <3>1. Range(queue[q]) \subseteq submitted
      <4>1. PICK H : H = At(ResponseLabels, Queues, {})
        OBVIOUS
      <4>2. Line(q) \in Seats /\ H[Line(q)] = Queued(q, Queues)
        BY <4>1, AtSeats
      <4>3. H[Line(q)] \subseteq submitted
        BY <4>1, <4>2 DEF Owned, ResponsesSpread, Spread
      <4> QED
        BY <4>2, <4>3 DEF Queued
    <3> QED
      BY <2>4, <2>7, <3>1
  <2> QED
    BY <2>1, <2>2, <2>3, <2>6, <2>7, MainKeepsAlive
<1> QED
  BY <1>1, <1>2, <1>3, <1>4, <1>5, <1>6 DEF RunPlan, HoldsNothing

LEMMA StepAlive == TypeOK /\ Bounded /\ Owned /\ Alive /\ [Next]_vars => Alive'
<1> SUFFICES ASSUME TypeOK, Bounded, Owned, Alive, [Next]_vars PROVE Alive'
  OBVIOUS
<1>1. CASE RunPlan
  BY <1>1, RunPlanAlive
<1>2. ASSUME NEW w \in Workers, HttpWorker(w) PROVE Alive'
  BY <1>2, HttpWorkerAlive
<1>3. CASE DispatcherStep
  BY <1>3, DispatcherAlive
<1>4. CASE DbWorkerStep
  BY <1>4, DbWorkerAlive
<1>5. CASE UNCHANGED vars
  BY <1>5 DEF Alive, HandsAlive, LinesAlive, MainAlive, InHands, Carried, MainObjects,
     vars, threadVars, queueVars, heapVars, mainVars
<1> QED
  BY <1>1, <1>2, <1>3, <1>4, <1>5 DEF Next, Returned

\* What the threads and the queues refer to was not freed: the request and the
\* task go with the HTTP worker, the response and the DB task with the DB
\* worker, and each stage frees only what no other stage can still reach.
THEOREM NothingFreedTooEarly == Safety => []NoDangling
<1>1. Init => TypeOK /\ Bounded /\ Owned /\ Alive
  BY InitTypes, InitOwned, InitAlive
<1>2. TypeOK /\ Bounded /\ Owned /\ Alive /\ [Next]_vars
         => (TypeOK /\ Bounded /\ Owned /\ Alive)'
  BY StepTypes, StepOwned, StepAlive
<1>3. Alive => NoDangling
  BY AliveNoDangling
<1> QED
  BY <1>1, <1>2, <1>3, PTL DEF Safety

-----------------------------------------------------------------------------
(* The answer of this run *)

\* The id a submitted case was given, and the request each row of this run is
\* an answer to, are rows of its identity.
IdsOwn  == \A i \in submitted : Names(requestId[i], Identity[i])
RowsOwn == \A k \in DOMAIN responses : responses[k].origin # 0 =>
              /\ responses[k].origin \in submitted
              /\ Names(responses[k].request, Identity[responses[k].origin])

\* Rows of no case are those an earlier run left.
OldFirst == \A k \in DOMAIN responses : responses[k].origin = 0 => k \in DOMAIN OldRequests

Traced == IdsOwn /\ RowsOwn /\ OldFirst

LEMMA InitTraced == Init => Traced
BY DEF Init, DbInit, Traced, IdsOwn, RowsOwn, OldFirst

LEMMA TracedKept ==
  ASSUME Traced, Extends(requests', requests), responses' = responses,
         submitted \subseteq submitted',
         \A i \in submitted : requestId'[i] = requestId[i],
         \A i \in submitted' \ submitted : Names(requestId[i], Identity[i])
                                           /\ requestId'[i] = requestId[i]
  PROVE  Traced'
<1>1. IdsOwn'
  BY NamesStays DEF Traced, IdsOwn, Names, Extends
<1>2. RowsOwn'
  BY DEF Traced, RowsOwn, Names, Extends
<1>3. OldFirst'
  BY DEF Traced, OldFirst
<1> QED
  BY <1>1, <1>2, <1>3 DEF Traced

LEMMA RunPlanTraced ==
  ASSUME TypeOK, Bounded, Owned, Asked, Traced, RunPlan
  PROVE  Traced'
<1>1. CASE DispatchCase
  <2>1. /\ pc[Main] = "dispatching" /\ submitted' = submitted \cup {current}
        /\ UNCHANGED <<requestId, requests, responses>>
    BY <1>1 DEF DispatchCase, dbVars
  <2>2. current \in Cases /\ SavedCases = current
    BY <2>1 DEF Bounded, TypeOK, RunTypes, Cases, SavedCases
  <2>3. Names(requestId[current], Identity[current])
    BY <2>2 DEF Asked, SavedSoFar, Cases
  <2> QED
    BY <2>1, <2>3, TracedKept, SelfExtends
<1>2. CASE SubmitCase
  <2>1. /\ pc[Main] = "submitting" /\ current \in Cases
        /\ UNCHANGED <<submitted, responses>>
    BY <1>2 DEF SubmitCase, SaveRequestRow, waitVars, Bounded, TypeOK, RunTypes, Cases
  <2>2. current \notin submitted
    BY <2>1 DEF Owned, NotYetSubmitted, Cases
  <2>3. Extends(requests', requests)
    BY <1>2, <2>1, SaveExtends DEF SubmitCase
  <2>4. \A i \in submitted : requestId'[i] = requestId[i]
    BY <1>2, <2>2 DEF SubmitCase, SaveRequestRow, TypeOK, RunTypes
  <2> QED
    BY <2>1, <2>3, <2>4, TracedKept
<1>3. CASE ~ (DispatchCase \/ SubmitCase)
  <2>1. UNCHANGED <<submitted, requestId, requests, responses>>
    BY <1>3 DEF RunPlan, RunRefused, OpenDatabase, NoRuntime, StartThread, StartFails,
         RuntimeReady, SubmitFails, DispatchFails, AllDispatched, WaitStep, CaseAnswered,
         CaseTimedOut, PollMisses, PollAgain, AllWaited, FreeHeld, DestroyRuntime,
         CloseRequestQueue, CloseResponseQueue, CloseDbQueue, Shutdown, JoinWorkers,
         JoinDispatcher, JoinDbWorker, Join, FreeRuntime, CloseDatabase, mainVars, waitVars,
         dbVars
  <2> QED
    BY <2>1, TracedKept, SelfExtends
<1> QED
  BY <1>1, <1>2, <1>3

\* The DB worker stores what it holds, which was submitted.
LEMMA DbWorkerTraced ==
  ASSUME TypeOK, Owned, Traced, DbWorkerStep
  PROVE  Traced'
<1>1. UNCHANGED <<submitted, requestId, requests>>
  BY DEF DbWorkerStep, DbWorkerPop, DbWorkerExit, PopNull, DbWorkerInsert, InsertResponse,
         DbWorkerInsertFails, DbWorkerRowid, ReadRowid, DbWorkerFree, dbVars, mainVars
<1>2. CASE DbWorkerInsert
  <2>1. PICK i : i = job[DbWorker]
    OBVIOUS
  <2>2. PICK row : /\ responses' = Append(responses, row)
                   /\ row.request = requestId[i] /\ row.origin = i
    BY <1>2, <2>1 DEF DbWorkerInsert, InsertResponse
  <2>3. i \in submitted
    <3>1. DbWorker \in Consumers /\ pc[DbWorker] = "inserting"
      BY <1>2 DEF DbWorkerInsert, Consumers
    <3> QED
      BY <2>1, <3>1, AloneAt DEF Owned, AnswersSpread, AnswerLabels
  <2>4. Names(requestId[i], Identity[i]) /\ i # 0
    BY <2>3 DEF Traced, IdsOwn, TypeOK, RunTypes, Cases
  <2>5. /\ DOMAIN responses' = DOMAIN responses \cup {Len(responses) + 1}
        /\ responses'[Len(responses) + 1] = row
        /\ \A k \in DOMAIN responses : responses'[k] = responses[k]
    BY <2>2, LenProperties, AppendProperties DEF TypeOK, TableTypes
  <2>6. RowsOwn'
    BY <1>1, <2>2, <2>3, <2>4, <2>5 DEF Traced, RowsOwn, Names
  <2>7. OldFirst'
    BY <2>2, <2>4, <2>5 DEF Traced, OldFirst
  <2> QED
    BY <1>1, <2>6, <2>7 DEF Traced, IdsOwn, Names
<1>3. CASE ~DbWorkerInsert
  <2>1. responses' = responses
    BY <1>3 DEF DbWorkerStep, DbWorkerPop, DbWorkerExit, PopNull, DbWorkerInsertFails,
         DbWorkerRowid, ReadRowid, DbWorkerFree, dbVars
  <2> QED
    BY <1>1, <2>1, TracedKept, SelfExtends
<1> QED
  BY <1>2, <1>3

LEMMA StepTraced == TypeOK /\ Bounded /\ Owned /\ Asked /\ Traced /\ [Next]_vars => Traced'
<1> SUFFICES ASSUME TypeOK, Bounded, Owned, Asked, Traced, [Next]_vars PROVE Traced'
  OBVIOUS
<1>1. CASE RunPlan
  BY <1>1, RunPlanTraced
<1>2. ASSUME UNCHANGED <<submitted, requestId, requests, responses>> PROVE Traced'
  BY <1>2, TracedKept, SelfExtends
<1>3. ASSUME NEW w \in Workers, HttpWorker(w) PROVE Traced'
  <2>1. UNCHANGED dbVars
    BY <1>3 DEF HttpWorker, WorkerPop, WorkerExit, PopNull, WorkerNoResponse,
         WorkerSetupFails, WorkerSetup, WorkerPerform, Answer, WorkerPush, WorkerRelease
  <2> QED
    BY <1>2, <1>3, <2>1, HttpWorkerTypes DEF dbVars, mainVars
<1>4. CASE DispatcherStep
  <2>1. UNCHANGED dbVars
    BY <1>4 DEF DispatcherStep, DispatcherPop, DispatcherExit, PopNull,
         DispatcherForward, DispatcherDrops
  <2> QED
    BY <1>2, <1>4, <2>1, DispatcherTypes DEF dbVars, mainVars
<1>5. CASE DbWorkerStep
  BY <1>5, DbWorkerTraced
<1>6. CASE UNCHANGED vars
  BY <1>2, <1>6 DEF vars, dbVars, mainVars
<1> QED
  BY <1>1, <1>3, <1>4, <1>5, <1>6 DEF Next, Returned

LEMMA TracedIsOwn ==
  ASSUME OldRequests = <<>>, \A i, j \in Cases : Identity[i] = Identity[j] => i = j,
         TypeOK, Asked, Traced
  PROVE  OwnAnswer
<1> SUFFICES ASSUME NEW i \in Cases, result[i] # 0
             PROVE  responses[result[i]].origin = i
  BY DEF OwnAnswer
<1>1. PICK k : k = result[i]
  OBVIOUS
<1>2. k \in DOMAIN responses /\ Names(responses[k].request, Identity[i])
  BY <1>1 DEF Asked, GivenOwn
<1>3. responses[k].origin # 0
  BY <1>2 DEF Traced, OldFirst
<1>4. /\ responses[k].origin \in Cases
      /\ Names(responses[k].request, Identity[responses[k].origin])
  BY <1>2, <1>3 DEF Traced, RowsOwn, TypeOK, RunTypes
<1> QED
  BY <1>1, <1>2, <1>4 DEF Names

\* In a new database, with cases that differ in collection, method, url or
\* body, wait_for_response gives every case the answer to the request this run
\* made for it; with a history or equal cases it need not, and does not.
THEOREM EachItsOwnAnswer ==
  ASSUME OldRequests = <<>>, \A i, j \in Cases : Identity[i] = Identity[j] => i = j
  PROVE  Safety => []OwnAnswer
<1>1. Init => TypeOK /\ Bounded /\ Owned /\ Earned /\ Asked /\ Traced
  BY InitTypes, InitOwned, InitVerdict, InitTraced
<1>2. TypeOK /\ Bounded /\ Owned /\ Earned /\ Asked /\ Traced /\ [Next]_vars
         => (TypeOK /\ Bounded /\ Owned /\ Earned /\ Asked /\ Traced)'
  BY StepTypes, StepOwned, StepVerdict, StepTraced
<1>3. TypeOK /\ Asked /\ Traced => OwnAnswer
  BY TracedIsOwn
<1> QED
  BY <1>1, <1>2, <1>3, PTL DEF Safety

-----------------------------------------------------------------------------
(* Nothing is leaked *)

\* Somebody will still use, or free, object k of case i.
InAHand(k, i)  == \E c \in Consumers : k \in InHands(c) /\ job[c] = i
InALine(k, i)  == \E q \in Queues : k \in Carried(q) /\ i \in Range(queue[q])
WithMain(k, i) == k \in MainObjects /\ i = current
Claimed(k, i)  == InAHand(k, i) \/ InALine(k, i) \/ WithMain(k, i)

AllClaimed == \A k \in Kinds, i \in Cases : <<k, i>> \in live => Claimed(k, i)

\* While a thread is missing there is nothing for the others to do, so that the
\* queues create_runtime destroys half-way are empty.
NothingToDo == Unborn # {} => /\ \A q \in Queues : queue[q] = <<>>
                              /\ \A c \in Consumers : pc[c] \in Idle

LEMMA ClaimedIsReachable ==
  ASSUME NEW k, NEW i, Claimed(k, i)
  PROVE  <<k, i>> \in Reachable
<1>1. CASE InAHand(k, i)
  <2>1. PICK c \in Consumers : k \in InHands(c) /\ job[c] = i
    BY <1>1 DEF InAHand
  <2>2. <<k, i>> \in InHands(c) \X {job[c]}
    BY <2>1
  <2> QED
    BY <2>2 DEF Reachable
<1>2. CASE InALine(k, i)
  <2>1. PICK q \in Queues : k \in Carried(q) /\ i \in Range(queue[q])
    BY <1>2 DEF InALine
  <2>2. <<k, i>> \in Carried(q) \X Range(queue[q])
    BY <2>1
  <2> QED
    BY <2>2 DEF Reachable
<1>3. CASE WithMain(k, i)
  <2>1. <<k, i>> \in MainObjects \X {current}
    BY <1>3 DEF WithMain
  <2> QED
    BY <2>1 DEF Reachable
<1> QED
  BY <1>1, <1>2, <1>3 DEF Claimed

LEMMA ClaimedNothingLeaked == TypeOK /\ AllClaimed => NothingLeaked
<1> SUFFICES ASSUME TypeOK, AllClaimed, NEW o \in live PROVE o \in Reachable
  BY DEF NothingLeaked
<1>1. PICK k \in Kinds, i \in Cases : o = <<k, i>>
  BY DEF TypeOK, ObjectTypes, Objects
<1> QED
  BY <1>1, ClaimedIsReachable DEF AllClaimed

LEMMA InitClaimed == Init => AllClaimed /\ NothingToDo
<1> SUFFICES ASSUME Init PROVE AllClaimed /\ NothingToDo
  OBVIOUS
<1>1. live = {} /\ (\A q \in Queues : queue[q] = <<>>) /\ \A c \in Consumers : pc[c] = "unborn"
  BY DEF Init, Threads, Consumers
<1> QED
  BY <1>1 DEF AllClaimed, NothingToDo, Idle

LEMMA HeldClaims ==
  ASSUME NEW c \in Consumers
  PROVE  /\ \A k \in InHands(c)' : \A i : job'[c] = i => Claimed(k, i)'
         /\ \A k, i : pc'[c] = pc[c] /\ job'[c] = job[c] /\ InHands(c)' = InHands(c)
                      /\ k \in InHands(c) /\ job[c] = i => Claimed(k, i)'
BY DEF Claimed, InAHand

LEMMA QueuedClaims ==
  ASSUME NEW q \in Queues, NEW k \in Carried(q), NEW i \in Range(queue'[q])
  PROVE  Claimed(k, i)'
BY DEF Claimed, InALine, Carried

LEMMA MainClaims ==
  ASSUME NEW k \in MainObjects', NEW i, current' = i
  PROVE  Claimed(k, i)'
BY DEF Claimed, WithMain

\* An object is accounted for by a step when it was freed or is somebody's.
Settled(k, i) == <<k, i>> \in live' => Claimed(k, i)'

Untaken(q, i) == i \in Range(queue'[q]) \/ \A k \in Carried(q) : Settled(k, i)

New(k, i) == <<k, i>> \in live' /\ <<k, i>> \notin live

LEMMA ConsumerClaims ==
  ASSUME TypeOK, AllClaimed, NEW c \in Consumers, Alone(c),
         \A d \in Workers \ {c} : exitTo'[d] = exitTo[d],
         pc'[Main] = pc[Main], UNCHANGED mainVars,
         \A k \in Kinds, i \in Cases : New(k, i) => Settled(k, i),
         NEW j, job[c] = j, \A k \in InHands(c) : Settled(k, j),
         \A q \in Queues : \A i \in Range(queue[q]) : Untaken(q, i)
  PROVE  AllClaimed'
<1> SUFFICES ASSUME NEW k \in Kinds, NEW i \in Cases, <<k, i>> \in live' PROVE Claimed(k, i)'
  BY DEF AllClaimed
<1>1. CASE New(k, i)
  BY <1>1 DEF Settled
<1>2. CASE <<k, i>> \in live
  <2>1. Claimed(k, i)
    BY <1>2 DEF AllClaimed
  <2>2. CASE InAHand(k, i)
    <3>1. PICK d \in Consumers : k \in InHands(d) /\ job[d] = i
      BY <2>2 DEF InAHand
    <3>2. CASE d = c
      BY <3>1, <3>2 DEF Settled
    <3>3. CASE d # c
      <4>1. pc'[d] = pc[d] /\ job'[d] = job[d] /\ InHands(d)' = InHands(d)
        BY <3>3, HandsStay DEF Alone
      <4> QED
        BY <3>1, <4>1, HeldClaims
    <3> QED
      BY <3>2, <3>3
  <2>3. CASE InALine(k, i)
    <3>1. PICK q \in Queues : k \in Carried(q) /\ i \in Range(queue[q])
      BY <2>3 DEF InALine
    <3> QED
      BY <3>1, QueuedClaims DEF Untaken, Settled
  <2>4. CASE WithMain(k, i)
    <3>1. k \in MainObjects' /\ current' = i
      BY <2>4 DEF WithMain, MainObjects, mainVars
    <3> QED
      BY <3>1, MainClaims
  <2> QED
    BY <2>1, <2>2, <2>3, <2>4 DEF Claimed
<1> QED
  BY <1>1, <1>2 DEF New

LEMMA PopClaims ==
  ASSUME TypeOK, AllClaimed, NEW q \in Queues, NEW c \in Consumers, Pop(c, q, Received(q)),
         UNCHANGED <<exitTo, live, mainVars>>
  PROVE  AllClaimed'
<1>1. queue[q] \in Seq(Cases) /\ queue[q] # <<>> /\ pc[c] = "idle"
  BY DEF TypeOK, ObjectTypes, Pop
<1>2. PICK i : i = Head(queue[q])
  OBVIOUS
<1>3. /\ pc'[c] = Received(q) /\ job'[c] = i /\ queue'[q] = Tail(queue[q])
      /\ \A r \in Queues \ {q} : queue'[r] = queue[r]
      /\ Alone(c) /\ pc'[Main] = pc[Main]
  BY <1>2 DEF Pop, Rest, Goto, Alone, TypeOK, ThreadTypes, ObjectTypes, Threads, Consumers
<1>4. Range(queue[q]) = {i} \cup Range(queue'[q])
  BY <1>1, <1>2, <1>3, PopRange
<1>5. InHands(c)' = Carried(q) /\ InHands(c) = {}
  BY <1>1, <1>3 DEF InHands, Carried, Received, Queues, DbLabels
<1>6. \A k \in Carried(q) : Settled(k, i)
  BY <1>3, <1>5, HeldClaims DEF Settled
<1>7. \A r \in Queues : \A j \in Range(queue[r]) : Untaken(r, j)
  BY <1>3, <1>4, <1>6 DEF Untaken
<1>8. \A k, l : ~New(k, l)
  BY DEF New
<1>9. PICK j : j = job[c]
  OBVIOUS
<1> QED
  BY <1>3, <1>5, <1>7, <1>8, <1>9, ConsumerClaims

\* c goes on with its case, or leaves queue_pop without one.
LEMMA BodyClaims ==
  ASSUME TypeOK, AllClaimed, NEW c \in Consumers, Alone(c),
         \A d \in Workers \ {c} : exitTo'[d] = exitTo[d],
         pc'[Main] = pc[Main], UNCHANGED mainVars, UNCHANGED <<job, queue>>,
         InHands(c) \subseteq InHands(c)',
         NEW made, made \subseteq InHands(c)', live' \subseteq live \cup (made \X {job[c]})
  PROVE  AllClaimed'
<1>a. PICK j : j = job[c]
  OBVIOUS
<1>1. \A k \in InHands(c)' : Settled(k, j)
  BY <1>a, HeldClaims DEF Settled
<1>2. \A k \in Kinds, i \in Cases : New(k, i) => Settled(k, i)
  <2> SUFFICES ASSUME NEW k \in Kinds, NEW i \in Cases, New(k, i) PROVE Settled(k, i)
    OBVIOUS
  <2>1. k \in made /\ i = j
    BY <1>a DEF New
  <2> QED
    BY <1>1, <2>1
<1>3. \A q \in Queues : \A i \in Range(queue[q]) : Untaken(q, i)
  BY DEF Untaken
<1> QED
  BY <1>a, <1>1, <1>2, <1>3, ConsumerClaims

\* c is done with what it held of case i: the rest went to a queue, or was freed.
LEMMA DoneClaims ==
  ASSUME TypeOK, AllClaimed, NEW c \in Consumers, Alone(c),
         \A d \in Workers \ {c} : exitTo'[d] = exitTo[d],
         pc'[Main] = pc[Main], UNCHANGED mainVars,
         \A q \in Queues : Range(queue[q]) \subseteq Range(queue'[q]),
         \A k \in Kinds, i \in Cases : New(k, i) => Settled(k, i),
         NEW j, job[c] = j, \A k \in InHands(c) : Settled(k, j)
  PROVE  AllClaimed'
<1>1. \A q \in Queues : \A i \in Range(queue[q]) : Untaken(q, i)
  BY DEF Untaken
<1> QED
  BY <1>1, ConsumerClaims

\* A push makes nothing that was queued unreachable.
LEMMA PushClaims ==
  ASSUME TypeOK, NEW q \in Queues, NEW i \in Cases, Push(q, i)
  PROVE  /\ \A r \in Queues : Range(queue[r]) \subseteq Range(queue'[r])
         /\ \A k \in Carried(q) : Settled(k, i)
<1>1. /\ queue'[q] = Append(queue[q], i) /\ \A r \in Queues \ {q} : queue'[r] = queue[r]
      /\ queue[q] \in Seq(Cases)
  BY DEF Push, AtBack, TypeOK, ObjectTypes
<1>2. Range(queue'[q]) = Range(queue[q]) \cup {i}
  BY <1>1, PushRange
<1>3. \A k \in Carried(q) : Settled(k, i)
  BY <1>2, QueuedClaims DEF Settled
<1> QED
  BY <1>1, <1>2, <1>3

LEMMA HttpWorkerClaims ==
  ASSUME TypeOK, AllClaimed, "setopt" \notin Faults, NEW w \in Workers, HttpWorker(w)
  PROVE  AllClaimed'
<1>a. w \in Consumers /\ pc'[Main] = pc[Main] /\ UNCHANGED mainVars
  BY HttpWorkerTypes DEF Consumers
<1>b. ASSUME NEW l, Goto(w, l), \A d \in Consumers \ {w} : job'[d] = job[d],
             \A d \in Workers \ {w} : exitTo'[d] = exitTo[d]
      PROVE  pc'[w] = l /\ Alone(w)
  BY <1>a, <1>b DEF Goto, Alone, TypeOK, ThreadTypes, Threads
<1>c. ASSUME Alone(w), \A d \in Workers \ {w} : exitTo'[d] = exitTo[d], UNCHANGED <<job, queue>>,
             InHands(w) \subseteq InHands(w)', NEW made, made \subseteq InHands(w)',
             live' \subseteq live \cup (made \X {job[w]})
      PROVE  AllClaimed'
  BY <1>a, <1>c, BodyClaims
<1>e. ASSUME NEW ok, NEW made, NEW l, Answer(w, ok, made, l)
      PROVE  /\ pc'[w] = "pushing" /\ Alone(w) /\ live' = Made(made, job[w])
             /\ UNCHANGED <<job, queue>> /\ \A d \in Workers \ {w} : exitTo'[d] = exitTo[d]
             /\ InHands(w)' = {"response"} \cup FreedFrom(l, job[w])
  <2>1. /\ pc'[w] = "pushing" /\ Alone(w) /\ live' = Made(made, job[w])
        /\ UNCHANGED <<job, queue>> /\ exitTo'[w] = l
        /\ \A d \in Workers \ {w} : exitTo'[d] = exitTo[d]
    BY <1>b, <1>e DEF Answer, queueVars, TypeOK, ThreadTypes
  <2> QED
    BY <2>1, WorkerHands
<1>1. CASE WorkerPop(w)
  BY <1>1, <1>a, PopClaims DEF WorkerPop, Received, Queues, heapVars
<1>2. CASE WorkerExit(w)
  <2>1. /\ pc[w] = "idle" /\ pc'[w] = "exited" /\ Alone(w) /\ UNCHANGED <<job, exitTo, queue, live>>
    BY <1>2, <1>b DEF WorkerExit, PopNull, Leave, queueVars, heapVars
  <2>2. InHands(w) = {}
    BY <2>1 DEF InHands, DbLabels
  <2> QED
    BY <1>c, <2>1, <2>2
<1>3. CASE WorkerNoResponse(w)
  <2>1. /\ pc[w] = "setup" /\ pc'[w] = "releasing" /\ Alone(w) /\ UNCHANGED <<job, queue, live>>
        /\ exitTo'[w] = "cleanup_task" /\ \A d \in Workers \ {w} : exitTo'[d] = exitTo[d]
    BY <1>3, <1>b DEF WorkerNoResponse, queueVars, heapVars, TypeOK, ThreadTypes
  <2>2. InHands(w)' = TaskObjects /\ InHands(w) = TaskObjects
    BY <2>1, WorkerHands DEF FreedFrom
  <2> QED
    BY <1>c, <2>1, <2>2
<1>4. CASE WorkerSetupFails(w)
  <2>1. pc[w] = "setup" /\ InHands(w) = TaskObjects
    BY <1>4, WorkerHands DEF WorkerSetupFails
  <2>2. ASSUME NEW made, NEW l, Answer(w, FALSE, made, l),
               TaskObjects \cup made \subseteq {"response"} \cup FreedFrom(l, job[w])
        PROVE  AllClaimed'
    <3>0. live' = live \cup (made \X {job[w]})
      BY <1>e, <2>2 DEF Made
    <3>1. TaskObjects \cup made \subseteq InHands(w)'
      BY <1>e, <2>2
    <3> QED
      BY <1>c, <1>e, <2>1, <2>2, <3>0, <3>1
  <2>3. CASE Answer(w, FALSE, {"response"}, "cleanup_task")
    BY <2>2, <2>3 DEF FreedFrom, TaskObjects
  <2>4. CASE Answer(w, FALSE, {"response", "curl"}, "cleanup_curl")
    BY <2>2, <2>4 DEF FreedFrom, TaskObjects
  <2> QED
    BY <1>4, <2>3, <2>4 DEF WorkerSetupFails
<1>5. CASE WorkerSetup(w)
  <2>1. /\ pc[w] = "setup" /\ pc'[w] = "performing" /\ Alone(w) /\ UNCHANGED <<job, exitTo, queue>>
        /\ live' = Made(CurlObjects(job[w]), job[w])
    BY <1>5, <1>b DEF WorkerSetup, queueVars
  <2>2. InHands(w)' = TaskObjects \cup CurlObjects(job[w]) /\ InHands(w) = TaskObjects
    BY <2>1, WorkerHands
  <2>3. live' = live \cup (CurlObjects(job[w]) \X {job[w]})
    BY <2>1 DEF Made
  <2> QED
    BY <1>c, <2>1, <2>2, <2>3
<1>6. CASE WorkerPerform(w)
  <2>1. PICK ok : pc[w] = "performing" /\ Answer(w, ok, {}, "cleanup_header_list")
    BY <1>6 DEF WorkerPerform
  <2>2. InHands(w) = TaskObjects \cup CurlObjects(job[w])
    BY <2>1, WorkerHands
  <2>3. InHands(w) \subseteq {"response"} \cup FreedFrom("cleanup_header_list", job[w])
    BY <2>2 DEF FreedFrom, CurlObjects
  <2>4. PICK made : made = {}
    OBVIOUS
  <2>5. live' = live \cup (made \X {job[w]})
    BY <1>e, <2>1, <2>4 DEF Made
  <2> QED
    BY <1>c, <1>e, <2>1, <2>3, <2>4, <2>5
<1>7. CASE WorkerPush(w)
  <2>1. /\ pc[w] = "pushing" /\ pc'[w] = "releasing" /\ Alone(w) /\ UNCHANGED <<job, exitTo>>
    BY <1>7, <1>b DEF WorkerPush
  <2>2. PICK i \in Cases : i = job[w]
    BY <1>a, <2>1 DEF TypeOK, ThreadTypes, Idle
  <2>3. InHands(w)' = FreedFrom(exitTo[w], i) /\ InHands(w) = {"response"} \cup FreedFrom(exitTo[w], i)
    BY <2>1, <2>2, WorkerHands
  <2>4. \A k \in FreedFrom(exitTo[w], i) : Settled(k, i)
    BY <1>a, <2>1, <2>2, <2>3, HeldClaims DEF Settled
  <2>5. CASE Push("response", i) /\ UNCHANGED live
    <3>1. /\ \A r \in Queues : Range(queue[r]) \subseteq Range(queue'[r])
          /\ Settled("response", i)
      BY <2>5, PushClaims DEF Carried, Queues
    <3>2. \A k, j : ~New(k, j)
      BY <2>5 DEF New
    <3> QED
      BY <1>a, <2>1, <2>2, <2>3, <2>4, <3>1, <3>2, DoneClaims
  <2>6. CASE queue' = queue /\ live' = Freed(FreeUnpushed, i)
    <3>1. Settled("response", i) /\ \A k, j : ~New(k, j)
      BY <2>6 DEF New, Settled, Freed, FreeUnpushed
    <3> QED
      BY <1>a, <2>1, <2>2, <2>3, <2>4, <2>6, <3>1, DoneClaims
  <2> QED
    BY <1>7, <2>2, <2>5, <2>6 DEF WorkerPush, PushFails, queueVars
<1>8. CASE WorkerRelease(w)
  <2>1. /\ pc[w] = "releasing" /\ Alone(w) /\ UNCHANGED <<queue, exitTo>>
        /\ live' = Freed(FreedFrom(exitTo[w], job[w]), job[w])
    <3>1. Goto(w, "idle") /\ \A d \in Consumers \ {w} : job'[d] = job[d]
      BY <1>8 DEF WorkerRelease, Release, TypeOK, ThreadTypes
    <3> QED
      BY <1>8, <1>b, <3>1 DEF WorkerRelease, queueVars
  <2>2. PICK K, i : K = FreedFrom(exitTo[w], job[w]) /\ i = job[w]
    OBVIOUS
  <2>3. InHands(w) = K
    BY <2>1, <2>2 DEF InHands, DbLabels
  <2>4. (\A k \in K : Settled(k, i)) /\ \A k, j : ~New(k, j)
    BY <2>1, <2>2 DEF New, Settled, Freed
  <2> QED
    BY <1>a, <2>1, <2>2, <2>3, <2>4, DoneClaims
<1> QED
  BY <1>1, <1>2, <1>3, <1>4, <1>5, <1>6, <1>7, <1>8 DEF HttpWorker

LEMMA DispatcherClaims ==
  ASSUME TypeOK, AllClaimed, DispatcherStep
  PROVE  AllClaimed'
<1> DEFINE c == Dispatcher
<1>a. c \in Consumers /\ pc'[Main] = pc[Main] /\ UNCHANGED mainVars
  BY DispatcherTypes DEF Consumers
<1>b. ASSUME NEW l, Goto(c, l), \A d \in Consumers \ {c} : job'[d] = job[d], exitTo' = exitTo
      PROVE  pc'[c] = l /\ Alone(c)
  BY <1>a, <1>b DEF Goto, Alone, TypeOK, ThreadTypes, Threads
<1>1. CASE DispatcherPop
  BY <1>1, <1>a, PopClaims DEF DispatcherPop, Received, Queues, heapVars
<1>2. CASE DispatcherExit
  <2>1. pc[c] = "idle" /\ Alone(c) /\ UNCHANGED <<job, exitTo, queue, live>>
    BY <1>2, <1>b DEF DispatcherExit, PopNull, Leave, queueVars, heapVars
  <2>2. InHands(c) = {}
    BY <2>1 DEF InHands, DbLabels
  <2>3. live' \subseteq live \cup ({} \X {job[c]})
    BY <2>1
  <2> QED
    BY <1>a, <2>1, <2>2, <2>3, BodyClaims
<1>3. CASE DispatcherForward \/ DispatcherDrops
  <2>1. pc[c] = "forwarding" /\ Alone(c) /\ exitTo' = exitTo
    <3>1. Goto(c, "idle") /\ (\A d \in Consumers \ {c} : job'[d] = job[d]) /\ exitTo' = exitTo
      BY <1>3 DEF DispatcherForward, DispatcherDrops, Release, TypeOK, ThreadTypes
    <3> QED
      BY <1>3, <1>b, <3>1 DEF DispatcherForward, DispatcherDrops
  <2>2. PICK i \in Cases : i = job[c]
    BY <1>a, <2>1 DEF TypeOK, ThreadTypes, Idle
  <2>3. InHands(c) = {"response"}
    BY <2>1 DEF InHands, DbLabels
  <2>4. CASE DispatcherForward
    <3>1. Push("db", i) /\ live' = live \cup ({"dbtask"} \X {i})
      BY <2>2, <2>4 DEF DispatcherForward, Made, KeepForwarded
    <3>2. /\ \A r \in Queues : Range(queue[r]) \subseteq Range(queue'[r])
          /\ Settled("response", i) /\ Settled("dbtask", i)
      BY <3>1, PushClaims DEF Carried, Queues
    <3>3. \A k, j : New(k, j) => k = "dbtask" /\ j = i
      BY <3>1 DEF New
    <3> QED
      BY <1>a, <2>1, <2>2, <2>3, <3>2, <3>3, DoneClaims
  <2>5. CASE DispatcherDrops
    <3>1. queue' = queue /\ live' = Freed({"response"}, i)
      BY <2>2, <2>5 DEF DispatcherDrops, PushFails, queueVars
    <3>2. Settled("response", i) /\ \A k, j : ~New(k, j)
      BY <3>1 DEF New, Settled, Freed
    <3> QED
      BY <1>a, <2>1, <2>2, <2>3, <3>1, <3>2, DoneClaims
  <2> QED
    BY <1>3, <2>4, <2>5
<1> QED
  BY <1>1, <1>2, <1>3 DEF DispatcherStep

LEMMA DbWorkerClaims ==
  ASSUME TypeOK, AllClaimed, DbWorkerStep
  PROVE  AllClaimed'
<1> DEFINE c == DbWorker
<1>a. c \in Consumers /\ pc'[Main] = pc[Main] /\ UNCHANGED mainVars
  BY DbWorkerTypes DEF Consumers
<1>b. ASSUME NEW l, Goto(c, l), \A d \in Consumers \ {c} : job'[d] = job[d], exitTo' = exitTo
      PROVE  pc'[c] = l /\ Alone(c)
  BY <1>a, <1>b DEF Goto, Alone, TypeOK, ThreadTypes, Threads
<1>c. ASSUME Alone(c), UNCHANGED <<job, exitTo, queue, live>>, InHands(c) \subseteq InHands(c)'
      PROVE  AllClaimed'
  <2>1. live' \subseteq live \cup ({} \X {job[c]})
    BY <1>c
  <2> QED
    BY <1>a, <1>c, <2>1, BodyClaims
<1>1. CASE DbWorkerPop
  BY <1>1, <1>a, PopClaims DEF DbWorkerPop, Received, Queues, heapVars
<1>2. CASE DbWorkerExit
  <2>1. pc[c] = "idle" /\ Alone(c) /\ UNCHANGED <<job, exitTo, queue, live>>
    BY <1>2, <1>b DEF DbWorkerExit, PopNull, Leave, queueVars, heapVars
  <2>2. InHands(c) = {}
    BY <2>1 DEF InHands, DbLabels
  <2> QED
    BY <1>c, <2>1, <2>2
<1>3. CASE DbWorkerInsert \/ DbWorkerInsertFails \/ DbWorkerRowid
  <2>1. /\ pc[c] \in DbLabels /\ pc'[c] \in DbLabels /\ Alone(c)
        /\ UNCHANGED <<job, exitTo, queue, live>>
    <3>1. PICK l \in DbLabels : Goto(c, l)
      BY <1>3 DEF DbWorkerInsert, DbWorkerInsertFails, DbWorkerRowid, DbLabels
    <3>2. pc[c] \in DbLabels /\ UNCHANGED <<job, queue, live, exitTo>>
      BY <1>3 DEF DbWorkerInsert, DbWorkerInsertFails, DbWorkerRowid, DbLabels,
         queueVars, heapVars
    <3> QED
      BY <1>b, <3>1, <3>2
  <2>2. InHands(c)' = InHands(c)
    BY <2>1 DEF InHands, DbLabels
  <2> QED
    BY <1>c, <2>1, <2>2
<1>4. CASE DbWorkerFree
  <2>1. /\ pc[c] \in DbLabels /\ Alone(c) /\ UNCHANGED <<queue, exitTo>>
        /\ live' = Freed(AnswerKinds, job[c])
    <3>1. Goto(c, "idle") /\ (\A d \in Consumers \ {c} : job'[d] = job[d]) /\ exitTo' = exitTo
      BY <1>4 DEF DbWorkerFree, Release, TypeOK, ThreadTypes
    <3> QED
      BY <1>4, <1>b, <3>1 DEF DbWorkerFree, queueVars, DbLabels, AnswerKinds
  <2>2. PICK i : i = job[c]
    OBVIOUS
  <2>3. InHands(c) = AnswerKinds
    BY <2>1 DEF InHands, DbLabels, AnswerKinds
  <2>4. (\A k \in AnswerKinds : Settled(k, i)) /\ \A k, j : ~New(k, j)
    BY <2>1, <2>2 DEF New, Settled, Freed
  <2> QED
    BY <1>a, <2>1, <2>2, <2>3, <2>4, DoneClaims
<1> QED
  BY <1>1, <1>2, <1>3, <1>4 DEF DbWorkerStep

-----------------------------------------------------------------------------
(* The main thread, and the end of the queues *)

LEMMA MainKeepsClaims ==
  ASSUME TypeOK, AllClaimed, UNCHANGED <<job, exitTo>>,
         \A c \in Consumers : pc'[c] = pc[c] \/ (pc[c] = "unborn" /\ pc'[c] = "idle"),
         \A q \in Queues : Range(queue[q]) \subseteq Range(queue'[q]),
         \A k \in Kinds, i \in Cases : New(k, i) => Settled(k, i),
         NEW j, current = j, \A k \in MainObjects : Settled(k, j)
  PROVE  AllClaimed'
<1> SUFFICES ASSUME NEW k \in Kinds, NEW i \in Cases, <<k, i>> \in live' PROVE Claimed(k, i)'
  BY DEF AllClaimed
<1>1. CASE New(k, i)
  BY <1>1 DEF Settled
<1>2. CASE <<k, i>> \in live
  <2>1. Claimed(k, i)
    BY <1>2 DEF AllClaimed
  <2>2. CASE InAHand(k, i)
    <3>1. PICK d \in Consumers : k \in InHands(d) /\ job[d] = i
      BY <2>2 DEF InAHand
    <3>2. pc[d] # "unborn"
      BY <3>1 DEF InHands, DbLabels
    <3>3. pc'[d] = pc[d] /\ job'[d] = job[d] /\ InHands(d)' = InHands(d)
      BY <3>2, HandsStay
    <3> QED
      BY <3>1, <3>3, HeldClaims
  <2>3. CASE InALine(k, i)
    <3>1. PICK q \in Queues : k \in Carried(q) /\ i \in Range(queue[q])
      BY <2>3 DEF InALine
    <3> QED
      BY <3>1, QueuedClaims
  <2>4. CASE WithMain(k, i)
    BY <2>4 DEF WithMain, Settled
  <2> QED
    BY <2>1, <2>2, <2>3, <2>4 DEF Claimed
<1> QED
  BY <1>1, <1>2 DEF New

\* When the runtime is freed there is nothing in its queues, even when
\* create_runtime failed half-way.
LEMMA QueuesEmptyAtEnd ==
  ASSUME InOrder, NothingToDo, pc[Main] \in {"freeing", "closing"}, NEW q \in Queues
  PROVE  queue[q] = <<>>
<1>1. CASE Unborn # {}
  BY <1>1 DEF NothingToDo
<1>2. CASE Unborn = {}
  <2>1. PICK c \in Consumers : c \in Takes(q)
    BY DEF Queues, Takes, Consumers
  <2>2. pc[c] \in Gone
    BY <2>1 DEF InOrder, JoinedStayGone, AfterJoin
  <2>3. pc[c] = "exited"
    BY <1>2, <2>2 DEF Unborn, Gone
  <2> QED
    BY <2>1, <2>3 DEF InOrder, LeftWhenDrained
<1> QED
  BY <1>1, <1>2

LEMMA HoldsNothingUnborn ==
  ASSUME TypeOK, HoldsNothing
  PROVE  \A c \in Consumers : pc'[c] = pc[c] \/ (pc[c] = "unborn" /\ pc'[c] = "idle")
<1>1. CASE StartThread
  BY <1>1 DEF StartThread, StartsNext, Unborn, Goto, TypeOK, ThreadTypes, Threads, Consumers
<1>2. CASE CaseAnswered
  BY <1>2 DEF CaseAnswered, threadVars
<1>3. CASE ~ (StartThread \/ CaseAnswered)
  <2>1. \E l : Goto(Main, l)
    BY <1>3 DEF HoldsNothing, RunRefused, OpenDatabase, NoRuntime, StartFails, RuntimeReady,
       AllDispatched, WaitStep, CaseTimedOut, PollMisses, PollAgain, AllWaited, DestroyRuntime,
       CloseRequestQueue, CloseResponseQueue, CloseDbQueue, Shutdown, JoinWorkers,
       JoinDispatcher, JoinDbWorker, Join, FreeRuntime, CloseDatabase
  <2> QED
    BY <2>1 DEF Goto, TypeOK, ThreadTypes, Threads, Consumers
<1> QED
  BY <1>1, <1>2, <1>3

LEMMA QueuesKept ==
  ASSUME InOrder, NothingToDo, HoldsNothing
  PROVE  UNCHANGED queue \/ \A q \in Queues : queue[q] = <<>> /\ queue'[q] = <<>>
<1>1. CASE FreeRuntime
  <2>1. pc[Main] = "freeing" /\ \A q \in Queues : queue'[q] = <<>>
    BY <1>1 DEF FreeRuntime
  <2> QED
    BY <2>1, QueuesEmptyAtEnd
<1>2. CASE ~FreeRuntime
  BY <1>2 DEF HoldsNothing, RunRefused, OpenDatabase, NoRuntime, StartThread, StartFails,
     RuntimeReady, AllDispatched, WaitStep, CaseAnswered, CaseTimedOut, PollMisses, PollAgain,
     AllWaited, DestroyRuntime, CloseRequestQueue, CloseResponseQueue, CloseDbQueue, Shutdown,
     JoinWorkers, JoinDispatcher, JoinDbWorker, Join, CloseDatabase, queueVars
<1> QED
  BY <1>1, <1>2

LEMMA RunPlanClaims ==
  ASSUME TypeOK, Bounded, InOrder, Owned, AllClaimed, NothingToDo, "push_request" \notin Faults,
         RunPlan
  PROVE  AllClaimed'
<1>a. ASSUME NEW l, Goto(Main, l) PROVE pc'[Main] = l /\ \A c \in Consumers : pc'[c] = pc[c]
  BY <1>a DEF Goto, TypeOK, ThreadTypes, Threads, Consumers
<1>j. PICK j : j = current
  OBVIOUS
<1>n. ASSUME live' \subseteq live PROVE \A k, i : ~New(k, i)
  BY <1>n DEF New
<1>1. CASE HoldsNothing
  <2>1. MainObjects = {}
    <3>1. held = {}
      BY <1>1, HoldsNothingMoves DEF Owned, NotYetSubmitted
    <3> QED
      BY <1>1, <3>1, HoldsNothingMoves DEF MainObjects
  <2>2. \A q \in Queues : Range(queue[q]) \subseteq Range(queue'[q])
    BY <1>1, QueuesKept
  <2> QED
    BY <1>1, <1>j, <1>n, <2>1, <2>2, HoldsNothingMoves, HoldsNothingUnborn, MainKeepsClaims
<1>2. CASE SubmitCase
  <2>1. /\ pc[Main] = "submitting" /\ pc'[Main] = "dispatching"
        /\ live' = live \cup ({"request", "task"} \X {j})
        /\ UNCHANGED <<current, job, exitTo, queue>> /\ \A c \in Consumers : pc'[c] = pc[c]
    BY <1>2, <1>a, <1>j DEF SubmitCase, Made, queueVars
  <2>2. MainObjects = {}
    BY <2>1 DEF MainObjects, Owned, NotYetSubmitted
  <2>3. MainObjects' = {"request", "task"} /\ current' = j
    BY <1>j, <2>1 DEF MainObjects, TaskObjects
  <2>4. \A k, i : New(k, i) => k \in {"request", "task"} /\ i = j
    BY <2>1 DEF New
  <2>5. \A k, i : New(k, i) => Settled(k, i)
    BY <2>3, <2>4, MainClaims DEF Settled
  <2> QED
    BY <1>j, <2>1, <2>2, <2>5, MainKeepsClaims
<1>3. CASE SubmitFails
  <2>1. /\ pc[Main] = "submitting" /\ pc'[Main] = "cleanup"
        /\ UNCHANGED <<current, job, exitTo, queue>> /\ \A c \in Consumers : pc'[c] = pc[c]
    BY <1>3, <1>a DEF SubmitFails, queueVars
  <2>2. \/ UNCHANGED <<live, held>>
        \/ live' = live \cup ({"request"} \X {j}) /\ held' = {"request"}
    BY <1>3, <1>j DEF SubmitFails, Made
  <2>3. MainObjects = {}
    BY <2>1 DEF MainObjects, Owned, NotYetSubmitted
  <2>4. \A k, i : New(k, i) => k = "request" /\ i = j /\ held' = {"request"}
    BY <2>2 DEF New
  <2>5. \A k, i : New(k, i) => Settled(k, i)
    <3>1. held' = {"request"} => MainObjects' = {"request"} /\ current' = j
      BY <1>j, <2>1 DEF MainObjects
    <3> QED
      BY <2>4, <3>1, MainClaims DEF Settled
  <2> QED
    BY <1>j, <2>1, <2>3, <2>5, MainKeepsClaims
<1>4. CASE DispatchCase
  <2>1. /\ pc[Main] = "dispatching" /\ UNCHANGED <<job, exitTo, live>>
        /\ \A c \in Consumers : pc'[c] = pc[c]
    BY <1>4, <1>a DEF DispatchCase, heapVars
  <2>2. j \in Cases /\ Push("request", j)
    BY <1>4, <1>j, <2>1 DEF DispatchCase, Bounded, TypeOK, RunTypes, Cases
  <2>3. /\ \A q \in Queues : Range(queue[q]) \subseteq Range(queue'[q])
        /\ \A k \in TaskObjects : Settled(k, j)
    BY <2>2, PushClaims DEF Carried, Queues
  <2>4. MainObjects = TaskObjects
    BY <2>1 DEF MainObjects
  <2> QED
    BY <1>j, <1>n, <2>1, <2>3, <2>4, MainKeepsClaims
<1>5. CASE DispatchFails
  <2>1. pc[Main] = "dispatching" /\ "request" \in closed
    BY <1>5 DEF DispatchFails, PushFails
  <2> QED
    BY <2>1 DEF InOrder, ClosedLate, AfterClose
<1>6. CASE FreeHeld
  <2>1. /\ pc[Main] = "cleanup" /\ live' = Freed(held, j)
        /\ UNCHANGED <<current, job, exitTo, queue>> /\ \A c \in Consumers : pc'[c] = pc[c]
    BY <1>6, <1>a, <1>j DEF FreeHeld, queueVars
  <2>2. MainObjects = held
    BY <2>1 DEF MainObjects
  <2>3. (\A k \in held : Settled(k, j)) /\ \A k, i : ~New(k, i)
    BY <2>1 DEF Settled, New, Freed
  <2> QED
    BY <1>j, <2>1, <2>2, <2>3, MainKeepsClaims
<1> QED
  BY <1>1, <1>2, <1>3, <1>4, <1>5, <1>6 DEF RunPlan, HoldsNothing

LEMMA StepClaims ==
  ASSUME Faults \cap {"push_request", "setopt"} = {}
  PROVE  TypeOK /\ Bounded /\ InOrder /\ Owned /\ NothingToDo /\ AllClaimed /\ [Next]_vars
            => AllClaimed'
<1> SUFFICES ASSUME TypeOK, Bounded, InOrder, Owned, NothingToDo, AllClaimed, [Next]_vars
             PROVE  AllClaimed'
  OBVIOUS
<1>f. "push_request" \notin Faults /\ "setopt" \notin Faults
  OBVIOUS
<1>1. CASE RunPlan
  BY <1>f, <1>1, RunPlanClaims
<1>2. ASSUME NEW w \in Workers, HttpWorker(w) PROVE AllClaimed'
  BY <1>f, <1>2, HttpWorkerClaims
<1>3. CASE DispatcherStep
  BY <1>3, DispatcherClaims
<1>4. CASE DbWorkerStep
  BY <1>4, DbWorkerClaims
<1>5. CASE UNCHANGED vars
  BY <1>5 DEF AllClaimed, Claimed, InAHand, InALine, WithMain, InHands, Carried, MainObjects,
     vars, threadVars, queueVars, heapVars, mainVars
<1> QED
  BY <1>1, <1>2, <1>3, <1>4, <1>5 DEF Next, Returned

\* With nothing to do a consumer can only leave.
Occupied(c) == pc[c] \notin Idle \/ \E q \in Queues : queue[q] # <<>>
Exits(c)    == UNCHANGED queue /\ pc'[c] = "exited"

LEMMA ConsumerNothingToDo ==
  ASSUME TypeOK, NothingToDo, NEW c \in Consumers, Keeps(c), Occupied(c) \/ Exits(c)
  PROVE  NothingToDo'
<1>1. /\ \A d \in Consumers \ {c} : pc'[d] = pc[d]
      /\ pc'[c] # "unborn"
  BY DEF Keeps, Consumes, Threads
<1>2. Unborn' \subseteq Unborn
  BY <1>1 DEF Unborn
<1>3. CASE Unborn = {}
  BY <1>2, <1>3 DEF NothingToDo
<1>4. CASE Unborn # {}
  <2>1. Exits(c)
    BY <1>4 DEF NothingToDo, Occupied
  <2> QED
    BY <1>1, <1>4, <2>1 DEF NothingToDo, Exits, Idle
<1> QED
  BY <1>3, <1>4

LEMMA ConsumersOccupied ==
  ASSUME TypeOK
  PROVE  /\ \A w \in Workers : HttpWorker(w) => Occupied(w) \/ Exits(w)
         /\ DispatcherStep => Occupied(Dispatcher) \/ Exits(Dispatcher)
         /\ DbWorkerStep => Occupied(DbWorker) \/ Exits(DbWorker)
<1>1. ASSUME NEW c \in Consumers, NEW q \in Queues, NEW l, Pop(c, q, l) PROVE Occupied(c)
  BY <1>1 DEF Pop, Occupied
<1>2. ASSUME NEW c \in Consumers, NEW q \in Queues, PopNull(c, q) PROVE Exits(c)
  BY <1>2 DEF PopNull, Leave, Exits, Goto, queueVars, TypeOK, ThreadTypes, Threads
<1>3. ASSUME NEW w \in Workers, HttpWorker(w) PROVE Occupied(w) \/ Exits(w)
  <2>1. CASE WorkerPop(w) \/ WorkerExit(w)
    BY <1>1, <1>2, <2>1 DEF WorkerPop, WorkerExit, Consumers, Queues
  <2>2. CASE ~ (WorkerPop(w) \/ WorkerExit(w))
    BY <1>3, <2>2 DEF HttpWorker, WorkerNoResponse, WorkerSetupFails, WorkerSetup,
       WorkerPerform, WorkerPush, WorkerRelease, Occupied, Idle
  <2> QED
    BY <2>1, <2>2
<1>4. ASSUME DispatcherStep PROVE Occupied(Dispatcher) \/ Exits(Dispatcher)
  <2>1. CASE DispatcherPop \/ DispatcherExit
    BY <1>1, <1>2, <2>1 DEF DispatcherPop, DispatcherExit, Consumers, Queues
  <2>2. CASE DispatcherForward \/ DispatcherDrops
    BY <2>2 DEF DispatcherForward, DispatcherDrops, Occupied, Idle
  <2> QED
    BY <1>4, <2>1, <2>2 DEF DispatcherStep
<1>5. ASSUME DbWorkerStep PROVE Occupied(DbWorker) \/ Exits(DbWorker)
  <2>1. CASE DbWorkerPop \/ DbWorkerExit
    BY <1>1, <1>2, <2>1 DEF DbWorkerPop, DbWorkerExit, Consumers, Queues
  <2>2. CASE ~ (DbWorkerPop \/ DbWorkerExit)
    BY <1>5, <2>2 DEF DbWorkerStep, DbWorkerInsert, DbWorkerInsertFails, DbWorkerRowid,
       DbWorkerFree, Occupied, Idle
  <2> QED
    BY <2>1, <2>2
<1> QED
  BY <1>3, <1>4, <1>5

LEMMA StepNothingToDo ==
  TypeOK /\ InOrder /\ AllBorn /\ NothingToDo /\ [Next]_vars => NothingToDo'
<1> SUFFICES ASSUME TypeOK, InOrder, AllBorn, NothingToDo, [Next]_vars PROVE NothingToDo'
  OBVIOUS
<1>a. ASSUME NEW l, Goto(Main, l) PROVE pc'[Main] = l /\ \A c \in Consumers : pc'[c] = pc[c]
  BY <1>a DEF Goto, TypeOK, ThreadTypes, Threads, Consumers
<1>1. CASE HoldsNothing
  <2>1. \A c \in Consumers : pc'[c] = pc[c] \/ (pc[c] = "unborn" /\ pc'[c] = "idle")
    BY <1>1, HoldsNothingUnborn
  <2>2. \A q \in Queues : queue[q] = <<>> => queue'[q] = <<>>
    BY <1>1, QueuesKept
  <2> QED
    BY <2>1, <2>2 DEF NothingToDo, Unborn, Idle
<1>2. CASE DispatchCase
  <2>1. Unborn = {} /\ \A c \in Consumers : pc'[c] = pc[c]
    BY <1>2, <1>a DEF DispatchCase, AllBorn
  <2> QED
    BY <2>1 DEF NothingToDo, Unborn
<1>3. CASE SubmitCase \/ SubmitFails \/ DispatchFails \/ FreeHeld
  <2>1. \A c \in Consumers : pc'[c] = pc[c]
    BY <1>3, <1>a DEF SubmitCase, SubmitFails, DispatchFails, FreeHeld
  <2>2. queue' = queue
    BY <1>3 DEF SubmitCase, SubmitFails, DispatchFails, PushFails, FreeHeld, queueVars
  <2> QED
    BY <2>1, <2>2 DEF NothingToDo, Unborn
<1>4. CASE DispatcherStep \/ DbWorkerStep \/ \E w \in Workers : HttpWorker(w)
  BY <1>4, ConsumersKeep, ConsumersOccupied, ConsumerNothingToDo DEF Consumers
<1>5. CASE UNCHANGED vars
  BY <1>5 DEF NothingToDo, Unborn, vars, threadVars, queueVars
<1> QED
  BY <1>1, <1>2, <1>3, <1>4, <1>5 DEF Next, RunPlan, Returned, HoldsNothing

\* Every object is some thread's or queue's until it is freed, if dispatch_task
\* never lacks memory and no curl_easy_setopt fails: those two leak, as a run
\* shows, and nothing else does, on no way through the errors of the pipeline.
THEOREM OnlyTwoLeak ==
  ASSUME Faults \cap {"push_request", "setopt"} = {}
  PROVE  Safety => []NothingLeaked
<1> DEFINE Inv == TypeOK /\ Bounded /\ InOrder /\ AllBorn /\ Owned /\ NothingToDo /\ AllClaimed
<1>1. Init => Inv
  BY InitTypes, InitInOrder, InitKept, InitOwned, InitClaimed
<1>2. Inv /\ [Next]_vars => Inv'
  <2> SUFFICES ASSUME Inv, [Next]_vars PROVE Inv'
    OBVIOUS
  <2>1. TypeOK' /\ Bounded' /\ InOrder' /\ AllBorn' /\ Owned'
    BY StepTypes, StepInOrder, StepBorn, StepOwned
  <2> QED
    BY <2>1, StepNothingToDo, StepClaims
<1>3. Inv => NothingLeaked
  BY ClaimedNothingLeaked
<1> QED
  BY <1>1, <1>2, <1>3, PTL DEF Safety

-----------------------------------------------------------------------------
(* First in, first out *)

\* No consumer but c moves.
OnlyMoves(c) == \A d \in Consumers \ {c} : pc'[d] = pc[d] /\ job'[d] = job[d]

LEMMA ConsumerGoes ==
  ASSUME TypeOK, NEW c \in Consumers, NEW l, Goto(c, l)
  PROVE  /\ pc'[c] = l
         /\ \A d \in Consumers \ {c} : pc'[d] = pc[d]
         /\ pc'[Main] = pc[Main]
BY DEF Goto, TypeOK, ThreadTypes, Threads, Consumers

\* What is at each stage of the pipeline, from its end to its beginning.
Stages     == 1 .. 7
HttpLabels == {"setup", "performing", "pushing"}
AtWorkers  == {job[w] : w \in {v \in Workers : pc[v] \in HttpLabels}}

Stage == <<Origins, Taken(DbWorker, {"inserting"}), Range(queue["db"]),
           Taken(Dispatcher, {"forwarding"}), Range(queue["response"]),
           AtWorkers, Range(queue["request"])>>

\* What has come further is of an earlier case.
Ordered(H) == /\ \A s \in Stages : H[s] \subseteq Cases
              /\ \A s, t \in Stages : s < t => \A i \in H[s], j \in H[t] : i < j

Increasing(s) == \A a, b \in DOMAIN s : a < b => s[a] < s[b]

FirstInFirstOut == /\ Ordered(Stage)
                   /\ \A q \in Queues : Increasing(queue[q])
                   /\ StoredInOrder

LEMMA StageIs ==
  /\ Stage[1] = Origins
  /\ Stage[2] = Taken(DbWorker, {"inserting"})
  /\ Stage[3] = Range(queue["db"])
  /\ Stage[4] = Taken(Dispatcher, {"forwarding"})
  /\ Stage[5] = Range(queue["response"])
  /\ Stage[6] = AtWorkers
  /\ Stage[7] = Range(queue["request"])
BY DEF Stage

LEMMA FewerOrdered ==
  ASSUME NEW H, NEW G, Ordered(H), \A s \in Stages : G[s] \subseteq H[s]
  PROVE  Ordered(G)
BY DEF Ordered

\* The first of a stage goes on to the next.
LEMMA NextOrdered ==
  ASSUME NEW H, NEW G, Ordered(H), NEW s \in Stages, NEW t \in Stages, t = s - 1,
         NEW i \in H[s], \A j \in G[s] : i < j,
         G[t] \subseteq H[t] \cup {i}, \A r \in Stages \ {t} : G[r] \subseteq H[r]
  PROVE  Ordered(G)
<1>1. ASSUME NEW r \in Stages PROVE G[r] \subseteq Cases
  BY <1>1 DEF Ordered
<1>2. ASSUME NEW a \in Stages, NEW b \in Stages, a < b, NEW x \in G[a], NEW y \in G[b]
      PROVE  x < y
  <2>1. CASE x \in H[a] /\ y \in H[b]
    BY <1>2, <2>1 DEF Ordered
  <2>2. CASE a = t /\ x = i
    <3>1. CASE b = s
      BY <1>2, <2>2, <3>1
    <3>2. CASE b # s
      <4>1. s < b /\ y \in H[b]
        BY <1>2, <2>2, <3>2 DEF Stages
      <4> QED
        BY <2>2, <4>1 DEF Ordered
    <3> QED
      BY <3>1, <3>2
  <2>3. CASE b = t /\ y = i
    <3>1. a < s /\ x \in H[a]
      BY <1>2, <2>3 DEF Stages
    <3> QED
      BY <2>3, <3>1 DEF Ordered
  <2> QED
    BY <1>2, <2>1, <2>2, <2>3
<1> QED
  BY <1>1, <1>2 DEF Ordered

\* A case later than all others enters.
LEMMA LastOrdered ==
  ASSUME NEW H, NEW G, Ordered(H), NEW i \in Cases, \A s \in Stages : \A j \in H[s] : j < i,
         G[7] \subseteq H[7] \cup {i}, \A r \in Stages \ {7} : G[r] \subseteq H[r]
  PROVE  Ordered(G)
<1>1. ASSUME NEW r \in Stages PROVE G[r] \subseteq Cases
  BY <1>1 DEF Ordered
<1>2. ASSUME NEW a \in Stages, NEW b \in Stages, a < b, NEW x \in G[a], NEW y \in G[b]
      PROVE  x < y
  <2>1. a # 7 /\ x \in H[a]
    BY <1>2 DEF Stages
  <2>2. CASE y \in H[b]
    BY <1>2, <2>1, <2>2 DEF Ordered
  <2>3. CASE y = i
    BY <2>1, <2>3
  <2> QED
    BY <1>2, <2>2, <2>3
<1> QED
  BY <1>1, <1>2 DEF Ordered

LEMMA TailIncreasing ==
  ASSUME NEW s \in Seq(Cases), s # <<>>, Increasing(s)
  PROVE  /\ Increasing(Tail(s)) /\ Range(Tail(s)) \subseteq Range(s)
         /\ Head(s) \in Range(s) /\ \A j \in Range(Tail(s)) : Head(s) < j
<1>1. /\ Len(s) \in Nat \ {0} /\ DOMAIN s = 1 .. Len(s)
      /\ Tail(s) \in Seq(Cases) /\ Len(Tail(s)) = Len(s) - 1 /\ Head(s) = s[1]
      /\ \A i \in 1 .. Len(Tail(s)) : Tail(s)[i] = s[i + 1]
  BY HeadTailProperties, LenProperties, EmptySeq
<1>2. DOMAIN Tail(s) = 1 .. Len(s) - 1
  BY <1>1, LenProperties
<1>3. Increasing(Tail(s))
  <2> SUFFICES ASSUME NEW a \in 1 .. Len(s) - 1, NEW b \in 1 .. Len(s) - 1, a < b
               PROVE  s[a + 1] < s[b + 1]
    BY <1>1, <1>2 DEF Increasing
  <2>1. a + 1 \in DOMAIN s /\ b + 1 \in DOMAIN s /\ a + 1 < b + 1
    BY <1>1
  <2> QED
    BY <2>1 DEF Increasing
<1>4. ASSUME NEW j \in Range(Tail(s)) PROVE j \in Range(s) /\ Head(s) < j
  <2>1. PICK i \in 1 .. Len(s) - 1 : j = s[i + 1]
    BY <1>1, <1>2, <1>4 DEF Range
  <2>2. i + 1 \in DOMAIN s /\ 1 \in DOMAIN s /\ 1 < i + 1
    BY <1>1
  <2> QED
    BY <1>1, <2>1, <2>2 DEF Range, Increasing
<1>5. Head(s) \in Range(s)
  BY <1>1 DEF Range
<1> QED
  BY <1>3, <1>4, <1>5

LEMMA AppendIncreasing ==
  ASSUME NEW s \in Seq(Cases), NEW i \in Cases, Increasing(s), \A j \in Range(s) : j < i
  PROVE  Increasing(Append(s, i))
<1>1. /\ Len(s) \in Nat /\ DOMAIN s = 1 .. Len(s)
      /\ Append(s, i) \in Seq(Cases) /\ DOMAIN Append(s, i) = 1 .. Len(s) + 1
      /\ \A k \in 1 .. Len(s) : Append(s, i)[k] = s[k]
      /\ Append(s, i)[Len(s) + 1] = i
  BY AppendProperties, LenProperties
<1>2. ASSUME NEW a \in 1 .. Len(s) + 1, NEW b \in 1 .. Len(s) + 1, a < b
      PROVE  Append(s, i)[a] < Append(s, i)[b]
  <2>0. a \in 1 .. Len(s)
    BY <1>1, <1>2
  <2>1. a \in 1 .. Len(s) /\ Append(s, i)[a] = s[a] /\ s[a] \in Range(s)
    BY <1>1, <2>0 DEF Range
  <2>2. CASE b = Len(s) + 1
    BY <1>1, <2>1, <2>2
  <2>3. CASE b # Len(s) + 1
    <3>1. b \in 1 .. Len(s) /\ Append(s, i)[b] = s[b]
      BY <1>1, <2>3
    <3> QED
      BY <1>1, <1>2, <2>1, <3>1 DEF Increasing
  <2> QED
    BY <2>2, <2>3
<1> QED
  BY <1>1, <1>2 DEF Increasing

\* With one HTTP worker.
OneWorker == \A v, w \in Workers : v = w

LEMMA OrderInit == Init => FirstInFirstOut
<1> SUFFICES ASSUME Init PROVE FirstInFirstOut
  OBVIOUS
<1>1. /\ \A c \in Consumers : pc[c] = "unborn"
      /\ \A q \in Queues : queue[q] = <<>>
  BY DEF Init, Threads, Consumers
<1>2. Origins = {} /\ \A k \in DOMAIN responses : responses[k].origin = 0
  BY DEF Init, DbInit, Origins
<1>3. AtWorkers = {} /\ Taken(DbWorker, {"inserting"}) = {} /\ Taken(Dispatcher, {"forwarding"}) = {}
  BY <1>1 DEF AtWorkers, Taken, Consumers, HttpLabels
<1>4. \A q \in Queues : Range(queue[q]) = {} /\ Increasing(queue[q])
  BY <1>1 DEF Range, Increasing
<1>5. \A s \in Stages : Stage[s] = {}
  BY <1>2, <1>3, <1>4, StageIs DEF Stages, Queues
<1>6. Ordered(Stage)
  BY <1>5 DEF Ordered
<1> QED
  BY <1>2, <1>4, <1>6 DEF FirstInFirstOut, StoredInOrder

\* A step after which nobody has a case that was not there before.
LEMMA NothingMoves ==
  ASSUME FirstInFirstOut, responses' = responses,
         \A c \in Consumers : \A labels \in {{"inserting"}, {"forwarding"}, HttpLabels} :
            pc'[c] \in labels => pc[c] \in labels /\ job'[c] = job[c],
         \A q \in Queues : queue'[q] = queue[q] \/ queue'[q] = <<>>
  PROVE  FirstInFirstOut'
<1>1. \A q \in Queues : Range(queue'[q]) \subseteq Range(queue[q]) /\ Increasing(queue'[q])
  BY DEF Range, Increasing, FirstInFirstOut
<1>2. Origins' = Origins /\ StoredInOrder'
  BY DEF Origins, StoredInOrder, FirstInFirstOut
<1>3. /\ AtWorkers' \subseteq AtWorkers
      /\ Taken(DbWorker, {"inserting"})' \subseteq Taken(DbWorker, {"inserting"})
      /\ Taken(Dispatcher, {"forwarding"})' \subseteq Taken(Dispatcher, {"forwarding"})
  BY DEF AtWorkers, Taken, Consumers
<1>4. PICK H, G : H = Stage /\ G = Stage'
  OBVIOUS
<1>5. \A s \in Stages : G[s] \subseteq H[s]
  <2>1. /\ G[1] \subseteq H[1] /\ G[2] \subseteq H[2] /\ G[3] \subseteq H[3] /\ G[4] \subseteq H[4]
        /\ G[5] \subseteq H[5] /\ G[6] \subseteq H[6] /\ G[7] \subseteq H[7]
    BY <1>1, <1>2, <1>3, <1>4, StageIs DEF Stage, Queues
  <2> QED
    BY <2>1 DEF Stages
<1>6. Ordered(Stage)'
  BY <1>4, <1>5, FewerOrdered DEF FirstInFirstOut
<1> QED
  BY <1>1, <1>2, <1>6 DEF FirstInFirstOut

\* The queue a stage takes from and the one it gives to.
LEMMA PopInOrder ==
  ASSUME TypeOK, FirstInFirstOut, NEW q \in Queues, NEW c \in Takes(q), Pop(c, q, Received(q)),
         responses' = responses
  PROVE  FirstInFirstOut'
<1>a. c \in Consumers
  BY DEF Takes, Consumers, Queues
<1>1. /\ pc'[c] = Received(q) /\ job'[c] = Head(queue[q]) /\ queue'[q] = Tail(queue[q])
      /\ \A d \in Consumers \ {c} : pc'[d] = pc[d] /\ job'[d] = job[d]
      /\ \A r \in Queues \ {q} : queue'[r] = queue[r]
      /\ queue[q] \in Seq(Cases) /\ queue[q] # <<>> /\ Increasing(queue[q])
  BY <1>a, ConsumerGoes DEF Pop, Rest, TypeOK, ThreadTypes, ObjectTypes, FirstInFirstOut
<1>2. PICK i : i = Head(queue[q])
  OBVIOUS
<1>3. /\ Increasing(queue'[q]) /\ Range(queue'[q]) \subseteq Range(queue[q])
      /\ i \in Range(queue[q]) /\ \A j \in Range(queue'[q]) : i < j
  BY <1>1, <1>2, TailIncreasing
<1>4. Origins' = Origins /\ StoredInOrder'
  BY DEF Origins, StoredInOrder, FirstInFirstOut
<1>5. \A r \in Queues : Increasing(queue'[r])
  BY <1>1, <1>3 DEF FirstInFirstOut
<1>6. PICK H, G : H = Stage /\ G = Stage'
  OBVIOUS
<1>7. /\ H[1] = Origins /\ H[2] = Taken(DbWorker, {"inserting"}) /\ H[3] = Range(queue["db"])
      /\ H[4] = Taken(Dispatcher, {"forwarding"}) /\ H[5] = Range(queue["response"])
      /\ H[6] = AtWorkers /\ H[7] = Range(queue["request"])
  BY <1>6, StageIs
<1>8. /\ G[1] = Origins' /\ G[2] = Taken(DbWorker, {"inserting"})' /\ G[3] = Range(queue'["db"])
      /\ G[4] = Taken(Dispatcher, {"forwarding"})' /\ G[5] = Range(queue'["response"])
      /\ G[6] = AtWorkers' /\ G[7] = Range(queue'["request"])
  BY <1>6 DEF Stage
<1>9. Ordered(H)
  BY <1>6 DEF FirstInFirstOut
<1>10. Ordered(G)
  <2>1. CASE q = "request"
    <3>1. c \in Workers /\ pc'[c] = "setup"
      BY <1>1, <2>1 DEF Takes, Received
    <3>2. AtWorkers' \subseteq AtWorkers \cup {i}
      BY <1>1, <1>2, <3>1 DEF AtWorkers, Consumers
    <3>3. /\ Taken(DbWorker, {"inserting"})' = Taken(DbWorker, {"inserting"})
          /\ Taken(Dispatcher, {"forwarding"})' = Taken(Dispatcher, {"forwarding"})
      BY <1>1, <3>1 DEF Taken, Consumers
    <3>4. /\ G[1] \subseteq H[1] /\ G[2] \subseteq H[2] /\ G[3] \subseteq H[3] /\ G[4] \subseteq H[4]
          /\ G[5] \subseteq H[5] /\ G[6] \subseteq H[6] \cup {i} /\ G[7] \subseteq H[7]
          /\ i \in H[7] /\ \A j \in G[7] : i < j
      BY <1>1, <1>3, <1>4, <1>7, <1>8, <2>1, <3>2, <3>3 DEF Queues
    <3>5. /\ 7 \in Stages /\ 6 \in Stages /\ 6 = 7 - 1
          /\ \A r \in Stages \ {6} : G[r] \subseteq H[r]
      BY <3>4 DEF Stages
    <3> QED
      BY ONLY <1>9, <3>4, <3>5, NextOrdered
  <2>2. CASE q = "response"
    <3>1. c = Dispatcher /\ pc'[c] = "forwarding"
      BY <1>1, <2>2 DEF Takes, Received
    <3>2. AtWorkers' \subseteq AtWorkers
      BY <1>1, <3>1 DEF AtWorkers, Consumers
    <3>3. /\ Taken(DbWorker, {"inserting"})' = Taken(DbWorker, {"inserting"})
          /\ Taken(Dispatcher, {"forwarding"})' = {i}
      BY <1>1, <1>2, <3>1 DEF Taken, Consumers
    <3>4. /\ G[1] \subseteq H[1] /\ G[2] \subseteq H[2] /\ G[3] \subseteq H[3] /\ G[4] \subseteq H[4] \cup {i}
          /\ G[5] \subseteq H[5] /\ G[6] \subseteq H[6] /\ G[7] \subseteq H[7]
          /\ i \in H[5] /\ \A j \in G[5] : i < j
      BY <1>1, <1>3, <1>4, <1>7, <1>8, <2>2, <3>2, <3>3 DEF Queues
    <3>5. /\ 5 \in Stages /\ 4 \in Stages /\ 4 = 5 - 1
          /\ \A r \in Stages \ {4} : G[r] \subseteq H[r]
      BY <3>4 DEF Stages
    <3> QED
      BY ONLY <1>9, <3>4, <3>5, NextOrdered
  <2>3. CASE q = "db"
    <3>1. c = DbWorker /\ pc'[c] = "inserting"
      BY <1>1, <2>3 DEF Takes, Received
    <3>2. AtWorkers' \subseteq AtWorkers
      BY <1>1, <3>1 DEF AtWorkers, Consumers
    <3>3. /\ Taken(DbWorker, {"inserting"})' = {i}
          /\ Taken(Dispatcher, {"forwarding"})' = Taken(Dispatcher, {"forwarding"})
      BY <1>1, <1>2, <3>1 DEF Taken, Consumers
    <3>4. /\ G[1] \subseteq H[1] /\ G[2] \subseteq H[2] \cup {i} /\ G[3] \subseteq H[3] /\ G[4] \subseteq H[4]
          /\ G[5] \subseteq H[5] /\ G[6] \subseteq H[6] /\ G[7] \subseteq H[7]
          /\ i \in H[3] /\ \A j \in G[3] : i < j
      BY <1>1, <1>3, <1>4, <1>7, <1>8, <2>3, <3>2, <3>3 DEF Queues
    <3>5. /\ 3 \in Stages /\ 2 \in Stages /\ 2 = 3 - 1
          /\ \A r \in Stages \ {2} : G[r] \subseteq H[r]
      BY <3>4 DEF Stages
    <3> QED
      BY ONLY <1>9, <3>4, <3>5, NextOrdered
  <2> QED
    BY <2>1, <2>2, <2>3 DEF Queues
<1> QED
  BY <1>4, <1>5, <1>6, <1>10 DEF FirstInFirstOut

\* The only HTTP worker, or the dispatcher, hands its case on.
LEMMA PushInOrder ==
  ASSUME TypeOK, FirstInFirstOut, OneWorker, NEW c \in Consumers, NEW q, NEW l, NEW i,
         \/ c \in Workers /\ q = "response" /\ pc[c] = "pushing" /\ l = "releasing"
         \/ c = Dispatcher /\ q = "db" /\ pc[c] = "forwarding" /\ l = "idle",
         i = job[c], Push(q, i), pc'[c] = l, OnlyMoves(c), responses' = responses
  PROVE  FirstInFirstOut'
<1>1. q \in Queues /\ i \in Cases
  BY DEF Queues, TypeOK, ThreadTypes, Idle
<1>2. /\ queue[q] \in Seq(Cases) /\ queue'[q] = Append(queue[q], i)
      /\ \A r \in Queues \ {q} : queue'[r] = queue[r]
      /\ \A r \in Queues : Increasing(queue[r])
  BY <1>1 DEF Push, AtBack, TypeOK, ObjectTypes, FirstInFirstOut
<1>3. Range(queue'[q]) = Range(queue[q]) \cup {i}
  BY <1>1, <1>2, PushRange
<1>4. Origins' = Origins /\ StoredInOrder'
  BY DEF Origins, StoredInOrder, FirstInFirstOut
<1>6. PICK H, G : H = Stage /\ G = Stage'
  OBVIOUS
<1>7. /\ H[1] = Origins /\ H[2] = Taken(DbWorker, {"inserting"}) /\ H[3] = Range(queue["db"])
      /\ H[4] = Taken(Dispatcher, {"forwarding"}) /\ H[5] = Range(queue["response"])
      /\ H[6] = AtWorkers /\ H[7] = Range(queue["request"])
  BY <1>6, StageIs
<1>8. /\ G[1] = Origins' /\ G[2] = Taken(DbWorker, {"inserting"})' /\ G[3] = Range(queue'["db"])
      /\ G[4] = Taken(Dispatcher, {"forwarding"})' /\ G[5] = Range(queue'["response"])
      /\ G[6] = AtWorkers' /\ G[7] = Range(queue'["request"])
  BY <1>6 DEF Stage
<1>9. Ordered(H)
  BY <1>6 DEF FirstInFirstOut
<1>10. Ordered(G) /\ \A j \in Range(queue[q]) : j < i
  <2>1. CASE c \in Workers
    <3>1. q = "response" /\ pc[c] = "pushing" /\ pc'[c] = "releasing" /\ c # Dispatcher /\ c # DbWorker
      BY <2>1
    <3>2. AtWorkers' = {} /\ i \in AtWorkers
      BY <2>1, <3>1 DEF AtWorkers, OneWorker, HttpLabels
    <3>3. /\ Taken(DbWorker, {"inserting"})' = Taken(DbWorker, {"inserting"})
          /\ Taken(Dispatcher, {"forwarding"})' = Taken(Dispatcher, {"forwarding"})
      BY <3>1 DEF Taken, Consumers, OnlyMoves
    <3>a. /\ Range(queue'["response"]) = Range(queue["response"]) \cup {i}
          /\ queue'["db"] = queue["db"] /\ queue'["request"] = queue["request"]
      BY <1>2, <1>3, <3>1 DEF Queues
    <3>4. /\ G[1] \subseteq H[1] /\ G[2] \subseteq H[2] /\ G[3] \subseteq H[3] /\ G[4] \subseteq H[4]
          /\ G[5] \subseteq H[5] \cup {i} /\ G[6] \subseteq H[6] /\ G[7] \subseteq H[7]
          /\ i \in H[6] /\ \A j \in G[6] : i < j
      BY ONLY <1>4, <1>7, <1>8, <3>2, <3>3, <3>a
    <3>5. /\ 6 \in Stages /\ 5 \in Stages /\ 5 = 6 - 1 /\ 5 < 6
          /\ \A r \in Stages \ {5} : G[r] \subseteq H[r]
      BY <3>4 DEF Stages
    <3>6. Ordered(G)
      BY ONLY <1>9, <3>4, <3>5, NextOrdered
    <3>7. \A j \in H[5] : j < i
      BY ONLY <1>9, <3>4, <3>5 DEF Ordered
    <3> QED
      BY <1>7, <3>1, <3>6, <3>7
  <2>2. CASE c \notin Workers
    <3>1. q = "db" /\ pc[c] = "forwarding" /\ pc'[c] = "idle" /\ c = Dispatcher /\ c # DbWorker
      BY <2>2
    <3>2. AtWorkers' \subseteq AtWorkers
      BY <3>1 DEF AtWorkers, Consumers, OnlyMoves
    <3>3. /\ Taken(DbWorker, {"inserting"})' = Taken(DbWorker, {"inserting"})
          /\ Taken(Dispatcher, {"forwarding"})' = {}
          /\ Taken(Dispatcher, {"forwarding"}) = {i}
      BY <3>1 DEF Taken, Consumers, OnlyMoves
    <3>a. /\ Range(queue'["db"]) = Range(queue["db"]) \cup {i}
          /\ queue'["response"] = queue["response"] /\ queue'["request"] = queue["request"]
      BY <1>2, <1>3, <3>1 DEF Queues
    <3>4. /\ G[1] \subseteq H[1] /\ G[2] \subseteq H[2] /\ G[3] \subseteq H[3] \cup {i} /\ G[4] \subseteq H[4]
          /\ G[5] \subseteq H[5] /\ G[6] \subseteq H[6] /\ G[7] \subseteq H[7]
          /\ i \in H[4] /\ \A j \in G[4] : i < j
      BY ONLY <1>4, <1>7, <1>8, <3>2, <3>3, <3>a
    <3>5. /\ 4 \in Stages /\ 3 \in Stages /\ 3 = 4 - 1 /\ 3 < 4
          /\ \A r \in Stages \ {3} : G[r] \subseteq H[r]
      BY <3>4 DEF Stages
    <3>6. Ordered(G)
      BY ONLY <1>9, <3>4, <3>5, NextOrdered
    <3>7. \A j \in H[3] : j < i
      BY ONLY <1>9, <3>4, <3>5 DEF Ordered
    <3> QED
      BY <1>7, <3>1, <3>6, <3>7
  <2> QED
    BY <2>1, <2>2
<1>11. \A r \in Queues : Increasing(queue'[r])
  BY <1>1, <1>2, <1>10, AppendIncreasing
<1> QED
  BY <1>4, <1>6, <1>10, <1>11 DEF FirstInFirstOut

\* The DB worker's INSERT.
LEMMA InsertInOrder ==
  ASSUME TypeOK, FirstInFirstOut, DbWorkerInsert
  PROVE  FirstInFirstOut'
<1>1. /\ DbWorker \in Consumers /\ pc[DbWorker] = "inserting" /\ pc'[DbWorker] = "reading"
      /\ \A d \in Consumers \ {DbWorker} : pc'[d] = pc[d]
      /\ job' = job /\ queue' = queue
  BY ConsumerGoes DEF DbWorkerInsert, Consumers, queueVars
<1>2. PICK i \in Cases : i = job[DbWorker]
  BY <1>1 DEF TypeOK, ThreadTypes, Idle
<1>3. PICK row \in Rows : row.origin = i /\ responses' = Append(responses, row)
  BY <1>2, RowAdded
<1>4. /\ Len(responses) \in Nat /\ DOMAIN responses = 1 .. Len(responses)
      /\ DOMAIN responses' = 1 .. Len(responses) + 1
      /\ \A k \in 1 .. Len(responses) : responses'[k] = responses[k]
      /\ responses'[Len(responses) + 1] = row
  BY <1>3, AppendProperties, LenProperties DEF TypeOK, TableTypes
<1>6. PICK H, G : H = Stage /\ G = Stage'
  OBVIOUS
<1>7. /\ H[1] = Origins /\ H[2] = Taken(DbWorker, {"inserting"}) /\ H[3] = Range(queue["db"])
      /\ H[4] = Taken(Dispatcher, {"forwarding"}) /\ H[5] = Range(queue["response"])
      /\ H[6] = AtWorkers /\ H[7] = Range(queue["request"])
  BY <1>6, StageIs
<1>8. /\ G[1] = Origins' /\ G[2] = Taken(DbWorker, {"inserting"})' /\ G[3] = Range(queue'["db"])
      /\ G[4] = Taken(Dispatcher, {"forwarding"})' /\ G[5] = Range(queue'["response"])
      /\ G[6] = AtWorkers' /\ G[7] = Range(queue'["request"])
  BY <1>6 DEF Stage
<1>9. Ordered(H)
  BY <1>6 DEF FirstInFirstOut
<1>10. Origins' \subseteq Origins \cup {i}
  <2> SUFFICES ASSUME NEW k \in 1 .. Len(responses) + 1, responses'[k].origin # 0
               PROVE  responses'[k].origin \in Origins \cup {i}
    BY <1>4 DEF Origins
  <2>1. CASE k = Len(responses) + 1
    BY <1>3, <1>4, <2>1
  <2>2. CASE k # Len(responses) + 1
    <3>1. k \in 1 .. Len(responses)
      BY <1>4, <2>2
    <3> QED
      BY <1>4, <3>1 DEF Origins
  <2> QED
    BY <2>1, <2>2
<1>11. /\ Taken(DbWorker, {"inserting"}) = {i} /\ Taken(DbWorker, {"inserting"})' = {}
       /\ Taken(Dispatcher, {"forwarding"})' = Taken(Dispatcher, {"forwarding"})
       /\ AtWorkers' = AtWorkers
  BY <1>1, <1>2 DEF Taken, AtWorkers, Consumers
<1>12. /\ G[1] \subseteq H[1] \cup {i} /\ G[2] \subseteq H[2] /\ G[3] \subseteq H[3] /\ G[4] \subseteq H[4]
       /\ G[5] \subseteq H[5] /\ G[6] \subseteq H[6] /\ G[7] \subseteq H[7]
       /\ i \in H[2] /\ \A j \in G[2] : i < j
  BY <1>1, <1>7, <1>8, <1>10, <1>11
<1>13. /\ 2 \in Stages /\ 1 \in Stages /\ 1 = 2 - 1 /\ 1 < 2
       /\ \A r \in Stages \ {1} : G[r] \subseteq H[r]
  BY <1>12 DEF Stages
<1>14. Ordered(G)
  BY ONLY <1>9, <1>12, <1>13, NextOrdered
<1>15. \A j \in H[1] : j < i
  BY ONLY <1>9, <1>12, <1>13 DEF Ordered
<1>16. StoredInOrder'
  <2> SUFFICES ASSUME NEW j \in 1 .. Len(responses) + 1, NEW k \in 1 .. Len(responses) + 1,
                      j < k, responses'[j].origin # 0
               PROVE  responses'[j].origin < responses'[k].origin
    BY <1>4 DEF StoredInOrder
  <2>1. j \in 1 .. Len(responses)
    BY <1>4
  <2>2. responses'[j] = responses[j] /\ responses[j].origin \in Origins
    BY <1>4, <2>1 DEF Origins
  <2>3. CASE k = Len(responses) + 1
    BY <1>3, <1>4, <1>7, <1>15, <2>2, <2>3
  <2>4. CASE k # Len(responses) + 1
    <3>1. k \in 1 .. Len(responses)
      BY <1>4, <2>4
    <3>2. responses'[k] = responses[k] /\ j \in DOMAIN responses /\ k \in DOMAIN responses
      BY <1>4, <2>1, <3>1
    <3> QED
      BY <2>2, <3>2 DEF FirstInFirstOut, StoredInOrder
  <2> QED
    BY <2>3, <2>4
<1>17. \A q \in Queues : Increasing(queue'[q])
  BY <1>1 DEF FirstInFirstOut
<1> QED
  BY <1>6, <1>14, <1>16, <1>17 DEF FirstInFirstOut

LEMMA HttpWorkerInOrder ==
  ASSUME TypeOK, OneWorker, FirstInFirstOut, NEW w \in Workers, HttpWorker(w)
  PROVE  FirstInFirstOut'
<1>a. w \in Consumers /\ responses' = responses
  BY DEF Consumers, HttpWorker, WorkerPop, WorkerExit, PopNull, WorkerNoResponse, WorkerSetupFails,
     WorkerSetup, WorkerPerform, Answer, WorkerPush, WorkerRelease, dbVars
<1>1. CASE WorkerPop(w)
  BY <1>1, <1>a, PopInOrder DEF WorkerPop, Queues, Takes, Received
<1>2. CASE WorkerExit(w) \/ WorkerNoResponse(w) \/ WorkerRelease(w)
  <2>1. OnlyMoves(w) /\ queue' = queue /\ pc'[w] \in {"exited", "releasing", "idle"}
    BY <1>2, <1>a, ConsumerGoes DEF WorkerExit, PopNull, Leave, WorkerNoResponse, WorkerRelease,
       Release, queueVars, OnlyMoves, TypeOK, ThreadTypes
  <2> QED
    BY <1>a, <2>1, NothingMoves DEF OnlyMoves, HttpLabels
<1>3. CASE WorkerSetupFails(w) \/ WorkerSetup(w) \/ WorkerPerform(w)
  <2>1. PICK l \in {"performing", "pushing"} : Goto(w, l)
    BY <1>3 DEF WorkerSetupFails, WorkerSetup, WorkerPerform, Answer
  <2>2. UNCHANGED <<job, queue>> /\ pc[w] \in {"setup", "performing"}
    BY <1>3 DEF WorkerSetupFails, WorkerSetup, WorkerPerform, Answer, queueVars
  <2>3. OnlyMoves(w) /\ pc'[w] \in {"performing", "pushing"}
    BY <1>a, <2>1, <2>2, ConsumerGoes DEF OnlyMoves
  <2> QED
    BY <1>a, <2>2, <2>3, NothingMoves DEF OnlyMoves, HttpLabels
<1>4. CASE WorkerPush(w)
  <2>1. OnlyMoves(w) /\ pc[w] = "pushing" /\ pc'[w] = "releasing" /\ job' = job
    BY <1>4, <1>a, ConsumerGoes DEF WorkerPush, OnlyMoves
  <2>2. CASE Push("response", job[w])
    BY <1>a, <2>1, <2>2, PushInOrder
  <2>3. CASE queue' = queue
    BY <1>a, <2>1, <2>3, NothingMoves DEF OnlyMoves, HttpLabels
  <2> QED
    BY <1>4, <2>2, <2>3 DEF WorkerPush, PushFails, queueVars
<1> QED
  BY <1>1, <1>2, <1>3, <1>4 DEF HttpWorker

LEMMA DispatcherInOrder ==
  ASSUME TypeOK, OneWorker, FirstInFirstOut, DispatcherStep
  PROVE  FirstInFirstOut'
<1>a. Dispatcher \in Consumers /\ responses' = responses
  BY DEF Consumers, DispatcherStep, DispatcherPop, DispatcherExit, PopNull, DispatcherForward,
     DispatcherDrops, dbVars
<1>1. CASE DispatcherPop
  BY <1>1, <1>a, PopInOrder DEF DispatcherPop, Queues, Takes, Received
<1>2. CASE DispatcherExit
  <2>1. OnlyMoves(Dispatcher) /\ queue' = queue /\ pc'[Dispatcher] = "exited"
    BY <1>2, <1>a, ConsumerGoes DEF DispatcherExit, PopNull, Leave, queueVars, OnlyMoves
  <2> QED
    BY <1>a, <2>1, NothingMoves DEF OnlyMoves, HttpLabels
<1>3. CASE DispatcherForward \/ DispatcherDrops
  <2>1. OnlyMoves(Dispatcher) /\ pc[Dispatcher] = "forwarding" /\ pc'[Dispatcher] = "idle"
    BY <1>3, <1>a, ConsumerGoes DEF DispatcherForward, DispatcherDrops, Release, OnlyMoves,
       TypeOK, ThreadTypes
  <2>2. CASE DispatcherForward
    BY <1>a, <2>1, <2>2, PushInOrder DEF DispatcherForward
  <2>3. CASE DispatcherDrops
    <3>1. queue' = queue
      BY <2>3 DEF DispatcherDrops, PushFails, queueVars
    <3> QED
      BY <1>a, <2>1, <3>1, NothingMoves DEF OnlyMoves, HttpLabels
  <2> QED
    BY <1>3, <2>2, <2>3
<1> QED
  BY <1>1, <1>2, <1>3 DEF DispatcherStep

LEMMA DbWorkerInOrder ==
  ASSUME TypeOK, FirstInFirstOut, DbWorkerStep
  PROVE  FirstInFirstOut'
<1>a. DbWorker \in Consumers
  BY DEF Consumers
<1>1. CASE DbWorkerPop
  BY <1>1, <1>a, PopInOrder DEF DbWorkerPop, Queues, Takes, Received, dbVars
<1>2. CASE DbWorkerInsert
  BY <1>2, InsertInOrder
<1>3. CASE DbWorkerExit \/ DbWorkerInsertFails \/ DbWorkerRowid \/ DbWorkerFree
  <2>1. /\ OnlyMoves(DbWorker) /\ queue' = queue /\ responses' = responses
        /\ pc'[DbWorker] \in {"exited", "idle", "logging", "freeing"}
    BY <1>3, <1>a, ConsumerGoes DEF DbWorkerExit, PopNull, Leave, DbWorkerInsertFails,
       DbWorkerRowid, ReadRowid, DbWorkerFree, Release, queueVars, dbVars, OnlyMoves,
       TypeOK, ThreadTypes
  <2> QED
    BY <1>a, <2>1, NothingMoves DEF OnlyMoves, HttpLabels
<1> QED
  BY <1>1, <1>2, <1>3 DEF DbWorkerStep

\* dispatch_task: main submits the cases in the order of the plan.
LEMMA DispatchInOrder ==
  ASSUME TypeOK, Bounded, Owned, FirstInFirstOut, DispatchCase
  PROVE  FirstInFirstOut'
<1>1. /\ job' = job /\ responses' = responses /\ \A c \in Consumers : pc'[c] = pc[c]
      /\ pc[Main] = "dispatching" /\ Push("request", current)
  BY DEF DispatchCase, Goto, TypeOK, ThreadTypes, Threads, Consumers, dbVars
<1>2. PICK i \in Cases : i = current
  BY <1>1 DEF Bounded, TypeOK, RunTypes, Cases
<1>3. /\ queue["request"] \in Seq(Cases) /\ queue'["request"] = Append(queue["request"], i)
      /\ queue'["response"] = queue["response"] /\ queue'["db"] = queue["db"]
      /\ \A q \in Queues : Increasing(queue[q])
  BY <1>1, <1>2 DEF Push, AtBack, TypeOK, ObjectTypes, Queues, FirstInFirstOut
<1>4. Range(queue'["request"]) = Range(queue["request"]) \cup {i}
  BY <1>3, PushRange
<1>5. Origins' = Origins /\ StoredInOrder'
  BY <1>1 DEF Origins, StoredInOrder, FirstInFirstOut
<1>6. PICK H, G : H = Stage /\ G = Stage'
  OBVIOUS
<1>7. /\ H[1] = Origins /\ H[2] = Taken(DbWorker, {"inserting"}) /\ H[3] = Range(queue["db"])
      /\ H[4] = Taken(Dispatcher, {"forwarding"}) /\ H[5] = Range(queue["response"])
      /\ H[6] = AtWorkers /\ H[7] = Range(queue["request"])
  BY <1>6, StageIs
<1>8. /\ G[1] = Origins' /\ G[2] = Taken(DbWorker, {"inserting"})' /\ G[3] = Range(queue'["db"])
      /\ G[4] = Taken(Dispatcher, {"forwarding"})' /\ G[5] = Range(queue'["response"])
      /\ G[6] = AtWorkers' /\ G[7] = Range(queue'["request"])
  BY <1>6 DEF Stage
<1>9. Ordered(H)
  BY <1>6 DEF FirstInFirstOut
<1>10. /\ Taken(DbWorker, {"inserting"})' = Taken(DbWorker, {"inserting"})
       /\ Taken(Dispatcher, {"forwarding"})' = Taken(Dispatcher, {"forwarding"})
       /\ AtWorkers' = AtWorkers
  BY <1>1 DEF Taken, AtWorkers, Consumers
<1>11. \A s \in Stages : H[s] \subseteq submitted
  <2>1. PICK A : A = At(AnswerLabels, Queues, Origins)
    OBVIOUS
  <2>2. /\ \A c \in Consumers : Taken(c, AnswerLabels) \subseteq submitted
        /\ \A q \in Queues : Queued(q, Queues) \subseteq submitted
        /\ Origins \subseteq submitted
    BY <2>1, AtSeats DEF Owned, AnswersSpread, Spread
  <2>3. \A c \in Consumers : pc[c] \in AnswerLabels => job[c] \in submitted
    BY <2>2 DEF Taken
  <2>4. \A q \in Queues : Range(queue[q]) \subseteq submitted
    BY <2>2 DEF Queued
  <2>5. /\ Taken(DbWorker, {"inserting"}) \subseteq submitted
        /\ Taken(Dispatcher, {"forwarding"}) \subseteq submitted
        /\ AtWorkers \subseteq submitted
    BY <2>3 DEF Taken, AtWorkers, Consumers, AnswerLabels, HttpLabels
  <2>6. /\ H[1] \subseteq submitted /\ H[2] \subseteq submitted /\ H[3] \subseteq submitted
        /\ H[4] \subseteq submitted /\ H[5] \subseteq submitted /\ H[6] \subseteq submitted
        /\ H[7] \subseteq submitted
    BY <1>7, <2>2, <2>4, <2>5 DEF Queues
  <2> QED
    BY ONLY <2>6 DEF Stages
<1>12. \A j \in submitted : j < i
  BY <1>1, <1>2 DEF Owned, NotYetSubmitted
<1>13. /\ G[1] \subseteq H[1] /\ G[2] \subseteq H[2] /\ G[3] \subseteq H[3] /\ G[4] \subseteq H[4]
       /\ G[5] \subseteq H[5] /\ G[6] \subseteq H[6] /\ G[7] \subseteq H[7] \cup {i}
  BY ONLY <1>3, <1>4, <1>5, <1>7, <1>8, <1>10
<1>14. 7 \in Stages /\ \A r \in Stages \ {7} : G[r] \subseteq H[r]
  BY ONLY <1>13 DEF Stages
<1>15. \A s \in Stages : \A j \in H[s] : j < i
  BY ONLY <1>11, <1>12
<1>16. Ordered(G)
  BY <1>9, <1>13, <1>14, <1>15, LastOrdered
<1>17. \A j \in Range(queue["request"]) : j < i
  BY ONLY <1>7, <1>14, <1>15
<1>18. \A q \in Queues : Increasing(queue'[q])
  BY <1>3, <1>17, AppendIncreasing DEF Queues
<1> QED
  BY <1>5, <1>6, <1>16, <1>18 DEF FirstInFirstOut

LEMMA RunPlanInOrder ==
  ASSUME TypeOK, Bounded, Owned, FirstInFirstOut, RunPlan
  PROVE  FirstInFirstOut'
<1>1. CASE DispatchCase
  BY <1>1, DispatchInOrder
<1>2. CASE HoldsNothing
  BY <1>2, HoldsNothingMoves, NothingMoves DEF HttpLabels
<1>3. CASE SubmitCase \/ SubmitFails \/ DispatchFails \/ FreeHeld
  <2>1. UNCHANGED <<job, queue, responses>> /\ \E l : Goto(Main, l)
    BY <1>3 DEF SubmitCase, SaveRequestRow, SubmitFails, DispatchFails, PushFails, FreeHeld,
       queueVars, dbVars
  <2>2. \A c \in Consumers : pc'[c] = pc[c]
    BY <2>1 DEF Goto, TypeOK, ThreadTypes, Threads, Consumers
  <2> QED
    BY <2>1, <2>2, NothingMoves
<1> QED
  BY <1>1, <1>2, <1>3 DEF RunPlan, HoldsNothing

LEMMA StepInOrderOfPlan ==
  TypeOK /\ Bounded /\ Owned /\ OneWorker /\ FirstInFirstOut /\ [Next]_vars => FirstInFirstOut'
<1> SUFFICES ASSUME TypeOK, Bounded, Owned, OneWorker, FirstInFirstOut, [Next]_vars
             PROVE  FirstInFirstOut'
  OBVIOUS
<1>1. CASE RunPlan
  BY <1>1, RunPlanInOrder
<1>2. CASE \E w \in Workers : HttpWorker(w)
  BY <1>2, HttpWorkerInOrder
<1>3. CASE DispatcherStep
  BY <1>3, DispatcherInOrder
<1>4. CASE DbWorkerStep
  BY <1>4, DbWorkerInOrder
<1>5. CASE UNCHANGED vars
  BY <1>5, NothingMoves DEF vars, threadVars, queueVars, dbVars
<1> QED
  BY <1>1, <1>2, <1>3, <1>4, <1>5 DEF Next, Returned

\* With one HTTP worker the rows of this run are in the order of the plan, for
\* any number of cases and whatever fails: each queue is first in, first out,
\* each thread holds one case, and a case that is lost lets no other pass.
THEOREM OneWorkerKeepsOrder ==
  ASSUME \A v, w \in Workers : v = w
  PROVE  Safety => []StoredInOrder
<1>0. OneWorker
  BY DEF OneWorker
<1>1. Init => TypeOK /\ Bounded /\ Owned /\ FirstInFirstOut
  BY InitTypes, InitOwned, OrderInit
<1>2. TypeOK /\ Bounded /\ Owned /\ FirstInFirstOut /\ [Next]_vars
         => (TypeOK /\ Bounded /\ Owned /\ FirstInFirstOut)'
  BY <1>0, StepTypes, StepOwned, StepInOrderOfPlan
<1>3. FirstInFirstOut => StoredInOrder
  BY DEF FirstInFirstOut
<1> QED
  BY <1>1, <1>2, <1>3, PTL DEF Safety
=============================================================================
