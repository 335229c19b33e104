-------------------------- MODULE EngineInvariants --------------------------
(***************************************************************************)
(* Engine, for every value of its constants: any number of cases and       *)
(* workers, any identities and faults, any history in the database.  Every *)
(* variable keeps its type.  destroy_runtime takes the pipeline down in    *)
(* order: threads are gone before what they use is freed, nobody pushes to *)
(* a closed queue, and nothing is left in a queue nobody reads; when no    *)
(* call fails, nothing that was submitted is lost.  Exit code 0 is earned  *)
(* by every case of the plan, and a case is only ever given an answer to   *)
(* the request it asked for, whatever else the database holds.             *)
(***************************************************************************)
EXTENDS Engine, SequenceTheorems, TLAPS

\* The plan's size is checked before anything is submitted, and the loops of
\* run_plan stay inside it.
Bounded == /\ pc[Main] \notin {"starting", "closing", "done"} => caseCount <= MaxCases
           /\ pc[Main] \in {"dispatching", "sleeping"} => current <= caseCount

USE CasesAssumption, ThreadsAssumption, PlanAssumption

LEMMA InitTypes == Init => TypeOK /\ Bounded
<1> SUFFICES ASSUME Init PROVE TypeOK /\ Bounded
  OBVIOUS
<1>1. ThreadTypes
  BY DEF Init, ThreadTypes, Threads, Consumers, MainLabels, Idle, CleanupLabels, Cases
<1>2. ObjectTypes
  BY DEF Init, ObjectTypes, Answers
<1>3. TableTypes
  <2>1. responses \in Seq(Rows)
    <3>1. /\ responses = [k \in DOMAIN OldRequests |->
                            [request |-> k, origin |-> 0, ok |-> TRUE, meets |-> TRUE]]
          /\ DOMAIN OldRequests = 1 .. Len(OldRequests)
          /\ Len(OldRequests) \in Nat
      BY DEF Init, DbInit
    <3>2. \A k \in 1 .. Len(OldRequests) :
             [request |-> k, origin |-> 0, ok |-> TRUE, meets |-> TRUE] \in Rows
      BY <3>1 DEF Rows
    <3> QED
      BY <3>1, <3>2
  <2>2. requests \in Seq(Identities) /\ lastRowid \in Nat /\ savedId \in Nat
    BY DEF Init, DbInit
  <2> QED
    BY <2>1, <2>2 DEF TableTypes
<1>4. RunTypes
  <2>1. caseCount \in 0 .. MaxCases + 1 /\ current \in Nat \ {0} /\ elapsed \in Nat
    BY DEF Init
  <2>2. requestId \in [Cases -> Int] /\ result \in [Cases -> Nat]
    BY DEF Init
  <2>3. held \subseteq {"task", "request"} /\ exitCode \in {0, 1} /\ submitted \subseteq Cases
    BY DEF Init
  <2> QED
    BY Zenon, <2>1, <2>2, <2>3 DEF RunTypes
<1>5. FlagTypes
  BY Zenon DEF Init, FlagTypes
<1>6. Bounded
  BY DEF Init, Bounded, Threads
<1> QED
  BY <1>1, <1>2, <1>3, <1>4, <1>5, <1>6 DEF TypeOK

-----------------------------------------------------------------------------
(* Threads that move *)

LabelsOf(c) == IF c = Dispatcher THEN DispatcherLabels \cup Idle
               ELSE IF c = DbWorker THEN DbLabels \cup Idle
               ELSE WorkerLabels \cup Idle

\* A step of the main thread moves nobody else.
LEMMA MainMoves ==
  ASSUME ThreadTypes, NEW l \in MainLabels, Goto(Main, l), UNCHANGED <<job, exitTo>>
  PROVE  /\ ThreadTypes'
         /\ pc'[Main] = l
         /\ \A c \in Consumers : pc'[c] = pc[c]
BY DEF ThreadTypes, Goto, Threads, Consumers

\* A consumer that is past its pop has a case to work on.
LEMMA ConsumerMoves ==
  ASSUME ThreadTypes, NEW c \in Consumers, NEW l \in LabelsOf(c), Goto(c, l),
         job' \in [Consumers -> 0 .. MaxCases],
         \A d \in Consumers \ {c} : job'[d] = job[d],
         l \notin Idle => job'[c] \in Cases,
         exitTo' \in [Workers -> CleanupLabels]
  PROVE  /\ ThreadTypes'
         /\ pc'[c] = l
         /\ \A t \in Threads \ {c} : pc'[t] = pc[t]
         /\ pc'[Main] = pc[Main]
BY DEF ThreadTypes, Goto, Threads, Consumers, LabelsOf

\* What a step leaves alone keeps its type.
LEMMA Untouched ==
  ASSUME TypeOK
  PROVE  /\ UNCHANGED threadVars => ThreadTypes'
         /\ UNCHANGED <<queueVars, heapVars>> => ObjectTypes'
         /\ UNCHANGED dbVars => TableTypes'
         /\ UNCHANGED mainVars => RunTypes' /\ FlagTypes'
<1>1. UNCHANGED threadVars => ThreadTypes'
  BY DEF TypeOK, ThreadTypes, threadVars
<1>2. UNCHANGED <<queueVars, heapVars>> => ObjectTypes'
  BY DEF TypeOK, ObjectTypes, queueVars, heapVars
<1>3. UNCHANGED dbVars => TableTypes'
  BY DEF TypeOK, TableTypes, dbVars
<1>4. UNCHANGED mainVars => RunTypes' /\ FlagTypes'
  BY Zenon DEF TypeOK, RunTypes, FlagTypes, mainVars, waitVars
<1> QED
  BY <1>1, <1>2, <1>3, <1>4

-----------------------------------------------------------------------------
(* Queue operations *)

LEMMA PopTypes ==
  ASSUME TypeOK, NEW c \in Consumers, NEW q \in Queues, NEW l \in LabelsOf(c),
         Pop(c, q, l), UNCHANGED <<exitTo, heapVars, dbVars, mainVars>>
  PROVE  TypeOK' /\ pc'[Main] = pc[Main]
<1>1. queue[q] \in Seq(Cases) /\ queue[q] # <<>>
  BY DEF TypeOK, ObjectTypes, Pop
<1>2. Head(queue[q]) \in Cases /\ Tail(queue[q]) \in Seq(Cases)
  BY <1>1, HeadTailProperties
<1>3. job' \in [Consumers -> 0 .. MaxCases] /\ job'[c] \in Cases
      /\ \A d \in Consumers \ {c} : job'[d] = job[d]
  BY <1>2 DEF TypeOK, ThreadTypes, Pop, Cases
<1>4. ThreadTypes' /\ pc'[Main] = pc[Main]
  BY <1>3, ConsumerMoves DEF TypeOK, ThreadTypes, Pop
<1>5. ObjectTypes'
  BY <1>2 DEF TypeOK, ObjectTypes, Pop, Rest, heapVars
<1> QED
  BY <1>4, <1>5, Untouched DEF TypeOK

LEMMA PopNullTypes ==
  ASSUME TypeOK, NEW c \in Consumers, NEW q \in Queues, PopNull(c, q)
  PROVE  TypeOK' /\ pc'[Main] = pc[Main]
<1>1. "exited" \in LabelsOf(c) /\ "exited" \in Idle
  BY DEF LabelsOf, Idle
<1>2. ThreadTypes' /\ pc'[Main] = pc[Main]
  BY <1>1, ConsumerMoves DEF TypeOK, ThreadTypes, PopNull, Leave
<1> QED
  BY <1>2, Untouched DEF TypeOK, PopNull

LEMMA PushTypes ==
  ASSUME TypeOK, NEW q \in Queues, NEW i \in Cases, Push(q, i)
  PROVE  queue' \in [Queues -> Seq(Cases)] /\ closed' \subseteq Queues
<1>1. Append(queue[q], i) \in Seq(Cases)
  BY AppendProperties DEF TypeOK, ObjectTypes
<1> QED
  BY <1>1 DEF TypeOK, ObjectTypes, Push, AtBack

LEMMA ReleaseTypes ==
  ASSUME TypeOK, NEW c \in Consumers, Release(c), UNCHANGED exitTo
  PROVE  ThreadTypes' /\ pc'[Main] = pc[Main]
<1>1. "idle" \in LabelsOf(c) /\ "idle" \in Idle
  BY DEF LabelsOf, Idle
<1>2. job' \in [Consumers -> 0 .. MaxCases] /\ \A d \in Consumers \ {c} : job'[d] = job[d]
  BY DEF TypeOK, ThreadTypes, Release
<1> QED
  BY <1>1, <1>2, ConsumerMoves DEF TypeOK, ThreadTypes, Release

LEMMA PopRange ==
  ASSUME NEW s \in Seq(Cases), s # <<>>
  PROVE  Range(s) = {Head(s)} \cup Range(Tail(s)) /\ Head(s) \in Cases
<1>1. /\ Len(s) \in Nat \ {0} /\ DOMAIN s = 1 .. Len(s) /\ Head(s) = s[1]
      /\ DOMAIN Tail(s) = 1 .. Len(s) - 1
      /\ \A k \in 1 .. Len(s) - 1 : Tail(s)[k] = s[k + 1]
  BY HeadTailProperties, LenProperties, EmptySeq
<1>2. ASSUME NEW x \in Range(s) PROVE x \in {Head(s)} \cup Range(Tail(s))
  <2>1. PICK k \in 1 .. Len(s) : x = s[k]
    BY <1>1 DEF Range
  <2>2. CASE k = 1
    BY <1>1, <2>1, <2>2
  <2>3. CASE k # 1
    <3>1. k - 1 \in 1 .. Len(s) - 1 /\ (k - 1) + 1 = k
      BY <1>1, <2>1, <2>3
    <3>2. k - 1 \in DOMAIN Tail(s) /\ Tail(s)[k - 1] = x
      BY <1>1, <2>1, <3>1
    <3> QED
      BY ONLY <3>2 DEF Range
  <2> QED
    BY <2>2, <2>3
<1>3. ASSUME NEW x \in Range(Tail(s)) PROVE x \in Range(s)
  <2>1. PICK k \in 1 .. Len(s) - 1 : x = s[k + 1]
    BY <1>1 DEF Range
  <2>2. k + 1 \in DOMAIN s
    BY <1>1, <2>1
  <2> QED
    BY <2>1, <2>2 DEF Range
<1>4. Head(s) \in Range(s) /\ Head(s) \in Cases
  BY <1>1 DEF Range
<1> QED
  BY <1>2, <1>3, <1>4

LEMMA PushRange ==
  ASSUME NEW s \in Seq(Cases), NEW i \in Cases
  PROVE  Range(Append(s, i)) = Range(s) \cup {i}
<1>1. /\ Len(s) \in Nat /\ DOMAIN s = 1 .. Len(s)
      /\ DOMAIN Append(s, i) = 1 .. Len(s) + 1
      /\ \A k \in 1 .. Len(s) : Append(s, i)[k] = s[k]
      /\ Append(s, i)[Len(s) + 1] = i
  BY AppendProperties, LenProperties
<1> QED
  BY <1>1 DEF Range

-----------------------------------------------------------------------------
(* The consumers *)

LEMMA HttpWorkerTypes ==
  ASSUME TypeOK, NEW w \in Workers, HttpWorker(w)
  PROVE  TypeOK' /\ pc'[Main] = pc[Main] /\ UNCHANGED mainVars
<1> DEFINE i == job[w]
<1>a. w \in Consumers /\ WorkerLabels \cup Idle = LabelsOf(w)
  BY DEF Consumers, LabelsOf
<1>b. pc[w] \in WorkerLabels => i \in Cases
  BY <1>a DEF TypeOK, ThreadTypes, WorkerLabels, Idle
<1>c. ASSUME NEW kinds \in SUBSET Kinds, i \in Cases
      PROVE  Made(kinds, i) \subseteq Objects /\ Freed(kinds, i) \subseteq Objects
  BY <1>c DEF TypeOK, ObjectTypes, Made, Freed, Objects
<1>d. ASSUME NEW l \in WorkerLabels, Goto(w, l), UNCHANGED job, pc[w] \in WorkerLabels,
             exitTo' \in [Workers -> CleanupLabels]
      PROVE  ThreadTypes' /\ pc'[Main] = pc[Main]
  BY <1>a, <1>b, <1>d, ConsumerMoves DEF TypeOK, ThreadTypes
<1>e. ASSUME NEW ok \in BOOLEAN, NEW made \in SUBSET Kinds, NEW l \in CleanupLabels,
             pc[w] \in WorkerLabels, Answer(w, ok, made, l)
      PROVE  TypeOK' /\ pc'[Main] = pc[Main] /\ UNCHANGED mainVars
  <2>1. i \in Cases
    BY <1>b, <1>e
  <2>2. ThreadTypes' /\ pc'[Main] = pc[Main]
    BY <1>d, <1>e DEF Answer, TypeOK, ThreadTypes, WorkerLabels
  <2>3. PICK m \in BOOLEAN : answer' = [answer EXCEPT ![i] = [ok |-> ok, meets |-> m]]
    BY <1>e DEF Answer
  <2>4. [ok |-> ok, meets |-> m] \in Answers
    BY DEF Answers
  <2>5. answer' \in [Cases -> Answers]
    BY <2>1, <2>3, <2>4 DEF TypeOK, ObjectTypes
  <2>6. live' \subseteq Objects /\ UNCHANGED queueVars
    BY <1>c, <1>e, <2>1 DEF Answer
  <2>7. ObjectTypes'
    BY <2>5, <2>6 DEF TypeOK, ObjectTypes, queueVars
  <2> QED
    BY <1>e, <2>2, <2>7, Untouched DEF TypeOK, Answer
<1>f. CurlObjects(i) \subseteq Kinds /\ \A l : FreedFrom(l, i) \subseteq Kinds
  BY DEF CurlObjects, HeaderList, FreedFrom, TaskObjects, Kinds
<1>1. CASE WorkerPop(w)
  BY <1>1, <1>a, PopTypes DEF WorkerPop, WorkerLabels, Queues
<1>2. CASE WorkerExit(w)
  BY <1>2, <1>a, PopNullTypes DEF WorkerExit, Queues, PopNull
<1>3. CASE WorkerNoResponse(w)
  <2>1. exitTo' \in [Workers -> CleanupLabels]
    BY <1>3 DEF WorkerNoResponse, TypeOK, ThreadTypes, CleanupLabels
  <2>2. ThreadTypes' /\ pc'[Main] = pc[Main]
    BY <1>3, <1>d, <2>1 DEF WorkerNoResponse, WorkerLabels
  <2> QED
    BY <1>3, <2>2, Untouched DEF WorkerNoResponse, TypeOK
<1>4. CASE WorkerSetupFails(w)
  <2>1. pc[w] \in WorkerLabels
    BY <1>4 DEF WorkerSetupFails, WorkerLabels
  <2>2. {"cleanup_task", "cleanup_curl"} \subseteq CleanupLabels
    BY DEF CleanupLabels
  <2>3. {"response"} \subseteq Kinds /\ {"response", "curl"} \subseteq Kinds
    BY DEF Kinds
  <2>4. \/ Answer(w, FALSE, {"response"}, "cleanup_task")
        \/ Answer(w, FALSE, {"response", "curl"}, "cleanup_curl")
        \/ Answer(w, FALSE, CurlObjects(i), "cleanup_curl")
    BY <1>4 DEF WorkerSetupFails
  <2> QED
    BY <1>e, <1>f, <2>1, <2>2, <2>3, <2>4
<1>5. CASE WorkerSetup(w)
  <2>1. ThreadTypes' /\ pc'[Main] = pc[Main]
    BY <1>5, <1>d DEF WorkerSetup, WorkerLabels, TypeOK, ThreadTypes
  <2>2. i \in Cases
    BY <1>5, <1>b DEF WorkerSetup, WorkerLabels
  <2>3. ObjectTypes'
    BY <1>5, <1>c, <1>f, <2>2 DEF WorkerSetup, TypeOK, ObjectTypes, queueVars
  <2> QED
    BY <1>5, <2>1, <2>3, Untouched DEF WorkerSetup, TypeOK
<1>6. CASE WorkerPerform(w)
  <2>1. PICK ok \in BOOLEAN : Answer(w, ok, {}, "cleanup_header_list")
    BY <1>6 DEF WorkerPerform
  <2>2. pc[w] \in WorkerLabels /\ {} \in SUBSET Kinds /\ "cleanup_header_list" \in CleanupLabels
    BY <1>6 DEF WorkerPerform, WorkerLabels, CleanupLabels
  <2> QED
    BY <1>e, <2>1, <2>2
<1>7. CASE WorkerPush(w)
  <2>1. ThreadTypes' /\ pc'[Main] = pc[Main]
    BY <1>7, <1>d DEF WorkerPush, WorkerLabels, TypeOK, ThreadTypes
  <2>2. i \in Cases
    BY <1>7, <1>b DEF WorkerPush, WorkerLabels
  <2>3. live' \subseteq Objects
    BY <1>7, <1>c, <2>2 DEF WorkerPush, FreeUnpushed, Kinds, TypeOK, ObjectTypes
  <2>4. queue' \in [Queues -> Seq(Cases)] /\ closed' \subseteq Queues
    BY <1>7, <2>2, PushTypes DEF WorkerPush, PushFails, TypeOK, ObjectTypes, queueVars, Queues
  <2>5. ObjectTypes'
    BY <1>7, <2>3, <2>4 DEF WorkerPush, TypeOK, ObjectTypes
  <2> QED
    BY <1>7, <2>1, <2>5, Untouched DEF WorkerPush, TypeOK
<1>8. CASE WorkerRelease(w)
  <2>1. ThreadTypes' /\ pc'[Main] = pc[Main]
    BY <1>8, <1>a, ReleaseTypes DEF WorkerRelease
  <2>2. i \in Cases
    BY <1>8, <1>b DEF WorkerRelease, WorkerLabels
  <2>3. ObjectTypes'
    BY <1>8, <1>c, <1>f, <2>2 DEF WorkerRelease, TypeOK, ObjectTypes, queueVars
  <2> QED
    BY <1>8, <2>1, <2>3, Untouched DEF WorkerRelease, TypeOK
<1> QED
  BY <1>1, <1>2, <1>3, <1>4, <1>5, <1>6, <1>7, <1>8 DEF HttpWorker

LEMMA DispatcherTypes ==
  ASSUME TypeOK, DispatcherStep
  PROVE  TypeOK' /\ pc'[Main] = pc[Main] /\ UNCHANGED mainVars
<1> DEFINE i == job[Dispatcher]
<1>a. Dispatcher \in Consumers /\ "forwarding" \in LabelsOf(Dispatcher)
  BY DEF Consumers, LabelsOf, DispatcherLabels
<1>b. pc[Dispatcher] = "forwarding" => i \in Cases
  BY <1>a DEF TypeOK, ThreadTypes, Idle
<1>1. CASE DispatcherPop
  BY <1>1, <1>a, PopTypes DEF DispatcherPop, Queues
<1>2. CASE DispatcherExit
  BY <1>2, <1>a, PopNullTypes DEF DispatcherExit, PopNull, Queues
<1>3. CASE DispatcherForward
  <2>1. ThreadTypes' /\ pc'[Main] = pc[Main]
    BY <1>3, <1>a, ReleaseTypes DEF DispatcherForward
  <2>2. live' \subseteq Objects
    BY <1>3, <1>b DEF DispatcherForward, Made, Objects, Kinds, TypeOK, ObjectTypes
  <2>3. queue' \in [Queues -> Seq(Cases)] /\ closed' \subseteq Queues
    BY <1>3, <1>b, PushTypes DEF DispatcherForward, Queues
  <2>4. ObjectTypes'
    BY <1>3, <2>2, <2>3 DEF DispatcherForward, TypeOK, ObjectTypes
  <2> QED
    BY <1>3, <2>1, <2>4, Untouched DEF DispatcherForward, TypeOK
<1>4. CASE DispatcherDrops
  <2>1. ThreadTypes' /\ pc'[Main] = pc[Main]
    BY <1>4, <1>a, ReleaseTypes DEF DispatcherDrops
  <2>2. UNCHANGED queueVars
    BY <1>4 DEF DispatcherDrops, PushFails
  <2>3. ObjectTypes'
    BY <1>4, <2>2 DEF DispatcherDrops, Freed, TypeOK, ObjectTypes, queueVars
  <2> QED
    BY <1>4, <2>1, <2>3, Untouched DEF DispatcherDrops, TypeOK
<1> QED
  BY <1>1, <1>2, <1>3, <1>4 DEF DispatcherStep

LEMMA DbWorkerTypes ==
  ASSUME TypeOK, DbWorkerStep
  PROVE  TypeOK' /\ pc'[Main] = pc[Main] /\ UNCHANGED mainVars
<1> DEFINE i == job[DbWorker]
<1>a. DbWorker \in Consumers /\ DbLabels \cup Idle = LabelsOf(DbWorker)
  BY DEF Consumers, LabelsOf
<1>b. pc[DbWorker] \in DbLabels => i \in Cases
  BY <1>a DEF TypeOK, ThreadTypes, DbLabels, Idle
<1>c. ASSUME NEW l \in DbLabels, Goto(DbWorker, l), UNCHANGED <<job, exitTo>>,
             pc[DbWorker] \in DbLabels
      PROVE  ThreadTypes' /\ pc'[Main] = pc[Main]
  BY <1>a, <1>b, <1>c, ConsumerMoves DEF TypeOK, ThreadTypes
<1>1. CASE DbWorkerPop
  BY <1>1, <1>a, PopTypes DEF DbWorkerPop, DbLabels, Queues
<1>2. CASE DbWorkerExit
  BY <1>2, <1>a, PopNullTypes DEF DbWorkerExit, PopNull, Queues
<1>3. CASE DbWorkerInsert
  <2>1. ThreadTypes' /\ pc'[Main] = pc[Main]
    BY <1>3, <1>c DEF DbWorkerInsert, DbLabels
  <2>2. i \in Cases
    BY <1>3, <1>b DEF DbWorkerInsert, DbLabels
  <2> DEFINE row == [request |-> requestId[i], origin |-> i,
                     ok |-> answer[i].ok, meets |-> answer[i].meets]
  <2>3. row \in Rows
    <3>1. requestId[i] \in Int /\ i \in 0 .. MaxCases
      BY <2>2 DEF TypeOK, RunTypes, Cases
    <3>2. answer[i] \in Answers
      BY <2>2 DEF TypeOK, ObjectTypes
    <3> QED
      BY <3>1, <3>2 DEF Rows, Answers
  <2>4. responses' = Append(responses, row)
    BY <1>3 DEF DbWorkerInsert, InsertResponse
  <2>5. responses' \in Seq(Rows)
    BY <2>3, <2>4, AppendProperties DEF TypeOK, TableTypes
  <2>6. Len(responses') \in Nat
    BY <2>5, LenProperties
  <2>7. TableTypes'
    BY <1>3, <2>5, <2>6 DEF DbWorkerInsert, InsertResponse, TypeOK, TableTypes
  <2> QED
    BY <1>3, <2>1, <2>7, Untouched DEF DbWorkerInsert, TypeOK
<1>4. CASE DbWorkerInsertFails
  <2>1. ThreadTypes' /\ pc'[Main] = pc[Main]
    BY <1>4, <1>c DEF DbWorkerInsertFails, DbLabels
  <2> QED
    BY <1>4, <2>1, Untouched DEF DbWorkerInsertFails, TypeOK
<1>5. CASE DbWorkerRowid
  <2>1. ThreadTypes' /\ pc'[Main] = pc[Main]
    BY <1>5, <1>c DEF DbWorkerRowid, DbLabels
  <2>2. TableTypes'
    BY <1>5 DEF DbWorkerRowid, ReadRowid, TypeOK, TableTypes
  <2> QED
    BY <1>5, <2>1, <2>2, Untouched DEF DbWorkerRowid, TypeOK
<1>6. CASE DbWorkerFree
  <2>1. ThreadTypes' /\ pc'[Main] = pc[Main]
    BY <1>6, <1>a, ReleaseTypes DEF DbWorkerFree
  <2>2. ObjectTypes'
    BY <1>6 DEF DbWorkerFree, Freed, TypeOK, ObjectTypes, queueVars
  <2> QED
    BY <1>6, <2>1, <2>2, Untouched DEF DbWorkerFree, TypeOK
<1> QED
  BY <1>1, <1>2, <1>3, <1>4, <1>5, <1>6 DEF DbWorkerStep

-----------------------------------------------------------------------------
(* The main thread *)

\* An action that only moves the main thread, from one label to another.
MainOnly(l) == Goto(Main, l) /\ UNCHANGED <<job, exitTo, queueVars, heapVars, dbVars, mainVars>>

LEMMA MainOnlyTypes ==
  ASSUME TypeOK, NEW l \in MainLabels, MainOnly(l)
  PROVE  TypeOK' /\ pc'[Main] = l
<1>1. ThreadTypes' /\ pc'[Main] = l
  BY MainMoves DEF MainOnly, TypeOK
<1> QED
  BY <1>1, Untouched DEF MainOnly, TypeOK

\* db_save_request
LEMMA SaveRequestTypes ==
  ASSUME TypeOK, NEW i \in Cases, SaveRequestRow(i)
  PROVE  TableTypes' /\ requestId' \in [Cases -> Int]
<1>1. Identity[i] \in Identities
  OBVIOUS
<1>2. requests' \in Seq(Identities)
  BY <1>1, AppendProperties DEF SaveRequestRow, WithRequest, TypeOK, TableTypes
<1>3. DOMAIN requests' = 1 .. Len(requests') /\ Len(requests') \in Nat
  BY <1>2, LenProperties
<1>4. requestId' \in [Cases -> Int]
  BY <1>3 DEF SaveRequestRow, TypeOK, RunTypes
<1>5. TableTypes'
  BY <1>2, <1>3 DEF SaveRequestRow, TypeOK, TableTypes
<1> QED
  BY <1>4, <1>5

\* Steps of run_plan that only move the main thread.
QuietStep == \/ RunRefused \/ OpenDatabase \/ NoRuntime \/ StartFails
             \/ current <= caseCount /\ PollMisses
             \/ JoinWorkers \/ JoinDispatcher \/ JoinDbWorker \/ CloseDatabase

LEMMA QuietTypes ==
  ASSUME TypeOK, Bounded, QuietStep
  PROVE  TypeOK' /\ Bounded'
<1>1. CASE RunRefused
  <2>1. MainOnly("closing") /\ "closing" \in MainLabels
    BY <1>1 DEF RunRefused, MainOnly, MainLabels
  <2> QED
    BY <2>1, MainOnlyTypes DEF Bounded
<1>2. CASE OpenDatabase
  <2>1. MainOnly("creating") /\ "creating" \in MainLabels /\ caseCount <= MaxCases
    BY <1>2 DEF OpenDatabase, MainOnly, MainLabels
  <2> QED
    BY <2>1, MainOnlyTypes DEF Bounded, MainOnly, mainVars
<1>3. CASE NoRuntime
  <2>1. MainOnly("closing") /\ "closing" \in MainLabels
    BY <1>3 DEF NoRuntime, MainOnly, MainLabels
  <2> QED
    BY <2>1, MainOnlyTypes DEF Bounded
<1>4. CASE StartFails
  <2>1. MainOnly("close_request") /\ "close_request" \in MainLabels /\ pc[Main] = "creating"
    BY <1>4 DEF StartFails, MainOnly, MainLabels
  <2> QED
    BY <2>1, MainOnlyTypes DEF Bounded, MainOnly, mainVars
<1>5. CASE current <= caseCount /\ PollMisses
  <2>1. MainOnly("sleeping") /\ "sleeping" \in MainLabels /\ pc[Main] = "polling"
    BY <1>5 DEF PollMisses, MainOnly, MainLabels
  <2> QED
    BY <1>5, <2>1, MainOnlyTypes DEF Bounded, MainOnly, mainVars
<1>6. CASE JoinWorkers
  <2>1. MainOnly("close_response") /\ "close_response" \in MainLabels /\ pc[Main] = "join_workers"
    BY <1>6 DEF JoinWorkers, Join, MainOnly, MainLabels
  <2> QED
    BY <2>1, MainOnlyTypes DEF Bounded, MainOnly, mainVars
<1>7. CASE JoinDispatcher
  <2>1. MainOnly("close_db") /\ "close_db" \in MainLabels /\ pc[Main] = "join_dispatcher"
    BY <1>7 DEF JoinDispatcher, Join, MainOnly, MainLabels
  <2> QED
    BY <2>1, MainOnlyTypes DEF Bounded, MainOnly, mainVars
<1>8. CASE JoinDbWorker
  <2>1. MainOnly("freeing") /\ "freeing" \in MainLabels /\ pc[Main] = "join_db"
    BY <1>8 DEF JoinDbWorker, Join, MainOnly, MainLabels
  <2> QED
    BY <2>1, MainOnlyTypes DEF Bounded, MainOnly, mainVars
<1>9. CASE CloseDatabase
  <2>1. MainOnly("done") /\ "done" \in MainLabels
    BY <1>9 DEF CloseDatabase, MainOnly, MainLabels
  <2> QED
    BY <2>1, MainOnlyTypes DEF Bounded
<1> QED
  BY <1>1, <1>2, <1>3, <1>4, <1>5, <1>6, <1>7, <1>8, <1>9 DEF QuietStep

\* Steps of destroy_runtime that change a queue.
LEMMA QueueStepTypes ==
  ASSUME TypeOK, Bounded,
         CloseRequestQueue \/ CloseResponseQueue \/ CloseDbQueue \/ FreeRuntime
  PROVE  TypeOK' /\ Bounded'
<1>1. ASSUME NEW q \in Queues, NEW from \in MainLabels \ {"starting", "closing", "done"},
             NEW to \in MainLabels \ {"starting", "closing", "done", "dispatching", "sleeping"},
             Shutdown(q, from, to)
      PROVE  TypeOK' /\ Bounded'
  <2>1. ThreadTypes' /\ pc'[Main] = to
    BY <1>1, MainMoves DEF Shutdown, TypeOK
  <2>2. ObjectTypes'
    BY <1>1 DEF Shutdown, WithClosed, TypeOK, ObjectTypes, heapVars
  <2>3. TypeOK'
    BY <1>1, <2>1, <2>2, Untouched DEF Shutdown, TypeOK
  <2>4. Bounded'
    BY <1>1, <2>1 DEF Shutdown, Bounded, mainVars
  <2> QED
    BY <2>3, <2>4
<1>2. CASE CloseRequestQueue
  BY <1>1, <1>2 DEF CloseRequestQueue, Queues, MainLabels
<1>3. CASE CloseResponseQueue
  BY <1>1, <1>3 DEF CloseResponseQueue, Queues, MainLabels
<1>4. CASE CloseDbQueue
  BY <1>1, <1>4 DEF CloseDbQueue, Queues, MainLabels
<1>5. CASE FreeRuntime
  <2>1. ThreadTypes' /\ pc'[Main] = "closing"
    BY <1>5, MainMoves DEF FreeRuntime, TypeOK, MainLabels
  <2>2. ObjectTypes'
    BY <1>5 DEF FreeRuntime, TypeOK, ObjectTypes, heapVars
  <2>3. TypeOK'
    BY <1>5, <2>1, <2>2, Untouched DEF FreeRuntime, TypeOK
  <2> QED
    BY <2>1, <2>3 DEF Bounded
<1> QED
  BY <1>2, <1>3, <1>4, <1>5

\* Starting a thread is a step of the main thread that moves another one.
LEMMA StartTypes ==
  ASSUME TypeOK, Bounded, StartThread
  PROVE  TypeOK' /\ Bounded'
<1>1. PICK c \in Consumers : Goto(c, "idle")
  BY DEF StartThread
<1>2. "idle" \in LabelsOf(c) /\ "idle" \in Idle
  BY DEF LabelsOf, Idle
<1>3. ThreadTypes' /\ pc'[Main] = pc[Main]
  BY <1>1, <1>2, ConsumerMoves DEF StartThread, TypeOK, ThreadTypes
<1> QED
  BY <1>3, Untouched DEF StartThread, TypeOK, Bounded, mainVars

\* The steps that create, save and dispatch the cases.
SubmitStep == \/ RuntimeReady \/ SubmitCase \/ SubmitFails
              \/ DispatchCase \/ DispatchFails \/ AllDispatched

LEMMA SubmitTypes ==
  ASSUME TypeOK, Bounded, SubmitStep
  PROVE  TypeOK' /\ Bounded'
<1>a. pc[Main] \in {"submitting", "dispatching"} /\ current <= caseCount => current \in Cases
  BY DEF Bounded, TypeOK, RunTypes, Cases
<1>b. ASSUME NEW kinds \in SUBSET Kinds, current \in Cases
      PROVE  Made(kinds, current) \subseteq Objects
  BY <1>b DEF TypeOK, ObjectTypes, Made, Objects
<1>c. {"request", "task"} \in SUBSET Kinds /\ {"request"} \in SUBSET Kinds
  BY DEF Kinds
<1>d. caseCount \in Nat /\ current \in Nat \ {0} /\ MaxCases \in Nat
  BY DEF TypeOK, RunTypes
<1>1. CASE RuntimeReady
  <2>1. ThreadTypes' /\ pc'[Main] = "submitting"
    BY <1>1, MainMoves DEF RuntimeReady, TypeOK, MainLabels
  <2>2. RunTypes'
    BY <1>1, Zenon DEF RuntimeReady, TypeOK, RunTypes
  <2>3. FlagTypes'
    BY <1>1, Zenon DEF RuntimeReady, FlagTypes
  <2>4. TypeOK'
    BY <1>1, <2>1, <2>2, <2>3, Untouched DEF RuntimeReady, TypeOK
  <2> QED
    BY <1>1, <2>1, <2>4 DEF RuntimeReady, Bounded
<1>2. CASE SubmitCase
  <2>1. ThreadTypes' /\ pc'[Main] = "dispatching"
    BY <1>2, MainMoves DEF SubmitCase, TypeOK, MainLabels
  <2>2. current \in Cases
    BY <1>2, <1>a DEF SubmitCase
  <2>3. TableTypes' /\ requestId' \in [Cases -> Int]
    BY <1>2, <2>2, SaveRequestTypes DEF SubmitCase
  <2>4. ObjectTypes'
    BY <1>2, <1>b, <1>c, <2>2 DEF SubmitCase, TypeOK, ObjectTypes, queueVars
  <2>5. held' \subseteq {"task", "request"}
    BY <1>2 DEF SubmitCase
  <2>6. RunTypes' /\ FlagTypes'
    BY <1>2, <2>3, <2>5, Zenon DEF SubmitCase, TypeOK, RunTypes, FlagTypes, waitVars
  <2>7. Bounded'
    BY <1>2, <2>1, <1>d DEF SubmitCase, Bounded
  <2> QED
    BY <2>1, <2>3, <2>4, <2>6, <2>7 DEF TypeOK
<1>3. CASE SubmitFails
  <2>1. ThreadTypes' /\ pc'[Main] = "cleanup"
    BY <1>3, MainMoves DEF SubmitFails, TypeOK, MainLabels
  <2>2. current \in Cases
    BY <1>3, <1>a DEF SubmitFails
  <2>3. live' \subseteq Objects
    BY <1>3, <1>b, <1>c, <2>2 DEF SubmitFails, TypeOK, ObjectTypes
  <2>4. ObjectTypes'
    BY <1>3, <2>3 DEF SubmitFails, TypeOK, ObjectTypes, queueVars
  <2>5. held' \subseteq {"task", "request"}
    BY <1>3 DEF SubmitFails, TypeOK, RunTypes
  <2>6. RunTypes'
    BY <1>3, <2>5, Zenon DEF SubmitFails, TypeOK, RunTypes
  <2>7. FlagTypes'
    BY <1>3, Zenon DEF SubmitFails, TypeOK, FlagTypes
  <2>8. TypeOK'
    BY <1>3, <2>1, <2>4, <2>6, <2>7, Untouched DEF SubmitFails, TypeOK
  <2> QED
    BY <1>3, <2>1, <2>8 DEF SubmitFails, Bounded
<1>4. CASE DispatchCase
  <2>1. ThreadTypes' /\ pc'[Main] = "submitting"
    BY <1>4, MainMoves DEF DispatchCase, TypeOK, MainLabels
  <2>2. current \in Cases
    BY <1>4, <1>a DEF DispatchCase, Bounded
  <2>3. queue' \in [Queues -> Seq(Cases)] /\ closed' \subseteq Queues
    BY <1>4, <2>2, PushTypes DEF DispatchCase, Queues
  <2>4. ObjectTypes'
    BY <1>4, <2>3 DEF DispatchCase, TypeOK, ObjectTypes, heapVars
  <2>5. held' \subseteq {"task", "request"} /\ submitted' \subseteq Cases
    BY <1>4, <2>2 DEF DispatchCase, TypeOK, RunTypes
  <2>6. current' \in Nat \ {0}
    BY <1>4, <1>d DEF DispatchCase
  <2>7. RunTypes' /\ FlagTypes'
    BY <1>4, <2>5, <2>6, Zenon DEF DispatchCase, TypeOK, RunTypes, FlagTypes, waitVars
  <2>8. TypeOK'
    BY <1>4, <2>1, <2>4, <2>7, Untouched DEF DispatchCase, TypeOK
  <2> QED
    BY <1>4, <2>1, <2>8 DEF DispatchCase, Bounded
<1>5. CASE DispatchFails
  <2>1. ThreadTypes' /\ pc'[Main] = "cleanup"
    BY <1>5, MainMoves DEF DispatchFails, TypeOK, MainLabels
  <2>2. UNCHANGED queueVars
    BY <1>5 DEF DispatchFails, PushFails
  <2>3. RunTypes'
    BY <1>5, Zenon DEF DispatchFails, TypeOK, RunTypes
  <2>4. FlagTypes'
    BY <1>5, Zenon DEF DispatchFails, TypeOK, FlagTypes
  <2>5. TypeOK'
    BY <1>5, <2>1, <2>2, <2>3, <2>4, Untouched DEF DispatchFails, TypeOK
  <2> QED
    BY <1>5, <2>1, <2>5 DEF DispatchFails, Bounded
<1>6. CASE AllDispatched
  <2>1. ThreadTypes' /\ pc'[Main] = "polling"
    BY <1>6, MainMoves DEF AllDispatched, TypeOK, MainLabels
  <2>2. current' \in Nat \ {0}
    BY <1>6 DEF AllDispatched
  <2>3. RunTypes' /\ FlagTypes'
    BY <1>6, <2>2, Zenon DEF AllDispatched, TypeOK, RunTypes, FlagTypes, waitVars
  <2>4. TypeOK'
    BY <1>6, <2>1, <2>3, Untouched DEF AllDispatched, TypeOK
  <2> QED
    BY <1>6, <2>1, <2>4 DEF AllDispatched, Bounded
<1> QED
  BY <1>1, <1>2, <1>3, <1>4, <1>5, <1>6 DEF SubmitStep

\* The steps that wait, and the two that follow the loops.
AwaitStep == CaseAnswered \/ CaseTimedOut \/ PollAgain(Timeout(current)) \/ AllWaited \/ FreeHeld

LEMMA AwaitTypes ==
  ASSUME TypeOK, Bounded, AwaitStep
  PROVE  TypeOK' /\ Bounded'
<1>a. current + 1 \in Nat \ {0} /\ elapsed + PollInterval \in Nat
  BY DEF TypeOK, RunTypes, PollInterval
<1>1. CASE CaseAnswered
  <2>1. PICK k \in DOMAIN responses :
           /\ PollFinds(k)
           /\ result' = [result EXCEPT ![current] = k]
           /\ allAssertionsOk' = (allAssertionsOk /\ (current \in Asserting => responses[k].meets))
    BY <1>1 DEF CaseAnswered
  <2>2. k \in Nat
    BY <2>1, LenProperties DEF TypeOK, TableTypes
  <2>3. result' \in [Cases -> Nat] /\ current' \in Nat \ {0} /\ elapsed' \in Nat
    BY <1>1, <1>a, <2>1, <2>2 DEF CaseAnswered, TypeOK, RunTypes
  <2>4. RunTypes'
    BY <1>1, <2>3, Zenon DEF CaseAnswered, TypeOK, RunTypes
  <2>5. FlagTypes'
    BY <1>1, <2>1, Zenon DEF CaseAnswered, TypeOK, FlagTypes
  <2>6. pc[Main] = "polling" /\ UNCHANGED threadVars
    BY <1>1, <2>1 DEF CaseAnswered, PollFinds
  <2>7. Bounded'
    BY <1>1, <2>6 DEF Bounded, CaseAnswered, threadVars
  <2> QED
    BY <1>1, <2>4, <2>5, <2>6, <2>7, Untouched DEF CaseAnswered, TypeOK
<1>2. CASE CaseTimedOut
  <2>1. ThreadTypes' /\ pc'[Main] = "polling"
    BY <1>2, MainMoves DEF CaseTimedOut, TypeOK, MainLabels
  <2>2. current' \in Nat \ {0} /\ elapsed' \in Nat
    BY <1>2, <1>a DEF CaseTimedOut
  <2>3. RunTypes'
    BY <1>2, <2>2, Zenon DEF CaseTimedOut, TypeOK, RunTypes
  <2>4. FlagTypes'
    BY <1>2, Zenon DEF CaseTimedOut, FlagTypes, NoteFailure
  <2>5. TypeOK'
    BY <1>2, <2>1, <2>3, <2>4, Untouched DEF CaseTimedOut, TypeOK
  <2> QED
    BY <1>2, <2>1, <2>5 DEF CaseTimedOut, PollEnds, Bounded
<1>3. CASE PollAgain(Timeout(current))
  <2>1. ThreadTypes' /\ pc'[Main] = "polling"
    BY <1>3, MainMoves DEF PollAgain, TypeOK, MainLabels
  <2>2. elapsed' \in Nat
    BY <1>3, <1>a DEF PollAgain
  <2>3. RunTypes'
    BY <1>3, <2>2, Zenon DEF PollAgain, TypeOK, RunTypes
  <2>4. FlagTypes'
    BY <1>3, Zenon DEF PollAgain, TypeOK, FlagTypes
  <2>5. TypeOK'
    BY <1>3, <2>1, <2>3, <2>4, Untouched DEF PollAgain, TypeOK
  <2> QED
    BY <1>3, <2>1, <2>5 DEF PollAgain, Bounded
<1>4. CASE AllWaited
  <2>1. ThreadTypes' /\ pc'[Main] = "cleanup"
    BY <1>4, MainMoves DEF AllWaited, TypeOK, MainLabels
  <2>2. exitCode' \in {0, 1}
    BY <1>4 DEF AllWaited
  <2>3. RunTypes'
    BY <1>4, <2>2, Zenon DEF AllWaited, TypeOK, RunTypes
  <2>4. FlagTypes'
    BY <1>4, Zenon DEF AllWaited, TypeOK, FlagTypes
  <2>5. TypeOK'
    BY <1>4, <2>1, <2>3, <2>4, Untouched DEF AllWaited, TypeOK
  <2> QED
    BY <1>4, <2>1, <2>5 DEF AllWaited, Bounded
<1>5. CASE FreeHeld
  <2>1. ThreadTypes' /\ pc'[Main] = "close_request"
    BY <1>5, MainMoves DEF FreeHeld, TypeOK, MainLabels
  <2>2. ObjectTypes'
    BY <1>5 DEF FreeHeld, Freed, TypeOK, ObjectTypes, queueVars
  <2>3. held' \subseteq {"task", "request"}
    BY <1>5 DEF FreeHeld
  <2>4. RunTypes' /\ FlagTypes'
    BY <1>5, <2>3, Zenon DEF FreeHeld, TypeOK, RunTypes, FlagTypes, waitVars
  <2>5. TypeOK'
    BY <1>5, <2>1, <2>2, <2>4, Untouched DEF FreeHeld, TypeOK
  <2> QED
    BY <1>5, <2>1, <2>5 DEF FreeHeld, Bounded
<1> QED
  BY <1>1, <1>2, <1>3, <1>4, <1>5 DEF AwaitStep

LEMMA RunPlanTypes ==
  ASSUME TypeOK, Bounded, RunPlan
  PROVE  TypeOK' /\ Bounded'
<1>1. QuietStep \/ StartThread \/ SubmitStep \/ AwaitStep
      \/ CloseRequestQueue \/ CloseResponseQueue \/ CloseDbQueue \/ FreeRuntime
  BY DEF RunPlan, WaitStep, DestroyRuntime, QuietStep, SubmitStep, AwaitStep
<1> QED
  BY <1>1, QuietTypes, StartTypes, SubmitTypes, AwaitTypes, QueueStepTypes

-----------------------------------------------------------------------------
(* The tables only grow *)

Extends(s, t) == /\ DOMAIN t \subseteq DOMAIN s
                 /\ \A k \in DOMAIN t : s[k] = t[k]

LEMMA AppendExtends ==
  ASSUME NEW S, NEW s \in Seq(S), NEW e \in S
  PROVE  Extends(Append(s, e), s)
BY AppendProperties DEF Extends

LEMMA SaveExtends ==
  ASSUME TypeOK, NEW i \in Cases, SaveRequestRow(i)
  PROVE  Extends(requests', requests) /\ responses' = responses
<1>1. requests \in Seq(Identities) /\ Identity[i] \in Identities
  BY DEF TypeOK, TableTypes
<1>2. CASE Identity[i] \in Range(requests)
  BY <1>2 DEF SaveRequestRow, WithRequest, Extends
<1>3. CASE Identity[i] \notin Range(requests)
  BY <1>1, <1>3, AppendExtends DEF SaveRequestRow, WithRequest
<1> QED
  BY <1>2, <1>3 DEF SaveRequestRow

LEMMA InsertExtends ==
  ASSUME TypeOK, DbWorkerInsert
  PROVE  Extends(responses', responses) /\ requests' = requests
<1> DEFINE i == job[DbWorker]
           row == [request |-> requestId[i], origin |-> i,
                   ok |-> answer[i].ok, meets |-> answer[i].meets]
<1>1. i \in Cases
  BY DEF DbWorkerInsert, TypeOK, ThreadTypes, Consumers, Idle
<1>2. requestId[i] \in Int /\ i \in 0 .. MaxCases /\ answer[i] \in Answers
  BY <1>1 DEF TypeOK, RunTypes, ObjectTypes, Cases
<1>3. row \in Rows
  BY <1>2 DEF Rows, Answers
<1>4. responses' = Append(responses, row) /\ requests' = requests
  BY DEF DbWorkerInsert, InsertResponse
<1> QED
  BY <1>3, <1>4, AppendExtends DEF TypeOK, TableTypes

-----------------------------------------------------------------------------

LEMMA StepTypes == TypeOK /\ Bounded /\ [Next]_vars => TypeOK' /\ Bounded'
<1> SUFFICES ASSUME TypeOK, Bounded, [Next]_vars PROVE TypeOK' /\ Bounded'
  OBVIOUS
<1>1. CASE RunPlan
  BY <1>1, RunPlanTypes
<1>2. ASSUME NEW w \in Workers, HttpWorker(w) PROVE TypeOK' /\ Bounded'
  BY <1>2, HttpWorkerTypes DEF Bounded, mainVars
<1>3. CASE DispatcherStep
  BY <1>3, DispatcherTypes DEF Bounded, mainVars
<1>4. CASE DbWorkerStep
  BY <1>4, DbWorkerTypes DEF Bounded, mainVars
<1>5. CASE UNCHANGED vars
  BY <1>5, Untouched DEF vars, TypeOK, Bounded, threadVars, mainVars
<1> QED
  BY <1>1, <1>2, <1>3, <1>4, <1>5 DEF Next, Returned

\* Whatever the plan, the workers, the history and the faults: every variable
\* keeps its type, a thread past queue_pop works on a case (http_worker_routine,
\* dispatcher_routine and db_worker_routine use no NULL), and the loops of
\* run_plan stay within the plan.
THEOREM EngineTypeCorrect == Safety => [](TypeOK /\ Bounded)
<1>1. Init => TypeOK /\ Bounded
  BY InitTypes
<1>2. TypeOK /\ Bounded /\ [Next]_vars => (TypeOK /\ Bounded)'
  BY StepTypes
<1> QED
  BY <1>1, <1>2, PTL DEF Safety

-----------------------------------------------------------------------------
(* The order of shutdown *)

Gone == {"unborn", "exited"}

\* Where the main thread is once queue q may be closed, and once those who
\* take from q are joined.
AfterClose(q) ==
    {"closing", "done", "freeing", "join_db"}
    \cup (IF q \in {"request", "response"} THEN {"close_db", "join_dispatcher"} ELSE {})
    \cup (IF q = "request" THEN {"close_response", "join_workers"} ELSE {})

AfterJoin(q) ==
    {"closing", "done", "freeing"}
    \cup (IF q \in {"request", "response"} THEN {"close_db", "join_db"} ELSE {})
    \cup (IF q = "request" THEN {"close_response", "join_dispatcher"} ELSE {})

\* The inductive invariant.  The properties alone are not inductive: a join has
\* to be known to have happened at every later label, not only at the end.
NothingStarted   == pc[Main] = "starting" => \A c \in Consumers : pc[c] = "unborn"
ClosedLate       == \A q \in closed : pc[Main] \in AfterClose(q)
LeftWhenDrained  == \A q \in Queues : \A c \in Takes(q) :
                       pc[c] = "exited" => q \in closed /\ queue[q] = <<>>
JoinedStayGone   == \A q \in Queues : pc[Main] \in AfterJoin(q) => \A c \in Takes(q) : pc[c] \in Gone

InOrder == NothingStarted /\ ClosedLate /\ LeftWhenDrained /\ JoinedStayGone

LEMMA TakersAreThreads ==
  \A q \in Queues : Takes(q) \subseteq Consumers /\ Takes(q) \subseteq Threads
BY DEF Threads, Consumers, Takes, Queues

LEMMA InOrderImplies == TypeOK /\ InOrder => ThreadsStopped /\ DrainedInOrder
<1> SUFFICES ASSUME TypeOK, InOrder PROVE ThreadsStopped /\ DrainedInOrder
  OBVIOUS
<1>1. ThreadsStopped
  <2> SUFFICES ASSUME pc[Main] \in {"freeing", "closing", "done"}, NEW c \in Consumers
               PROVE  pc[c] \in Gone
    BY DEF ThreadsStopped, Gone
  <2>1. PICK q \in Queues : c \in Takes(q)
    BY DEF Consumers, Queues, Takes
  <2> QED
    BY <2>1 DEF InOrder, JoinedStayGone, AfterJoin
<1>2. ASSUME NEW q \in Queues, q \in closed, q # "request", NEW t \in Feeds(q)
      PROVE  pc[t] \in Gone
  <2>1. CASE q = "response"
    <3>1. pc[Main] \in AfterJoin("request")
      BY <1>2, <2>1 DEF InOrder, ClosedLate, AfterClose, AfterJoin
    <3> QED
      BY <1>2, <2>1, <3>1 DEF InOrder, JoinedStayGone, Feeds, Takes, Queues
  <2>2. CASE q = "db"
    <3>1. pc[Main] \in AfterJoin("response")
      BY <1>2, <2>2 DEF InOrder, ClosedLate, AfterClose, AfterJoin
    <3> QED
      BY <1>2, <2>2, <3>1 DEF InOrder, JoinedStayGone, Feeds, Takes, Queues
  <2> QED
    BY <1>2, <2>1, <2>2 DEF Queues
<1>3. ASSUME NEW q \in Queues, q \in closed
      PROVE  pc[Main] \notin {"submitting", "dispatching", "polling", "sleeping"}
  BY <1>3 DEF InOrder, ClosedLate, AfterClose
<1>4. ASSUME NEW q \in Queues, NEW t \in Takes(q), pc[t] = "exited"
      PROVE  queue[q] = <<>> /\ q \in closed
  BY <1>4 DEF InOrder, LeftWhenDrained
<1> QED
  BY <1>1, <1>2, <1>3, <1>4 DEF DrainedInOrder, Gone

-----------------------------------------------------------------------------
(* Steps of a consumer *)

\* All that a step of consumer c can do to the shutdown: c was there, it leaves
\* only a finished queue, nobody else moves, no queue is closed or opened, and
\* a closed queue is not pushed to.
Consumes(c) ==
    /\ pc[c] \notin Gone
    /\ \A t \in Threads \ {c} : pc'[t] = pc[t]
    /\ \A q \in Queues : c \in Takes(q) /\ pc'[c] = "exited" => q \in closed /\ queue[q] = <<>>
    /\ closed' = closed
    /\ \A q \in Queues : q \in closed /\ queue[q] = <<>> => queue'[q] = <<>>

LEMMA ConsumesKeepsOrder ==
  ASSUME TypeOK, InOrder, NEW c \in Consumers, Consumes(c)
  PROVE  InOrder'
<1>a. Main \in Threads \ {c} /\ \A q \in Queues : Takes(q) \subseteq Threads
  BY TakersAreThreads DEF Threads, Consumers
<1>b. pc'[Main] = pc[Main]
  BY <1>a DEF Consumes
<1>1. NothingStarted'
  BY <1>b DEF InOrder, NothingStarted, Consumes, Gone
<1>2. ClosedLate'
  BY <1>b DEF InOrder, ClosedLate, Consumes, AfterClose
<1>3. LeftWhenDrained'
  <2> SUFFICES ASSUME NEW q \in Queues, NEW d \in Takes(q), pc'[d] = "exited"
               PROVE  q \in closed' /\ queue'[q] = <<>>
    BY DEF LeftWhenDrained, Takes
  <2>1. q \in closed /\ queue[q] = <<>>
    BY <1>a DEF InOrder, LeftWhenDrained, Consumes
  <2> QED
    BY <2>1 DEF Consumes
<1>4. JoinedStayGone'
  <2> SUFFICES ASSUME NEW q \in Queues, pc'[Main] \in AfterJoin(q), NEW d \in Takes(q)
               PROVE  pc'[d] \in Gone
    BY DEF JoinedStayGone, Takes, AfterJoin
  <2>1. pc[d] \in Gone
    BY <1>b DEF InOrder, JoinedStayGone
  <2> QED
    BY <1>a, <2>1 DEF Consumes
<1> QED
  BY <1>1, <1>2, <1>3, <1>4 DEF InOrder

\* A consumer takes from one queue.
LEMMA OneSource == \A p, q \in Queues : \A c \in Takes(p) \cap Takes(q) : p = q
<1> SUFFICES ASSUME NEW p \in Queues, NEW q \in Queues, NEW c \in Takes(p) \cap Takes(q)
             PROVE  p = q
  OBVIOUS
<1>1. CASE p = "request"
  BY <1>1 DEF Queues, Takes
<1>2. CASE p = "response"
  BY <1>2 DEF Queues, Takes
<1>3. CASE p = "db"
  BY <1>3 DEF Queues, Takes
<1> QED
  BY <1>1, <1>2, <1>3 DEF Queues

\* Steps within the loop body: pc[c] goes from one label to another.
LEMMA MovesConsume ==
  ASSUME TypeOK, NEW c \in Consumers, NEW l, Goto(c, l), l # "exited", pc[c] \notin Gone,
         UNCHANGED queueVars
  PROVE  Consumes(c)
<1>1. pc'[c] = l /\ \A t \in Threads \ {c} : pc'[t] = pc[t]
  BY DEF TypeOK, ThreadTypes, Goto, Threads
<1> QED
  BY <1>1 DEF Consumes, queueVars

LEMMA PopsConsume ==
  ASSUME TypeOK, NEW q \in Queues, NEW c \in Takes(q), NEW l, l # "exited", Pop(c, q, l)
  PROVE  Consumes(c)
<1>1. c \in Threads
  BY DEF Threads, Consumers, Takes, Queues
<1>2. pc'[c] = l /\ \A t \in Threads \ {c} : pc'[t] = pc[t]
  BY <1>1 DEF TypeOK, ThreadTypes, Goto, Pop
<1>3. \A p \in Queues : p # q => queue'[p] = queue[p]
  BY DEF TypeOK, ObjectTypes, Pop
<1> QED
  BY <1>2, <1>3 DEF Consumes, Pop, Gone

LEMMA NullsConsume ==
  ASSUME TypeOK, NEW q \in Queues, NEW c \in Takes(q), PopNull(c, q)
  PROVE  Consumes(c)
<1>1. c \in Threads
  BY DEF Threads, Consumers, Takes, Queues
<1>2. \A t \in Threads \ {c} : pc'[t] = pc[t]
  BY <1>1 DEF TypeOK, ThreadTypes, Goto, PopNull
<1>3. \A p \in Queues : c \in Takes(p) => p = q
  BY OneSource
<1> QED
  BY <1>2, <1>3 DEF Consumes, PopNull, Finished, Gone, queueVars

LEMMA PushesConsume ==
  ASSUME TypeOK, NEW q \in Queues, NEW c \in Consumers, NEW i, NEW l, Push(q, i), Goto(c, l),
         l # "exited", pc[c] \notin Gone
  PROVE  Consumes(c)
<1>1. pc'[c] = l /\ \A t \in Threads \ {c} : pc'[t] = pc[t]
  BY DEF TypeOK, ThreadTypes, Goto, Threads
<1>2. \A p \in Queues : p # q => queue'[p] = queue[p]
  BY DEF TypeOK, ObjectTypes, Push
<1> QED
  BY <1>1, <1>2 DEF Consumes, Push

LEMMA HttpWorkerConsumes ==
  ASSUME TypeOK, NEW w \in Workers, HttpWorker(w)
  PROVE  Consumes(w)
<1>a. w \in Consumers /\ w \in Takes("request") /\ {"request", "response"} \subseteq Queues
  BY DEF Consumers, Takes, Queues
<1>1. CASE WorkerPop(w)
  BY <1>1, <1>a, PopsConsume DEF WorkerPop
<1>2. CASE WorkerExit(w)
  BY <1>2, <1>a, NullsConsume DEF WorkerExit
<1>3. CASE WorkerNoResponse(w)
  BY <1>3, <1>a, MovesConsume DEF WorkerNoResponse, Gone
<1>4. CASE WorkerSetupFails(w)
  <2>1. pc[w] = "setup" /\ Goto(w, "pushing") /\ UNCHANGED queueVars
    BY <1>4 DEF WorkerSetupFails, Answer
  <2> QED
    BY <1>a, <2>1, MovesConsume DEF Gone
<1>5. CASE WorkerSetup(w)
  BY <1>5, <1>a, MovesConsume DEF WorkerSetup, Gone
<1>6. CASE WorkerPerform(w)
  BY <1>6, <1>a, MovesConsume DEF WorkerPerform, Answer, Gone
<1>7. CASE WorkerPush(w)
  <2>1. Goto(w, "releasing") /\ pc[w] \notin Gone
    BY <1>7 DEF WorkerPush, Gone
  <2>2. Push("response", job[w]) \/ UNCHANGED queueVars
    BY <1>7 DEF WorkerPush, PushFails
  <2> QED
    BY <1>a, <2>1, <2>2, MovesConsume, PushesConsume
<1>8. CASE WorkerRelease(w)
  BY <1>8, <1>a, MovesConsume DEF WorkerRelease, Release, Gone
<1> QED
  BY <1>1, <1>2, <1>3, <1>4, <1>5, <1>6, <1>7, <1>8 DEF HttpWorker

LEMMA DispatcherConsumes ==
  ASSUME TypeOK, DispatcherStep
  PROVE  Consumes(Dispatcher)
<1>a. Dispatcher \in Consumers /\ Dispatcher \in Takes("response")
      /\ {"response", "db"} \subseteq Queues
  BY DEF Consumers, Takes, Queues
<1>1. CASE DispatcherPop
  BY <1>1, <1>a, PopsConsume DEF DispatcherPop
<1>2. CASE DispatcherExit
  BY <1>2, <1>a, NullsConsume DEF DispatcherExit
<1>3. CASE DispatcherForward
  <2>1. Push("db", job[Dispatcher]) /\ Goto(Dispatcher, "idle") /\ pc[Dispatcher] \notin Gone
    BY <1>3 DEF DispatcherForward, Release, Gone
  <2> QED
    BY <1>a, <2>1, PushesConsume
<1>4. CASE DispatcherDrops
  BY <1>4, <1>a, MovesConsume DEF DispatcherDrops, PushFails, Release, Gone
<1> QED
  BY <1>1, <1>2, <1>3, <1>4 DEF DispatcherStep

LEMMA DbWorkerConsumes ==
  ASSUME TypeOK, DbWorkerStep
  PROVE  Consumes(DbWorker)
<1>a. DbWorker \in Consumers /\ DbWorker \in Takes("db") /\ "db" \in Queues
  BY DEF Consumers, Takes, Queues
<1>1. CASE DbWorkerPop
  BY <1>1, <1>a, PopsConsume DEF DbWorkerPop
<1>2. CASE DbWorkerExit
  BY <1>2, <1>a, NullsConsume DEF DbWorkerExit
<1>3. CASE DbWorkerInsert
  BY <1>3, <1>a, MovesConsume DEF DbWorkerInsert, Gone
<1>4. CASE DbWorkerInsertFails
  BY <1>4, <1>a, MovesConsume DEF DbWorkerInsertFails, Gone
<1>5. CASE DbWorkerRowid
  BY <1>5, <1>a, MovesConsume DEF DbWorkerRowid, Gone
<1>6. CASE DbWorkerFree
  BY <1>6, <1>a, MovesConsume DEF DbWorkerFree, Release, Gone
<1> QED
  BY <1>1, <1>2, <1>3, <1>4, <1>5, <1>6 DEF DbWorkerStep

-----------------------------------------------------------------------------
(* Steps of the main thread *)

\* What they do to the shutdown, but for those that start threads: a queue is
\* closed on the way to the labels after the close, those labels are not left,
\* and the labels after a join are reached when the threads are gone.
Proceeds(to) ==
    /\ pc'[Main] = to /\ to # "starting"
    /\ \A c \in Consumers : pc'[c] = pc[c]
    /\ closed \subseteq closed'
    /\ \A q \in closed' : q \in closed \/ to \in AfterClose(q)
    /\ \A q \in Queues : q \in closed /\ queue[q] = <<>> => queue'[q] = <<>>
    /\ \A q \in Queues : pc[Main] \in AfterClose(q) => to \in AfterClose(q)
    /\ \A q \in Queues : to \in AfterJoin(q) =>
                            pc[Main] \in AfterJoin(q) \/ \A c \in Takes(q) : pc[c] \in Gone

LEMMA ProceedsInOrder ==
  ASSUME TypeOK, InOrder, NEW to, Proceeds(to)
  PROVE  InOrder'
<1>1. NothingStarted'
  BY DEF NothingStarted, Proceeds
<1>2. ClosedLate'
  <2> SUFFICES ASSUME NEW q \in closed' PROVE pc'[Main] \in AfterClose(q)
    BY DEF ClosedLate, AfterClose
  <2>1. CASE q \in closed
    <3>1. q \in Queues /\ pc[Main] \in AfterClose(q)
      BY <2>1 DEF TypeOK, ObjectTypes, InOrder, ClosedLate
    <3> QED
      BY <3>1 DEF Proceeds
  <2> QED
    BY <2>1 DEF Proceeds
<1>3. LeftWhenDrained'
  <2> SUFFICES ASSUME NEW q \in Queues, NEW d \in Takes(q), pc'[d] = "exited"
               PROVE  q \in closed' /\ queue'[q] = <<>>
    BY DEF LeftWhenDrained, Takes
  <2>1. pc[d] = "exited"
    BY TakersAreThreads DEF Proceeds
  <2>2. q \in closed /\ queue[q] = <<>>
    BY <2>1 DEF InOrder, LeftWhenDrained
  <2> QED
    BY <2>2 DEF Proceeds
<1>4. JoinedStayGone'
  <2> SUFFICES ASSUME NEW q \in Queues, pc'[Main] \in AfterJoin(q), NEW d \in Takes(q)
               PROVE  pc'[d] \in Gone
    BY DEF JoinedStayGone, Takes, AfterJoin
  <2>1. pc[d] \in Gone
    BY DEF InOrder, JoinedStayGone, Proceeds
  <2> QED
    BY TakersAreThreads, <2>1 DEF Proceeds
<1> QED
  BY <1>1, <1>2, <1>3, <1>4 DEF InOrder

LEMMA MainGoes ==
  ASSUME TypeOK, NEW l, Goto(Main, l)
  PROVE  pc'[Main] = l /\ \A c \in Consumers : pc'[c] = pc[c]
BY DEF TypeOK, ThreadTypes, Goto, Threads, Consumers

\* Before destroy_runtime nothing is closed and nobody is joined.
Early == {"starting", "creating", "submitting", "dispatching", "polling", "sleeping",
          "cleanup", "close_request"}

LEMMA EarlyProceeds ==
  ASSUME TypeOK, NEW l \in Early \ {"starting"}, Goto(Main, l), pc[Main] \in Early,
         UNCHANGED queueVars \/ \E i : Push("request", i)
  PROVE  Proceeds(l)
<1>1. closed' = closed /\ \A q \in Queues : q \in closed => queue'[q] = queue[q]
  BY DEF TypeOK, ObjectTypes, Push, queueVars
<1>2. \A q \in Queues : Early \cap (AfterClose(q) \cup AfterJoin(q)) = {}
  BY DEF Early, AfterClose, AfterJoin
<1> QED
  BY <1>1, <1>2, MainGoes DEF Proceeds

LEMMA QuietInOrder ==
  ASSUME TypeOK, InOrder,
         \/ OpenDatabase \/ StartFails \/ RuntimeReady \/ SubmitCase \/ SubmitFails
         \/ DispatchCase \/ DispatchFails \/ AllDispatched \/ CaseTimedOut
         \/ current <= caseCount /\ PollMisses
         \/ PollAgain(Timeout(current)) \/ AllWaited \/ FreeHeld
  PROVE  InOrder'
<1>1. \E l \in Early \ {"starting"} : Goto(Main, l)
  BY DEF OpenDatabase, StartFails, RuntimeReady, SubmitCase, SubmitFails, DispatchCase,
         DispatchFails, AllDispatched, CaseTimedOut, PollMisses, PollAgain, AllWaited,
         FreeHeld, Early
<1>2. pc[Main] \in Early
  BY DEF OpenDatabase, StartFails, RuntimeReady, SubmitCase, SubmitFails, DispatchCase,
         DispatchFails, AllDispatched, CaseTimedOut, PollEnds, PollMisses, PollAgain,
         AllWaited, FreeHeld, Early
<1>3. UNCHANGED queueVars \/ \E i : Push("request", i)
  BY DEF OpenDatabase, StartFails, RuntimeReady, SubmitCase, SubmitFails, DispatchCase,
         DispatchFails, PushFails, AllDispatched, CaseTimedOut, PollMisses, PollAgain,
         AllWaited, FreeHeld
<1> QED
  BY <1>1, <1>2, <1>3, EarlyProceeds, ProceedsInOrder

\* run_plan leaves before any thread is started.
LEMMA RefusedInOrder ==
  ASSUME TypeOK, InOrder, RunRefused \/ NoRuntime
  PROVE  InOrder'
<1>1. \A c \in Consumers : pc[c] = "unborn"
  BY DEF RunRefused, NoRuntime, Unborn, InOrder, NothingStarted
<1>2. Goto(Main, "closing") /\ UNCHANGED queueVars
  BY DEF RunRefused, NoRuntime
<1>3. Proceeds("closing")
  BY <1>1, <1>2, MainGoes, TakersAreThreads
     DEF Proceeds, AfterClose, queueVars, Gone
<1> QED
  BY <1>3, ProceedsInOrder

LEMMA StartInOrder ==
  ASSUME TypeOK, InOrder, StartThread
  PROVE  InOrder'
<1>1. PICK c \in Consumers : c \in Unborn /\ Goto(c, "idle")
  BY DEF StartThread, StartsNext
<1>2. pc[Main] = "creating" /\ pc'[Main] = "creating" /\ UNCHANGED queueVars
      /\ pc'[c] = "idle" /\ \A t \in Threads \ {c} : pc'[t] = pc[t]
  BY <1>1 DEF StartThread, TypeOK, ThreadTypes, Goto, Threads, Consumers
<1>3. NothingStarted' /\ ClosedLate'
  BY <1>2 DEF InOrder, ClosedLate, NothingStarted, queueVars, AfterClose
<1>4. JoinedStayGone'
  BY <1>2 DEF JoinedStayGone, AfterJoin
<1>5. LeftWhenDrained'
  <2> SUFFICES ASSUME NEW q \in Queues, NEW d \in Takes(q), pc'[d] = "exited"
               PROVE  q \in closed' /\ queue'[q] = <<>>
    BY DEF LeftWhenDrained, Takes
  <2>1. pc[d] = "exited"
    BY <1>2, TakersAreThreads
  <2> QED
    BY <1>2, <2>1 DEF InOrder, LeftWhenDrained, queueVars
<1> QED
  BY <1>3, <1>4, <1>5 DEF InOrder

LEMMA DestroyInOrder ==
  ASSUME TypeOK, InOrder, DestroyRuntime \/ CloseDatabase
  PROVE  InOrder'
<1>a. ASSUME NEW ts, NEW from, NEW to, Join(ts, from, to)
      PROVE  /\ \A t \in ts : pc[t] \in Gone
             /\ pc[Main] = from /\ pc'[Main] = to
             /\ \A c \in Consumers : pc'[c] = pc[c]
             /\ closed' = closed /\ queue' = queue
  BY <1>a, MainGoes DEF Join, Joined, Gone, queueVars
<1>b. ASSUME NEW q, NEW from, NEW to, Shutdown(q, from, to)
      PROVE  /\ pc[Main] = from /\ pc'[Main] = to
             /\ \A c \in Consumers : pc'[c] = pc[c]
             /\ closed' = closed \cup {q} /\ queue' = queue
  BY <1>b, MainGoes DEF Shutdown, WithClosed
<1>1. CASE CloseRequestQueue
  <2>1. Proceeds("join_workers")
    BY <1>1, <1>b DEF CloseRequestQueue, Proceeds, AfterClose, AfterJoin
  <2> QED
    BY <2>1, ProceedsInOrder
<1>2. CASE JoinWorkers
  <2>1. Proceeds("close_response")
    BY <1>2, <1>a DEF JoinWorkers, Proceeds, AfterClose, AfterJoin, Takes
  <2> QED
    BY <2>1, ProceedsInOrder
<1>3. CASE CloseResponseQueue
  <2>1. Proceeds("join_dispatcher")
    BY <1>3, <1>b DEF CloseResponseQueue, Proceeds, AfterClose, AfterJoin
  <2> QED
    BY <2>1, ProceedsInOrder
<1>4. CASE JoinDispatcher
  <2>1. Proceeds("close_db")
    BY <1>4, <1>a DEF JoinDispatcher, Proceeds, AfterClose, AfterJoin, Takes
  <2> QED
    BY <2>1, ProceedsInOrder
<1>5. CASE CloseDbQueue
  <2>1. Proceeds("join_db")
    BY <1>5, <1>b DEF CloseDbQueue, Proceeds, AfterClose, AfterJoin
  <2> QED
    BY <2>1, ProceedsInOrder
<1>6. CASE JoinDbWorker
  <2>1. Proceeds("freeing")
    BY <1>6, <1>a DEF JoinDbWorker, Proceeds, AfterClose, AfterJoin, Takes, Queues
  <2> QED
    BY <2>1, ProceedsInOrder
<1>7. CASE FreeRuntime
  <2>1. pc[Main] = "freeing" /\ pc'[Main] = "closing" /\ closed' = closed
        /\ (\A c \in Consumers : pc'[c] = pc[c]) /\ \A q \in Queues : queue'[q] = <<>>
    BY <1>7, MainGoes DEF FreeRuntime
  <2>2. Proceeds("closing")
    BY <2>1 DEF Proceeds, AfterClose, AfterJoin
  <2> QED
    BY <2>2, ProceedsInOrder
<1>8. CASE CloseDatabase
  <2>1. pc[Main] = "closing" /\ pc'[Main] = "done" /\ closed' = closed /\ queue' = queue
        /\ \A c \in Consumers : pc'[c] = pc[c]
    BY <1>8, MainGoes DEF CloseDatabase, queueVars
  <2>2. Proceeds("done")
    BY <2>1 DEF Proceeds, AfterClose, AfterJoin
  <2> QED
    BY <2>2, ProceedsInOrder
<1> QED
  BY <1>1, <1>2, <1>3, <1>4, <1>5, <1>6, <1>7, <1>8 DEF DestroyRuntime

-----------------------------------------------------------------------------

LEMMA InitInOrder == Init => InOrder
<1> SUFFICES ASSUME Init PROVE InOrder
  OBVIOUS
<1>1. pc[Main] = "starting" /\ closed = {} /\ \A c \in Consumers : pc[c] = "unborn"
  BY DEF Init, Threads, Consumers
<1>2. NothingStarted /\ ClosedLate
  BY <1>1 DEF NothingStarted, ClosedLate
<1>3. LeftWhenDrained
  BY <1>1, TakersAreThreads DEF LeftWhenDrained
<1>4. JoinedStayGone
  BY <1>1 DEF JoinedStayGone, AfterJoin
<1> QED
  BY <1>2, <1>3, <1>4 DEF InOrder

\* Steps that touch neither threads nor queues.
LEMMA StillInOrder ==
  ASSUME InOrder, UNCHANGED <<pc, queueVars>>
  PROVE  InOrder'
<1>1. NothingStarted' /\ ClosedLate'
  BY DEF InOrder, NothingStarted, ClosedLate, AfterClose, queueVars
<1>2. LeftWhenDrained'
  BY DEF InOrder, LeftWhenDrained, Takes, queueVars
<1>3. JoinedStayGone'
  BY DEF InOrder, JoinedStayGone, AfterJoin, Takes
<1> QED
  BY <1>1, <1>2, <1>3 DEF InOrder

LEMMA StepInOrder == TypeOK /\ InOrder /\ [Next]_vars => InOrder'
<1> SUFFICES ASSUME TypeOK, InOrder, [Next]_vars PROVE InOrder'
  OBVIOUS
<1>1. CASE RunPlan
  <2>1. CASE CaseAnswered
    BY <2>1, StillInOrder DEF CaseAnswered, threadVars
  <2> QED
    BY <1>1, <2>1, QuietInOrder, RefusedInOrder, StartInOrder, DestroyInOrder
       DEF RunPlan, WaitStep
<1>2. ASSUME NEW w \in Workers, HttpWorker(w) PROVE InOrder'
  <2>1. w \in Consumers
    BY DEF Consumers
  <2> QED
    BY <1>2, <2>1, HttpWorkerConsumes, ConsumesKeepsOrder
<1>3. CASE DispatcherStep
  BY <1>3, DispatcherConsumes, ConsumesKeepsOrder DEF Consumers
<1>4. CASE DbWorkerStep
  BY <1>4, DbWorkerConsumes, ConsumesKeepsOrder DEF Consumers
<1>5. CASE UNCHANGED vars
  BY <1>5, StillInOrder DEF vars, threadVars
<1> QED
  BY <1>1, <1>2, <1>3, <1>4, <1>5 DEF Next, Returned

\* destroy_runtime: no thread is alive when the queues, the runtime and the
\* database connection go away; a queue is closed when its producers are gone;
\* and the consumers of a queue leave only when it is closed and empty, even
\* when some threads were never started.
THEOREM ShutdownInOrder == Safety => [](ThreadsStopped /\ DrainedInOrder)
<1>1. Init => TypeOK /\ Bounded /\ InOrder
  BY InitTypes, InitInOrder
<1>2. TypeOK /\ Bounded /\ InOrder /\ [Next]_vars => (TypeOK /\ Bounded /\ InOrder)'
  BY StepTypes, StepInOrder
<1>3. TypeOK /\ Bounded /\ InOrder => ThreadsStopped /\ DrainedInOrder
  BY InOrderImplies
<1> QED
  BY <1>1, <1>2, <1>3, PTL DEF Safety

-----------------------------------------------------------------------------
(* Nothing lost when nothing fails *)

\* Nothing is submitted before every thread runs, and what is submitted is on
\* its way until its row is there.
AllBorn == pc[Main] \in {"submitting", "dispatching"} \/ submitted # {} => Unborn = {}
Kept    == \A i \in submitted : UnderWay(i) \/ Stored(i)

AnswerLabels == {"setup", "performing", "pushing", "forwarding", "inserting"}

\* Case i is still with a thread, in a queue or stored.
Somewhere(i) == UnderWay(i) \/ Stored(i)

LEMMA WithThread ==
  ASSUME NEW c \in Consumers, NEW i
  PROVE  /\ pc[c] \in AnswerLabels /\ job[c] = i => Somewhere(i)
         /\ pc'[c] \in AnswerLabels /\ job'[c] = i => Somewhere(i)'
BY DEF Somewhere, UnderWay, Answering, AnswerLabels

LEMMA InQueue ==
  ASSUME NEW q \in Queues, NEW i
  PROVE  i \in Range(queue'[q]) => Somewhere(i)'
BY DEF Somewhere, UnderWay

\* A step keeps case i if it keeps it where it is, or takes it on.
LEMMA StaysSomewhere ==
  ASSUME NEW i, Somewhere(i),
         \A c \in Consumers : pc[c] \in AnswerLabels /\ job[c] = i => Somewhere(i)',
         \A q \in Queues : i \in Range(queue[q]) => Somewhere(i)',
         Extends(responses', responses)
  PROVE  Somewhere(i)'
<1>1. CASE Stored(i)
  BY <1>1 DEF Stored, Somewhere, Extends
<1>2. CASE UnderWay(i)
  BY <1>2 DEF UnderWay, Answering, AnswerLabels
<1> QED
  BY <1>1, <1>2 DEF Somewhere

LEMMA KeptSomewhere == Kept <=> \A i \in submitted : Somewhere(i)
BY DEF Kept, Somewhere

LEMMA PopKeeps ==
  ASSUME TypeOK, NEW q \in Queues, NEW c \in Consumers, NEW l \in AnswerLabels, Pop(c, q, l),
         UNCHANGED responses, NEW i, Somewhere(i)
  PROVE  Somewhere(i)'
<1>1. /\ pc[c] = "idle" /\ pc'[c] = l /\ job'[c] = Head(queue[q]) /\ queue'[q] = Tail(queue[q])
      /\ \A d \in Consumers \ {c} : pc'[d] = pc[d] /\ job'[d] = job[d]
      /\ \A r \in Queues \ {q} : queue'[r] = queue[r]
      /\ queue[q] \in Seq(Cases) /\ queue[q] # <<>>
  BY DEF Pop, Rest, Goto, TypeOK, ThreadTypes, ObjectTypes, Threads
<1>2. Range(queue[q]) = {Head(queue[q])} \cup Range(Tail(queue[q]))
  BY <1>1, PopRange
<1>3. ASSUME NEW d \in Consumers, pc[d] \in AnswerLabels, job[d] = i PROVE Somewhere(i)'
  <2>1. d # c
    BY <1>1, <1>3 DEF AnswerLabels
  <2> QED
    BY <1>1, <1>3, <2>1, WithThread
<1>4. ASSUME NEW r \in Queues, i \in Range(queue[r]) PROVE Somewhere(i)'
  <2>1. CASE r = q /\ i = Head(queue[q])
    BY <1>1, <2>1, WithThread
  <2>2. CASE i \in Range(queue'[r])
    BY <2>2, InQueue
  <2> QED
    BY <1>1, <1>2, <1>4, <2>1, <2>2
<1> QED
  BY <1>3, <1>4, StaysSomewhere DEF Extends

LEMMA PushKeeps ==
  ASSUME TypeOK, NEW q \in Queues, NEW j \in Cases, Push(q, j), UNCHANGED responses,
         \A d \in Consumers : pc[d] \in AnswerLabels =>
            job[d] = j \/ (pc'[d] = pc[d] /\ job'[d] = job[d])
  PROVE  Somewhere(j)' /\ \A i : Somewhere(i) => Somewhere(i)'
<1>1. /\ queue[q] \in Seq(Cases) /\ queue'[q] = Append(queue[q], j)
      /\ \A r \in Queues \ {q} : queue'[r] = queue[r]
  BY DEF Push, AtBack, TypeOK, ObjectTypes
<1>2. Range(queue'[q]) = Range(queue[q]) \cup {j}
  BY <1>1, PushRange
<1>3. Somewhere(j)'
  BY <1>2, InQueue
<1>4. ASSUME NEW i, Somewhere(i) PROVE Somewhere(i)'
  <2>1. ASSUME NEW d \in Consumers, pc[d] \in AnswerLabels, job[d] = i PROVE Somewhere(i)'
    BY <1>3, <2>1, WithThread
  <2>2. ASSUME NEW r \in Queues, i \in Range(queue[r]) PROVE Somewhere(i)'
    BY <1>1, <1>2, <2>2, InQueue
  <2> QED
    BY <1>4, <2>1, <2>2, StaysSomewhere DEF Extends
<1> QED
  BY <1>3, <1>4

\* Threads that keep their cases, or come out of queue_pop with none.
LEMMA MovesKeep ==
  ASSUME NEW i, Somewhere(i), UNCHANGED <<queue, responses>>,
         \A d \in Consumers : pc[d] \in AnswerLabels => pc'[d] \in AnswerLabels /\ job'[d] = job[d]
  PROVE  Somewhere(i)'
<1>1. ASSUME NEW d \in Consumers, pc[d] \in AnswerLabels, job[d] = i PROVE Somewhere(i)'
  BY <1>1, WithThread
<1>2. ASSUME NEW r \in Queues, i \in Range(queue[r]) PROVE Somewhere(i)'
  BY <1>2, InQueue
<1> QED
  BY <1>1, <1>2, StaysSomewhere DEF Extends

LEMMA HttpWorkerKeeps ==
  ASSUME TypeOK, InOrder, Faults = {}, NEW w \in Workers, HttpWorker(w), NEW i, Somewhere(i)
  PROVE  Somewhere(i)'
<1>a. w \in Consumers /\ UNCHANGED mainVars
  BY HttpWorkerTypes DEF Consumers
<1>b. responses' = responses
  BY DEF HttpWorker, WorkerPop, WorkerExit, PopNull, WorkerNoResponse, WorkerSetupFails,
         WorkerSetup, WorkerPerform, Answer, WorkerPush, WorkerRelease, dbVars
<1>c. ASSUME NEW l, Goto(w, l) PROVE pc'[w] = l /\ \A d \in Consumers \ {w} : pc'[d] = pc[d]
  BY <1>a, <1>c DEF Goto, TypeOK, ThreadTypes, Threads
<1>1. CASE WorkerPop(w)
  BY <1>1, <1>a, <1>b, PopKeeps DEF WorkerPop, AnswerLabels, Queues
<1>2. CASE WorkerExit(w) \/ WorkerRelease(w)
  <2>1. /\ pc[w] \notin AnswerLabels /\ queue' = queue
        /\ \A d \in Consumers \ {w} : pc'[d] = pc[d] /\ job'[d] = job[d]
    BY <1>2, <1>c DEF WorkerExit, PopNull, WorkerRelease, Release, AnswerLabels, queueVars,
       TypeOK, ThreadTypes
  <2> QED
    BY <1>b, <2>1, MovesKeep
<1>3. CASE WorkerSetupFails(w) \/ WorkerSetup(w) \/ WorkerPerform(w)
  <2>1. PICK l \in {"performing", "pushing"} : Goto(w, l)
    BY <1>3 DEF WorkerSetupFails, WorkerSetup, WorkerPerform, Answer
  <2>2. UNCHANGED <<job, queue>>
    BY <1>3 DEF WorkerSetupFails, WorkerSetup, WorkerPerform, Answer, queueVars
  <2>3. \A d \in Consumers : pc[d] \in AnswerLabels => pc'[d] \in AnswerLabels /\ job'[d] = job[d]
    BY <1>c, <2>1, <2>2 DEF AnswerLabels
  <2> QED
    BY <1>b, <2>2, <2>3, MovesKeep
<1>4. CASE WorkerPush(w)
  <2>1. pc[w] = "pushing" /\ job' = job /\ \A d \in Consumers \ {w} : pc'[d] = pc[d]
    BY <1>4, <1>c DEF WorkerPush
  <2>2. PICK j \in Cases : j = job[w]
    BY <1>a, <2>1 DEF TypeOK, ThreadTypes, Idle
  <2>3. "response" \notin closed
    BY <2>1, InOrderImplies DEF DrainedInOrder, Feeds, Queues, Gone
  <2>4. Push("response", j)
    BY <1>4, <2>2, <2>3 DEF WorkerPush, PushFails
  <2>5. \A d \in Consumers : job[d] = j \/ (pc'[d] = pc[d] /\ job'[d] = job[d])
    BY <2>1, <2>2
  <2> QED
    BY <1>b, <2>4, <2>5, PushKeeps DEF Queues
<1> QED
  BY <1>1, <1>2, <1>3, <1>4 DEF HttpWorker, WorkerNoResponse

LEMMA DispatcherKeeps ==
  ASSUME TypeOK, InOrder, Faults = {}, DispatcherStep, NEW i, Somewhere(i)
  PROVE  Somewhere(i)'
<1> DEFINE c == Dispatcher
<1>a. c \in Consumers
  BY DEF Consumers
<1>b. responses' = responses
  BY DEF DispatcherStep, DispatcherPop, DispatcherExit, PopNull, DispatcherForward,
         DispatcherDrops, dbVars
<1>c. ASSUME NEW l, Goto(c, l) PROVE pc'[c] = l /\ \A d \in Consumers \ {c} : pc'[d] = pc[d]
  BY <1>a, <1>c DEF Goto, TypeOK, ThreadTypes, Threads
<1>1. CASE DispatcherPop
  BY <1>1, <1>a, <1>b, PopKeeps DEF DispatcherPop, AnswerLabels, Queues
<1>2. CASE DispatcherExit
  <2>1. /\ pc[c] \notin AnswerLabels /\ UNCHANGED <<queue, job>>
        /\ \A d \in Consumers \ {c} : pc'[d] = pc[d]
    BY <1>2, <1>c DEF DispatcherExit, PopNull, AnswerLabels, queueVars
  <2> QED
    BY <1>b, <2>1, MovesKeep
<1>3. CASE DispatcherForward
  <2>1. /\ pc[c] = "forwarding"
        /\ \A d \in Consumers \ {c} : pc'[d] = pc[d] /\ job'[d] = job[d]
    BY <1>3, <1>c DEF DispatcherForward, Release, TypeOK, ThreadTypes
  <2>2. PICK j \in Cases : j = job[c] /\ Push("db", j)
    BY <1>3, <1>a, <2>1 DEF TypeOK, ThreadTypes, Idle, DispatcherForward
  <2>3. \A d \in Consumers : job[d] = j \/ (pc'[d] = pc[d] /\ job'[d] = job[d])
    BY <2>1, <2>2
  <2> QED
    BY <1>b, <2>2, <2>3, PushKeeps DEF Queues
<1>4. CASE DispatcherDrops
  <2>1. pc[c] = "forwarding" /\ "db" \in closed
    BY <1>4 DEF DispatcherDrops, PushFails
  <2> QED
    BY <2>1, InOrderImplies DEF DrainedInOrder, Feeds, Queues, Gone
<1> QED
  BY <1>1, <1>2, <1>3, <1>4 DEF DispatcherStep

LEMMA DbWorkerKeeps ==
  ASSUME TypeOK, Faults = {}, DbWorkerStep, NEW i, Somewhere(i)
  PROVE  Somewhere(i)'
<1> DEFINE c == DbWorker
<1>a. c \in Consumers
  BY DEF Consumers
<1>b. ASSUME NEW l, Goto(c, l) PROVE pc'[c] = l /\ \A d \in Consumers \ {c} : pc'[d] = pc[d]
  BY <1>a, <1>b DEF Goto, TypeOK, ThreadTypes, Threads
<1>1. CASE DbWorkerPop
  BY <1>1, <1>a, PopKeeps DEF DbWorkerPop, AnswerLabels, Queues, dbVars
<1>2. CASE DbWorkerExit \/ DbWorkerRowid \/ DbWorkerFree
  <2>1. /\ pc[c] \notin AnswerLabels /\ UNCHANGED <<queue, responses>>
        /\ \A d \in Consumers \ {c} : pc'[d] = pc[d] /\ job'[d] = job[d]
    BY <1>2, <1>b DEF DbWorkerExit, PopNull, DbWorkerRowid, ReadRowid, DbWorkerFree, Release,
       AnswerLabels, queueVars, dbVars, TypeOK, ThreadTypes
  <2> QED
    BY <2>1, MovesKeep
<1>3. CASE DbWorkerInsert
  <2>1. /\ pc[c] = "inserting" /\ UNCHANGED <<job, queue>>
        /\ \A d \in Consumers \ {c} : pc'[d] = pc[d]
    BY <1>3, <1>b DEF DbWorkerInsert, queueVars
  <2>2. Extends(responses', responses)
    BY <1>3, InsertExtends
  <2>j. PICK j : j = job[c]
    OBVIOUS
  <2>3. Somewhere(j)'
    <3>1. PICK row : responses' = Append(responses, row) /\ row.origin = j
      BY <1>3, <2>j DEF DbWorkerInsert, InsertResponse
    <3>2. /\ Len(responses) + 1 \in DOMAIN responses'
          /\ responses'[Len(responses) + 1].origin = j
      BY <3>1, LenProperties, AppendProperties DEF TypeOK, TableTypes
    <3> QED
      BY <2>1, <3>2 DEF Somewhere, Stored
  <2>4. ASSUME NEW d \in Consumers, pc[d] \in AnswerLabels, job[d] = i PROVE Somewhere(i)'
    <3>1. CASE d = c
      BY <2>j, <2>3, <2>4, <3>1
    <3>2. CASE d # c
      BY <2>1, <2>4, <3>2, WithThread
    <3> QED
      BY <3>1, <3>2
  <2>5. ASSUME NEW r \in Queues, i \in Range(queue[r]) PROVE Somewhere(i)'
    BY <2>1, <2>5, InQueue
  <2> QED
    BY <2>2, <2>4, <2>5, StaysSomewhere
<1> QED
  BY <1>1, <1>2, <1>3 DEF DbWorkerStep, DbWorkerInsertFails

\* The steps of main, but for dispatch_task and the end of the runtime, leave
\* the cases alone; those two find the queues as they should be.
LEMMA RunPlanKeeps ==
  ASSUME TypeOK, Bounded, InOrder, AllBorn, RunPlan
  PROVE  /\ \A i : Somewhere(i) /\ i \in submitted => Somewhere(i)'
         /\ \A i \in submitted' : i \in submitted \/ Somewhere(i)'
         /\ AllBorn'
<1>a. ASSUME NEW l, Goto(Main, l) PROVE pc'[Main] = l /\ \A c \in Consumers : pc'[c] = pc[c]
  BY <1>a DEF Goto, TypeOK, ThreadTypes, Threads, Consumers
<1>b. ASSUME \A c \in Consumers : pc'[c] = pc[c] \/ (pc[c] = "unborn" /\ pc'[c] = "idle")
      PROVE  /\ Unborn' \subseteq Unborn
             /\ \A c \in Consumers : pc[c] \in AnswerLabels => pc'[c] \in AnswerLabels
  BY <1>b DEF Unborn, AnswerLabels
<1>1. CASE DispatchCase
  <2>1. pc[Main] = "dispatching" /\ \A c \in Consumers : pc'[c] = pc[c]
    BY <1>1, <1>a DEF DispatchCase
  <2>2. PICK j \in Cases : j = current /\ Push("request", j)
    BY <1>1, <2>1 DEF DispatchCase, Bounded, TypeOK, RunTypes, Cases
  <2>3. UNCHANGED <<job, responses>> /\ submitted' = submitted \cup {j}
    BY <1>1, <2>2 DEF DispatchCase, dbVars
  <2>4. Somewhere(j)' /\ \A i : Somewhere(i) => Somewhere(i)'
    BY <2>1, <2>2, <2>3, PushKeeps DEF Queues
  <2>5. AllBorn'
    BY <1>b, <2>1 DEF AllBorn
  <2> QED
    BY <2>3, <2>4, <2>5
<1>2. CASE FreeRuntime
  <2>1. /\ pc[Main] = "freeing" /\ pc'[Main] = "closing" /\ \A c \in Consumers : pc'[c] = pc[c]
        /\ UNCHANGED <<job, submitted, responses>> /\ \A q \in Queues : queue'[q] = <<>>
    BY <1>2, <1>a DEF FreeRuntime, dbVars, mainVars
  <2>2. ASSUME NEW q \in Queues, submitted # {} PROVE queue[q] = <<>>
    <3>1. PICK c \in Consumers : c \in Takes(q)
      BY DEF Queues, Takes, Consumers
    <3>2. pc[c] \in Gone
      BY <2>1, <3>1 DEF InOrder, JoinedStayGone, AfterJoin
    <3>3. pc[c] = "exited"
      BY <2>2, <3>2 DEF AllBorn, Unborn, Gone
    <3> QED
      BY <3>1, <3>3 DEF InOrder, LeftWhenDrained
  <2>3. ASSUME NEW i \in submitted, Somewhere(i) PROVE Somewhere(i)'
    <3>1. ASSUME NEW d \in Consumers, pc[d] \in AnswerLabels, job[d] = i PROVE Somewhere(i)'
      BY <2>1, <3>1, WithThread
    <3>2. ASSUME NEW r \in Queues, i \in Range(queue[r]) PROVE Somewhere(i)'
      BY <2>2, <3>2 DEF Range
    <3> QED
      BY <2>1, <2>3, <3>1, <3>2, StaysSomewhere DEF Extends
  <2>4. AllBorn'
    BY <1>b, <2>1 DEF AllBorn
  <2> QED
    BY <2>1, <2>3, <2>4
<1>3. CASE ~ (DispatchCase \/ FreeRuntime)
  <2>1. UNCHANGED <<job, queue, submitted, responses>>
    BY <1>3 DEF RunPlan, RunRefused, OpenDatabase, NoRuntime, StartThread, StartFails,
         RuntimeReady, SubmitCase, SaveRequestRow, SubmitFails, DispatchFails, PushFails,
         AllDispatched, WaitStep, CaseAnswered, CaseTimedOut, PollMisses, PollAgain,
         AllWaited, FreeHeld, DestroyRuntime, CloseRequestQueue, CloseResponseQueue,
         CloseDbQueue, Shutdown, JoinWorkers, JoinDispatcher, JoinDbWorker, Join,
         CloseDatabase, mainVars, dbVars, queueVars, threadVars
  <2>2. \A c \in Consumers : pc'[c] = pc[c] \/ (pc[c] = "unborn" /\ pc'[c] = "idle")
    <3>1. CASE StartThread
      BY <3>1 DEF StartThread, StartsNext, Unborn, Goto, TypeOK, ThreadTypes, Threads, Consumers
    <3>2. CASE CaseAnswered
      BY <3>2 DEF CaseAnswered, threadVars
    <3>3. CASE ~ (StartThread \/ CaseAnswered)
      <4>1. \E l : Goto(Main, l)
        BY <1>3, <3>3 DEF RunPlan, RunRefused, OpenDatabase, NoRuntime, StartFails,
         RuntimeReady, SubmitCase, SubmitFails, DispatchFails,
         AllDispatched, WaitStep, CaseTimedOut, PollMisses, PollAgain,
         AllWaited, FreeHeld, DestroyRuntime, CloseRequestQueue, CloseResponseQueue,
         CloseDbQueue, Shutdown, JoinWorkers, JoinDispatcher, JoinDbWorker, Join,
         CloseDatabase
      <4> QED
        BY <1>a, <4>1
    <3> QED
      BY <3>1, <3>2, <3>3
  <2>3. pc'[Main] \in {"submitting", "dispatching"}
        => Unborn = {} \/ (AllBorn /\ pc[Main] \in {"submitting", "dispatching"})
    <3>1. CASE RuntimeReady
      <4>1. Unborn = {}
        BY <3>1 DEF RuntimeReady
      <4> QED
        BY <4>1
    <3>2. CASE SubmitCase
      BY <3>2 DEF SubmitCase
    <3>3. CASE CaseAnswered \/ StartThread
      BY <3>3 DEF CaseAnswered, PollFinds, threadVars, StartThread, Goto, TypeOK, ThreadTypes,
         Threads, Consumers
    <3>4. CASE ~ (RuntimeReady \/ SubmitCase \/ CaseAnswered \/ StartThread)
      <4>1. \E l \in MainLabels \ {"submitting", "dispatching"} : Goto(Main, l)
        BY <1>3, <3>4 DEF RunPlan, RunRefused, OpenDatabase, NoRuntime, StartFails,
         SubmitFails, DispatchFails, AllDispatched, WaitStep, CaseTimedOut, PollMisses,
         PollAgain, AllWaited, FreeHeld, DestroyRuntime, CloseRequestQueue,
         CloseResponseQueue, CloseDbQueue, Shutdown, JoinWorkers, JoinDispatcher,
         JoinDbWorker, Join, CloseDatabase, MainLabels
      <4> QED
        BY <1>a, <4>1
    <3> QED
      BY <3>1, <3>2, <3>3, <3>4
  <2>4. AllBorn'
    BY <1>b, <2>1, <2>2, <2>3 DEF AllBorn
  <2>5. \A i : Somewhere(i) => Somewhere(i)'
    BY <1>b, <2>1, <2>2, MovesKeep
  <2> QED
    BY <2>1, <2>4, <2>5
<1> QED
  BY <1>1, <1>2, <1>3

\* What is left of a consumer's step for those who ask who was started.
Keeps(c) == Consumes(c) /\ pc'[c] # "unborn" /\ UNCHANGED mainVars

LEMMA ConsumersKeep ==
  ASSUME TypeOK
  PROVE  /\ \A w \in Workers : HttpWorker(w) => Keeps(w)
         /\ DispatcherStep => Keeps(Dispatcher)
         /\ DbWorkerStep => Keeps(DbWorker)
<1>1. ASSUME NEW w \in Workers, HttpWorker(w) PROVE Keeps(w)
  <2>1. w \in Consumers /\ Consumes(w) /\ UNCHANGED mainVars
    BY <1>1, HttpWorkerConsumes, HttpWorkerTypes DEF Consumers
  <2>2. pc'[w] # "unborn"
    <3>1. \E l : Goto(w, l) /\ l # "unborn"
      BY <1>1 DEF HttpWorker, WorkerPop, Pop, WorkerExit, PopNull, Leave, WorkerNoResponse,
         WorkerSetupFails, WorkerSetup, WorkerPerform, Answer, WorkerPush, WorkerRelease, Release
    <3> QED
      BY <2>1, <3>1 DEF Goto, TypeOK, ThreadTypes, Threads
  <2> QED
    BY <2>1, <2>2 DEF Keeps
<1>2. ASSUME DispatcherStep PROVE Keeps(Dispatcher)
  <2>1. Dispatcher \in Consumers /\ Consumes(Dispatcher) /\ UNCHANGED mainVars
    BY <1>2, DispatcherConsumes, DispatcherTypes DEF Consumers
  <2>2. pc'[Dispatcher] # "unborn"
    <3>1. \E l : Goto(Dispatcher, l) /\ l # "unborn"
      BY <1>2 DEF DispatcherStep, DispatcherPop, Pop, DispatcherExit, PopNull, Leave,
         DispatcherForward, DispatcherDrops, Release
    <3> QED
      BY <2>1, <3>1 DEF Goto, TypeOK, ThreadTypes, Threads
  <2> QED
    BY <2>1, <2>2 DEF Keeps
<1>3. ASSUME DbWorkerStep PROVE Keeps(DbWorker)
  <2>1. DbWorker \in Consumers /\ Consumes(DbWorker) /\ UNCHANGED mainVars
    BY <1>3, DbWorkerConsumes, DbWorkerTypes DEF Consumers
  <2>2. pc'[DbWorker] # "unborn"
    <3>1. \E l : Goto(DbWorker, l) /\ l # "unborn"
      BY <1>3 DEF DbWorkerStep, DbWorkerPop, Pop, DbWorkerExit, PopNull, Leave,
         DbWorkerInsert, DbWorkerInsertFails, DbWorkerRowid, DbWorkerFree, Release
    <3> QED
      BY <2>1, <3>1 DEF Goto, TypeOK, ThreadTypes, Threads
  <2> QED
    BY <2>1, <2>2 DEF Keeps
<1> QED
  BY <1>1, <1>2, <1>3

LEMMA StepBorn == TypeOK /\ Bounded /\ InOrder /\ AllBorn /\ [Next]_vars => AllBorn'
<1> SUFFICES ASSUME TypeOK, Bounded, InOrder, AllBorn, [Next]_vars PROVE AllBorn'
  OBVIOUS
<1>1. CASE RunPlan
  BY <1>1, RunPlanKeeps
\* The others only take cases on; nobody is unborn again.
<1>c. ASSUME pc'[Main] = pc[Main], submitted' = submitted,
             \A c \in Consumers : pc'[c] = "unborn" => pc[c] = "unborn"
      PROVE  AllBorn'
  BY <1>c DEF AllBorn, Unborn
<1>d. ASSUME NEW c \in Consumers, Keeps(c) PROVE AllBorn'
  <2>1. Main \in Threads \ {c} /\ Consumers \subseteq Threads
    BY DEF Threads, Consumers
  <2> QED
    BY <1>c, <1>d, <2>1 DEF Keeps, Consumes, mainVars
<1>2. CASE DispatcherStep \/ DbWorkerStep \/ \E w \in Workers : HttpWorker(w)
  BY <1>2, <1>d, ConsumersKeep DEF Consumers
<1>3. CASE UNCHANGED vars
  <2>1. UNCHANGED <<pc, submitted>>
    BY <1>3 DEF vars, threadVars, mainVars
  <2> QED
    BY <1>c, <2>1
<1> QED
  BY <1>1, <1>2, <1>3 DEF Next, Returned

LEMMA StepKept ==
  ASSUME Faults = {}
  PROVE  TypeOK /\ Bounded /\ InOrder /\ AllBorn /\ Kept /\ [Next]_vars => AllBorn' /\ Kept'
<1> SUFFICES ASSUME TypeOK, Bounded, InOrder, AllBorn, Kept, [Next]_vars PROVE Kept'
  BY StepBorn
<1>a. \A i \in submitted : Somewhere(i)
  BY KeptSomewhere
<1>b. ASSUME \A i \in submitted' : Somewhere(i)' PROVE Kept'
  BY <1>b DEF Kept, Somewhere
<1>1. CASE RunPlan
  BY <1>1, <1>a, <1>b, RunPlanKeeps
<1>2. ASSUME NEW w \in Workers, HttpWorker(w) PROVE Kept'
  <2>1. UNCHANGED mainVars
    BY <1>2, HttpWorkerTypes
  <2> QED
    BY <1>2, <1>a, <1>b, <2>1, HttpWorkerKeeps DEF mainVars
<1>3. CASE DispatcherStep
  <2>1. UNCHANGED mainVars
    BY <1>3, DispatcherTypes
  <2> QED
    BY <1>3, <1>a, <1>b, <2>1, DispatcherKeeps DEF mainVars
<1>4. CASE DbWorkerStep
  <2>1. UNCHANGED mainVars
    BY <1>4, DbWorkerTypes
  <2> QED
    BY <1>4, <1>a, <1>b, <2>1, DbWorkerKeeps DEF mainVars
<1>5. CASE UNCHANGED vars
  <2>1. UNCHANGED <<pc, job, queue, responses, submitted>>
    BY <1>5 DEF vars, threadVars, queueVars, dbVars, mainVars
  <2> QED
    BY <1>a, <1>b, <2>1, MovesKeep
<1> QED
  BY <1>1, <1>2, <1>3, <1>4, <1>5 DEF Next, Returned

LEMMA InitKept == Init => AllBorn /\ Kept
<1> SUFFICES ASSUME Init PROVE AllBorn /\ Kept
  OBVIOUS
<1>1. submitted = {} /\ pc[Main] = "starting"
  BY DEF Init, Threads
<1> QED
  BY <1>1 DEF AllBorn, Kept

\* When main returns, all threads have left, and left nothing in their queues.
LEMMA KeptIsStored == TypeOK /\ InOrder /\ AllBorn /\ Kept => AllStored
<1> SUFFICES ASSUME TypeOK, InOrder, AllBorn, Kept, pc[Main] = "done", NEW i \in submitted
             PROVE  Stored(i)
  BY DEF AllStored
<1>1. ASSUME NEW q \in Queues, NEW c \in Takes(q) PROVE pc[c] = "exited" /\ queue[q] = <<>>
  <2>1. pc[c] \in Gone
    BY <1>1 DEF InOrder, JoinedStayGone, AfterJoin
  <2>2. c \in Consumers
    BY <1>1, TakersAreThreads
  <2>3. pc[c] = "exited"
    BY <2>1, <2>2 DEF AllBorn, Unborn, Gone
  <2> QED
    BY <1>1, <2>3 DEF InOrder, LeftWhenDrained
<1>2. ASSUME NEW c \in Answering PROVE FALSE
  <2>1. PICK q \in Queues : c \in Takes(q)
    BY <1>2 DEF Answering, Consumers, Queues, Takes
  <2> QED
    BY <1>1, <1>2, <2>1 DEF Answering
<1>3. ASSUME NEW q \in Queues, i \in Range(queue[q]) PROVE FALSE
  <2>1. \E c : c \in Takes(q)
    BY DEF Queues, Takes
  <2> QED
    BY <1>1, <1>3, <2>1 DEF Range
<1> QED
  BY <1>2, <1>3 DEF Kept, UnderWay

\* destroy_runtime waits for what run_plan submitted: when no call fails, the
\* answer of every dispatched case is in the database when main returns, those
\* wait_for_response gave up on included, for any number of HTTP workers.
THEOREM NothingLost ==
  ASSUME Faults = {}
  PROVE  Safety => []AllStored
<1>1. Init => TypeOK /\ Bounded /\ InOrder /\ AllBorn /\ Kept
  BY InitTypes, InitInOrder, InitKept
<1>2. TypeOK /\ Bounded /\ InOrder /\ AllBorn /\ Kept /\ [Next]_vars
      => (TypeOK /\ Bounded /\ InOrder /\ AllBorn /\ Kept)'
  BY StepTypes, StepInOrder, StepKept
<1>3. TypeOK /\ Bounded /\ InOrder /\ AllBorn /\ Kept => AllStored
  BY KeptIsStored
<1> QED
  BY <1>1, <1>2, <1>3, PTL DEF Safety

-----------------------------------------------------------------------------
(* What run_plan reports *)

Waiting    == {"polling", "sleeping"}
Submitting == {"starting", "creating", "submitting", "dispatching"}

\* While both flags stand, every case the loop has passed has passed.
PassedSoFar ==
    pc[Main] \in Waiting /\ allRequestsOk /\ allAssertionsOk =>
       \A j \in 1 .. caseCount : j < current => Passed(j)

\* exit_code is 1 until the loop is over, and 0 afterwards only when all passed.
ZeroIsEarned ==
    exitCode = 0 => AllPassed /\ pc[Main] \notin Waiting \cup Submitting

Earned == PassedSoFar /\ ZeroIsEarned

\* Row r of the table requests is the request id.
Names(r, id) == r \in DOMAIN requests /\ requests[r] = id

\* request_ids, as far as the first loop has come, are ids of the right rows.
SavedCases == IF pc[Main] \in {"starting", "creating", "submitting"} THEN current - 1
              ELSE IF pc[Main] = "dispatching" THEN current
              ELSE IF pc[Main] \in Waiting THEN caseCount ELSE 0

SavedSoFar == \A j \in Cases : j <= SavedCases => Names(requestId[j], Identity[j])

\* What a case was given stays an answer to its request.
GivenOwn ==
    \A j \in Cases : result[j] # 0 =>
       result[j] \in DOMAIN responses /\ Names(responses[result[j]].request, Identity[j])

Asked == SavedSoFar /\ GivenOwn

LEMMA InitVerdict == Init => Earned /\ Asked
<1> SUFFICES ASSUME Init PROVE Earned /\ Asked
  OBVIOUS
<1>1. pc[Main] = "starting" /\ exitCode = 1 /\ current = 1 /\ \A j \in Cases : result[j] = 0
  BY DEF Init, Threads
<1>2. Earned
  BY <1>1 DEF Earned, PassedSoFar, ZeroIsEarned, Waiting
<1>3. SavedCases = 0
  BY <1>1 DEF SavedCases
<1>4. Asked
  BY <1>1, <1>3 DEF Asked, SavedSoFar, GivenOwn, Cases
<1> QED
  BY <1>2, <1>4

-----------------------------------------------------------------------------
(* Steps that keep it *)

LEMMA PassedStays ==
  ASSUME TypeOK, NEW j, Passed(j), result'[j] = result[j], Extends(responses', responses)
  PROVE  Passed(j)'
BY DEF Passed, Extends

LEMMA EarnedKept ==
  ASSUME TypeOK, Earned, UNCHANGED <<caseCount, result, exitCode>>,
         Extends(responses', responses),
         pc'[Main] \in Waiting =>
            pc[Main] \in Waiting /\ UNCHANGED <<current, allRequestsOk, allAssertionsOk>>,
         pc'[Main] \in Submitting => pc[Main] \in Submitting
  PROVE  Earned'
<1>1. PassedSoFar'
  <2> SUFFICES ASSUME pc'[Main] \in Waiting, allRequestsOk', allAssertionsOk',
                      NEW j \in 1 .. caseCount, j < current'
               PROVE  Passed(j)'
    BY DEF PassedSoFar, Waiting
  <2>1. allRequestsOk /\ allAssertionsOk /\ j < current
    OBVIOUS
  <2>2. Passed(j)
    BY <2>1 DEF Earned, PassedSoFar
  <2> QED
    BY <2>2, PassedStays
<1>2. ZeroIsEarned'
  <2> SUFFICES ASSUME exitCode' = 0
               PROVE  AllPassed' /\ pc'[Main] \notin Waiting \cup Submitting
    BY DEF ZeroIsEarned, Waiting, Submitting
  <2>1. AllPassed /\ pc[Main] \notin Waiting \cup Submitting
    BY DEF Earned, ZeroIsEarned
  <2>2. \A j \in 1 .. caseCount : Passed(j)'
    BY <2>1, PassedStays DEF AllPassed
  <2> QED
    BY <2>1, <2>2 DEF AllPassed
<1> QED
  BY <1>1, <1>2 DEF Earned

LEMMA NamesStays ==
  ASSUME NEW r, NEW id, Names(r, id), Extends(requests', requests)
  PROVE  Names(r, id)'
BY DEF Names, Extends

LEMMA AskedKept ==
  ASSUME TypeOK, Asked, UNCHANGED <<result, requestId>>,
         Extends(requests', requests), Extends(responses', responses),
         SavedCases' \in Int, SavedCases \in Int,
         SavedCases' <= SavedCases
  PROVE  Asked'
<1>1. SavedSoFar'
  <2> SUFFICES ASSUME NEW j \in Cases, j <= SavedCases' PROVE Names(requestId[j], Identity[j])'
    BY DEF SavedSoFar, Names
  <2>1. j <= SavedCases
    BY DEF Cases
  <2>2. Names(requestId[j], Identity[j])
    BY <2>1 DEF Asked, SavedSoFar
  <2> QED
    BY <2>2, NamesStays DEF Names, Extends
<1>2. GivenOwn'
  <2> SUFFICES ASSUME NEW j \in Cases, result'[j] # 0
               PROVE  /\ result'[j] \in DOMAIN responses'
                      /\ Names(responses[result[j]].request, Identity[j])'
    BY DEF GivenOwn, Names
  <2>1. result[j] \in DOMAIN responses /\ Names(responses[result[j]].request, Identity[j])
    BY DEF Asked, GivenOwn
  <2>2. result'[j] = result[j] /\ responses'[result[j]] = responses[result[j]]
    BY <2>1 DEF Extends
  <2> QED
    BY <2>1, <2>2 DEF Names, Extends
<1> QED
  BY <1>1, <1>2 DEF Asked

LEMMA SelfExtends == \A s : Extends(s, s)
BY DEF Extends

\* A step that neither main nor the database sees.
LEMMA VerdictUntouched ==
  ASSUME TypeOK, Earned, Asked, pc'[Main] = pc[Main], UNCHANGED mainVars,
         Extends(responses', responses), requests' = requests
  PROVE  Earned' /\ Asked'
<1>1. Earned'
  BY EarnedKept DEF mainVars, waitVars
<1>2. SavedCases' = SavedCases /\ SavedCases \in Int
  BY DEF SavedCases, mainVars, TypeOK, RunTypes
<1>3. Asked'
  BY <1>2, AskedKept, SelfExtends DEF mainVars, waitVars
<1> QED
  BY <1>1, <1>3

\* The steps of run_plan before and after its loops, and within them those
\* that give no answer: none makes more of request_ids than there is.
Idles == \/ RunRefused \/ OpenDatabase \/ NoRuntime \/ StartThread \/ StartFails \/ RuntimeReady
         \/ SubmitFails \/ DispatchCase \/ DispatchFails \/ FreeHeld
         \/ current <= caseCount /\ PollMisses
         \/ PollAgain(Timeout(current)) \/ DestroyRuntime \/ CloseDatabase

LEMMA MainAt ==
  ASSUME TypeOK, NEW l, Goto(Main, l)
  PROVE  pc'[Main] = l
BY DEF TypeOK, ThreadTypes, Goto, Threads

LEMMA IdlesKeep ==
  ASSUME TypeOK, Earned, Asked, Idles
  PROVE  Earned' /\ Asked'
<1>a. current \in Int /\ caseCount \in Int
  BY DEF TypeOK, RunTypes
<1>b. UNCHANGED <<caseCount, result, exitCode, requestId, requests, responses>>
  BY DEF Idles, RunRefused, OpenDatabase, NoRuntime, StartThread, StartFails, RuntimeReady,
         SubmitFails, DispatchCase, DispatchFails, FreeHeld, PollMisses, PollAgain,
         DestroyRuntime, CloseRequestQueue, CloseResponseQueue, CloseDbQueue, Shutdown,
         JoinWorkers, JoinDispatcher, JoinDbWorker, Join, FreeRuntime, CloseDatabase,
         mainVars, waitVars, dbVars
<1>c. Extends(responses', responses) /\ Extends(requests', requests)
  BY <1>b, SelfExtends
<1>1. CASE RuntimeReady
  <2>1. pc'[Main] = "submitting" /\ pc[Main] = "creating" /\ current' = current
    BY <1>1, MainAt DEF RuntimeReady
  <2>2. Earned'
    BY <1>b, <1>c, <2>1, EarnedKept DEF Waiting, Submitting
  <2>3. SavedCases' = SavedCases /\ SavedCases \in Int
    BY <1>a, <2>1 DEF SavedCases
  <2> QED
    BY <1>b, <1>c, <2>2, <2>3, AskedKept
<1>2. CASE DispatchCase
  <2>1. pc'[Main] = "submitting" /\ pc[Main] = "dispatching" /\ current' = current + 1
    BY <1>2, MainAt DEF DispatchCase
  <2>2. Earned'
    BY <1>b, <1>c, <2>1, EarnedKept DEF Waiting, Submitting
  <2>3. SavedCases' = SavedCases /\ SavedCases \in Int
    BY <1>a, <2>1 DEF SavedCases
  <2> QED
    BY <1>b, <1>c, <2>2, <2>3, AskedKept
<1>3. CASE (current <= caseCount /\ PollMisses) \/ PollAgain(Timeout(current))
  <2>1. pc[Main] \in Waiting /\ pc'[Main] \in Waiting
    BY <1>3, MainAt DEF PollMisses, PollAgain, Waiting
  <2>2. UNCHANGED <<current, allRequestsOk, allAssertionsOk>>
    BY <1>3 DEF PollMisses, PollAgain, mainVars, waitVars
  <2>3. Earned'
    BY <1>b, <1>c, <2>1, <2>2, EarnedKept DEF Waiting, Submitting
  <2>4. SavedCases' = SavedCases /\ SavedCases \in Int
    BY <1>a, <1>b, <2>1 DEF SavedCases, Waiting
  <2> QED
    BY <1>b, <1>c, <2>3, <2>4, AskedKept
<1>4. CASE OpenDatabase \/ StartThread
  <2>1. pc[Main] \in {"starting", "creating"} /\ pc'[Main] = "creating" /\ current' = current
    <3>1. CASE OpenDatabase
      BY <3>1, MainAt DEF OpenDatabase, mainVars
    <3>2. CASE StartThread
      BY <3>2 DEF StartThread, Goto, mainVars, TypeOK, ThreadTypes, Threads, Consumers
    <3> QED
      BY <1>4, <3>1, <3>2
  <2>2. Earned'
    BY <1>b, <1>c, <2>1, EarnedKept DEF Waiting, Submitting
  <2>3. SavedCases' = SavedCases /\ SavedCases \in Int
    BY <1>a, <2>1 DEF SavedCases
  <2> QED
    BY <1>b, <1>c, <2>2, <2>3, AskedKept
<1>5. CASE \/ RunRefused \/ NoRuntime \/ StartFails \/ SubmitFails \/ DispatchFails
           \/ FreeHeld \/ DestroyRuntime \/ CloseDatabase
  <2>1. \E l \in MainLabels \ (Waiting \cup Submitting) : Goto(Main, l)
    BY <1>5 DEF RunRefused, NoRuntime, StartFails, SubmitFails, DispatchFails, FreeHeld,
         DestroyRuntime, CloseRequestQueue, CloseResponseQueue, CloseDbQueue, Shutdown,
         JoinWorkers, JoinDispatcher, JoinDbWorker, Join, FreeRuntime, CloseDatabase,
         MainLabels, Waiting, Submitting
  <2>2. pc'[Main] \notin Waiting \cup Submitting
    BY <2>1, MainAt
  <2>3. Earned'
    BY <1>b, <1>c, <2>2, EarnedKept
  <2>4. SavedCases' = 0
    BY <2>2 DEF SavedCases, Submitting
  <2>5. GivenOwn'
    BY <1>b, <1>c DEF Asked, GivenOwn, Names, Extends
  <2>6. SavedSoFar'
    BY <2>4 DEF SavedSoFar, Cases
  <2> QED
    BY <2>3, <2>5, <2>6 DEF Asked
<1> QED
  BY <1>1, <1>2, <1>3, <1>4, <1>5 DEF Idles

LEMMA SubmitCaseKeeps ==
  ASSUME TypeOK, Bounded, Earned, Asked, SubmitCase
  PROVE  Earned' /\ Asked'
<1>a. current \in Cases /\ caseCount <= MaxCases /\ current \in Nat
  BY DEF SubmitCase, Bounded, TypeOK, RunTypes, Cases
<1>b. pc[Main] = "submitting" /\ pc'[Main] = "dispatching"
  BY MainAt DEF SubmitCase
<1>c. /\ Extends(requests', requests) /\ Extends(responses', responses)
      /\ UNCHANGED <<caseCount, current, result, exitCode>>
  BY <1>a, SaveExtends, SelfExtends DEF SubmitCase, waitVars
<1>1. Earned'
  BY <1>b, <1>c, EarnedKept DEF Waiting, Submitting
<1>2. GivenOwn'
  BY <1>c DEF Asked, GivenOwn, Names, Extends
<1>3. SavedSoFar'
  <2> SUFFICES ASSUME NEW j \in Cases, j <= SavedCases' PROVE Names(requestId[j], Identity[j])'
    BY DEF SavedSoFar, Names
  <2>1. j <= current
    BY <1>b, <1>c DEF SavedCases
  <2>2. PICK k \in DOMAIN requests' :
           HasRow(k, Identity[current]) /\ requestId' = [requestId EXCEPT ![current] = k]
    BY DEF SubmitCase, SaveRequestRow
  <2>3. CASE j = current
    <3>1. requestId'[j] = k
      BY <2>2, <2>3 DEF TypeOK, RunTypes
    <3> QED
      BY <2>2, <2>3, <3>1 DEF HasRow, Names
  <2>4. CASE j < current
    <3>1. j <= SavedCases
      BY <1>a, <1>b, <2>4 DEF SavedCases, Cases
    <3>2. Names(requestId[j], Identity[j]) /\ requestId'[j] = requestId[j]
      BY <2>2, <2>4, <3>1 DEF Asked, SavedSoFar, TypeOK, RunTypes, Cases
    <3> QED
      BY <1>c, <3>2 DEF Names, Extends
  <2> QED
    BY <1>a, <2>1, <2>3, <2>4 DEF Cases
<1> QED
  BY <1>1, <1>2, <1>3 DEF Asked

LEMMA AllDispatchedKeeps ==
  ASSUME TypeOK, Earned, Asked, AllDispatched
  PROVE  Earned' /\ Asked'
<1>a. current \in Nat /\ caseCount \in Nat
  BY DEF TypeOK, RunTypes
<1>b. /\ pc[Main] = "submitting" /\ pc'[Main] = "polling" /\ current' = 1
      /\ UNCHANGED <<caseCount, result, requestId, exitCode, requests, responses>>
  BY MainAt DEF AllDispatched, waitVars, dbVars
<1>1. PassedSoFar'
  BY <1>a, <1>b DEF PassedSoFar
<1>2. ZeroIsEarned'
  BY <1>b DEF Earned, ZeroIsEarned, Submitting
<1>3. SavedCases' = caseCount /\ SavedCases = current - 1 /\ current > caseCount
  BY <1>b DEF SavedCases, Waiting, AllDispatched
<1>4. Asked'
  BY <1>a, <1>b, <1>3, AskedKept, SelfExtends
<1> QED
  BY <1>1, <1>2, <1>4 DEF Earned

LEMMA CaseAnsweredKeeps ==
  ASSUME TypeOK, Bounded, Earned, Asked, CaseAnswered
  PROVE  Earned' /\ Asked'
<1>1. PICK k \in DOMAIN responses :
         /\ PollFinds(k)
         /\ result' = [result EXCEPT ![current] = k]
         /\ allAssertionsOk' = (allAssertionsOk /\ (current \in Asserting => responses[k].meets))
  BY DEF CaseAnswered
<1>a. /\ pc[Main] = "polling" /\ pc' = pc /\ current' = current + 1
      /\ UNCHANGED <<caseCount, requestId, exitCode, requests, responses>>
      /\ UNCHANGED allRequestsOk
  BY <1>1 DEF CaseAnswered, PollFinds, threadVars, dbVars
<1>b. current \in Cases /\ current \in Nat /\ caseCount <= MaxCases /\ caseCount \in Nat
  BY <1>a DEF CaseAnswered, Bounded, TypeOK, RunTypes, Cases
<1>c. result'[current] = k /\ \A j \in Cases \ {current} : result'[j] = result[j]
  BY <1>1, <1>b DEF TypeOK, RunTypes
<1>2. PassedSoFar'
  <2> SUFFICES ASSUME allRequestsOk', allAssertionsOk', NEW j \in 1 .. caseCount, j < current'
               PROVE  Passed(j)'
    BY <1>a DEF PassedSoFar
  <2>1. allRequestsOk /\ allAssertionsOk /\ (current \in Asserting => responses[k].meets)
    BY <1>1, <1>a
  <2>2. CASE j = current
    BY <1>a, <1>c, <2>1, <2>2 DEF Passed
  <2>3. CASE j < current
    <3>1. Passed(j)
      BY <1>a, <2>1, <2>3 DEF Earned, PassedSoFar, Waiting
    <3>2. j \in Cases \ {current}
      BY <1>b, <2>3 DEF Cases
    <3> QED
      BY <1>a, <1>c, <3>1, <3>2 DEF Passed
  <2> QED
    BY <1>a, <1>b, <2>2, <2>3
<1>3. ZeroIsEarned'
  BY <1>a DEF Earned, ZeroIsEarned, Waiting
<1>4. SavedSoFar'
  BY <1>a DEF Asked, SavedSoFar, SavedCases, Waiting, Names
<1>5. GivenOwn'
  <2>1. responses[k].request = requestId[current]
    BY <1>1 DEF PollFinds, IsLatest, PolledRequest
  <2>2. Names(requestId[current], Identity[current])
    BY <1>a, <1>b DEF Asked, SavedSoFar, SavedCases, Waiting, CaseAnswered
  <2> QED
    BY <1>a, <1>b, <1>c, <2>1, <2>2 DEF Asked, GivenOwn, Names
<1> QED
  BY <1>2, <1>3, <1>4, <1>5 DEF Earned, Asked

LEMMA CaseTimedOutKeeps ==
  ASSUME TypeOK, Earned, Asked, CaseTimedOut
  PROVE  Earned' /\ Asked'
<1>a. /\ pc[Main] = "sleeping" /\ pc'[Main] = "polling"
      /\ UNCHANGED <<caseCount, requestId, result, exitCode, requests, responses>>
  BY MainAt DEF CaseTimedOut, PollEnds, dbVars
<1>b. ~ allRequestsOk'
  BY DEF CaseTimedOut, NoteFailure
<1>1. PassedSoFar'
  BY <1>b DEF PassedSoFar
<1>2. ZeroIsEarned'
  BY <1>a DEF Earned, ZeroIsEarned, Waiting
<1>3. SavedCases' = SavedCases /\ SavedCases \in Int
  BY <1>a DEF SavedCases, Waiting, TypeOK, RunTypes
<1>4. Asked'
  BY <1>a, <1>3, AskedKept, SelfExtends
<1> QED
  BY <1>1, <1>2, <1>4 DEF Earned

LEMMA AllWaitedKeeps ==
  ASSUME TypeOK, Bounded, Earned, Asked, AllWaited
  PROVE  Earned' /\ Asked'
<1>a. /\ pc[Main] = "polling" /\ pc'[Main] = "cleanup"
      /\ UNCHANGED <<caseCount, requestId, result, requests, responses>>
  BY MainAt DEF AllWaited, dbVars
<1>1. PassedSoFar'
  BY <1>a DEF PassedSoFar, Waiting
<1>2. ZeroIsEarned'
  <2> SUFFICES ASSUME exitCode' = 0 PROVE AllPassed'
    BY <1>a DEF ZeroIsEarned, Waiting, Submitting
  <2>1. allRequestsOk /\ allAssertionsOk
    BY DEF AllWaited
  <2>2. \A j \in 1 .. caseCount : Passed(j)
    BY <1>a, <2>1 DEF Earned, PassedSoFar, Waiting, AllWaited, TypeOK, RunTypes
  <2>3. caseCount <= MaxCases
    BY <1>a DEF Bounded
  <2> QED
    BY <1>a, <2>2, <2>3 DEF AllPassed, Passed
<1>3. SavedCases' = 0 /\ SavedCases = caseCount /\ caseCount \in Nat
  BY <1>a DEF SavedCases, Waiting, TypeOK, RunTypes
<1>4. Asked'
  BY <1>a, <1>3, AskedKept, SelfExtends
<1> QED
  BY <1>1, <1>2, <1>4 DEF Earned

-----------------------------------------------------------------------------

LEMMA StepVerdict ==
  TypeOK /\ Bounded /\ Earned /\ Asked /\ [Next]_vars => Earned' /\ Asked'
<1> SUFFICES ASSUME TypeOK, Bounded, Earned, Asked, [Next]_vars PROVE Earned' /\ Asked'
  OBVIOUS
<1>1. CASE RunPlan
  <2>1. \/ Idles \/ SubmitCase \/ AllDispatched
        \/ CaseAnswered \/ CaseTimedOut \/ AllWaited
    BY <1>1 DEF RunPlan, WaitStep, Idles
  <2> QED
    BY <2>1, IdlesKeep, SubmitCaseKeeps, AllDispatchedKeeps, CaseAnsweredKeeps,
       CaseTimedOutKeeps, AllWaitedKeeps
<1>2. ASSUME NEW w \in Workers, HttpWorker(w) PROVE Earned' /\ Asked'
  <2>1. UNCHANGED dbVars
    BY <1>2 DEF HttpWorker, WorkerPop, WorkerExit, PopNull, WorkerNoResponse,
         WorkerSetupFails, WorkerSetup, WorkerPerform, Answer, WorkerPush, WorkerRelease
  <2> QED
    BY <1>2, <2>1, HttpWorkerTypes, VerdictUntouched, SelfExtends DEF dbVars
<1>3. CASE DispatcherStep
  <2>1. UNCHANGED dbVars
    BY <1>3 DEF DispatcherStep, DispatcherPop, DispatcherExit, PopNull,
         DispatcherForward, DispatcherDrops
  <2> QED
    BY <1>3, <2>1, DispatcherTypes, VerdictUntouched, SelfExtends DEF dbVars
<1>4. CASE DbWorkerStep
  <2>1. Extends(responses', responses) /\ requests' = requests
    <3>1. CASE DbWorkerInsert
      BY <3>1, InsertExtends
    <3> QED
      BY <1>4, <3>1, SelfExtends
         DEF DbWorkerStep, DbWorkerPop, DbWorkerExit, PopNull, DbWorkerInsertFails,
             DbWorkerRowid, ReadRowid, DbWorkerFree, dbVars
  <2> QED
    BY <1>4, <2>1, DbWorkerTypes, VerdictUntouched
<1>5. CASE UNCHANGED vars
  BY <1>5, VerdictUntouched, SelfExtends DEF vars, threadVars, dbVars
<1> QED
  BY <1>1, <1>2, <1>3, <1>4, <1>5 DEF Next, Returned

LEMMA EarnedImplies == Earned /\ Asked => VerdictSound /\ OwnRequest
<1>1. Earned => VerdictSound
  BY DEF Earned, ZeroIsEarned, VerdictSound
<1>2. Asked => OwnRequest
  BY DEF Asked, GivenOwn, OwnRequest, Names
<1> QED
  BY <1>1, <1>2

\* run_plan: exit code 0 means that wait_for_response found an answer for every
\* case of the plan and that the assertions held of it, whatever fails.
THEOREM ExitCodeSound == Safety => []VerdictSound
<1>1. Init => TypeOK /\ Bounded /\ Earned /\ Asked
  BY InitTypes, InitVerdict
<1>2. TypeOK /\ Bounded /\ Earned /\ Asked /\ [Next]_vars
         => (TypeOK /\ Bounded /\ Earned /\ Asked)'
  BY StepTypes, StepVerdict
<1>3. Earned /\ Asked => VerdictSound
  BY EarnedImplies
<1> QED
  BY <1>1, <1>2, <1>3, PTL DEF Safety

\* wait_for_response: the row a case is given belongs, and keeps belonging, to
\* a request with the collection, method, url and body of the case, whatever
\* the database held before and whichever cases share rows.
THEOREM AnswersOwnRequest == Safety => []OwnRequest
<1>1. Init => TypeOK /\ Bounded /\ Earned /\ Asked
  BY InitTypes, InitVerdict
<1>2. TypeOK /\ Bounded /\ Earned /\ Asked /\ [Next]_vars
         => (TypeOK /\ Bounded /\ Earned /\ Asked)'
  BY StepTypes, StepVerdict
<1>3. Earned /\ Asked => OwnRequest
  BY EarnedImplies
<1> QED
  BY <1>1, <1>2, <1>3, PTL DEF Safety

-----------------------------------------------------------------------------
(* Exit code 1 is earned as well, when no call fails *)

Looping == Waiting \cup Submitting
Filling == {"submitting", "dispatching"}

\* The queues are open and nothing is given as long as the tasks are made; the
\* wait goes through the cases in order.
NothingGiven ==
    /\ pc[Main] \in Looping => closed = {}
    /\ pc[Main] \in Submitting => \A j \in Cases : result[j] = 0
    /\ pc[Main] \in Filling => allRequestsOk /\ allAssertionsOk
    /\ pc[Main] \in Waiting => \A j \in Cases : j >= current => result[j] = 0

SomeFailed == \E j \in 1 .. caseCount : j < current /\ ~Passed(j)

\* A flag falls for a case that failed, and stays down.
FlagFallen == pc[Main] \in Waiting => (allRequestsOk /\ allAssertionsOk) \/ SomeFailed

OneIsEarned == pc[Main] \notin Looping /\ exitCode # 0 => ~AllPassed

Blamed == NothingGiven /\ FlagFallen /\ OneIsEarned

LEMMA InitBlamed == Init => Blamed
<1> SUFFICES ASSUME Init PROVE Blamed
  OBVIOUS
<1>1. pc[Main] = "starting" /\ closed = {} /\ \A j \in Cases : result[j] = 0
  BY DEF Init, Threads
<1> QED
  BY <1>1 DEF Blamed, NothingGiven, FlagFallen, OneIsEarned, Looping, Filling, Waiting,
     Submitting

\* A case that has failed stays failed: its row, if any, stays what it is.
LEMMA FailedStays ==
  ASSUME TypeOK, TypeOK', GivenOwn, NEW j \in Cases, ~Passed(j), result'[j] = result[j],
         Extends(responses', responses)
  PROVE  ~Passed(j)'
<1>1. 0 \notin DOMAIN responses'
  BY DEF TypeOK, TableTypes
<1>2. CASE result[j] = 0
  BY <1>1, <1>2 DEF Passed
<1>3. CASE result[j] # 0
  <2>1. result[j] \in DOMAIN responses /\ responses'[result[j]] = responses[result[j]]
    BY <1>3 DEF GivenOwn, Extends
  <2> QED
    BY <2>1 DEF Passed
<1> QED
  BY <1>2, <1>3

\* Steps that give nothing and judge nothing.
LEMMA BlamedKept ==
  ASSUME TypeOK, TypeOK', GivenOwn, Blamed, Bounded, UNCHANGED <<caseCount, result, exitCode>>,
         Extends(responses', responses),
         pc'[Main] \in Waiting =>
            pc[Main] \in Waiting /\ UNCHANGED <<current, allRequestsOk, allAssertionsOk>>,
         pc'[Main] \in Filling =>
            pc[Main] \in Filling /\ UNCHANGED <<allRequestsOk, allAssertionsOk>>,
         pc'[Main] \in Submitting => pc[Main] \in Submitting,
         pc'[Main] \in Looping => closed' = closed,
         pc'[Main] \notin Looping => pc[Main] \notin Looping
  PROVE  Blamed'
<1>a. caseCount \in Nat /\ current \in Nat
  BY DEF TypeOK, RunTypes
<1>1. NothingGiven'
  BY DEF Blamed, NothingGiven, Looping
<1>2. ASSUME caseCount <= MaxCases, NEW j \in 1 .. caseCount, ~Passed(j) PROVE ~Passed(j)'
  <2>1. j \in Cases
    BY <1>a, <1>2 DEF Cases
  <2> QED
    BY <1>2, <2>1, FailedStays
<1>3. FlagFallen'
  <2> SUFFICES ASSUME pc'[Main] \in Waiting, ~ (allRequestsOk' /\ allAssertionsOk')
               PROVE  SomeFailed'
    BY DEF FlagFallen, Waiting, SomeFailed
  <2>1. SomeFailed /\ caseCount <= MaxCases
    BY DEF Blamed, FlagFallen, Waiting, Bounded
  <2> QED
    BY <1>2, <2>1 DEF SomeFailed
<1>4. OneIsEarned'
  <2> SUFFICES ASSUME pc'[Main] \notin Looping, exitCode' # 0 PROVE ~AllPassed'
    BY DEF OneIsEarned, Looping
  <2>1. ~AllPassed
    BY DEF Blamed, OneIsEarned
  <2> QED
    BY <1>2, <2>1 DEF AllPassed
<1> QED
  BY <1>1, <1>3, <1>4 DEF Blamed

\* The steps of main that cannot be taken when no call fails are those that
\* leave the loops early.
MainQuiet == \/ OpenDatabase \/ StartThread \/ SubmitCase \/ DispatchCase \/ FreeHeld
             \/ current <= caseCount /\ PollMisses
             \/ PollAgain(Timeout(current)) \/ DestroyRuntime \/ CloseDatabase

LEMMA QuietBlamed ==
  ASSUME TypeOK, TypeOK', Bounded, GivenOwn, Blamed, MainQuiet,
         Extends(responses', responses)
  PROVE  Blamed'
<1>a. UNCHANGED <<caseCount, result, exitCode, allRequestsOk, allAssertionsOk>>
  BY DEF MainQuiet, OpenDatabase, StartThread, SubmitCase, DispatchCase, FreeHeld, PollMisses,
         PollAgain, DestroyRuntime, CloseRequestQueue, CloseResponseQueue, CloseDbQueue,
         Shutdown, JoinWorkers, JoinDispatcher, JoinDbWorker, Join, FreeRuntime, CloseDatabase,
         mainVars, waitVars
<1>1. CASE OpenDatabase \/ StartThread
  <2>1. pc[Main] \in {"starting", "creating"} /\ pc'[Main] = "creating" /\ closed' = closed
    <3>1. CASE OpenDatabase
      BY <3>1, MainAt DEF OpenDatabase, queueVars
    <3>2. CASE StartThread
      BY <3>2 DEF StartThread, Goto, queueVars, TypeOK, ThreadTypes, Threads, Consumers
    <3> QED
      BY <1>1, <3>1, <3>2
  <2> QED
    BY <1>a, <2>1, BlamedKept DEF Waiting, Filling, Submitting, Looping
<1>2. CASE SubmitCase \/ DispatchCase
  <2>1. pc[Main] \in Filling /\ pc'[Main] \in Filling /\ closed' = closed
    BY <1>2, MainAt DEF SubmitCase, DispatchCase, Push, queueVars, Filling
  <2> QED
    BY <1>a, <2>1, BlamedKept DEF Waiting, Filling, Submitting, Looping
<1>3. CASE (current <= caseCount /\ PollMisses) \/ PollAgain(Timeout(current))
  <2>1. /\ pc[Main] \in Waiting /\ pc'[Main] \in Waiting
        /\ closed' = closed /\ current' = current
    BY <1>3, MainAt DEF PollMisses, PollAgain, queueVars, mainVars, Waiting
  <2> QED
    BY <1>a, <2>1, BlamedKept DEF Waiting, Filling, Submitting, Looping
<1>4. CASE FreeHeld \/ DestroyRuntime \/ CloseDatabase
  <2>1. pc[Main] \notin Looping /\ pc'[Main] \notin Looping
    BY <1>4, MainAt DEF FreeHeld, DestroyRuntime, CloseRequestQueue, CloseResponseQueue,
       CloseDbQueue, Shutdown, JoinWorkers, JoinDispatcher, JoinDbWorker, Join, FreeRuntime,
       CloseDatabase, Looping, Waiting, Submitting
  <2> QED
    BY <1>a, <2>1, BlamedKept DEF Waiting, Filling, Submitting, Looping
<1> QED
  BY <1>1, <1>2, <1>3, <1>4 DEF MainQuiet

LEMMA StartBlamed ==
  ASSUME TypeOK, Blamed, RunRefused \/ RuntimeReady, Faults = {}
  PROVE  Blamed'
<1>1. CASE RunRefused
  <2>1. caseCount > MaxCases /\ caseCount' = caseCount /\ pc'[Main] = "closing"
    BY <1>1, MainAt DEF RunRefused, mainVars
  <2>2. ~AllPassed'
    BY <2>1, CasesAssumption DEF AllPassed, TypeOK, RunTypes
  <2> QED
    BY <2>1, <2>2 DEF Blamed, NothingGiven, FlagFallen, OneIsEarned, Looping, Filling, Waiting,
       Submitting
<1>2. CASE RuntimeReady
  <2>1. /\ pc[Main] = "creating" /\ pc'[Main] = "submitting" /\ UNCHANGED <<closed, result>>
    BY <1>2, MainAt DEF RuntimeReady, queueVars
  <2>2. allRequestsOk' /\ allAssertionsOk'
    BY <1>2 DEF RuntimeReady
  <2> QED
    BY <2>1, <2>2 DEF Blamed, NothingGiven, FlagFallen, OneIsEarned, Looping, Filling, Waiting,
       Submitting
<1> QED
  BY <1>1, <1>2

LEMMA LoopsBlamed ==
  ASSUME TypeOK, TypeOK', Bounded, GivenOwn, Blamed, responses' = responses,
         AllDispatched \/ CaseAnswered \/ CaseTimedOut \/ AllWaited
  PROVE  Blamed'
<1>a. caseCount \in Nat /\ current \in Nat \ {0}
  BY DEF TypeOK, RunTypes
<1>n. PICK n : n = current
  OBVIOUS
<1>1. CASE AllDispatched
  <2>1. /\ pc[Main] = "submitting" /\ pc'[Main] = "polling" /\ UNCHANGED <<closed, result>>
    BY <1>1, MainAt DEF AllDispatched, queueVars, waitVars
  <2>2. allRequestsOk' /\ allAssertionsOk'
    <3>1. UNCHANGED <<allRequestsOk, allAssertionsOk>>
      BY <1>1 DEF AllDispatched, waitVars
    <3>2. allRequestsOk /\ allAssertionsOk
      BY <2>1 DEF Blamed, NothingGiven, Filling
    <3> QED
      BY <3>1, <3>2
  <2> QED
    BY <2>1, <2>2 DEF Blamed, NothingGiven, FlagFallen, OneIsEarned, Looping, Filling, Waiting,
       Submitting
<1>b. ASSUME pc[Main] \in Waiting, pc'[Main] = "polling", closed' = closed,
             current' = current + 1, caseCount' = caseCount, current <= caseCount,
             \A j \in Cases \ {current} : result'[j] = result[j],
             (allRequestsOk' /\ allAssertionsOk')
                \/ ~ (allRequestsOk /\ allAssertionsOk) \/ ~Passed(n)'
      PROVE  Blamed'
  <2>1. caseCount <= MaxCases
    BY <1>b DEF Bounded, Waiting
  <2>2. NothingGiven'
    BY <1>a, <1>b DEF Blamed, NothingGiven, Looping, Filling, Waiting, Submitting, Cases
  <2>3. FlagFallen'
    <3> SUFFICES ASSUME ~ (allRequestsOk' /\ allAssertionsOk') PROVE SomeFailed'
      BY DEF FlagFallen, SomeFailed
    <3>1. CASE SomeFailed
      <4>1. PICK j \in 1 .. caseCount : j < current /\ ~Passed(j)
        BY <3>1 DEF SomeFailed
      <4>2. j \in Cases \ {current}
        BY <1>a, <2>1, <4>1 DEF Cases
      <4>3. result'[j] = result[j]
        BY <1>b, <4>2
      <4>4. ~Passed(j)'
        BY <4>1, <4>3 DEF Passed
      <4> QED
        BY <1>a, <1>b, <4>1, <4>4 DEF SomeFailed
    <3>2. CASE ~Passed(n)'
      BY <1>a, <1>b, <1>n, <3>2 DEF SomeFailed
    <3>3. SomeFailed \/ ~Passed(n)'
      BY <1>b DEF Blamed, FlagFallen
    <3> QED
      BY <3>1, <3>2, <3>3
  <2> QED
    BY <1>b, <2>2, <2>3 DEF Blamed, OneIsEarned, Looping, Waiting
<1>2. CASE CaseAnswered
  <2>1. PICK k \in DOMAIN responses :
           /\ PollFinds(k)
           /\ result' = [result EXCEPT ![current] = k]
           /\ allAssertionsOk' = (allAssertionsOk /\ (current \in Asserting => responses[k].meets))
    BY <1>2 DEF CaseAnswered
  <2>2. /\ pc[Main] = "polling" /\ pc' = pc /\ current' = current + 1
        /\ UNCHANGED <<caseCount, closed>> /\ current <= caseCount
    BY <1>2, <2>1 DEF CaseAnswered, PollFinds, threadVars, queueVars
  <2>3. current \in Cases
    BY <1>a, <2>2 DEF Bounded, Cases
  <2>4. result'[current] = k /\ \A j \in Cases \ {current} : result'[j] = result[j]
    BY <2>1, <2>3 DEF TypeOK, RunTypes
  <2>5. (allRequestsOk' /\ allAssertionsOk')
                \/ ~ (allRequestsOk /\ allAssertionsOk) \/ ~Passed(n)'
    <3>1. CASE current \in Asserting => responses[k].meets
      <4>1. UNCHANGED allRequestsOk
        BY <1>2 DEF CaseAnswered
      <4>2. allAssertionsOk => allAssertionsOk'
        BY <2>1, <3>1
      <4> QED
        BY <4>1, <4>2
    <3>2. CASE ~ (current \in Asserting => responses[k].meets)
      <4>1. n \in Asserting /\ ~responses'[result'[n]].meets
        BY <1>n, <2>4, <3>2
      <4> QED
        BY <4>1 DEF Passed
    <3> QED
      BY <3>1, <3>2
  <2> QED
    BY <1>b, <2>2, <2>4, <2>5 DEF Waiting
<1>3. CASE CaseTimedOut
  <2>1. /\ pc[Main] = "sleeping" /\ pc'[Main] = "polling" /\ current' = current + 1
        /\ UNCHANGED <<caseCount, closed, result>>
    BY <1>3, MainAt DEF CaseTimedOut, PollEnds, queueVars
  <2>2. current <= caseCount /\ current \in Cases
    BY <1>a, <2>1 DEF Bounded, Cases
  <2>3. result[current] = 0
    BY <1>a, <2>1, <2>2 DEF Blamed, NothingGiven, Waiting
  <2>4. ~Passed(n)'
    BY <1>n, <2>1, <2>3 DEF Passed, TypeOK, TableTypes
  <2> QED
    BY <1>b, <2>1, <2>2, <2>4 DEF Waiting
<1>4. CASE AllWaited
  <2>1. /\ pc[Main] = "polling" /\ pc'[Main] = "cleanup" /\ current > caseCount
        /\ UNCHANGED <<caseCount, result>>
    BY <1>4, MainAt DEF AllWaited
  <2>2. OneIsEarned'
    <3> SUFFICES ASSUME exitCode' # 0 PROVE ~AllPassed'
      BY DEF OneIsEarned
    <3>1. ~ (allRequestsOk /\ allAssertionsOk)
      BY <1>4 DEF AllWaited
    <3>2. SomeFailed
      BY <2>1, <3>1 DEF Blamed, FlagFallen, Waiting
    <3>3. PICK j \in 1 .. caseCount : ~Passed(j)
      BY <3>2 DEF SomeFailed
    <3>4. ~Passed(j)'
      BY <2>1, <3>3 DEF Passed
    <3> QED
      BY <2>1, <3>4 DEF AllPassed
  <2> QED
    BY <2>1, <2>2 DEF Blamed, NothingGiven, FlagFallen, Looping, Filling, Waiting, Submitting
<1> QED
  BY <1>1, <1>2, <1>3, <1>4

LEMMA StepBlamed ==
  ASSUME Faults = {}
  PROVE  TypeOK /\ TypeOK' /\ Bounded /\ Asked /\ Blamed /\ [Next]_vars => Blamed'
<1> SUFFICES ASSUME TypeOK, TypeOK', Bounded, Asked, Blamed, [Next]_vars PROVE Blamed'
  OBVIOUS
<1>a. GivenOwn
  BY DEF Asked
<1>b. ASSUME pc'[Main] = pc[Main], UNCHANGED <<mainVars, closed>>,
             Extends(responses', responses)
      PROVE  Blamed'
  BY <1>a, <1>b, BlamedKept DEF mainVars, waitVars
<1>1. CASE RunPlan
  <2>1. CASE SubmitFails \/ DispatchFails \/ NoRuntime \/ StartFails
    BY <2>1 DEF SubmitFails, DispatchFails, NoRuntime, StartFails, PushFails, Blamed,
       NothingGiven, Looping, Submitting
  <2>2. CASE MainQuiet
    <3>1. responses' = responses
      BY <2>2 DEF MainQuiet, OpenDatabase, StartThread, SubmitCase, SaveRequestRow,
         DispatchCase, FreeHeld, PollMisses, PollAgain, DestroyRuntime, CloseRequestQueue,
         CloseResponseQueue, CloseDbQueue, Shutdown, JoinWorkers, JoinDispatcher, JoinDbWorker,
         Join, FreeRuntime, CloseDatabase, dbVars
    <3> QED
      BY <1>a, <2>2, <3>1, QuietBlamed, SelfExtends
  <2>3. CASE RunRefused \/ RuntimeReady
    BY <2>3, StartBlamed
  <2>4. CASE AllDispatched \/ CaseAnswered \/ CaseTimedOut \/ AllWaited
    <3>1. responses' = responses
      BY <2>4 DEF AllDispatched, CaseAnswered, CaseTimedOut, AllWaited, dbVars
    <3> QED
      BY <1>a, <2>4, <3>1, LoopsBlamed
  <2> QED
    BY <1>1, <2>1, <2>2, <2>3, <2>4 DEF RunPlan, WaitStep, MainQuiet
<1>2. ASSUME NEW w \in Workers, HttpWorker(w) PROVE Blamed'
  <2>1. UNCHANGED <<dbVars, closed>>
    BY <1>2 DEF HttpWorker, WorkerPop, Pop, WorkerExit, PopNull, WorkerNoResponse,
         WorkerSetupFails, WorkerSetup, WorkerPerform, Answer, WorkerPush, Push, PushFails,
         WorkerRelease, queueVars
  <2> QED
    BY <1>2, <1>b, <2>1, HttpWorkerTypes, SelfExtends DEF dbVars
<1>3. CASE DispatcherStep
  <2>1. UNCHANGED <<dbVars, closed>>
    BY <1>3 DEF DispatcherStep, DispatcherPop, Pop, DispatcherExit, PopNull,
         DispatcherForward, Push, DispatcherDrops, PushFails, queueVars
  <2> QED
    BY <1>3, <1>b, <2>1, DispatcherTypes, SelfExtends DEF dbVars
<1>4. CASE DbWorkerStep
  <2>1. Extends(responses', responses) /\ closed' = closed
    <3>1. CASE DbWorkerInsert
      BY <3>1, InsertExtends DEF DbWorkerInsert, queueVars
    <3> QED
      BY <1>4, <3>1, SelfExtends
         DEF DbWorkerStep, DbWorkerPop, Pop, DbWorkerExit, PopNull, DbWorkerInsertFails,
             DbWorkerRowid, ReadRowid, DbWorkerFree, dbVars, queueVars
  <2> QED
    BY <1>4, <1>b, <2>1, DbWorkerTypes
<1>5. CASE UNCHANGED vars
  BY <1>5, <1>b, SelfExtends DEF vars, threadVars, dbVars, queueVars
<1> QED
  BY <1>1, <1>2, <1>3, <1>4, <1>5 DEF Next, Returned

LEMMA BlamedImplies == Earned /\ Blamed => VerdictExact
<1> SUFFICES ASSUME Earned, Blamed, pc[Main] = "done" PROVE exitCode = 0 <=> AllPassed
  BY DEF VerdictExact
<1>1. exitCode = 0 => AllPassed
  BY DEF Earned, ZeroIsEarned
<1>2. exitCode # 0 => ~AllPassed
  BY DEF Blamed, OneIsEarned, Looping, Waiting, Submitting
<1> QED
  BY <1>1, <1>2

\* When no call fails the exit code is exact: 1 means that a case was given no
\* answer in time, or one that breaks its assertion, or that the plan was too
\* long; the flags of run_plan never fall for another reason.
THEOREM ExitCodeExact ==
  ASSUME Faults = {}
  PROVE  Safety => []VerdictExact
<1>1. Init => TypeOK /\ Bounded /\ Earned /\ Asked /\ Blamed
  BY InitTypes, InitVerdict, InitBlamed
<1>2. TypeOK /\ Bounded /\ Earned /\ Asked /\ Blamed /\ [Next]_vars
         => (TypeOK /\ Bounded /\ Earned /\ Asked /\ Blamed)'
  BY StepTypes, StepVerdict, StepBlamed
<1>3. Earned /\ Blamed => VerdictExact
  BY BlamedImplies
<1> QED
  BY <1>1, <1>2, <1>3, PTL DEF Safety
=============================================================================
