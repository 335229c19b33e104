-------------------------- MODULE EngineRefinement --------------------------
(***************************************************************************)
(* Engine implements CaseRun, for every number of cases and workers and    *)
(* every set of faults, on a new database and with cases that differ: each *)
(* step of run_plan and of the threads is a step of CaseRun or unnoticed.  *)
(* A run also ends: the steps it has left become fewer with every step of  *)
(* any thread, and until run_plan returns somebody has one to take.        *)
(***************************************************************************)
EXTENDS EngineOwnership, WellFoundedInduction

USE CasesAssumption, ThreadsAssumption, PlanAssumption

-----------------------------------------------------------------------------
(* How far main has come *)

\* The first loop of run_plan submits the cases in order and gives no result,
\* the second gives them in order when all are submitted, and only a run that
\* has finished both may end with 0.
Filled  == pc[Main] \in Submitting =>
              /\ pc[Main] \in {"starting", "creating"} => current = 1
              /\ current <= caseCount + 1
              /\ submitted = 1 .. current - 1
              /\ \A j \in Cases : result[j] = 0
Awaited == pc[Main] \in Waiting =>
              /\ submitted = 1 .. caseCount
              /\ \A j \in Cases : j >= current => result[j] = 0
Finishes == exitCode = 0 => submitted = 1 .. caseCount /\ current > caseCount

Progress == Filled /\ Awaited /\ Finishes

LEMMA InitProgress == Init => Progress
<1> SUFFICES ASSUME Init PROVE Progress
  OBVIOUS
<1>1. /\ pc[Main] = "starting" /\ current = 1 /\ exitCode = 1 /\ submitted = {}
      /\ \A j \in Cases : result[j] = 0
      /\ caseCount \in Nat
  BY DEF Init, Threads
<1>2. submitted = 1 .. current - 1 /\ current <= caseCount + 1
  BY <1>1
<1> QED
  BY <1>1, <1>2 DEF Progress, Filled, Awaited, Finishes, Waiting

\* exit_code is 1 until both loops are over.
LEMMA OneUntilOver == Earned /\ pc[Main] \in Submitting \cup Waiting => exitCode # 0
BY DEF Earned, ZeroIsEarned

LEMMA RunPlanProgress ==
  ASSUME TypeOK, Bounded, Earned, Progress, RunPlan
  PROVE  Progress'
<1>t. current \in Nat \ {0} /\ caseCount \in Nat /\ result \in [Cases -> Nat]
  BY DEF TypeOK, RunTypes
<1>1. CASE \/ RunRefused \/ NoRuntime \/ StartFails \/ SubmitFails \/ DispatchFails
           \/ FreeHeld \/ DestroyRuntime \/ CloseDatabase
  <2>1. \E l \in MainLabels \ (Waiting \cup Submitting) : Goto(Main, l)
    BY <1>1 DEF RunRefused, NoRuntime, StartFails, SubmitFails, DispatchFails, FreeHeld,
         DestroyRuntime, CloseRequestQueue, CloseResponseQueue, CloseDbQueue, Shutdown,
         JoinWorkers, JoinDispatcher, JoinDbWorker, Join, FreeRuntime, CloseDatabase,
         MainLabels, Waiting, Submitting
  <2>2. pc'[Main] \notin Waiting \cup Submitting
    BY <2>1, MainAt
  <2>3. UNCHANGED <<caseCount, current, submitted, exitCode>>
    BY <1>1 DEF RunRefused, NoRuntime, StartFails, SubmitFails, DispatchFails, FreeHeld,
         DestroyRuntime, CloseRequestQueue, CloseResponseQueue, CloseDbQueue, Shutdown,
         JoinWorkers, JoinDispatcher, JoinDbWorker, Join, FreeRuntime, CloseDatabase,
         mainVars, waitVars
  <2> QED
    BY <2>2, <2>3 DEF Progress, Filled, Awaited, Finishes
<1>2. CASE OpenDatabase \/ StartThread \/ RuntimeReady \/ SubmitCase
  <2>1. /\ pc[Main] \in Submitting
        /\ pc'[Main] \in {"creating", "submitting", "dispatching"}
        /\ pc'[Main] = "creating" => pc[Main] \in {"starting", "creating"}
    <3>1. CASE StartThread
      BY <3>1 DEF StartThread, Goto, TypeOK, ThreadTypes, Threads, Consumers, Submitting
    <3> QED
      BY <1>2, <3>1, MainAt DEF OpenDatabase, RuntimeReady, SubmitCase, Submitting
  <2>2. UNCHANGED <<caseCount, current, submitted, result, exitCode>>
    BY <1>2 DEF OpenDatabase, StartThread, RuntimeReady, SubmitCase, mainVars, waitVars
  <2>3. exitCode # 0
    BY <2>1, OneUntilOver
  <2> QED
    BY <2>1, <2>2, <2>3 DEF Progress, Filled, Awaited, Finishes, Waiting
<1>3. CASE DispatchCase
  <2>1. /\ pc[Main] = "dispatching" /\ pc'[Main] = "submitting"
        /\ current' = current + 1 /\ submitted' = submitted \cup {current}
        /\ UNCHANGED <<caseCount, result, exitCode>>
    BY <1>3, MainAt DEF DispatchCase, waitVars
  <2>2. current <= caseCount /\ submitted = 1 .. current - 1
    BY <2>1 DEF Bounded, Progress, Filled, Submitting
  <2>3. submitted' = 1 .. current' - 1
    BY <1>t, <2>1, <2>2
  <2>4. exitCode # 0
    BY <2>1, OneUntilOver DEF Submitting
  <2> QED
    BY <1>t, <2>1, <2>2, <2>3, <2>4 DEF Progress, Filled, Awaited, Finishes, Waiting, Submitting
<1>4. CASE AllDispatched
  <2>1. /\ pc[Main] = "submitting" /\ pc'[Main] = "polling" /\ current > caseCount
        /\ current' = 1 /\ UNCHANGED <<caseCount, submitted, result, exitCode>>
    BY <1>4, MainAt DEF AllDispatched, waitVars
  <2>2. current - 1 = caseCount /\ submitted = 1 .. current - 1 /\ \A j \in Cases : result[j] = 0
    BY <1>t, <2>1 DEF Progress, Filled, Submitting
  <2>4. exitCode # 0
    BY <2>1, OneUntilOver DEF Submitting
  <2> QED
    BY <2>1, <2>2, <2>4 DEF Progress, Filled, Awaited, Finishes, Waiting, Submitting
<1>5. CASE WaitStep
  <2>1. pc[Main] \in Waiting /\ pc'[Main] \in Waiting
    BY <1>5, MainAt DEF WaitStep, CaseAnswered, PollFinds, CaseTimedOut, PollEnds, PollMisses,
         PollAgain, Waiting, threadVars
  <2>2. UNCHANGED <<caseCount, submitted, exitCode>>
    BY <1>5 DEF WaitStep, CaseAnswered, CaseTimedOut, PollMisses, PollAgain, mainVars, waitVars
  <2>3. current' >= current /\ \A j \in Cases : j >= current' => result'[j] = result[j]
    <3>1. CASE CaseAnswered
      <4>1. current' = current + 1 /\ \E k : result' = [result EXCEPT ![current] = k]
        BY <3>1 DEF CaseAnswered
      <4> QED
        BY <1>t, <4>1 DEF Cases
    <3>2. CASE CaseTimedOut
      BY <1>t, <3>2 DEF CaseTimedOut
    <3>3. CASE PollMisses \/ PollAgain(Timeout(current))
      BY <1>t, <3>3 DEF PollMisses, PollAgain, mainVars, waitVars
    <3> QED
      BY <1>5, <3>1, <3>2, <3>3 DEF WaitStep
  <2>4. exitCode # 0
    BY <2>1, OneUntilOver
  <2>5. current' \in Nat
    BY <1>5, <1>t DEF WaitStep, CaseAnswered, CaseTimedOut, PollMisses, PollAgain, mainVars
  <2> QED
    BY <1>t, <2>1, <2>2, <2>3, <2>4, <2>5 DEF Progress, Filled, Awaited, Finishes, Waiting, Submitting, Cases
<1>6. CASE AllWaited
  <2>1. /\ pc[Main] = "polling" /\ pc'[Main] = "cleanup" /\ current > caseCount
        /\ UNCHANGED <<caseCount, current, submitted>>
    BY <1>6, MainAt DEF AllWaited
  <2> QED
    BY <2>1 DEF Progress, Filled, Awaited, Finishes, Waiting, Submitting
<1> QED
  BY <1>1, <1>2, <1>3, <1>4, <1>5, <1>6 DEF RunPlan

LEMMA ProgressRests ==
  ASSUME Progress, pc'[Main] = pc[Main], UNCHANGED mainVars
  PROVE  Progress'
BY DEF Progress, Filled, Awaited, Finishes, mainVars, waitVars

LEMMA StepProgress == TypeOK /\ Bounded /\ Earned /\ Progress /\ [Next]_vars => Progress'
<1> SUFFICES ASSUME TypeOK, Bounded, Earned, Progress, [Next]_vars PROVE Progress'
  OBVIOUS
<1>1. CASE RunPlan
  BY <1>1, RunPlanProgress
<1>2. ASSUME NEW w \in Workers, HttpWorker(w) PROVE Progress'
  BY <1>2, HttpWorkerTypes, ProgressRests
<1>3. CASE DispatcherStep
  BY <1>3, DispatcherTypes, ProgressRests
<1>4. CASE DbWorkerStep
  BY <1>4, DbWorkerTypes, ProgressRests
<1>5. CASE UNCHANGED vars
  BY <1>5, ProgressRests DEF vars, threadVars
<1> QED
  BY <1>1, <1>2, <1>3, <1>4, <1>5 DEF Next, Returned

-----------------------------------------------------------------------------
(* Where the cases are *)

\* Case i is with a consumer at one of the labels, or in one of the lines.
With(labels, lines, i) == \/ \E c \in Consumers : pc[c] \in labels /\ job[c] = i
                          \/ \E q \in lines : i \in Range(queue[q])

\* The answer to a case is known, and not stored yet.
DecidedLabels == {"pushing", "forwarding", "inserting"}
DecidedLines  == {"response", "db"}

LEMMA UnderWayIsWith ==
  ASSUME NEW i
  PROVE  /\ UnderWay(i) <=> With(AnswerLabels, Queues, i)
         /\ UnderWay(i)' <=> With(AnswerLabels, Queues, i)'
BY DEF UnderWay, With, Answering, AnswerLabels

LEMMA PopWith ==
  ASSUME TypeOK, NEW q \in Queues, NEW c \in Consumers, NEW l, Pop(c, q, l),
         NEW labels, "idle" \notin labels, NEW lines, l \in labels <=> q \in lines,
         lines \subseteq Queues, NEW i
  PROVE  With(labels, lines, i)' <=> With(labels, lines, i)
<1>1. /\ pc[c] = "idle" /\ pc'[c] = l /\ job'[c] = Head(queue[q]) /\ queue'[q] = Tail(queue[q])
      /\ \A d \in Consumers \ {c} : pc'[d] = pc[d] /\ job'[d] = job[d]
      /\ \A r \in Queues \ {q} : queue'[r] = queue[r]
      /\ queue[q] \in Seq(Cases) /\ queue[q] # <<>>
  BY ConsumerGoes DEF Pop, Rest, TypeOK, ThreadTypes, ObjectTypes
<1>2. Range(queue[q]) = {Head(queue[q])} \cup Range(queue'[q])
  BY <1>1, PopRange
<1>3. ASSUME With(labels, lines, i) PROVE With(labels, lines, i)'
  <2>1. ASSUME NEW d \in Consumers, pc[d] \in labels, job[d] = i PROVE With(labels, lines, i)'
    BY <1>1, <2>1 DEF With
  <2>2. ASSUME NEW r \in lines, i \in Range(queue[r]) PROVE With(labels, lines, i)'
    BY <1>1, <1>2, <2>2 DEF With
  <2> QED
    BY <1>3, <2>1, <2>2 DEF With
<1>4. ASSUME With(labels, lines, i)' PROVE With(labels, lines, i)
  <2>1. ASSUME NEW d \in Consumers, pc'[d] \in labels, job'[d] = i PROVE With(labels, lines, i)
    BY <1>1, <1>2, <2>1 DEF With
  <2>2. ASSUME NEW r \in lines, i \in Range(queue'[r]) PROVE With(labels, lines, i)
    BY <1>1, <1>2, <2>2 DEF With
  <2> QED
    BY <1>4, <2>1, <2>2 DEF With
<1> QED
  BY <1>3, <1>4

LEMMA PushWith ==
  ASSUME TypeOK, NEW q \in Queues, NEW c \in Consumers, NEW j \in Cases, j = job[c], Push(q, j),
         NEW labels, pc[c] \in labels, NEW lines, q \in lines, lines \subseteq Queues,
         pc'[c] \notin labels, OnlyMoves(c), NEW i
  PROVE  With(labels, lines, i)' <=> With(labels, lines, i)
<1>1. /\ queue[q] \in Seq(Cases) /\ queue'[q] = Append(queue[q], j)
      /\ \A r \in Queues \ {q} : queue'[r] = queue[r]
  BY DEF Push, AtBack, TypeOK, ObjectTypes
<1>2. Range(queue'[q]) = Range(queue[q]) \cup {j}
  BY <1>1, PushRange
<1>3. ASSUME With(labels, lines, i) PROVE With(labels, lines, i)'
  <2>1. ASSUME NEW d \in Consumers, pc[d] \in labels, job[d] = i PROVE With(labels, lines, i)'
    BY <1>2, <2>1 DEF With, OnlyMoves
  <2>2. ASSUME NEW r \in lines, i \in Range(queue[r]) PROVE With(labels, lines, i)'
    BY <1>1, <1>2, <2>2 DEF With
  <2> QED
    BY <1>3, <2>1, <2>2 DEF With
<1>4. ASSUME With(labels, lines, i)' PROVE With(labels, lines, i)
  <2>1. ASSUME NEW d \in Consumers, pc'[d] \in labels, job'[d] = i PROVE With(labels, lines, i)
    BY <2>1 DEF With, OnlyMoves
  <2>2. ASSUME NEW r \in lines, i \in Range(queue'[r]) PROVE With(labels, lines, i)
    BY <1>1, <1>2, <2>2 DEF With
  <2> QED
    BY <1>4, <2>1, <2>2 DEF With
<1> QED
  BY <1>3, <1>4

\* A consumer that leaves the queues alone may let go of its case.
LEMMA MovesWith ==
  ASSUME NEW c \in Consumers, OnlyMoves(c), queue' = queue, NEW labels, NEW lines, NEW i
  PROVE  /\ (pc'[c] \in labels => pc[c] \in labels /\ job'[c] = job[c])
               => (With(labels, lines, i)' => With(labels, lines, i))
         /\ (pc[c] \in labels => job[c] # i \/ (pc'[c] \in labels /\ job'[c] = job[c]))
               => (With(labels, lines, i) => With(labels, lines, i)')
<1>1. ASSUME pc'[c] \in labels => pc[c] \in labels /\ job'[c] = job[c], With(labels, lines, i)'
      PROVE  With(labels, lines, i)
  <2>1. ASSUME NEW d \in Consumers, pc'[d] \in labels, job'[d] = i PROVE With(labels, lines, i)
    BY <1>1, <2>1 DEF With, OnlyMoves
  <2> QED
    BY <1>1, <2>1 DEF With
<1>2. ASSUME pc[c] \in labels => job[c] # i \/ (pc'[c] \in labels /\ job'[c] = job[c]),
             With(labels, lines, i)
      PROVE  With(labels, lines, i)'
  <2>1. ASSUME NEW d \in Consumers, pc[d] \in labels, job[d] = i PROVE With(labels, lines, i)'
    BY <1>2, <2>1 DEF With, OnlyMoves
  <2> QED
    BY <1>2, <2>1 DEF With
<1> QED
  BY <1>1, <1>2

\* A consumer is about to give up its case i, because a call failed.
GivesUp(c, i) == Faults # {} /\ pc[c] \in AnswerLabels /\ job[c] = i

\* A case leaves the pipeline when somebody gives it up, and no case enters.
SameWay(c, i) == /\ UnderWay(i)' => UnderWay(i)
                 /\ UnderWay(i) => UnderWay(i)' \/ GivesUp(c, i)

LEMMA PopSameWay ==
  ASSUME TypeOK, NEW q \in Queues, NEW c \in Consumers, NEW l \in AnswerLabels, Pop(c, q, l), NEW i
  PROVE  SameWay(c, i)
<1>1. With(AnswerLabels, Queues, i)' <=> With(AnswerLabels, Queues, i)
  BY PopWith DEF AnswerLabels
<1> QED
  BY <1>1, UnderWayIsWith DEF SameWay

LEMMA PushSameWay ==
  ASSUME TypeOK, NEW q \in Queues, NEW c \in Consumers, pc[c] \in AnswerLabels,
         Push(q, job[c]), pc'[c] \notin AnswerLabels, OnlyMoves(c), NEW i
  PROVE  SameWay(c, i)
<1>1. PICK j \in Cases : j = job[c]
  BY DEF TypeOK, ThreadTypes, AnswerLabels, Idle
<1>2. Push(q, j)
  BY <1>1
<1>3. With(AnswerLabels, Queues, i)' <=> With(AnswerLabels, Queues, i)
  BY <1>1, <1>2, PushWith
<1> QED
  BY <1>3, UnderWayIsWith DEF SameWay

LEMMA MoveSameWay ==
  ASSUME NEW c \in Consumers, OnlyMoves(c), queue' = queue, NEW i,
         pc'[c] \in AnswerLabels => pc[c] \in AnswerLabels /\ job'[c] = job[c],
         pc[c] \in AnswerLabels => Faults # {} \/ (pc'[c] \in AnswerLabels /\ job'[c] = job[c])
  PROVE  SameWay(c, i)
<1>1. With(AnswerLabels, Queues, i)' => With(AnswerLabels, Queues, i)
  BY MovesWith
<1>2. ASSUME With(AnswerLabels, Queues, i) PROVE With(AnswerLabels, Queues, i)' \/ GivesUp(c, i)
  <2>1. CASE pc[c] \in AnswerLabels => job[c] # i \/ (pc'[c] \in AnswerLabels /\ job'[c] = job[c])
    BY <1>2, <2>1, MovesWith
  <2> QED
    BY <2>1 DEF GivesUp
<1> QED
  BY <1>1, <1>2, UnderWayIsWith DEF SameWay

LEMMA HttpWorkerWay ==
  ASSUME TypeOK, InOrder, NEW w \in Workers, HttpWorker(w), NEW i
  PROVE  SameWay(w, i)
<1>a. w \in Consumers
  BY DEF Consumers
<1>1. CASE WorkerPop(w)
  BY <1>1, <1>a, PopSameWay DEF WorkerPop, Queues, AnswerLabels
<1>2. CASE WorkerExit(w)
  <2>1. OnlyMoves(w) /\ queue' = queue /\ pc[w] = "idle" /\ pc'[w] = "exited"
    BY <1>2, <1>a, ConsumerGoes DEF WorkerExit, PopNull, Leave, queueVars, OnlyMoves
  <2> QED
    BY <1>a, <2>1, MoveSameWay DEF AnswerLabels
<1>3. CASE WorkerNoResponse(w)
  <2>1. OnlyMoves(w) /\ queue' = queue /\ pc'[w] = "releasing" /\ Faults # {}
    BY <1>3, <1>a, ConsumerGoes DEF WorkerNoResponse, queueVars, OnlyMoves
  <2> QED
    BY <1>a, <2>1, MoveSameWay DEF AnswerLabels
<1>4. CASE WorkerSetupFails(w) \/ WorkerSetup(w) \/ WorkerPerform(w)
  <2>1. PICK l \in {"performing", "pushing"} : Goto(w, l)
    BY <1>4 DEF WorkerSetupFails, WorkerSetup, WorkerPerform, Answer
  <2>2. UNCHANGED <<job, queue>> /\ pc[w] \in {"setup", "performing"}
    BY <1>4 DEF WorkerSetupFails, WorkerSetup, WorkerPerform, Answer, queueVars
  <2>3. OnlyMoves(w) /\ pc'[w] \in {"performing", "pushing"}
    BY <1>a, <2>1, <2>2, ConsumerGoes DEF OnlyMoves
  <2> QED
    BY <1>a, <2>2, <2>3, MoveSameWay DEF AnswerLabels
<1>5. CASE WorkerPush(w)
  <2>1. OnlyMoves(w) /\ pc[w] = "pushing" /\ pc'[w] = "releasing"
    BY <1>5, <1>a, ConsumerGoes DEF WorkerPush, OnlyMoves
  <2>2. CASE Push("response", job[w])
    BY <1>a, <2>1, <2>2, PushSameWay DEF Queues, AnswerLabels
  <2>3. CASE PushFails("response", "push_response")
    <3>1. "response" \notin closed
      BY <2>1, InOrderImplies DEF DrainedInOrder, Feeds, Queues
    <3>2. Faults # {} /\ queue' = queue
      BY <2>3, <3>1 DEF PushFails, queueVars
    <3> QED
      BY <1>a, <2>1, <3>2, MoveSameWay DEF AnswerLabels
  <2> QED
    BY <1>5, <2>2, <2>3 DEF WorkerPush
<1>6. CASE WorkerRelease(w)
  <2>1. OnlyMoves(w) /\ queue' = queue /\ pc[w] = "releasing" /\ pc'[w] = "idle"
    BY <1>6, <1>a, ConsumerGoes DEF WorkerRelease, Release, queueVars, OnlyMoves, TypeOK, ThreadTypes
  <2> QED
    BY <1>a, <2>1, MoveSameWay DEF AnswerLabels
<1> QED
  BY <1>1, <1>2, <1>3, <1>4, <1>5, <1>6 DEF HttpWorker

LEMMA DispatcherWay ==
  ASSUME TypeOK, InOrder, DispatcherStep, NEW i
  PROVE  SameWay(Dispatcher, i)
<1>a. Dispatcher \in Consumers
  BY DEF Consumers
<1>1. CASE DispatcherPop
  BY <1>1, <1>a, PopSameWay DEF DispatcherPop, Queues, AnswerLabels
<1>2. CASE DispatcherExit
  <2>1. /\ OnlyMoves(Dispatcher) /\ queue' = queue
        /\ pc[Dispatcher] = "idle" /\ pc'[Dispatcher] = "exited"
    BY <1>2, <1>a, ConsumerGoes DEF DispatcherExit, PopNull, Leave, queueVars, OnlyMoves
  <2> QED
    BY <1>a, <2>1, MoveSameWay DEF AnswerLabels
<1>3. CASE DispatcherForward \/ DispatcherDrops
  <2>1. OnlyMoves(Dispatcher) /\ pc[Dispatcher] = "forwarding" /\ pc'[Dispatcher] = "idle"
    BY <1>3, <1>a, ConsumerGoes DEF DispatcherForward, DispatcherDrops, Release, OnlyMoves,
       TypeOK, ThreadTypes
  <2>2. CASE DispatcherForward
    BY <1>a, <2>1, <2>2, PushSameWay DEF DispatcherForward, Queues, AnswerLabels
  <2>3. CASE DispatcherDrops
    <3>1. "db" \notin closed
      BY <2>1, InOrderImplies DEF DrainedInOrder, Feeds, Queues
    <3>2. Faults # {} /\ queue' = queue
      BY <2>3, <3>1 DEF DispatcherDrops, PushFails, queueVars
    <3> QED
      BY <1>a, <2>1, <3>2, MoveSameWay DEF AnswerLabels
  <2> QED
    BY <1>3, <2>2, <2>3
<1> QED
  BY <1>1, <1>2, <1>3 DEF DispatcherStep

\* The INSERT aside, after which the case is stored.
LEMMA DbWorkerWay ==
  ASSUME TypeOK, DbWorkerStep, ~DbWorkerInsert, NEW i
  PROVE  SameWay(DbWorker, i)
<1>a. DbWorker \in Consumers
  BY DEF Consumers
<1>1. CASE DbWorkerPop
  BY <1>1, <1>a, PopSameWay DEF DbWorkerPop, Queues, AnswerLabels
<1>2. CASE DbWorkerExit \/ DbWorkerRowid \/ DbWorkerFree
  <2>1. /\ OnlyMoves(DbWorker) /\ queue' = queue
        /\ pc[DbWorker] \in {"idle", "reading", "logging", "freeing"}
        /\ pc'[DbWorker] \in {"idle", "exited", "logging"}
    BY <1>2, <1>a, ConsumerGoes DEF DbWorkerExit, PopNull, Leave, DbWorkerRowid, DbWorkerFree,
       Release, queueVars, OnlyMoves, TypeOK, ThreadTypes
  <2> QED
    BY <1>a, <2>1, MoveSameWay DEF AnswerLabels
<1>3. CASE DbWorkerInsertFails
  <2>1. OnlyMoves(DbWorker) /\ queue' = queue /\ pc'[DbWorker] = "freeing" /\ Faults # {}
    BY <1>3, <1>a, ConsumerGoes DEF DbWorkerInsertFails, queueVars, OnlyMoves
  <2> QED
    BY <1>a, <2>1, MoveSameWay DEF AnswerLabels
<1> QED
  BY <1>1, <1>2, <1>3 DEF DbWorkerStep

LEMMA InsertWay ==
  ASSUME TypeOK, DbWorkerInsert, NEW i
  PROVE  /\ UnderWay(i)' => UnderWay(i)
         /\ UnderWay(i) => UnderWay(i)' \/ i = job[DbWorker]
<1>1. /\ DbWorker \in Consumers /\ OnlyMoves(DbWorker) /\ queue' = queue
      /\ pc[DbWorker] = "inserting" /\ pc'[DbWorker] = "reading"
  BY ConsumerGoes DEF DbWorkerInsert, queueVars, OnlyMoves, Consumers
<1> QED
  BY <1>1, MovesWith, UnderWayIsWith DEF AnswerLabels

\* Main moves no case but the one it submits.
LEMMA MainWith ==
  ASSUME TypeOK, InOrder, NothingToDo, RunPlan, ~DispatchCase,
         NEW labels, "unborn" \notin labels, "idle" \notin labels,
         NEW lines, lines \subseteq Queues, NEW i
  PROVE  With(labels, lines, i)' <=> With(labels, lines, i)
<1>1. /\ job' = job
      /\ \A c \in Consumers : pc'[c] = pc[c] \/ (pc[c] = "unborn" /\ pc'[c] = "idle")
      /\ \A q \in Queues : queue'[q] = queue[q]
  <2>1. CASE HoldsNothing
    BY <2>1, HoldsNothingMoves, HoldsNothingUnborn, QueuesKept
  <2>2. CASE SubmitCase \/ SubmitFails \/ DispatchFails \/ FreeHeld
    <3>1. UNCHANGED <<job, queue>> /\ \E l : Goto(Main, l)
      BY <2>2 DEF SubmitCase, SubmitFails, DispatchFails, PushFails, FreeHeld, queueVars
    <3> QED
      BY <3>1 DEF Goto, TypeOK, ThreadTypes, Threads, Consumers
  <2> QED
    BY <2>1, <2>2 DEF RunPlan, HoldsNothing
<1> QED
  BY <1>1 DEF With

LEMMA SubmitWith ==
  ASSUME TypeOK, Bounded, DispatchCase, NEW i
  PROVE  /\ With(AnswerLabels, Queues, i)' <=> With(AnswerLabels, Queues, i) \/ i = current
         /\ With(DecidedLabels, DecidedLines, i)' <=> With(DecidedLabels, DecidedLines, i)
<1>1. /\ job' = job /\ \A c \in Consumers : pc'[c] = pc[c]
      /\ pc[Main] = "dispatching" /\ Push("request", current)
  BY DEF DispatchCase, Goto, TypeOK, ThreadTypes, Threads, Consumers
<1>2. PICK j \in Cases : j = current
  BY <1>1 DEF Bounded, TypeOK, RunTypes, Cases
<1>3. /\ queue["request"] \in Seq(Cases) /\ queue'["request"] = Append(queue["request"], j)
      /\ \A r \in Queues \ {"request"} : queue'[r] = queue[r]
  BY <1>1, <1>2 DEF Push, AtBack, TypeOK, ObjectTypes, Queues
<1>4. Range(queue'["request"]) = Range(queue["request"]) \cup {j}
  BY <1>3, PushRange
<1>5. With(AnswerLabels, Queues, i)' <=> With(AnswerLabels, Queues, i) \/ i = j
  BY <1>1, <1>3, <1>4 DEF With, Queues
<1>6. With(DecidedLabels, DecidedLines, i)' <=> With(DecidedLabels, DecidedLines, i)
  BY <1>1, <1>3 DEF With, Queues, DecidedLines
<1> QED
  BY <1>2, <1>5, <1>6

-----------------------------------------------------------------------------
(* Cases without assertions *)

\* The answer to case i is known, and not stored yet.
Decided(i)    == With(DecidedLabels, DecidedLines, i)

\* What is known of case i cannot fail it, if it asserts nothing.
Harmless(i) == i \in Asserting \/ answer[i].meets

KnownHarmless == \A i \in Cases : Decided(i) => Harmless(i)
RowsHarmless  == \A k \in DOMAIN responses :
                    responses[k].origin \in Asserting \/ responses[k].meets

AllHarmless == KnownHarmless /\ RowsHarmless

LEMMA InitHarmless == Init => AllHarmless
<1> SUFFICES ASSUME Init PROVE AllHarmless
  OBVIOUS
<1>1. \A c \in Consumers : pc[c] = "unborn"
  BY DEF Init, Threads, Consumers
<1>2. \A q \in Queues : Range(queue[q]) = {}
  BY DEF Init, Range
<1>3. \A k \in DOMAIN responses : responses[k].meets
  BY DEF Init, DbInit
<1> QED
  BY <1>1, <1>2, <1>3 DEF AllHarmless, KnownHarmless, RowsHarmless, Decided, With,
     DecidedLabels, DecidedLines, Queues

LEMMA HarmlessKept ==
  ASSUME AllHarmless, \A i \in Cases : Harmless(i) => Harmless(i)',
         \A i \in Cases : Decided(i)' => Decided(i) \/ Harmless(i)',
         responses' = responses
  PROVE  AllHarmless'
BY DEF AllHarmless, KnownHarmless, RowsHarmless

LEMMA MoveHarmless ==
  ASSUME AllHarmless, NEW c \in Consumers, OnlyMoves(c), UNCHANGED <<queue, answer, responses>>,
         pc'[c] \notin DecidedLabels
  PROVE  AllHarmless'
<1>1. \A i \in Cases : Decided(i)' => Decided(i)
  BY MovesWith DEF Decided
<1> QED
  BY <1>1, HarmlessKept DEF Harmless

LEMMA PopHarmless ==
  ASSUME TypeOK, AllHarmless, NEW q \in Queues, NEW c \in Consumers, NEW l, Pop(c, q, l),
         l \in DecidedLabels <=> q \in DecidedLines, UNCHANGED <<answer, responses>>
  PROVE  AllHarmless'
<1>1. \A i \in Cases : Decided(i)' => Decided(i)
  BY PopWith DEF Decided, DecidedLabels, DecidedLines, Queues
<1> QED
  BY <1>1, HarmlessKept DEF Harmless

LEMMA PushHarmless ==
  ASSUME TypeOK, AllHarmless, NEW q \in DecidedLines, NEW c \in Consumers,
         pc[c] \in DecidedLabels, Push(q, job[c]), pc'[c] \notin DecidedLabels, OnlyMoves(c),
         UNCHANGED <<answer, responses>>
  PROVE  AllHarmless'
<1>1. PICK j \in Cases : j = job[c]
  BY DEF TypeOK, ThreadTypes, DecidedLabels, Idle
<1>2. Push(q, j)
  BY <1>1
<1>3. \A i \in Cases : Decided(i)' => Decided(i)
  BY <1>1, <1>2, PushWith DEF Decided, DecidedLines, Queues
<1> QED
  BY <1>3, HarmlessKept DEF Harmless

\* Every answer to a case without assertions meets them.
LEMMA AnswerHarmless ==
  ASSUME TypeOK, AllHarmless, NEW w \in Workers, pc[w] \in WorkerLabels,
         NEW ok, NEW made, NEW l, Answer(w, ok, made, l)
  PROVE  AllHarmless'
<1>1. PICK i \in Cases : i = job[w]
  BY DEF TypeOK, ThreadTypes, Consumers, WorkerLabels, Idle
<1>2. PICK m \in BOOLEAN : /\ i \in Asserting \/ m
                           /\ answer' = [answer EXCEPT ![i] = [ok |-> ok, meets |-> m]]
  BY <1>1 DEF Answer
<1>3. /\ answer'[i].meets = m
      /\ \A j \in Cases \ {i} : answer'[j] = answer[j]
  BY <1>2 DEF TypeOK, ObjectTypes
<1>4. Harmless(i)' /\ \A j \in Cases : Harmless(j) => Harmless(j)'
  BY <1>2, <1>3 DEF Harmless
<1>5. w \in Consumers /\ OnlyMoves(w) /\ job' = job /\ UNCHANGED <<queue, responses>>
  BY ConsumerGoes DEF Answer, Consumers, OnlyMoves, queueVars, dbVars
<1>6. ASSUME NEW j \in Cases, Decided(j)', j # i PROVE Decided(j)
  BY <1>1, <1>5, <1>6 DEF Decided, With, OnlyMoves
<1> QED
  BY <1>4, <1>5, <1>6, HarmlessKept

LEMMA HttpWorkerHarmless ==
  ASSUME TypeOK, AllHarmless, NEW w \in Workers, HttpWorker(w)
  PROVE  AllHarmless'
<1>a. w \in Consumers
  BY DEF Consumers
<1>1. CASE WorkerPop(w)
  BY <1>1, <1>a, PopHarmless DEF WorkerPop, Queues, DecidedLabels, DecidedLines, heapVars, dbVars
<1>2. CASE WorkerSetupFails(w)
  BY <1>2, AnswerHarmless DEF WorkerSetupFails, WorkerLabels
<1>3. CASE WorkerPerform(w)
  BY <1>3, AnswerHarmless DEF WorkerPerform, WorkerLabels
<1>4. CASE WorkerPush(w)
  <2>1. /\ OnlyMoves(w) /\ pc[w] = "pushing" /\ pc'[w] = "releasing"
        /\ UNCHANGED <<answer, responses>>
    BY <1>4, <1>a, ConsumerGoes DEF WorkerPush, OnlyMoves, dbVars
  <2>2. CASE Push("response", job[w])
    BY <1>a, <2>1, <2>2, PushHarmless DEF DecidedLabels, DecidedLines
  <2>3. CASE queue' = queue
    BY <1>a, <2>1, <2>3, MoveHarmless DEF DecidedLabels
  <2> QED
    BY <1>4, <2>2, <2>3 DEF WorkerPush, PushFails, queueVars
<1>5. CASE WorkerExit(w) \/ WorkerNoResponse(w) \/ WorkerSetup(w) \/ WorkerRelease(w)
  <2>1. UNCHANGED <<queue, answer, responses>>
    BY <1>5 DEF WorkerExit, PopNull, WorkerNoResponse, WorkerSetup, WorkerRelease, queueVars,
       heapVars, dbVars
  <2>2. \E l \in {"idle", "exited", "performing", "releasing"} : Goto(w, l)
    BY <1>5 DEF WorkerExit, PopNull, Leave, WorkerNoResponse, WorkerSetup, WorkerRelease, Release
  <2>3. \A d \in Consumers \ {w} : job'[d] = job[d]
    BY <1>5 DEF WorkerExit, PopNull, WorkerNoResponse, WorkerSetup, WorkerRelease, Release,
       TypeOK, ThreadTypes
  <2>4. OnlyMoves(w) /\ pc'[w] \notin DecidedLabels
    BY <1>a, <2>2, <2>3, ConsumerGoes DEF OnlyMoves, DecidedLabels
  <2> QED
    BY <1>a, <2>1, <2>4, MoveHarmless
<1> QED
  BY <1>1, <1>2, <1>3, <1>4, <1>5 DEF HttpWorker

LEMMA DispatcherHarmless ==
  ASSUME TypeOK, AllHarmless, DispatcherStep
  PROVE  AllHarmless'
<1>a. Dispatcher \in Consumers
  BY DEF Consumers
<1>b. UNCHANGED <<answer, responses>>
  BY DEF DispatcherStep, DispatcherPop, DispatcherExit, PopNull, DispatcherForward,
         DispatcherDrops, heapVars, dbVars
<1>1. CASE DispatcherPop
  BY <1>1, <1>a, <1>b, PopHarmless DEF DispatcherPop, Queues, DecidedLabels, DecidedLines
<1>2. CASE ~DispatcherPop
  <2>1. OnlyMoves(Dispatcher) /\ pc'[Dispatcher] \in {"idle", "exited"}
    BY <1>2, <1>a, ConsumerGoes DEF DispatcherStep, DispatcherExit, PopNull, Leave,
       DispatcherForward, DispatcherDrops, Release, OnlyMoves, TypeOK, ThreadTypes
  <2>2. CASE queue' = queue
    BY <1>a, <1>b, <2>1, <2>2, MoveHarmless DEF DecidedLabels
  <2>3. CASE DispatcherForward
    BY <1>a, <1>b, <2>1, <2>3, PushHarmless DEF DispatcherForward, DecidedLabels, DecidedLines
  <2> QED
    BY <1>2, <2>2, <2>3 DEF DispatcherStep, DispatcherExit, PopNull, DispatcherDrops,
       PushFails, queueVars
<1> QED
  BY <1>1, <1>2

LEMMA DbWorkerHarmless ==
  ASSUME TypeOK, AllHarmless, DbWorkerStep
  PROVE  AllHarmless'
<1>a. DbWorker \in Consumers
  BY DEF Consumers
<1>b. answer' = answer
  BY DEF DbWorkerStep, DbWorkerPop, DbWorkerExit, PopNull, DbWorkerInsert, DbWorkerInsertFails,
         DbWorkerRowid, DbWorkerFree, heapVars
<1>1. CASE DbWorkerPop
  BY <1>1, <1>a, <1>b, PopHarmless DEF DbWorkerPop, Queues, DecidedLabels, DecidedLines, dbVars
<1>2. CASE ~DbWorkerPop
  <2>1. /\ OnlyMoves(DbWorker) /\ queue' = queue /\ pc'[DbWorker] \notin DecidedLabels
    BY <1>2, <1>a, ConsumerGoes DEF DbWorkerStep, DbWorkerExit, PopNull, Leave, DbWorkerInsert,
       DbWorkerInsertFails, DbWorkerRowid, DbWorkerFree, Release, OnlyMoves, DecidedLabels,
       queueVars, TypeOK, ThreadTypes
  <2>2. CASE responses' = responses
    BY <1>a, <1>b, <2>1, <2>2, MoveHarmless
  <2>3. CASE DbWorkerInsert
    <3>1. PICK i \in Cases : i = job[DbWorker]
      BY <1>a, <2>3 DEF TypeOK, ThreadTypes, DbWorkerInsert, Idle
    <3>2. Harmless(i)
      BY <1>a, <2>3, <3>1 DEF AllHarmless, KnownHarmless, Decided, With, DecidedLabels, DbWorkerInsert
    <3>3. PICK row : responses' = Append(responses, row) /\ row.origin = i
                     /\ row.meets = answer[i].meets
      <4>1. InsertResponse(i)
        BY <2>3, <3>1 DEF DbWorkerInsert
      <4> QED
        BY ONLY <4>1 DEF InsertResponse
    <3>4. /\ DOMAIN responses' = DOMAIN responses \cup {Len(responses) + 1}
          /\ responses'[Len(responses) + 1] = row
          /\ \A k \in DOMAIN responses : responses'[k] = responses[k]
      BY <3>3, LenProperties, AppendProperties DEF TypeOK, TableTypes
    <3>5. RowsHarmless'
      BY <3>2, <3>3, <3>4 DEF AllHarmless, RowsHarmless, Harmless
    <3>6. KnownHarmless'
      <4>1. \A j \in Cases : Decided(j)' => Decided(j)
        BY <1>a, <2>1, MovesWith DEF Decided
      <4> QED
        BY <1>b, <4>1 DEF AllHarmless, KnownHarmless, Harmless
    <3> QED
      BY <3>5, <3>6 DEF AllHarmless
  <2> QED
    BY <1>2, <2>2, <2>3 DEF DbWorkerStep, DbWorkerExit, PopNull, DbWorkerInsertFails,
       DbWorkerRowid, ReadRowid, DbWorkerFree, dbVars
<1> QED
  BY <1>1, <1>2

LEMMA RunPlanHarmless ==
  ASSUME TypeOK, Bounded, InOrder, NothingToDo, AllHarmless, RunPlan
  PROVE  AllHarmless'
<1>1. UNCHANGED <<answer, responses>>
  BY DEF RunPlan, RunRefused, OpenDatabase, NoRuntime, StartThread, StartFails, RuntimeReady,
         SubmitCase, SaveRequestRow, SubmitFails, DispatchCase, DispatchFails, AllDispatched,
         WaitStep, CaseAnswered, CaseTimedOut, PollMisses, PollAgain, AllWaited, FreeHeld,
         DestroyRuntime, CloseRequestQueue, CloseResponseQueue, CloseDbQueue, Shutdown,
         JoinWorkers, JoinDispatcher, JoinDbWorker, Join, FreeRuntime, CloseDatabase,
         heapVars, dbVars
<1>2. \A i \in Cases : Decided(i)' => Decided(i)
  <2>1. CASE DispatchCase
    BY <2>1, SubmitWith DEF Decided
  <2>2. CASE ~DispatchCase
    BY <2>2, MainWith DEF Decided, DecidedLabels, DecidedLines, Queues
  <2> QED
    BY <2>1, <2>2
<1> QED
  BY <1>1, <1>2, HarmlessKept DEF Harmless

LEMMA StepHarmless ==
  TypeOK /\ Bounded /\ InOrder /\ NothingToDo /\ AllHarmless /\ [Next]_vars => AllHarmless'
<1> SUFFICES ASSUME TypeOK, Bounded, InOrder, NothingToDo, AllHarmless, [Next]_vars
             PROVE  AllHarmless'
  OBVIOUS
<1>1. CASE UNCHANGED vars
  BY <1>1, HarmlessKept DEF Harmless, Decided, With, vars, threadVars, queueVars, heapVars, dbVars
<1> QED
  BY <1>1, RunPlanHarmless, HttpWorkerHarmless, DispatcherHarmless, DbWorkerHarmless
     DEF Next, Returned

-----------------------------------------------------------------------------
(* The mapping *)

\* What the mapping puts for the variables of CaseRun that are not Engine's.
Phases   == [i \in Cases |-> Phase(i)]
Verdicts == [i \in Cases |-> Verdict(i)]
Done     == pc[Main] = "done"
Exit     == IF Done THEN exitCode ELSE 1

LEMMA PhaseKept ==
  ASSUME NEW i, i \in submitted' <=> i \in submitted, responses' = responses,
         UnderWay(i)' <=> UnderWay(i)
  PROVE  Phase(i)' = Phase(i)
BY DEF Phase, Stored

LEMMA VerdictKept ==
  ASSUME Judged' <=> Judged, UNCHANGED <<current, result>>, NEW i
  PROVE  Verdict(i)' = Verdict(i)
BY DEF Verdict

LEMMA PhasesChange ==
  ASSUME NEW x \in Cases, NEW p, Phase(x)' = p, \A j \in Cases \ {x} : Phase(j)' = Phase(j)
  PROVE  Phases' = [Phases EXCEPT ![x] = p]
BY DEF Phases

LEMMA VerdictsChange ==
  ASSUME NEW x \in Cases, NEW v, Verdict(x)' = v, \A j \in Cases \ {x} : Verdict(j)' = Verdict(j)
  PROVE  Verdicts' = [Verdicts EXCEPT ![x] = v]
BY DEF Verdicts

\* What main shows of a run does not change in a step of a thread.
LEMMA MainSame ==
  ASSUME pc'[Main] = pc[Main], UNCHANGED mainVars
  PROVE  /\ UNCHANGED <<caseCount, Verdicts, Done, Exit>>
         /\ \A i : i \in submitted' <=> i \in submitted
<1>1. Judged' <=> Judged
  BY DEF Judged, mainVars
<1>2. \A i \in Cases : Verdict(i)' = Verdict(i)
  BY <1>1, VerdictKept DEF mainVars, waitVars
<1> QED
  BY <1>2 DEF mainVars, waitVars, Verdicts, Done, Exit

\* A step CaseRun does not notice.
LEMMA Unnoticed ==
  ASSUME UNCHANGED <<caseCount, Phases, Verdicts, Done, Exit>>
  PROVE  UNCHANGED R!vars
BY DEF R!vars, Phases, Verdicts, Done, Exit

LEMMA LoseMaps ==
  ASSUME NEW x \in Cases, Faults # {}, ~Done, Phase(x) = "submitted",
         Phases' = [Phases EXCEPT ![x] = "lost"],
         UNCHANGED <<caseCount, Verdicts, Done, Exit>>
  PROVE  R!Next
<1>1. R!Lose(x)
  BY DEF R!Lose, Phases, Verdicts, Done, Exit
<1> QED
  BY <1>1 DEF R!Next, R!Cases, Cases

LEMMA RecordMaps ==
  ASSUME NEW x \in Cases, ~Done, Phase(x) = "submitted",
         NEW p \in {"met", "unmet"}, Phases' = [Phases EXCEPT ![x] = p],
         UNCHANGED <<caseCount, Verdicts, Done, Exit>>
  PROVE  R!Next
<1>1. R!Record(x)
  BY DEF R!Record, R!Recorded, Phases, Verdicts, Done, Exit
<1> QED
  BY <1>1 DEF R!Next, R!Cases, Cases

LEMMA SubmitMaps ==
  ASSUME NEW x \in Cases, ~Done, x <= caseCount, caseCount <= MaxCases, Phase(x) = "planned",
         \A j \in 1 .. x - 1 : Phase(j) # "planned",
         Phases' = [Phases EXCEPT ![x] = "submitted"],
         UNCHANGED <<caseCount, Verdicts, Done, Exit>>
  PROVE  R!Next
<1>1. \A j \in 1 .. x - 1 : Phases[j] # "planned"
  BY DEF Phases, Cases
<1>2. R!Submit(x)
  BY <1>1 DEF R!Submit, Phases, Verdicts, Done, Exit
<1> QED
  BY <1>2 DEF R!Next, R!Cases, Cases

LEMMA JudgeMaps ==
  ASSUME NEW x \in Cases, ~Done, x <= caseCount, caseCount \in 0 .. MaxCases, Verdict(x) = "none",
         \A j \in 1 .. caseCount : Phase(j) # "planned" /\ (j < x => Verdict(j) # "none"),
         NEW v, v = "missing" \/ (v = "answered" /\ Phase(x) \in {"met", "unmet"}),
         Verdicts' = [Verdicts EXCEPT ![x] = v],
         UNCHANGED <<caseCount, Phases, Done, Exit>>
  PROVE  R!Next
<1>1. \A j \in 1 .. caseCount : Phases[j] # "planned" /\ (j < x => Verdicts[j] # "none")
  BY DEF Phases, Verdicts, Cases
<1>2. R!Judge(x)
  BY <1>1 DEF R!Judge, R!Recorded, Phases, Verdicts, Done, Exit
<1> QED
  BY <1>2 DEF R!Next, R!Cases, Cases

LEMMA EndMaps ==
  ASSUME caseCount \in Nat, ~Done, \A i \in Cases : Phase(i) # "submitted", Done', Exit' \in {0, 1},
         Exit' = 0 => /\ caseCount <= MaxCases
                      /\ \A i \in 1 .. caseCount : Verdict(i) = "answered" /\ Phase(i) = "met",
         UNCHANGED <<caseCount, Phases, Verdicts>>
  PROVE  R!Next
<1>1. Exit' = 0 => R!AllMet
  <2>1. CASE Exit' = 0
    <3>1. \A i \in 1 .. caseCount : i \in Cases
      BY <2>1 DEF Cases
    <3>2. \A i \in 1 .. caseCount : Verdicts[i] = "answered" /\ Phases[i] = "met"
      BY <2>1, <3>1 DEF Verdicts, Phases
    <3> QED
      BY <2>1, <3>2 DEF R!AllMet, Verdicts, Phases
  <2> QED
    BY <2>1
<1>2. Exit' \in IF R!AllMet THEN {0, 1} ELSE {1}
  BY <1>1
<1>3. R!End
  BY <1>2 DEF R!End, R!Cases, Cases, Phases, Verdicts, Done, Exit
<1> QED
  BY <1>3 DEF R!Next

-----------------------------------------------------------------------------
(* The steps of the threads *)

\* The answer a thread works on was asked for and is not stored.
LEMMA NotStoredYet ==
  ASSUME TypeOK, Owned, NEW c \in Consumers, pc[c] \in AnswerLabels, NEW i, job[c] = i
  PROVE  /\ i \in submitted /\ i \in Cases /\ ~Stored(i) /\ UnderWay(i)
         /\ Phase(i) = "submitted"
<1>1. PICK H : H = At(AnswerLabels, Queues, Origins)
  OBVIOUS
<1>2. Apart(H) /\ \A s \in Seats : H[s] \subseteq submitted
  BY <1>1 DEF Owned, AnswersSpread, Spread
<1>3. /\ Seat(c) \in Seats /\ H[Seat(c)] = Taken(c, AnswerLabels)
      /\ Table \in Seats /\ H[Table] = Origins /\ Seat(c) # Table
  BY <1>1, AtSeats, OtherSeats
<1>4. i \in H[Seat(c)]
  BY <1>3 DEF Taken
<1>5. i \in submitted /\ i \notin Origins
  BY <1>2, <1>3, <1>4 DEF Apart
<1>6. i \in Cases /\ i # 0
  <2>1. i \in Cases
    BY <1>5 DEF TypeOK, RunTypes
  <2> QED
    BY <2>1 DEF Cases
<1>7. ~Stored(i)
  BY <1>5, <1>6 DEF Stored, Origins
<1>8. UnderWay(i)
  BY DEF UnderWay, Answering, AnswerLabels
<1> QED
  BY <1>5, <1>6, <1>7, <1>8 DEF Phase, Stored

LEMMA WorkingNotDone ==
  ASSUME InOrder, NEW c \in Consumers, pc[c] \in AnswerLabels
  PROVE  ~Done
<1>1. PICK q \in Queues : c \in Takes(q)
  BY DEF Consumers, Queues, Takes
<1> QED
  BY <1>1 DEF InOrder, JoinedStayGone, AfterJoin, Done, Gone, AnswerLabels

\* A thread hands its case on, which nobody notices, or gives it up.
LEMMA ThreadMaps ==
  ASSUME TypeOK, InOrder, Owned, NEW c \in Consumers, \A i : SameWay(c, i),
         responses' = responses, pc'[Main] = pc[Main], UNCHANGED mainVars
  PROVE  [R!Next]_R!vars
<1>1. UNCHANGED <<caseCount, Verdicts, Done, Exit>> /\ submitted' = submitted
  BY MainSame DEF mainVars
<1>2. ASSUME NEW i, UnderWay(i)' <=> UnderWay(i) PROVE Phase(i)' = Phase(i)
  BY <1>1, <1>2, PhaseKept
<1>3. CASE \A i \in Cases : UnderWay(i)' <=> UnderWay(i)
  <2>1. Phases' = Phases
    BY <1>2, <1>3 DEF Phases
  <2> QED
    BY <1>1, <2>1, Unnoticed
<1>4. CASE ~ \A i \in Cases : UnderWay(i)' <=> UnderWay(i)
  <2>1. PICK x \in Cases : ~ (UnderWay(x)' <=> UnderWay(x))
    BY <1>4
  <2>2. GivesUp(c, x) /\ ~UnderWay(x)'
    BY <2>1 DEF SameWay
  <2>3. Faults # {} /\ pc[c] \in AnswerLabels /\ job[c] = x
    BY <2>2 DEF GivesUp
  <2>4. x \in submitted /\ ~Stored(x) /\ Phase(x) = "submitted"
    BY <2>3, NotStoredYet
  <2>5. Phase(x)' = "lost"
    BY <1>1, <2>2, <2>4 DEF Phase, Stored
  <2>6. ASSUME NEW j \in Cases \ {x} PROVE Phase(j)' = Phase(j)
    <3>1. ~GivesUp(c, j)
      BY <2>3 DEF GivesUp
    <3> QED
      BY <1>2, <3>1 DEF SameWay
  <2>7. Phases' = [Phases EXCEPT ![x] = "lost"]
    BY <2>5, <2>6, PhasesChange
  <2>8. ~Done
    BY <2>3, WorkingNotDone
  <2> QED
    BY <1>1, <2>3, <2>4, <2>7, <2>8, LoseMaps
<1> QED
  BY <1>3, <1>4

LEMMA InsertMaps ==
  ASSUME TypeOK, InOrder, Owned, DbWorkerInsert
  PROVE  [R!Next]_R!vars
<1>1. UNCHANGED <<caseCount, Verdicts, Done, Exit>> /\ submitted' = submitted
  <2>1. pc'[Main] = pc[Main] /\ UNCHANGED mainVars
    BY DbWorkerTypes DEF DbWorkerStep
  <2> QED
    BY <2>1, MainSame DEF mainVars
<1>2. DbWorker \in Consumers /\ pc[DbWorker] \in AnswerLabels
  BY DEF Consumers, DbWorkerInsert, AnswerLabels
<1>3. PICK x : x = job[DbWorker]
  OBVIOUS
<1>4. x \in submitted /\ x \in Cases /\ ~Stored(x) /\ Phase(x) = "submitted"
  BY <1>2, <1>3, NotStoredYet
<1>5. PICK row : responses' = Append(responses, row) /\ row.origin = x
  <2>1. InsertResponse(x)
    BY <1>3 DEF DbWorkerInsert
  <2> QED
    BY ONLY <2>1 DEF InsertResponse
<1>6. /\ DOMAIN responses' = DOMAIN responses \cup {Len(responses) + 1}
      /\ responses'[Len(responses) + 1] = row
      /\ \A k \in DOMAIN responses : responses'[k] = responses[k]
  BY <1>5, LenProperties, AppendProperties DEF TypeOK, TableTypes
<1>7. Stored(x)'
  BY <1>5, <1>6 DEF Stored
<1>8. PICK p \in {"met", "unmet"} : Phase(x)' = p
  BY <1>1, <1>4, <1>7 DEF Phase
<1>9. ASSUME NEW j \in Cases \ {x} PROVE Phase(j)' = Phase(j)
  <2>1. UnderWay(j)' <=> UnderWay(j)
    BY <1>3, InsertWay
  <2>2. Stored(j)' <=> Stored(j)
    BY <1>5, <1>6 DEF Stored
  <2>3. (\E k \in DOMAIN responses : responses[k].origin = j /\ responses[k].meets)'
          <=> \E k \in DOMAIN responses : responses[k].origin = j /\ responses[k].meets
    BY <1>5, <1>6
  <2> QED
    BY <1>1, <2>1, <2>2, <2>3 DEF Phase
<1>10. Phases' = [Phases EXCEPT ![x] = p]
  BY <1>4, <1>8, <1>9, PhasesChange
<1> QED
  BY <1>1, <1>2, <1>4, <1>10, WorkingNotDone, RecordMaps

LEMMA ConsumersMap ==
  ASSUME TypeOK, InOrder, Owned,
         DispatcherStep \/ DbWorkerStep \/ \E w \in Workers : HttpWorker(w)
  PROVE  [R!Next]_R!vars
<1>1. ASSUME NEW w \in Workers, HttpWorker(w) PROVE [R!Next]_R!vars
  <2>1. w \in Consumers /\ \A i : SameWay(w, i)
    BY <1>1, HttpWorkerWay DEF Consumers
  <2>2. responses' = responses
    BY <1>1 DEF HttpWorker, WorkerPop, WorkerExit, PopNull, WorkerNoResponse, WorkerSetupFails,
       WorkerSetup, WorkerPerform, Answer, WorkerPush, WorkerRelease, dbVars
  <2> QED
    BY <1>1, <2>1, <2>2, HttpWorkerTypes, ThreadMaps
<1>2. CASE DispatcherStep
  <2>1. Dispatcher \in Consumers /\ \A i : SameWay(Dispatcher, i)
    BY <1>2, DispatcherWay DEF Consumers
  <2>2. responses' = responses
    BY <1>2 DEF DispatcherStep, DispatcherPop, DispatcherExit, PopNull, DispatcherForward,
       DispatcherDrops, dbVars
  <2> QED
    BY <1>2, <2>1, <2>2, DispatcherTypes, ThreadMaps
<1>3. CASE DbWorkerStep /\ ~DbWorkerInsert
  <2>1. DbWorker \in Consumers /\ \A i : SameWay(DbWorker, i)
    BY <1>3, DbWorkerWay DEF Consumers
  <2>2. responses' = responses
    BY <1>3 DEF DbWorkerStep, DbWorkerPop, DbWorkerExit, PopNull, DbWorkerInsertFails,
       DbWorkerRowid, ReadRowid, DbWorkerFree, dbVars
  <2> QED
    BY <1>3, <2>1, <2>2, DbWorkerTypes, ThreadMaps
<1> QED
  BY <1>1, <1>2, <1>3, InsertMaps

-----------------------------------------------------------------------------
(* The steps of main *)

LEMMA MainPhases ==
  ASSUME TypeOK, InOrder, NothingToDo, RunPlan, ~DispatchCase
  PROVE  Phases' = Phases
<1>1. UNCHANGED <<submitted, responses>>
  BY DEF RunPlan, RunRefused, OpenDatabase, NoRuntime, StartThread, StartFails, RuntimeReady,
         SubmitCase, SaveRequestRow, SubmitFails, DispatchFails, AllDispatched, WaitStep,
         CaseAnswered, CaseTimedOut, PollMisses, PollAgain, AllWaited, FreeHeld, DestroyRuntime,
         CloseRequestQueue, CloseResponseQueue, CloseDbQueue, Shutdown, JoinWorkers,
         JoinDispatcher, JoinDbWorker, Join, FreeRuntime, CloseDatabase, mainVars, waitVars, dbVars
<1>2. \A i : UnderWay(i)' <=> UnderWay(i)
  BY MainWith, UnderWayIsWith DEF AnswerLabels
<1> QED
  BY <1>1, <1>2, PhaseKept DEF Phases

\* No verdict is given as long as main submits, and none is when it stops there.
LEMMA NotJudged == pc[Main] \in Submitting => ~Judged
BY DEF Judged, Submitting

LEMMA NoVerdict ==
  /\ ~Judged \/ current = 1 => \A i \in Cases : Verdict(i) = "none"
  /\ ~Judged' \/ current' = 1 => \A i \in Cases : Verdict(i)' = "none"
BY DEF Verdict, Cases

LEMMA StopsEarly ==
  ASSUME TypeOK, Bounded, Progress,
         RunRefused \/ NoRuntime \/ StartFails \/ SubmitFails \/ DispatchFails
  PROVE  UNCHANGED <<caseCount, Verdicts>> /\ ~Done /\ ~Done'
<1>1. /\ pc[Main] \in Submitting /\ pc'[Main] \in {"closing", "close_request", "cleanup"}
      /\ current = 1 \/ current <= caseCount
  BY MainAt DEF RunRefused, NoRuntime, StartFails, SubmitFails, DispatchFails, Progress, Filled,
     Bounded, Submitting
<1>2. UNCHANGED <<caseCount, current>>
  BY DEF RunRefused, NoRuntime, StartFails, SubmitFails, DispatchFails, mainVars
<1>3. current \in Nat /\ caseCount \in Nat
  BY DEF TypeOK, RunTypes
<1>4. ~Judged' \/ current' = 1
  BY <1>1, <1>2, <1>3 DEF Judged
<1>5. \A i \in Cases : Verdict(i) = "none" /\ Verdict(i)' = "none"
  BY <1>1, <1>4, NotJudged, NoVerdict
<1> QED
  BY <1>1, <1>2, <1>5 DEF Verdicts, Done, Submitting

LEMMA GoesOn ==
  ASSUME TypeOK, Bounded, Progress,
         \/ OpenDatabase \/ StartThread \/ RuntimeReady \/ SubmitCase \/ AllDispatched
  PROVE  UNCHANGED <<caseCount, Verdicts>> /\ ~Done /\ ~Done'
<1>1. caseCount' = caseCount
  BY DEF OpenDatabase, StartThread, RuntimeReady, SubmitCase, AllDispatched, mainVars
<1>2. /\ pc[Main] \in Submitting
      /\ \/ pc'[Main] \in Submitting
         \/ pc'[Main] = "polling" /\ current' = 1
  <2>1. CASE StartThread
    BY <2>1 DEF StartThread, Goto, TypeOK, ThreadTypes, Threads, Consumers, Submitting
  <2>2. CASE OpenDatabase \/ RuntimeReady \/ SubmitCase
    BY <2>2, MainAt DEF OpenDatabase, RuntimeReady, SubmitCase, Submitting
  <2>3. CASE AllDispatched
    BY <2>3, MainAt DEF AllDispatched, Submitting
  <2> QED
    BY <2>1, <2>2, <2>3
<1>3. ~Judged' \/ current' = 1
  BY <1>2 DEF Judged, Submitting
<1>4. \A i \in Cases : Verdict(i) = "none" /\ Verdict(i)' = "none"
  BY <1>2, <1>3, NotJudged, NoVerdict
<1> QED
  BY <1>1, <1>2, <1>4 DEF Verdicts, Done, Submitting

\* Nothing is judged while main sleeps, and nothing changes after the verdicts.
LEMMA JudgesNothing ==
  ASSUME TypeOK, Bounded, Progress,
         \/ PollMisses \/ PollAgain(Timeout(current)) \/ AllWaited
         \/ FreeHeld \/ DestroyRuntime \/ CloseDatabase
  PROVE  UNCHANGED <<caseCount, Verdicts>> /\ ~Done /\ (~Done' \/ CloseDatabase)
<1>1. UNCHANGED <<caseCount, current, submitted, result>>
  BY DEF PollMisses, PollAgain, AllWaited, FreeHeld, DestroyRuntime, CloseRequestQueue,
         CloseResponseQueue, CloseDbQueue, Shutdown, JoinWorkers, JoinDispatcher, JoinDbWorker,
         Join, FreeRuntime, CloseDatabase, mainVars, waitVars
<1>2. CASE PollMisses \/ PollAgain(Timeout(current))
  <2>1. pc[Main] \in Waiting /\ pc'[Main] \in Waiting
    BY <1>2, MainAt DEF PollMisses, PollAgain, Waiting
  <2>2. Judged' <=> Judged
    BY <2>1 DEF Judged, Waiting
  <2> QED
    BY <1>1, <2>1, <2>2, VerdictKept DEF Verdicts, Done, Waiting
<1>3. CASE AllWaited
  <2>1. pc[Main] = "polling" /\ pc'[Main] = "cleanup" /\ current > caseCount
    BY <1>3, MainAt DEF AllWaited
  <2>2. caseCount <= MaxCases /\ submitted = 1 .. caseCount
    BY <2>1 DEF Bounded, Progress, Awaited, Waiting
  <2>3. Judged' <=> Judged
    BY <1>1, <2>1, <2>2 DEF Judged
  <2> QED
    BY <1>1, <2>1, <2>3, VerdictKept DEF Verdicts, Done
<1>4. CASE FreeHeld \/ DestroyRuntime \/ CloseDatabase
  <2>1. /\ pc[Main] \notin Submitting \cup Waiting \cup {"done"}
        /\ pc'[Main] \notin Submitting \cup Waiting
        /\ pc'[Main] # "done" \/ CloseDatabase
    BY <1>4, MainAt DEF FreeHeld, DestroyRuntime, CloseRequestQueue, CloseResponseQueue,
       CloseDbQueue, Shutdown, JoinWorkers, JoinDispatcher, JoinDbWorker, Join, FreeRuntime,
       CloseDatabase, Submitting, Waiting
  <2>2. Judged' <=> Judged
    BY <1>1, <2>1 DEF Judged, Submitting, Waiting
  <2> QED
    BY <1>1, <2>1, <2>2, VerdictKept DEF Verdicts, Done
<1> QED
  BY <1>2, <1>3, <1>4

LEMMA DispatchMaps ==
  ASSUME TypeOK, Bounded, Owned, Progress, DispatchCase
  PROVE  R!Next
<1>1. /\ pc[Main] = "dispatching" /\ pc'[Main] = "submitting"
      /\ submitted' = submitted \cup {current}
      /\ UNCHANGED <<caseCount, responses>>
  BY MainAt DEF DispatchCase, dbVars
<1>2. PICK x \in Cases : x = current
  BY <1>1 DEF Bounded, TypeOK, RunTypes, Cases
<1>3. x <= caseCount /\ caseCount <= MaxCases /\ submitted = 1 .. x - 1
  BY <1>1, <1>2 DEF Bounded, Progress, Filled, Submitting
<1>4. x \notin submitted
  BY <1>3 DEF Cases
<1>5. ~Stored(x)
  <2>1. Origins \subseteq submitted
    BY AtSeats DEF Owned, AnswersSpread, Spread
  <2> QED
    BY <1>4, <2>1 DEF Stored, Origins, Cases
<1>6. Phase(x) = "planned" /\ \A j \in 1 .. x - 1 : Phase(j) # "planned"
  BY <1>3, <1>4 DEF Phase
<1>7. Phase(x)' = "submitted"
  <2>1. UnderWay(x)' /\ ~Stored(x)' /\ x \in submitted'
    BY <1>1, <1>2, <1>5, SubmitWith, UnderWayIsWith DEF Stored
  <2> QED
    BY <2>1 DEF Phase, Stored
<1>8. ASSUME NEW j \in Cases \ {x} PROVE Phase(j)' = Phase(j)
  <2>1. UnderWay(j)' <=> UnderWay(j)
    BY <1>2, SubmitWith, UnderWayIsWith
  <2> QED
    BY <1>1, <1>2, <2>1, PhaseKept
<1>9. Phases' = [Phases EXCEPT ![x] = "submitted"]
  BY <1>7, <1>8, PhasesChange
<1>10. ~Judged /\ ~Judged'
  BY <1>1 DEF Judged
<1>11. UNCHANGED <<Verdicts, Done, Exit>>
  BY <1>1, <1>10, NoVerdict DEF Verdicts, Done, Exit
<1>12. ~Done
  BY <1>1 DEF Done
<1> QED
  BY <1>1, <1>3, <1>6, <1>9, <1>11, <1>12, SubmitMaps

\* wait_for_response came back for case current, with its own answer or none.
LEMMA WaitMaps ==
  ASSUME TypeOK, Bounded, InOrder, NothingToDo, Progress, OwnAnswer', CaseAnswered \/ CaseTimedOut
  PROVE  R!Next
<1>1. /\ pc[Main] \in Waiting /\ pc'[Main] \in Waiting /\ current <= caseCount
      /\ current' = current + 1 /\ UNCHANGED <<caseCount, submitted, responses>>
  <2>1. CASE CaseAnswered
    BY <2>1 DEF CaseAnswered, PollFinds, Waiting, threadVars, dbVars
  <2>2. CASE CaseTimedOut
    BY <2>2, MainAt DEF CaseTimedOut, PollEnds, Bounded, Waiting, dbVars
  <2> QED
    BY <2>1, <2>2
<1>2. PICK x \in Cases : x = current
  BY <1>1 DEF Bounded, TypeOK, RunTypes, Cases, Waiting
<1>3. /\ submitted = 1 .. caseCount /\ caseCount \in 0 .. MaxCases
      /\ \A j \in Cases : j >= x => result[j] = 0
  BY <1>1, <1>2 DEF Bounded, Progress, Awaited, TypeOK, RunTypes, Waiting
<1>4. Judged /\ Judged'
  BY <1>1 DEF Judged, Waiting
<1>5. Verdict(x) = "none" /\ \A j \in 1 .. caseCount : j < x => Verdict(j) # "none"
  BY <1>2, <1>3, <1>4 DEF Verdict, Cases
<1>6. \A j \in 1 .. caseCount : Phase(j) # "planned"
  BY <1>3 DEF Phase
<1>7. PICK v : /\ Verdict(x)' = v
               /\ v = "missing" \/ (v = "answered" /\ Phase(x) \in {"met", "unmet"})
               /\ \A j \in Cases \ {x} : result'[j] = result[j]
  <2>1. CASE CaseAnswered
    <3>1. PICK k \in DOMAIN responses : result' = [result EXCEPT ![x] = k]
      BY <1>2, <2>1 DEF CaseAnswered
    <3>2. result'[x] = k /\ k # 0 /\ \A j \in Cases \ {x} : result'[j] = result[j]
      BY <3>1, LenProperties DEF TypeOK, RunTypes, TableTypes
    <3>3. responses[k].origin = x
      BY <1>1, <3>2 DEF OwnAnswer
    <3>4. Phase(x) \in {"met", "unmet"}
      BY <1>1, <1>2, <1>3, <3>3 DEF Phase, Stored, Cases
    <3>5. Verdict(x)' = "answered"
      BY <1>1, <1>2, <1>4, <3>2 DEF Verdict, Cases
    <3> QED
      BY <3>2, <3>4, <3>5
  <2>2. CASE CaseTimedOut
    <3>1. result' = result /\ result[x] = 0
      BY <1>3, <2>2 DEF CaseTimedOut, Cases
    <3>2. Verdict(x)' = "missing"
      BY <1>1, <1>2, <1>4, <3>1 DEF Verdict, Cases
    <3> QED
      BY <3>1, <3>2
  <2> QED
    BY <2>1, <2>2
<1>8. ASSUME NEW j \in Cases \ {x} PROVE Verdict(j)' = Verdict(j)
  <2>1. j >= current <=> j >= current'
    BY <1>1, <1>2 DEF Cases
  <2> QED
    BY <1>4, <1>7, <2>1 DEF Verdict
<1>9. Verdicts' = [Verdicts EXCEPT ![x] = v]
  BY <1>7, <1>8, VerdictsChange
<1>10. Phases' = Phases
  <2>1. RunPlan /\ ~DispatchCase
    <3>1. pc[Main] # "dispatching"
      BY <1>1 DEF Waiting
    <3> QED
      BY <3>1 DEF RunPlan, WaitStep, DispatchCase
  <2> QED
    BY <2>1, MainPhases
<1>11. ~Done /\ UNCHANGED <<Done, Exit>>
  BY <1>1 DEF Done, Exit, Waiting
<1> QED
  BY <1>1, <1>2, <1>3, <1>5, <1>6, <1>7, <1>9, <1>10, <1>11, JudgeMaps

\* run_plan returns: nothing is under way, and 0 means that all cases passed.
LEMMA CloseMaps ==
  ASSUME TypeOK, Bounded, InOrder, NothingToDo, Earned, Progress, AllHarmless, OwnAnswer,
         CloseDatabase
  PROVE  R!Next
<1>1. /\ pc[Main] = "closing" /\ pc'[Main] = "done" /\ exitCode' = exitCode
      /\ UNCHANGED <<caseCount, Verdicts>>
  BY MainAt, JudgesNothing DEF CloseDatabase, mainVars, waitVars
<1>2. Phases' = Phases
  <2>1. RunPlan /\ ~DispatchCase
    BY <1>1 DEF RunPlan, DispatchCase
  <2> QED
    BY <2>1, MainPhases
<1>3. \A i \in Cases : ~UnderWay(i)
  <2>1. \A q \in Queues : queue[q] = <<>>
    BY <1>1, QueuesEmptyAtEnd
  <2>2. \A q \in Queues : Range(queue[q]) = {}
    BY <2>1 DEF Range
  <2>3. \A c \in Consumers : \E q \in Queues : c \in Takes(q)
    BY DEF Consumers, Queues, Takes
  <2>4. \A c \in Consumers : pc[c] \in Gone
    BY <1>1, <2>3 DEF InOrder, JoinedStayGone, AfterJoin
  <2> QED
    BY <2>2, <2>4 DEF UnderWay, Answering, Gone
<1>4. \A i \in Cases : Phase(i) # "submitted"
  BY <1>3 DEF Phase
<1>5. ASSUME exitCode = 0
      PROVE  /\ caseCount <= MaxCases
             /\ \A i \in 1 .. caseCount : Verdict(i) = "answered" /\ Phase(i) = "met"
  <2>1. /\ AllPassed /\ submitted = 1 .. caseCount /\ current > caseCount
    BY <1>5 DEF Earned, ZeroIsEarned, Progress, Finishes
  <2>2. Judged
    BY <1>1, <2>1 DEF Judged, AllPassed
  <2>3. current \in Nat /\ caseCount \in Nat /\ result \in [Cases -> Nat]
    BY DEF TypeOK, RunTypes
  <2>4. ASSUME NEW i \in 1 .. caseCount PROVE Verdict(i) = "answered" /\ Phase(i) = "met"
    <3>1. i \in Cases /\ i < current /\ Passed(i)
      BY <2>1, <2>3, <2>4 DEF AllPassed, Cases
    <3>2. PICK k : k = result[i]
      OBVIOUS
    <3>3. k \in DOMAIN responses /\ (i \in Asserting => responses[k].meets) /\ k # 0
      BY <3>1, <3>2, LenProperties DEF Passed, TypeOK, TableTypes
    <3>4. responses[k].origin = i
      BY <3>1, <3>2, <3>3 DEF OwnAnswer
    <3>5. responses[k].meets
      BY <3>3, <3>4 DEF AllHarmless, RowsHarmless
    <3>6. Phase(i) = "met"
      BY <2>1, <3>3, <3>4, <3>5 DEF Phase
    <3>7. Verdict(i) = "answered"
      BY <2>2, <2>3, <3>1, <3>2, <3>3 DEF Verdict
    <3> QED
      BY <3>6, <3>7
  <2> QED
    BY <2>1, <2>4 DEF AllPassed
<1>6. ~Done /\ Done' /\ Exit' = exitCode
  BY <1>1 DEF Done, Exit
<1>7. caseCount \in Nat /\ exitCode \in {0, 1}
  BY DEF TypeOK, RunTypes
<1> QED
  BY <1>1, <1>2, <1>4, <1>5, <1>6, <1>7, EndMaps

LEMMA RunPlanMaps ==
  ASSUME TypeOK, Bounded, InOrder, NothingToDo, Owned, Earned, Progress, AllHarmless,
         OwnAnswer, OwnAnswer', RunPlan
  PROVE  [R!Next]_R!vars
<1>1. CASE DispatchCase \/ CaseAnswered \/ CaseTimedOut \/ CloseDatabase
  BY <1>1, DispatchMaps, WaitMaps, CloseMaps
<1>2. CASE ~ (DispatchCase \/ CaseAnswered \/ CaseTimedOut \/ CloseDatabase)
  <2>1. UNCHANGED <<caseCount, Verdicts>> /\ ~Done /\ ~Done'
    BY <1>2, StopsEarly, GoesOn, JudgesNothing DEF RunPlan, WaitStep
  <2>2. Phases' = Phases
    BY <1>2, MainPhases
  <2>3. UNCHANGED <<Done, Exit>>
    BY <2>1 DEF Done, Exit
  <2> QED
    BY <2>1, <2>2, <2>3, Unnoticed
<1> QED
  BY <1>1, <1>2

LEMMA InitMaps == Init => R!Init
<1> SUFFICES ASSUME Init PROVE R!Init
  OBVIOUS
<1>1. /\ pc[Main] = "starting" /\ current = 1 /\ submitted = {}
      /\ caseCount \in 0 .. MaxCases + 1
  BY DEF Init, Threads
<1>2. \A i \in Cases : Phase(i) = "planned" /\ Verdict(i) = "none"
  BY <1>1, NotJudged, NoVerdict DEF Phase, Submitting
<1> QED
  BY <1>1, <1>2 DEF R!Init, R!Cases, Cases

\* On a new database, with cases that differ, whatever fails and however many
\* workers there are, a run is what its caller thinks it is: each case is asked
\* once, answered at most once, judged in order and by its own answer, and the
\* run ends when nothing is under way, with 0 only if all were answered as
\* asserted.
THEOREM PipelineIsCaseRun ==
  ASSUME OldRequests = <<>>, \A i, j \in Cases : Identity[i] = Identity[j] => i = j
  PROVE  Safety => ImplementsCaseRun
<1> DEFINE Inv == /\ TypeOK /\ Bounded /\ InOrder /\ AllBorn /\ NothingToDo /\ Owned
                  /\ Earned /\ Asked /\ Traced /\ Progress /\ AllHarmless
<1>1. Init => Inv
  BY InitTypes, InitInOrder, InitKept, InitClaimed, InitOwned, InitVerdict, InitTraced,
     InitProgress, InitHarmless
<1>2. Inv /\ [Next]_vars => Inv'
  <2> SUFFICES ASSUME Inv, [Next]_vars PROVE Inv'
    OBVIOUS
  <2>1. TypeOK' /\ Bounded' /\ InOrder' /\ AllBorn' /\ NothingToDo' /\ Owned'
    BY StepTypes, StepInOrder, StepBorn, StepNothingToDo, StepOwned
  <2>2. Earned' /\ Asked' /\ Traced'
    BY StepVerdict, StepTraced
  <2>3. Progress' /\ AllHarmless'
    BY StepProgress, StepHarmless
  <2> QED
    BY <2>1, <2>2, <2>3
<1>3. Inv => OwnAnswer
  BY TracedIsOwn
<1>4. Inv /\ OwnAnswer /\ OwnAnswer' /\ [Next]_vars => [R!Next]_R!vars
  <2> SUFFICES ASSUME Inv, OwnAnswer, OwnAnswer', [Next]_vars PROVE [R!Next]_R!vars
    OBVIOUS
  <2>1. CASE RunPlan
    BY <2>1, RunPlanMaps
  <2>2. CASE DispatcherStep \/ DbWorkerStep \/ \E w \in Workers : HttpWorker(w)
    BY <2>2, ConsumersMap
  <2>3. CASE UNCHANGED vars
    <3>1. pc' = pc /\ UNCHANGED mainVars /\ UNCHANGED <<submitted, responses>>
          /\ \A i : UnderWay(i)' <=> UnderWay(i)
      BY <2>3 DEF vars, threadVars, queueVars, dbVars, mainVars, UnderWay, Answering
    <3>2. Phases' = Phases
      BY <3>1, PhaseKept DEF Phases
    <3> QED
      BY <3>1, <3>2, MainSame, Unnoticed
  <2> QED
    BY <2>1, <2>2, <2>3 DEF Next, Returned
<1>5. Init => R!Init
  BY InitMaps
<1> QED
  BY <1>1, <1>2, <1>3, <1>4, <1>5, PTL DEF Safety, ImplementsCaseRun, R!Safety

-----------------------------------------------------------------------------
(* What is left to do *)

\* The stops of a case on its way from the request queue to the end of the DB
\* worker's loop: labels of threads, and queues.
StopOf(x) == CASE x = "request"              -> 1
               [] x = "setup"                -> 2
               [] x = "performing"           -> 3
               [] x = "pushing"              -> 4
               [] x = "response"             -> 5
               [] x = "forwarding"           -> 6
               [] x = "db"                   -> 7
               [] x = "inserting"            -> 8
               [] x = "reading"              -> 9
               [] x \in {"logging", "freeing"} -> 10

Stops == 0 .. 10

LabelsTo(k) == {l \in ResponseLabels : StopOf(l) <= k}
LinesTo(k)  == {q \in Queues : StopOf(q) <= k}

\* Case i has not come further than stop k; 0 is where it waits for dispatch_task.
Behind(i, k) == i \notin submitted \/ With(LabelsTo(k), LinesTo(k), i)

\* One element for every stop a case has still to leave.
StopsLeft == {m \in Cases \X Stops : Behind(m[1], m[2])}

\* The cases whose task a worker has still to free.
TasksLeft == {i \in Cases : i \notin submitted \/ With(WorkerLabels, {"request"}, i)}

\* The threads that will still leave.
Staying    == {c \in Consumers : pc[c] # "exited"}

\* The cases main has still to make a request for, and the moments of the waits
\* for a response it has still to see, in ms.
ToMake == {i \in Cases : \/ pc[Main] \in {"starting", "creating"}
                         \/ pc[Main] = "submitting" /\ i >= current
                         \/ pc[Main] = "dispatching" /\ i > current}

Moments == {m \in Cases \X Nat : m[2] <= Timeout(m[1])}
ToWait  == {m \in Moments : \/ pc[Main] \in Submitting
                            \/ pc[Main] \in Waiting /\ m[1] > current
                            \/ pc[Main] = "polling"  /\ m[1] = current /\ m[2] >= elapsed
                            \/ pc[Main] = "sleeping" /\ m[1] = current /\ m[2] > elapsed}

\* The labels of main, counted from the end; the two of a loop count the same.
Turns(l) == CASE l = "starting"                     -> 13
              [] l = "creating"                     -> 12
              [] l \in {"submitting", "dispatching"} -> 11
              [] l \in {"polling", "sleeping"}      -> 10
              [] l = "cleanup"                      -> 9
              [] l = "close_request"                -> 8
              [] l = "join_workers"                 -> 7
              [] l = "close_response"               -> 6
              [] l = "join_dispatcher"              -> 5
              [] l = "close_db"                     -> 4
              [] l = "join_db"                      -> 3
              [] l = "freeing"                      -> 2
              [] l = "closing"                      -> 1
              [] l = "done"                         -> 0

StepsLeft == Turns(pc[Main]) + Cardinality(Unborn) + Cardinality(Staying)
             + Cardinality(ToMake) + Cardinality(ToWait)
             + Cardinality(StopsLeft) + Cardinality(TasksLeft)

\* Main at the join of those who take from q.
AtJoin(q) == pc[Main] = CASE q = "request" -> "join_workers" [] q = "response" -> "join_dispatcher"
                          [] q = "db" -> "join_db"

\* The guards of the actions: a thread waits in queue_pop for an element or for
\* the shutdown, and main in a join; polling, it finds a row or sees none.
CanGo(c)  == /\ pc[c] \notin Gone
             /\ pc[c] = "idle" => \E q \in Queues : c \in Takes(q) /\ (queue[q] # <<>> \/ Closed(q))
MainCanGo == /\ pc[Main] # "done"
             /\ pc[Main] = "creating" => Unborn = {} \/ \E t \in Consumers : StartsNext(t)
             /\ pc[Main] = "polling" /\ current <= caseCount =>
                   NoResponse(PolledRequest) \/ \E k \in DOMAIN responses : PollFinds(k)
             /\ \A q \in Queues : AtJoin(q) => Joined(Takes(q))

NobodyStuck == pc[Main] # "done" =>
                  \/ MainCanGo
                  \/ \E q \in Queues : /\ AtJoin(q)
                                       /\ \A c \in Takes(q) : pc[c] \in Gone \/ CanGo(c)

-----------------------------------------------------------------------------
(* Cases on their way *)

LEMMA StopIs ==
  /\ \A l \in ResponseLabels \cup Queues : StopOf(l) \in 1 .. 10
  /\ \A k \in Stops : LabelsTo(k) \subseteq ResponseLabels /\ LinesTo(k) \subseteq Queues
  /\ ResponseLabels \cap Idle = {} /\ ResponseLabels \cap Queues = {}
<1>1. \A l \in ResponseLabels \cup Queues : StopOf(l) \in 1 .. 10
  BY DEF StopOf, ResponseLabels, DbLabels, Queues
<1>2. \A k \in Stops : LabelsTo(k) \subseteq ResponseLabels /\ LinesTo(k) \subseteq Queues
  BY DEF LabelsTo, LinesTo
<1>3. ResponseLabels \cap Idle = {} /\ ResponseLabels \cap Queues = {}
  BY DEF ResponseLabels, DbLabels, Idle, Queues
<1> QED
  BY <1>1, <1>2, <1>3

\* A case that is in a queue is nowhere else.
LEMMA AloneInLine ==
  ASSUME NEW labels, NEW lines, NEW rows, Spread(labels, lines, rows),
         NEW q \in Queues \cap lines, NEW i \in Range(queue[q])
  PROVE  /\ \A d \in Consumers : pc[d] \in labels => job[d] # i
         /\ \A r \in (Queues \cap lines) \ {q} : i \notin Range(queue[r])
         /\ i \in submitted
<1>1. PICK H : H = At(labels, lines, rows)
  OBVIOUS
<1>2. Apart(H) /\ \A s \in Seats : H[s] \subseteq submitted
  BY <1>1 DEF Spread
<1>3. \A r \in Queues \cap lines : Line(r) \in Seats /\ H[Line(r)] = Range(queue[r])
  BY <1>1, AtSeats DEF Queued
<1>4. ASSUME NEW d \in Consumers, pc[d] \in labels PROVE job[d] # i
  <2>1. Seat(d) \in Seats /\ H[Seat(d)] = Taken(d, labels)
    BY <1>1, AtSeats
  <2>2. job[d] \in H[Seat(d)] /\ Seat(d) # Line(q)
    BY <1>4, <2>1, OtherSeats DEF Taken
  <2> QED
    BY <1>2, <1>3, <2>1, <2>2 DEF Apart
<1>5. ASSUME NEW r \in (Queues \cap lines) \ {q} PROVE i \notin Range(queue[r])
  <2>1. Line(r) # Line(q)
    BY OtherSeats
  <2> QED
    BY <1>2, <1>3, <2>1 DEF Apart
<1> QED
  BY <1>2, <1>3, <1>4, <1>5

\* Nobody falls back, if whoever has a case afterwards had it not further on.
LEMMA NobodyBack ==
  ASSUME submitted \subseteq submitted',
         \A k \in Stops, i \in Cases : With(LabelsTo(k), LinesTo(k), i)' => Behind(i, k)
  PROVE  StopsLeft' \subseteq StopsLeft
BY DEF StopsLeft, Behind

\* Consumer c leaves the stop where it has case i, for a later one or for none.
LEMMA LeavesStop ==
  ASSUME TypeOK, Owned, NEW c \in Consumers, OnlyMoves(c), pc[c] \in ResponseLabels,
         NEW i \in Cases, i = job[c], submitted' = submitted,
         \/ /\ queue' = queue
            /\ \/ pc'[c] \notin ResponseLabels
               \/ job'[c] = i /\ StopOf(pc'[c]) > StopOf(pc[c])
         \/ \E q \in Queues : /\ Push(q, i) /\ StopOf(q) > StopOf(pc[c])
                              /\ pc'[c] \notin ResponseLabels
  PROVE  StopsLeft' \subseteq StopsLeft /\ <<i, StopOf(pc[c])>> \in StopsLeft \ StopsLeft'
<1>1. PICK s \in 1 .. 10 : s = StopOf(pc[c])
  BY StopIs
<1>2. \A k \in Stops : /\ pc'[c] \in LabelsTo(k) => k > s /\ job'[c] = i
                       /\ s <= k => pc[c] \in LabelsTo(k)
  <2> SUFFICES ASSUME NEW k \in Stops
               PROVE  /\ pc'[c] \in LabelsTo(k) => k > s /\ job'[c] = i
                      /\ s <= k => pc[c] \in LabelsTo(k)
    OBVIOUS
  <2>1. ASSUME pc'[c] \in LabelsTo(k) PROVE k > s /\ job'[c] = i
    <3>1. pc'[c] \in ResponseLabels /\ StopOf(pc'[c]) <= k
      BY <2>1 DEF LabelsTo
    <3>2. StopOf(pc'[c]) > s /\ job'[c] = i
      BY <1>1, <3>1
    <3>3. StopOf(pc'[c]) \in 1 .. 10
      BY <3>1, StopIs
    <3> QED
      BY <3>1, <3>2, <3>3 DEF Stops
  <2>2. s <= k => pc[c] \in LabelsTo(k)
    BY <1>1 DEF LabelsTo
  <2> QED
    BY <2>1, <2>2
<1>3. ASSUME NEW q \in Queues
      PROVE  \/ queue'[q] = queue[q]
             \/ StopOf(q) > s /\ Range(queue'[q]) = Range(queue[q]) \cup {i}
  <2>1. CASE queue' = queue
    BY <2>1
  <2>2. ASSUME NEW r \in Queues, Push(r, i), StopOf(r) > s
        PROVE  \/ queue'[q] = queue[q]
               \/ StopOf(q) > s /\ Range(queue'[q]) = Range(queue[q]) \cup {i}
    <3>1. queue' = [queue EXCEPT ![r] = Append(queue[r], i)] /\ queue \in [Queues -> Seq(Cases)]
      BY <2>2 DEF Push, AtBack, TypeOK, ObjectTypes
    <3>2. Range(Append(queue[r], i)) = Range(queue[r]) \cup {i}
      BY <3>1, PushRange
    <3> QED
      BY <2>2, <3>1, <3>2
  <2> QED
    BY <1>1, <2>1, <2>2
<1>4. \A k \in Stops : \A q \in LinesTo(k) : /\ q \in Queues
                                             /\ StopOf(q) > s => k > s
  <2> SUFFICES ASSUME NEW k \in Stops, NEW q \in LinesTo(k)
               PROVE  q \in Queues /\ (StopOf(q) > s => k > s)
    OBVIOUS
  <2>1. q \in Queues /\ StopOf(q) <= k
    BY DEF LinesTo
  <2>2. StopOf(q) \in 1 .. 10
    BY <2>1, StopIs
  <2> QED
    BY <2>1, <2>2 DEF Stops
<1>5. ASSUME NEW k \in Stops, NEW j \in Cases, With(LabelsTo(k), LinesTo(k), j)'
      PROVE  Behind(j, k)
  <2>1. ASSUME NEW d \in Consumers, pc'[d] \in LabelsTo(k), job'[d] = j PROVE Behind(j, k)
    <3>1. CASE d = c
      <4>1. pc[c] \in LabelsTo(k) /\ job[c] = j
        BY <1>2, <2>1, <3>1 DEF Stops
      <4> QED
        BY <4>1 DEF Behind, With
    <3>2. CASE d # c
      <4>1. pc[d] \in LabelsTo(k) /\ job[d] = j
        BY <2>1, <3>2 DEF OnlyMoves
      <4> QED
        BY <4>1 DEF Behind, With
    <3> QED
      BY <3>1, <3>2
  <2>2. ASSUME NEW q \in LinesTo(k), j \in Range(queue'[q]) PROVE Behind(j, k)
    <3>1. CASE j \in Range(queue[q])
      BY <3>1 DEF Behind, With
    <3>2. CASE j = i /\ k > s
      <4>1. pc[c] \in LabelsTo(k)
        BY <1>2, <3>2 DEF Stops
      <4> QED
        BY <3>2, <4>1 DEF Behind, With
    <3> QED
      BY <1>3, <1>4, <2>2, <3>1, <3>2
  <2> QED
    BY <1>5, <2>1, <2>2 DEF With
<1>6. StopsLeft' \subseteq StopsLeft
  BY <1>5, NobodyBack
<1>7. s \in Stops /\ pc[c] \in LabelsTo(s)
  BY <1>2 DEF Stops
<1>8. <<i, s>> \in StopsLeft
  BY <1>7 DEF StopsLeft, Behind, With
<1>9. /\ \A d \in Consumers \ {c} : pc[d] \in ResponseLabels => job[d] # i
      /\ \A q \in Queues : i \notin Range(queue[q])
      /\ i \in submitted
  BY AloneAt DEF Owned, ResponsesSpread
<1>10. ~ With(LabelsTo(s), LinesTo(s), i)'
  <2>1. ASSUME NEW d \in Consumers, pc'[d] \in LabelsTo(s), job'[d] = i PROVE FALSE
    <3>1. d # c
      BY <1>2, <1>7, <2>1
    <3> QED
      BY <1>7, <1>9, <2>1, <3>1, StopIs DEF OnlyMoves
  <2>2. ASSUME NEW q \in LinesTo(s), i \in Range(queue'[q]) PROVE FALSE
    BY <1>3, <1>4, <1>7, <1>9, <2>2
  <2> QED
    BY <2>1, <2>2 DEF With
<1>11. <<i, s>> \notin StopsLeft'
  BY <1>9, <1>10 DEF StopsLeft, Behind
<1> QED
  BY <1>1, <1>6, <1>8, <1>11

\* Consumer c is given the first case of its queue.
LEMMA LeavesLine ==
  ASSUME TypeOK, Owned, NEW q \in Queues, NEW c \in Consumers, Pop(c, q, Received(q)),
         submitted' = submitted
  PROVE  StopsLeft' \subseteq StopsLeft /\ StopsLeft' # StopsLeft
<1>0. PICK l : l = Received(q)
  OBVIOUS
<1>1. PICK i : i = Head(queue[q])
  OBVIOUS
<1>2. /\ pc[c] = "idle" /\ pc'[c] = l /\ job'[c] = i /\ queue'[q] = Tail(queue[q])
      /\ \A d \in Consumers \ {c} : pc'[d] = pc[d] /\ job'[d] = job[d]
      /\ \A r \in Queues \ {q} : queue'[r] = queue[r]
      /\ queue[q] \in Seq(Cases) /\ queue[q] # <<>>
  BY <1>0, <1>1, ConsumerGoes DEF Pop, Rest, TypeOK, ThreadTypes, ObjectTypes
<1>3. /\ Range(queue'[q]) \subseteq Range(queue[q]) \ {i} /\ i \in Range(queue[q])
      /\ i \in Cases
  <2>1. Distinct(queue[q])
    BY DEF Owned, QueuesDistinct
  <2>2. Head(queue[q]) \in Cases
    BY <1>2
  <2> QED
    BY <1>1, <1>2, <2>1, <2>2, TailDistinct
<1>4. PICK s \in 1 .. 10 : s = StopOf(q)
  BY StopIs
<1>5. l \in ResponseLabels /\ StopOf(l) = s + 1
  <2>1. CASE q = "request"
    BY <1>0, <1>4, <2>1 DEF Received, ResponseLabels, StopOf
  <2>2. CASE q = "response"
    BY <1>0, <1>4, <2>2 DEF Received, ResponseLabels, StopOf
  <2>3. CASE q = "db"
    BY <1>0, <1>4, <2>3 DEF Received, ResponseLabels, DbLabels, StopOf
  <2> QED
    BY <2>1, <2>2, <2>3 DEF Queues
<1>6. \A k \in Stops : /\ l \in LabelsTo(k) <=> s + 1 <= k
                       /\ q \in LinesTo(k) <=> s <= k
  BY <1>4, <1>5 DEF LabelsTo, LinesTo
<1>7. ASSUME NEW k \in Stops, NEW j \in Cases, With(LabelsTo(k), LinesTo(k), j)'
      PROVE  Behind(j, k)
  <2>1. ASSUME NEW d \in Consumers, pc'[d] \in LabelsTo(k), job'[d] = j PROVE Behind(j, k)
    <3>1. CASE d = c
      <4>1. l \in LabelsTo(k) /\ j = i
        BY <1>2, <2>1, <3>1
      <4>2. s + 1 <= k
        BY ONLY <1>6, <4>1, k \in Stops
      <4>3. s <= k
        BY ONLY <4>2, s \in 1 .. 10, k \in Stops DEF Stops
      <4>4. q \in LinesTo(k)
        BY ONLY <1>6, <4>3, k \in Stops
      <4>5. j \in Range(queue[q])
        BY ONLY <1>3, <4>1
      <4> QED
        BY <4>4, <4>5 DEF Behind, With
    <3>2. CASE d # c
      <4>1. pc[d] \in LabelsTo(k) /\ job[d] = j
        BY <1>2, <2>1, <3>2
      <4> QED
        BY <4>1 DEF Behind, With
    <3> QED
      BY <3>1, <3>2
  <2>2. ASSUME NEW r \in LinesTo(k), j \in Range(queue'[r]) PROVE Behind(j, k)
    <3>1. j \in Range(queue[r])
      BY <1>2, <1>3, <2>2, StopIs
    <3> QED
      BY <3>1 DEF Behind, With
  <2> QED
    BY <1>7, <2>1, <2>2 DEF With
<1>8. s \in Stops /\ q \in LinesTo(s)
  BY <1>6 DEF Stops
<1>9. <<i, s>> \in StopsLeft
  BY <1>3, <1>8 DEF StopsLeft, Behind, With
<1>10. /\ \A d \in Consumers : pc[d] \in ResponseLabels => job[d] # i
       /\ \A r \in Queues \ {q} : i \notin Range(queue[r])
       /\ i \in submitted
  <2>1. Spread(ResponseLabels, Queues, {})
    BY DEF Owned, ResponsesSpread
  <2> QED
    BY <1>3, <2>1, AloneInLine
<1>11. ~ With(LabelsTo(s), LinesTo(s), i)'
  <2>1. ASSUME NEW d \in Consumers, pc'[d] \in LabelsTo(s), job'[d] = i PROVE FALSE
    <3>1. d # c
      BY <1>2, <1>4, <1>6, <1>8, <2>1
    <3> QED
      BY <1>2, <1>8, <1>10, <2>1, <3>1, StopIs
  <2>2. ASSUME NEW r \in LinesTo(s), i \in Range(queue'[r]) PROVE FALSE
    <3>1. r \in Queues
      BY <1>8, StopIs
    <3> QED
      BY <1>2, <1>3, <1>10, <2>2, <3>1
  <2> QED
    BY <2>1, <2>2 DEF With
<1>12. <<i, s>> \notin StopsLeft'
  BY <1>10, <1>11 DEF StopsLeft, Behind
<1> QED
  BY <1>7, <1>9, <1>12, NobodyBack

\* A step that moves no case.
LEMMA StopsStay ==
  ASSUME submitted' = submitted, \A q \in Queues : queue'[q] = queue[q] \/ queue'[q] = <<>>,
         \A c \in Consumers : pc'[c] \in ResponseLabels => pc'[c] = pc[c] /\ job'[c] = job[c]
  PROVE  StopsLeft' \subseteq StopsLeft
<1>1. ASSUME NEW k \in Stops, NEW j \in Cases, With(LabelsTo(k), LinesTo(k), j)'
      PROVE  Behind(j, k)
  <2>1. ASSUME NEW d \in Consumers, pc'[d] \in LabelsTo(k), job'[d] = j PROVE Behind(j, k)
    <3>1. pc[d] \in LabelsTo(k) /\ job[d] = j
      BY <2>1, StopIs
    <3> QED
      BY <3>1 DEF Behind, With
  <2>2. ASSUME NEW r \in LinesTo(k), j \in Range(queue'[r]) PROVE Behind(j, k)
    <3>1. j \in Range(queue[r])
      BY <2>2, StopIs DEF Range
    <3> QED
      BY <3>1 DEF Behind, With
  <2> QED
    BY <1>1, <2>1, <2>2 DEF With
<1> QED
  BY <1>1, NobodyBack

LEMMA TasksStay ==
  ASSUME submitted \subseteq submitted',
         \A c \in Consumers : pc'[c] \in WorkerLabels => pc[c] \in WorkerLabels /\ job'[c] = job[c],
         queue'["request"] = queue["request"] \/ queue'["request"] = <<>>
  PROVE  TasksLeft' \subseteq TasksLeft
<1>1. ASSUME NEW i \in Cases, With(WorkerLabels, {"request"}, i)' PROVE With(WorkerLabels, {"request"}, i)
  <2>1. ASSUME NEW d \in Consumers, pc'[d] \in WorkerLabels, job'[d] = i
        PROVE  With(WorkerLabels, {"request"}, i)
    BY <2>1 DEF With
  <2>2. ASSUME i \in Range(queue'["request"]) PROVE With(WorkerLabels, {"request"}, i)
    <3>1. i \in Range(queue["request"])
      BY <2>2 DEF Range
    <3> QED
      BY <3>1 DEF With
  <2> QED
    BY <1>1, <2>1, <2>2 DEF With
<1> QED
  BY <1>1 DEF TasksLeft

LEMMA TasksPopped ==
  ASSUME TypeOK, NEW w \in Workers, Pop(w, "request", "setup"), submitted' = submitted
  PROVE  TasksLeft' \subseteq TasksLeft
<1>1. "request" \in Queues /\ w \in Consumers /\ "setup" \in WorkerLabels /\ "idle" \notin WorkerLabels
  BY DEF Queues, Consumers, WorkerLabels
<1>2. \A i : With(WorkerLabels, {"request"}, i)' <=> With(WorkerLabels, {"request"}, i)
  BY <1>1, PopWith
<1> QED
  BY <1>2 DEF TasksLeft

\* A worker frees the task of its case.
LEMMA TaskDone ==
  ASSUME TypeOK, Owned, NEW w \in Workers, pc[w] = "releasing", pc'[w] = "idle", OnlyMoves(w),
         UNCHANGED <<queue, submitted>>
  PROVE  TasksLeft' \subseteq TasksLeft /\ TasksLeft' # TasksLeft
<1>1. w \in Consumers /\ pc[w] \in WorkerLabels
  BY DEF Consumers, WorkerLabels
<1>2. \A c \in Consumers : pc'[c] \in WorkerLabels => c # w /\ pc[c] \in WorkerLabels /\ job'[c] = job[c]
  BY DEF OnlyMoves, WorkerLabels
<1>3. TasksLeft' \subseteq TasksLeft
  BY <1>2, TasksStay
<1>4. PICK i \in Cases : i = job[w]
  BY <1>1 DEF TypeOK, ThreadTypes, Idle
<1>5. i \in TasksLeft
  BY <1>1, <1>4 DEF TasksLeft, With
<1>6. /\ \A d \in Consumers \ {w} : pc[d] \in WorkerLabels => job[d] # i
      /\ i \notin Range(queue["request"]) /\ i \in submitted
  BY <1>1, <1>4, AloneAt DEF Owned, TasksSpread, Queues
<1>7. i \notin TasksLeft'
  BY <1>2, <1>6 DEF TasksLeft, With
<1> QED
  BY <1>3, <1>5, <1>7

-----------------------------------------------------------------------------
(* Every step counts *)

NoMore == /\ StopsLeft' \subseteq StopsLeft /\ TasksLeft' \subseteq TasksLeft
          /\ Unborn' \subseteq Unborn /\ Staying' \subseteq Staying
          /\ ToMake' \subseteq ToMake /\ ToWait' \subseteq ToWait
          /\ Turns(pc[Main])' <= Turns(pc[Main])

Less == \/ StopsLeft' # StopsLeft \/ TasksLeft' # TasksLeft
        \/ Unborn' # Unborn \/ Staying' # Staying
        \/ ToMake' # ToMake \/ ToWait' # ToWait
        \/ Turns(pc[Main])' < Turns(pc[Main])

LEMMA TurnsOf == \A l \in MainLabels : Turns(l) \in 0 .. 13
BY DEF Turns, MainLabels

\* The step of a consumer leaves main's counts alone, and nobody comes back.
LEMMA ConsumerCounts ==
  ASSUME TypeOK, NEW c \in Consumers, Keeps(c)
  PROVE  /\ Unborn' \subseteq Unborn /\ Staying' \subseteq Staying
         /\ ToMake' = ToMake /\ ToWait' = ToWait
         /\ Turns(pc[Main])' <= Turns(pc[Main])
         /\ pc'[c] = "exited" => Staying' # Staying
         /\ submitted' = submitted
<1>1. /\ pc[c] \notin Gone /\ pc'[c] # "unborn" /\ UNCHANGED mainVars
      /\ \A d \in Threads \ {c} : pc'[d] = pc[d]
  BY DEF Keeps, Consumes
<1>2. pc'[Main] = pc[Main] /\ \A d \in Consumers \ {c} : pc'[d] = pc[d]
  BY <1>1 DEF Threads, Consumers
<1>3. Unborn' \subseteq Unborn
  BY <1>1, <1>2 DEF Unborn
<1>4. Staying' \subseteq Staying /\ (pc'[c] = "exited" => Staying' # Staying)
  <2>1. c \in Staying /\ (pc'[c] = "exited" => c \notin Staying')
    BY <1>1 DEF Staying, Gone
  <2>2. \A d \in Consumers : d \in Staying' => d \in Staying
    BY <1>2, <2>1 DEF Staying
  <2> QED
    BY <2>1, <2>2 DEF Staying
<1>5. ToMake' = ToMake /\ ToWait' = ToWait /\ submitted' = submitted
  BY <1>1, <1>2 DEF ToMake, ToWait, mainVars, waitVars
<1>6. Turns(pc[Main])' <= Turns(pc[Main])
  <2>1. pc[Main] \in MainLabels /\ Turns(pc[Main])' = Turns(pc[Main])
    BY <1>2 DEF TypeOK, ThreadTypes
  <2>2. Turns(pc[Main]) \in Int
    BY <2>1, TurnsOf
  <2> QED
    BY <2>1, <2>2
<1> QED
  BY <1>3, <1>4, <1>5, <1>6

LEMMA HttpWorkerDescends ==
  ASSUME TypeOK, Bounded, Owned, NEW w \in Workers, HttpWorker(w)
  PROVE  NoMore /\ Less
<1>a. w \in Consumers /\ Keeps(w)
  BY ConsumersKeep DEF Consumers
<1>b. /\ Unborn' \subseteq Unborn /\ Staying' \subseteq Staying /\ ToMake' = ToMake /\ ToWait' = ToWait
      /\ Turns(pc[Main])' <= Turns(pc[Main]) /\ submitted' = submitted
      /\ pc'[w] = "exited" => Staying' # Staying
  BY <1>a, ConsumerCounts
<1> SUFFICES /\ StopsLeft' \subseteq StopsLeft /\ TasksLeft' \subseteq TasksLeft
             /\ StopsLeft' # StopsLeft \/ TasksLeft' # TasksLeft \/ Staying' # Staying
  BY <1>b DEF NoMore, Less
<1>1. CASE WorkerPop(w)
  <2>1. Pop(w, "request", Received("request")) /\ Pop(w, "request", "setup") /\ "request" \in Queues
    BY <1>1 DEF WorkerPop, Received, Queues
  <2> QED
    BY <1>a, <1>b, <2>1, LeavesLine, TasksPopped
<1>2. CASE WorkerExit(w)
  <2>1. /\ pc'[w] = "exited" /\ queue' = queue
        /\ \A d \in Consumers \ {w} : pc'[d] = pc[d] /\ job'[d] = job[d]
    BY <1>2, <1>a, ConsumerGoes DEF WorkerExit, PopNull, Leave, queueVars
  <2>2. \A d \in Consumers : /\ pc'[d] \in ResponseLabels => pc'[d] = pc[d] /\ job'[d] = job[d]
                             /\ pc'[d] \in WorkerLabels => pc[d] \in WorkerLabels /\ job'[d] = job[d]
    BY <2>1 DEF ResponseLabels, DbLabels, WorkerLabels
  <2> QED
    BY <1>b, <2>1, <2>2, StopsStay, TasksStay
<1>m. ASSUME NEW l \in {"performing", "pushing", "releasing"}, Goto(w, l), job' = job,
             pc[w] \in {"setup", "performing", "pushing"}, StopOf(l) > StopOf(pc[w]) \/ l = "releasing",
             queue' = queue \/ (pc[w] = "pushing" /\ l = "releasing" /\ Push("response", job[w]))
      PROVE  /\ StopsLeft' \subseteq StopsLeft /\ TasksLeft' \subseteq TasksLeft
             /\ StopsLeft' # StopsLeft
  <2>1. pc'[w] = l /\ OnlyMoves(w)
    BY <1>a, <1>m, ConsumerGoes DEF OnlyMoves
  <2>2. PICK i \in Cases : i = job[w]
    BY <1>a, <1>m DEF TypeOK, ThreadTypes, Idle
  <2>3. queue'["request"] = queue["request"]
    BY <1>m DEF Push, TypeOK, ObjectTypes, Queues
  <2>4. \A d \in Consumers : pc'[d] \in WorkerLabels => pc[d] \in WorkerLabels /\ job'[d] = job[d]
    BY <1>m, <2>1 DEF OnlyMoves, WorkerLabels
  <2>5. TasksLeft' \subseteq TasksLeft
    BY <1>b, <2>3, <2>4, TasksStay
  <2>6. pc[w] \in ResponseLabels /\ "releasing" \notin ResponseLabels
    BY <1>m DEF ResponseLabels, DbLabels
  <2>7. \/ /\ queue' = queue
           /\ \/ pc'[w] \notin ResponseLabels
              \/ job'[w] = i /\ StopOf(pc'[w]) > StopOf(pc[w])
        \/ \E q \in Queues : /\ Push(q, i) /\ StopOf(q) > StopOf(pc[w])
                             /\ pc'[w] \notin ResponseLabels
    <3>1. CASE queue' = queue
      BY <1>m, <2>1, <2>2, <2>6, <3>1
    <3>2. CASE pc[w] = "pushing" /\ l = "releasing" /\ Push("response", job[w])
      BY <2>1, <2>2, <2>6, <3>2 DEF StopOf, Queues
    <3> QED
      BY <1>m, <3>1, <3>2
  <2>8. StopsLeft' \subseteq StopsLeft /\ StopsLeft' # StopsLeft
    BY <1>a, <1>b, <2>1, <2>2, <2>6, <2>7, LeavesStop
  <2> QED
    BY <2>5, <2>8
<1>3. CASE WorkerNoResponse(w)
  BY <1>3, <1>m DEF WorkerNoResponse, queueVars
<1>4. CASE WorkerSetupFails(w)
  <2>1. pc[w] = "setup" /\ Goto(w, "pushing") /\ UNCHANGED <<job, queue>>
    BY <1>4 DEF WorkerSetupFails, Answer, queueVars
  <2>2. StopOf("pushing") > StopOf("setup")
    BY DEF StopOf
  <2> QED
    BY <1>m, <2>1, <2>2
<1>5. CASE WorkerSetup(w)
  <2>1. pc[w] = "setup" /\ Goto(w, "performing") /\ UNCHANGED <<job, queue>>
    BY <1>5 DEF WorkerSetup, queueVars
  <2>2. StopOf("performing") > StopOf("setup")
    BY DEF StopOf
  <2> QED
    BY <1>m, <2>1, <2>2
<1>6. CASE WorkerPerform(w)
  <2>1. pc[w] = "performing" /\ Goto(w, "pushing") /\ UNCHANGED <<job, queue>>
    BY <1>6 DEF WorkerPerform, Answer, queueVars
  <2>2. StopOf("pushing") > StopOf("performing")
    BY DEF StopOf
  <2> QED
    BY <1>m, <2>1, <2>2
<1>7. CASE WorkerPush(w)
  <2>1. /\ pc[w] = "pushing" /\ Goto(w, "releasing") /\ job' = job
        /\ Push("response", job[w]) \/ queue' = queue
    BY <1>7 DEF WorkerPush, PushFails, queueVars
  <2> QED
    BY <1>m, <2>1
<1>8. CASE WorkerRelease(w)
  <2>1. /\ pc[w] = "releasing" /\ pc'[w] = "idle" /\ queue' = queue /\ OnlyMoves(w)
    <3>1. Goto(w, "idle") /\ pc[w] = "releasing" /\ queue' = queue
          /\ \A d \in Consumers \ {w} : job'[d] = job[d]
      BY <1>8 DEF WorkerRelease, Release, queueVars, TypeOK, ThreadTypes
    <3> QED
      BY <1>a, <3>1, ConsumerGoes DEF OnlyMoves
  <2>2. \A d \in Consumers : pc'[d] \in ResponseLabels => pc'[d] = pc[d] /\ job'[d] = job[d]
    BY <2>1 DEF OnlyMoves, ResponseLabels, DbLabels
  <2> QED
    BY <1>b, <2>1, <2>2, StopsStay, TaskDone
<1> QED
  BY <1>1, <1>2, <1>3, <1>4, <1>5, <1>6, <1>7, <1>8 DEF HttpWorker

\* The dispatcher and the DB worker: what they do to the cases.
LEMMA OthersDescend ==
  ASSUME TypeOK, Bounded, Owned, NEW c \in {Dispatcher, DbWorker}, Keeps(c),
         NEW q \in {"response", "db"},
         \/ Pop(c, q, Received(q))
         \/ PopNull(c, q)
         \/ /\ pc[c] \in ResponseLabels /\ OnlyMoves(c)
            /\ pc'[c] \notin WorkerLabels
            /\ \/ /\ queue' = queue
                  /\ pc'[c] = "idle" \/ (job' = job /\ StopOf(pc'[c]) > StopOf(pc[c]))
               \/ Push("db", job[c]) /\ pc[c] = "forwarding" /\ pc'[c] = "idle"
  PROVE  NoMore /\ Less
<1>a. c \in Consumers /\ q \in Queues
  BY DEF Consumers, Queues
<1>b. /\ Unborn' \subseteq Unborn /\ Staying' \subseteq Staying /\ ToMake' = ToMake /\ ToWait' = ToWait
      /\ Turns(pc[Main])' <= Turns(pc[Main]) /\ submitted' = submitted
      /\ pc'[c] = "exited" => Staying' # Staying
  BY <1>a, ConsumerCounts
<1> SUFFICES /\ StopsLeft' \subseteq StopsLeft /\ TasksLeft' \subseteq TasksLeft
             /\ StopsLeft' # StopsLeft \/ Staying' # Staying
  BY <1>b DEF NoMore, Less
<1>t. ASSUME \A d \in Consumers \ {c} : pc'[d] = pc[d] /\ job'[d] = job[d],
             pc'[c] \notin WorkerLabels, queue'["request"] = queue["request"]
      PROVE  TasksLeft' \subseteq TasksLeft
  <2>1. \A d \in Consumers : pc'[d] \in WorkerLabels => pc[d] \in WorkerLabels /\ job'[d] = job[d]
    BY <1>t
  <2> QED
    BY <1>b, <1>t, <2>1, TasksStay
<1>1. CASE Pop(c, q, Received(q))
  <2>1. /\ pc'[c] = Received(q) /\ queue'["request"] = queue["request"]
        /\ \A d \in Consumers \ {c} : pc'[d] = pc[d] /\ job'[d] = job[d]
    BY <1>1, <1>a, ConsumerGoes DEF Pop, TypeOK, ThreadTypes, ObjectTypes, Queues
  <2>2. Received(q) \notin WorkerLabels
    BY DEF Received, WorkerLabels
  <2> QED
    BY <1>1, <1>a, <1>b, <1>t, <2>1, <2>2, LeavesLine
<1>2. CASE PopNull(c, q)
  <2>1. /\ pc'[c] = "exited" /\ queue' = queue
        /\ \A d \in Consumers \ {c} : pc'[d] = pc[d] /\ job'[d] = job[d]
    BY <1>2, <1>a, ConsumerGoes DEF PopNull, Leave, queueVars
  <2>2. "exited" \notin ResponseLabels /\ "exited" \notin WorkerLabels
    BY DEF ResponseLabels, DbLabels, WorkerLabels
  <2>3. \A d \in Consumers : pc'[d] \in ResponseLabels => pc'[d] = pc[d] /\ job'[d] = job[d]
    BY <2>1, <2>2
  <2> QED
    BY <1>b, <1>t, <2>1, <2>2, <2>3, StopsStay
<1>3. CASE /\ pc[c] \in ResponseLabels /\ OnlyMoves(c)
           /\ pc'[c] \notin WorkerLabels
           /\ \/ /\ queue' = queue
                 /\ pc'[c] = "idle" \/ (job' = job /\ StopOf(pc'[c]) > StopOf(pc[c]))
              \/ Push("db", job[c]) /\ pc[c] = "forwarding" /\ pc'[c] = "idle"
  <2>1. PICK i \in Cases : i = job[c]
    BY <1>3, <1>a, StopIs DEF TypeOK, ThreadTypes
  <2>2. "idle" \notin ResponseLabels
    BY DEF ResponseLabels, DbLabels
  <2>3. \/ /\ queue' = queue
           /\ \/ pc'[c] \notin ResponseLabels
              \/ job'[c] = i /\ StopOf(pc'[c]) > StopOf(pc[c])
        \/ \E r \in Queues : /\ Push(r, i) /\ StopOf(r) > StopOf(pc[c])
                             /\ pc'[c] \notin ResponseLabels
    <3>1. CASE queue' = queue /\ (pc'[c] = "idle" \/ (job' = job /\ StopOf(pc'[c]) > StopOf(pc[c])))
      BY <2>1, <2>2, <3>1
    <3>2. CASE Push("db", job[c]) /\ pc[c] = "forwarding" /\ pc'[c] = "idle"
      BY <2>1, <2>2, <3>2 DEF StopOf, Queues
    <3> QED
      BY <1>3, <3>1, <3>2
  <2>4. StopsLeft' \subseteq StopsLeft /\ StopsLeft' # StopsLeft
    BY <1>3, <1>a, <1>b, <2>1, <2>3, LeavesStop
  <2>5. queue'["request"] = queue["request"]
    BY <1>3 DEF Push, TypeOK, ObjectTypes, Queues
  <2> QED
    BY <1>3, <1>t, <2>4, <2>5 DEF OnlyMoves
<1> QED
  BY <1>1, <1>2, <1>3

LEMMA DispatcherDescends ==
  ASSUME TypeOK, Bounded, Owned, DispatcherStep
  PROVE  NoMore /\ Less
<1> DEFINE c == Dispatcher
<1>a. c \in Consumers /\ Keeps(c)
  BY ConsumersKeep DEF Consumers
<1>1. CASE DispatcherPop
  BY <1>1, <1>a, OthersDescend DEF DispatcherPop, Received
<1>2. CASE DispatcherExit
  BY <1>2, <1>a, OthersDescend DEF DispatcherExit
<1>3. CASE DispatcherForward \/ DispatcherDrops
  <2>1. /\ pc[c] = "forwarding" /\ Release(c)
        /\ Push("db", job[c]) \/ queue' = queue
    BY <1>3 DEF DispatcherForward, DispatcherDrops, PushFails, queueVars
  <2>2. pc'[c] = "idle" /\ OnlyMoves(c)
    BY <1>a, <2>1, ConsumerGoes DEF Release, OnlyMoves, TypeOK, ThreadTypes
  <2>3. pc[c] \in ResponseLabels /\ pc'[c] \notin WorkerLabels
    BY <2>1, <2>2 DEF ResponseLabels, WorkerLabels
  <2> QED
    BY <1>a, <2>1, <2>2, <2>3, OthersDescend
<1> QED
  BY <1>1, <1>2, <1>3 DEF DispatcherStep

LEMMA DbWorkerDescends ==
  ASSUME TypeOK, Bounded, Owned, DbWorkerStep
  PROVE  NoMore /\ Less
<1> DEFINE c == DbWorker
<1>a. c \in Consumers /\ Keeps(c)
  BY ConsumersKeep DEF Consumers
<1>1. CASE DbWorkerPop
  BY <1>1, <1>a, OthersDescend DEF DbWorkerPop, Received
<1>2. CASE DbWorkerExit
  BY <1>2, <1>a, OthersDescend DEF DbWorkerExit
<1>3. CASE DbWorkerInsert \/ DbWorkerInsertFails \/ DbWorkerRowid
  <2>1. /\ UNCHANGED <<job, queue>>
        /\ \/ pc[c] = "inserting" /\ (Goto(c, "reading") \/ Goto(c, "freeing"))
           \/ pc[c] = "reading" /\ Goto(c, "logging")
    BY <1>3 DEF DbWorkerInsert, DbWorkerInsertFails, DbWorkerRowid, queueVars
  <2>2. /\ OnlyMoves(c)
        /\ \/ pc[c] = "inserting" /\ pc'[c] \in {"reading", "freeing"}
           \/ pc[c] = "reading" /\ pc'[c] = "logging"
    BY <1>a, <2>1, ConsumerGoes DEF OnlyMoves
  <2>3. StopOf(pc'[c]) > StopOf(pc[c]) /\ pc[c] \in ResponseLabels /\ pc'[c] \notin WorkerLabels
    BY <2>2 DEF StopOf, ResponseLabels, DbLabels, WorkerLabels
  <2> QED
    BY <1>a, <2>1, <2>2, <2>3, OthersDescend
<1>4. CASE DbWorkerFree
  <2>1. pc[c] \in {"logging", "freeing"} /\ Release(c) /\ queue' = queue
    BY <1>4 DEF DbWorkerFree, queueVars
  <2>2. pc'[c] = "idle" /\ OnlyMoves(c)
    BY <1>a, <2>1, ConsumerGoes DEF Release, OnlyMoves, TypeOK, ThreadTypes
  <2>3. pc[c] \in ResponseLabels /\ pc'[c] \notin WorkerLabels
    BY <2>1, <2>2 DEF ResponseLabels, DbLabels, WorkerLabels
  <2> QED
    BY <1>a, <2>1, <2>2, <2>3, OthersDescend
<1> QED
  BY <1>1, <1>2, <1>3, <1>4 DEF DbWorkerStep

\* wait_for_response gives up in time: while main waits, the time it has waited
\* is below the timeout of the case, and otherwise it is 0.
Timely == \/ elapsed = 0
          \/ pc[Main] \in Waiting /\ current <= caseCount /\ elapsed < Timeout(current)

LEMMA TimeoutIs == \A i \in Cases : Timeout(i) \in Nat \ {0}
BY DEF Timeout, FallbackTimeout

LEMMA TimelyRests ==
  ASSUME Timely, elapsed' = elapsed, pc[Main] \in Waiting => elapsed = 0 \/ pc'[Main] \in Waiting,
         pc[Main] \in Waiting /\ pc'[Main] \in Waiting => UNCHANGED <<current, caseCount>>
  PROVE  Timely'
BY DEF Timely

LEMMA RunPlanTimely ==
  ASSUME TypeOK, Bounded, Timely, RunPlan
  PROVE  Timely'
<1>t. elapsed \in Nat /\ current \in Nat \ {0} /\ caseCount \in Nat
  BY DEF TypeOK, RunTypes
<1>1. CASE CaseAnswered \/ CaseTimedOut
  BY <1>1 DEF CaseAnswered, CaseTimedOut, Timely
<1>2. CASE PollMisses
  BY <1>2, MainAt, TimelyRests DEF PollMisses, mainVars, waitVars, Waiting
<1>3. CASE PollAgain(Timeout(current))
  <2>1. /\ pc[Main] = "sleeping" /\ pc'[Main] = "polling"
        /\ elapsed' < Timeout(current) /\ UNCHANGED <<current, caseCount>>
    BY <1>3, MainAt DEF PollAgain
  <2>2. current <= caseCount
    BY <2>1 DEF Bounded
  <2>3. Timeout(current)' = Timeout(current)
    BY <2>1 DEF Timeout
  <2> QED
    BY <2>1, <2>2, <2>3 DEF Timely, Waiting
<1>4. CASE AllWaited
  <2>1. elapsed' = elapsed /\ elapsed = 0
    BY <1>4, <1>t DEF AllWaited, Timely
  <2> QED
    BY <2>1 DEF Timely
<1>5. CASE \/ RunRefused \/ OpenDatabase \/ NoRuntime \/ StartThread \/ StartFails \/ RuntimeReady
           \/ SubmitCase \/ SubmitFails \/ DispatchCase \/ DispatchFails \/ AllDispatched
           \/ FreeHeld \/ DestroyRuntime \/ CloseDatabase
  <2>1. pc[Main] \notin Waiting /\ elapsed' = elapsed
    BY <1>5 DEF RunRefused, OpenDatabase, NoRuntime, StartThread, StartFails, RuntimeReady,
         SubmitCase, SubmitFails, DispatchCase, DispatchFails, AllDispatched, FreeHeld,
         DestroyRuntime, CloseRequestQueue, CloseResponseQueue, CloseDbQueue, Shutdown,
         JoinWorkers, JoinDispatcher, JoinDbWorker, Join, FreeRuntime, CloseDatabase,
         Waiting, mainVars, waitVars
  <2> QED
    BY <2>1 DEF Timely
<1> QED
  BY <1>1, <1>2, <1>3, <1>4, <1>5 DEF RunPlan, WaitStep

LEMMA StepTimely == TypeOK /\ Bounded /\ Timely /\ [Next]_vars => Timely'
<1> SUFFICES ASSUME TypeOK, Bounded, Timely, [Next]_vars PROVE Timely'
  OBVIOUS
<1>m. ASSUME pc'[Main] = pc[Main], UNCHANGED mainVars PROVE Timely'
  BY <1>m, TimelyRests DEF mainVars, waitVars
<1>1. CASE RunPlan
  BY <1>1, RunPlanTimely
<1>2. ASSUME NEW w \in Workers, HttpWorker(w) PROVE Timely'
  BY <1>2, <1>m, HttpWorkerTypes
<1>3. CASE DispatcherStep
  BY <1>3, <1>m, DispatcherTypes
<1>4. CASE DbWorkerStep
  BY <1>4, <1>m, DbWorkerTypes
<1>5. CASE UNCHANGED vars
  BY <1>5, <1>m DEF vars, threadVars
<1> QED
  BY <1>1, <1>2, <1>3, <1>4, <1>5 DEF Next, Returned

-----------------------------------------------------------------------------
(* The steps of main *)

\* Main goes to a later label and leaves the cases where they are, or frees the
\* queues.
LEMMA MainTurns ==
  ASSUME TypeOK, NEW l \in MainLabels, Goto(Main, l), Turns(l) < Turns(pc[Main]),
         UNCHANGED <<job, submitted>>, \A q \in Queues : queue'[q] = queue[q] \/ queue'[q] = <<>>
  PROVE  NoMore /\ Less
<1>1. pc'[Main] = l /\ \A c \in Consumers : pc'[c] = pc[c] /\ job'[c] = job[c]
  BY MainGoes
<1>2. StopsLeft' \subseteq StopsLeft
  BY <1>1, StopsStay
<1>3. TasksLeft' \subseteq TasksLeft
  BY <1>1, TasksStay DEF Queues
<1>4. Unborn' = Unborn /\ Staying' = Staying
  BY <1>1 DEF Unborn, Staying
<1>5. pc[Main] \in MainLabels
  BY DEF TypeOK, ThreadTypes
<1>6. /\ l \in {"starting", "creating", "submitting", "dispatching"} => pc[Main] \in {"starting", "creating"}
      /\ l \in {"polling", "sleeping"} => pc[Main] \in {"starting", "creating", "submitting", "dispatching"}
  BY <1>5 DEF Turns, MainLabels
<1>7. ToMake' \subseteq ToMake
  BY <1>1, <1>6 DEF ToMake
<1>8. ToWait' \subseteq ToWait
  <2>1. ASSUME NEW m \in ToWait' PROVE m \in ToWait
    <3>1. m \in Moments /\ (pc'[Main] \in Submitting \/ pc'[Main] \in Waiting)
      <4>1. m \in Moments'
        BY <2>1 DEF ToWait
      <4>2. m \in Moments
        BY <4>1 DEF Moments
      <4> QED
        BY <2>1, <4>2 DEF ToWait, Waiting
    <3>2. pc[Main] \in Submitting
      BY <1>1, <1>6, <3>1 DEF Submitting, Waiting
    <3> QED
      BY <3>1, <3>2 DEF ToWait
  <2> QED
    BY <2>1
<1>9. Turns(pc[Main])' < Turns(pc[Main]) /\ Turns(pc[Main])' <= Turns(pc[Main])
  <2>1. PICK n \in Nat : n = Turns(pc[Main])
    BY ONLY <1>5, TurnsOf
  <2>2. PICK k \in Nat : k = Turns(l) /\ Turns(pc[Main])' = k
    BY ONLY l \in MainLabels, <1>1, TurnsOf
  <2>3. k < n /\ k <= n
    BY <2>1, <2>2
  <2> QED
    BY <2>1, <2>2, <2>3
<1> QED
  BY ONLY <1>2, <1>3, <1>4, <1>7, <1>8, <1>9 DEF NoMore, Less

LEMMA TurningDescends ==
  ASSUME TypeOK,
         \/ RunRefused \/ OpenDatabase \/ NoRuntime \/ StartFails \/ RuntimeReady
         \/ SubmitFails \/ DispatchFails \/ AllDispatched \/ AllWaited
         \/ FreeHeld \/ DestroyRuntime \/ CloseDatabase
  PROVE  NoMore /\ Less
<1>1. \E l \in MainLabels : Goto(Main, l) /\ Turns(l) < Turns(pc[Main])
  <2>1. CASE RunRefused \/ OpenDatabase
    BY <2>1 DEF RunRefused, OpenDatabase, MainLabels, Turns
  <2>2. CASE NoRuntime \/ StartFails \/ RuntimeReady
    BY <2>2 DEF NoRuntime, StartFails, RuntimeReady, MainLabels, Turns
  <2>3. CASE SubmitFails \/ DispatchFails \/ AllDispatched \/ AllWaited
    BY <2>3 DEF SubmitFails, DispatchFails, AllDispatched, AllWaited, MainLabels, Turns
  <2>4. CASE FreeHeld \/ CloseDatabase
    BY <2>4 DEF FreeHeld, CloseDatabase, MainLabels, Turns
  <2>5. CASE CloseRequestQueue \/ CloseResponseQueue \/ CloseDbQueue
    BY <2>5 DEF CloseRequestQueue, CloseResponseQueue, CloseDbQueue, Shutdown, MainLabels, Turns
  <2>6. CASE JoinWorkers \/ JoinDispatcher \/ JoinDbWorker \/ FreeRuntime
    BY <2>6 DEF JoinWorkers, JoinDispatcher, JoinDbWorker, Join, FreeRuntime, MainLabels, Turns
  <2> QED
    BY <2>1, <2>2, <2>3, <2>4, <2>5, <2>6 DEF DestroyRuntime
<1>2. UNCHANGED <<job, submitted>> /\ \A q \in Queues : queue'[q] = queue[q] \/ queue'[q] = <<>>
  <2>1. CASE SubmitFails \/ DispatchFails \/ FreeHeld
    BY <2>1 DEF SubmitFails, DispatchFails, FreeHeld, PushFails, queueVars
  <2>2. CASE HoldsNothing
    BY <2>2, HoldsNothingMoves
  <2> QED
    BY <2>1, <2>2 DEF HoldsNothing
<1> QED
  BY <1>1, <1>2, MainTurns

\* A step of the loops of run_plan that leaves the cases where they are.
LEMMA MainLoops ==
  ASSUME TypeOK, NEW l \in MainLabels, pc'[Main] = l, Turns(l) = Turns(pc[Main]),
         \A c \in Consumers : pc'[c] = pc[c],
         UNCHANGED <<job, submitted, queue>>, ToMake' \subseteq ToMake, ToWait' \subseteq ToWait,
         ToMake' # ToMake \/ ToWait' # ToWait
  PROVE  NoMore /\ Less
<1>1. StopsLeft' \subseteq StopsLeft
  BY StopsStay
<1>2. TasksLeft' \subseteq TasksLeft
  BY TasksStay
<1>3. Unborn' = Unborn /\ Staying' = Staying
  BY DEF Unborn, Staying
<1>4. Turns(pc[Main])' <= Turns(pc[Main])
  BY TurnsOf
<1> QED
  BY <1>1, <1>2, <1>3, <1>4 DEF NoMore, Less

LEMMA SubmitDescends ==
  ASSUME TypeOK, Bounded, SubmitCase
  PROVE  NoMore /\ Less
<1>1. /\ pc[Main] = "submitting" /\ pc'[Main] = "dispatching" /\ current' = current
      /\ \A c \in Consumers : pc'[c] = pc[c]
      /\ UNCHANGED <<job, submitted, queue>>
  BY MainGoes DEF SubmitCase, queueVars
<1>2. current \in Cases
  BY <1>1 DEF SubmitCase, Bounded, TypeOK, RunTypes, Cases
<1>3. ToMake = {i \in Cases : i >= current} /\ ToMake' = {i \in Cases : i > current}
  BY <1>1 DEF ToMake
<1>4. ToMake' \subseteq ToMake /\ ToMake' # ToMake
  <2>1. current \in ToMake /\ current \notin ToMake'
    BY <1>2, <1>3 DEF Cases
  <2>2. ToMake' \subseteq ToMake
    BY <1>2, <1>3 DEF Cases
  <2> QED
    BY <2>1, <2>2
<1>5. ToWait' = ToWait
  BY <1>1 DEF ToWait, Submitting, Moments
<1> QED
  BY <1>1, <1>4, <1>5, MainLoops DEF Turns, MainLabels

LEMMA DispatchDescends ==
  ASSUME TypeOK, Bounded, Owned, DispatchCase
  PROVE  NoMore /\ Less
<1>1. /\ pc[Main] = "dispatching" /\ pc'[Main] = "submitting" /\ current' = current + 1
      /\ \A c \in Consumers : pc'[c] = pc[c] /\ job'[c] = job[c]
  BY MainGoes DEF DispatchCase
<1>2. PICK i \in Cases : i = current
  BY <1>1 DEF Bounded, TypeOK, RunTypes, Cases
<1>3. submitted' = submitted \cup {i} /\ i \notin submitted
  <2>1. \A j \in submitted : j < i
    BY <1>1, <1>2 DEF Owned, NotYetSubmitted
  <2> QED
    BY <1>2, <2>1 DEF DispatchCase, Cases
<1>4. /\ \A q \in Queues \ {"request"} : queue'[q] = queue[q]
      /\ Range(queue'["request"]) = Range(queue["request"]) \cup {i}
  <2>1. /\ queue' = [queue EXCEPT !["request"] = Append(queue["request"], i)]
        /\ queue \in [Queues -> Seq(Cases)] /\ "request" \in Queues
    BY <1>2 DEF DispatchCase, Push, AtBack, TypeOK, ObjectTypes, Queues
  <2>2. Range(Append(queue["request"], i)) = Range(queue["request"]) \cup {i}
    BY <2>1, PushRange
  <2> QED
    BY <2>1, <2>2
<1>5. ASSUME NEW labels, NEW lines, lines \subseteq Queues, NEW j \in Cases, With(labels, lines, j)'
      PROVE  j \notin submitted \/ With(labels, lines, j)
  <2>1. ASSUME NEW d \in Consumers, pc'[d] \in labels, job'[d] = j PROVE With(labels, lines, j)
    BY <1>1, <2>1 DEF With
  <2>2. ASSUME NEW q \in lines, j \in Range(queue'[q]) PROVE j \notin submitted \/ With(labels, lines, j)
    <3>1. j \in Range(queue[q]) \/ j = i
      BY <1>4, <1>5, <2>2
    <3> QED
      BY <1>3, <3>1 DEF With
  <2> QED
    BY <1>5, <2>1, <2>2 DEF With
<1>6. StopsLeft' \subseteq StopsLeft
  <2>1. \A k \in Stops, j \in Cases : With(LabelsTo(k), LinesTo(k), j)' => Behind(j, k)
    BY <1>5, StopIs DEF Behind
  <2> QED
    BY <1>3, <2>1, NobodyBack
<1>7. StopsLeft' # StopsLeft
  <2>1. 0 \in Stops /\ LabelsTo(0) = {} /\ LinesTo(0) = {}
    <3>1. \A x \in ResponseLabels \cup Queues : ~ (StopOf(x) <= 0)
      BY StopIs
    <3> QED
      BY <3>1 DEF Stops, LabelsTo, LinesTo
  <2>2. <<i, 0>> \in StopsLeft
    BY <1>3, <2>1 DEF StopsLeft, Behind
  <2>3. <<i, 0>> \notin StopsLeft'
    BY <1>3, <2>1 DEF StopsLeft, Behind, With
  <2> QED
    BY <2>2, <2>3
<1>8. TasksLeft' \subseteq TasksLeft
  BY <1>3, <1>5 DEF TasksLeft, Queues
<1>9. Unborn' = Unborn /\ Staying' = Staying
  BY <1>1 DEF Unborn, Staying
<1>10. ToMake' \subseteq ToMake
  <2>1. ToMake = {j \in Cases : j > i} /\ ToMake' = {j \in Cases : j >= i + 1}
    BY <1>1, <1>2 DEF ToMake
  <2> QED
    BY <1>2, <2>1 DEF Cases
<1>11. ToWait' = ToWait
  BY <1>1 DEF ToWait, Submitting, Moments
<1>12. Turns(pc[Main])' <= Turns(pc[Main])
  BY <1>1 DEF Turns
<1> QED
  BY <1>6, <1>7, <1>8, <1>9, <1>10, <1>11, <1>12 DEF NoMore, Less

LEMMA StartDescends ==
  ASSUME TypeOK, StartThread
  PROVE  NoMore /\ Less
<1>1. PICK t \in Unborn : Goto(t, "idle")
  BY DEF StartThread, StartsNext
<1>2. /\ pc[t] = "unborn" /\ pc'[t] = "idle" /\ pc'[Main] = pc[Main] /\ t \in Consumers
      /\ \A d \in Consumers \ {t} : pc'[d] = pc[d]
  BY <1>1, ConsumerGoes DEF Unborn
<1>3. UNCHANGED <<job, queue, submitted, current, elapsed>>
  BY DEF StartThread, queueVars, mainVars, waitVars
<1>4. \A c \in Consumers : /\ pc'[c] \in ResponseLabels => pc'[c] = pc[c] /\ job'[c] = job[c]
                           /\ pc'[c] \in WorkerLabels => pc[c] \in WorkerLabels /\ job'[c] = job[c]
  BY <1>2, <1>3 DEF ResponseLabels, DbLabels, WorkerLabels
<1>5. StopsLeft' \subseteq StopsLeft /\ TasksLeft' \subseteq TasksLeft
  BY <1>3, <1>4, StopsStay, TasksStay
<1>6. Unborn' \subseteq Unborn /\ Unborn' # Unborn
  BY <1>1, <1>2 DEF Unborn
<1>7. Staying' \subseteq Staying
  BY <1>2 DEF Staying
<1>8. ToMake' = ToMake /\ ToWait' = ToWait
  BY <1>2, <1>3 DEF ToMake, ToWait, Moments
<1>9. Turns(pc[Main])' <= Turns(pc[Main])
  <2>1. pc[Main] \in MainLabels /\ Turns(pc[Main])' = Turns(pc[Main])
    BY <1>2 DEF TypeOK, ThreadTypes
  <2>2. Turns(pc[Main]) \in Int
    BY <2>1, TurnsOf
  <2> QED
    BY <2>1, <2>2
<1> QED
  BY <1>5, <1>6, <1>7, <1>8, <1>9 DEF NoMore, Less

\* While main waits for case i, it sees moment e of the wait.
LEMMA WaitDescends ==
  ASSUME TypeOK, Bounded, Timely, WaitStep
  PROVE  NoMore /\ Less
<1>a. /\ pc[Main] \in {"polling", "sleeping"} /\ pc'[Main] \in {"polling", "sleeping"}
      /\ UNCHANGED <<job, queue, submitted, caseCount>>
      /\ \A c \in Consumers : pc'[c] = pc[c]
      /\ current <= caseCount
  <2>1. CASE CaseAnswered
    BY <2>1 DEF CaseAnswered, PollFinds, threadVars, queueVars
  <2>2. CASE CaseTimedOut \/ PollAgain(Timeout(current))
    <3>1. pc[Main] = "sleeping" /\ Goto(Main, "polling") /\ UNCHANGED <<job, queue, submitted, caseCount>>
      BY <2>2 DEF CaseTimedOut, PollEnds, PollAgain, queueVars
    <3> QED
      BY <3>1, MainGoes DEF Bounded
  <2>3. CASE current <= caseCount /\ PollMisses
    <3>1. pc[Main] = "polling" /\ Goto(Main, "sleeping") /\ UNCHANGED <<job, queue, submitted, caseCount>>
      BY <2>3 DEF PollMisses, queueVars, mainVars
    <3> QED
      BY <2>3, <3>1, MainGoes
  <2> QED
    BY <2>1, <2>2, <2>3 DEF WaitStep
<1>b. PICK i \in Cases, e \in Nat : i = current /\ e = elapsed
  BY <1>a DEF Bounded, TypeOK, RunTypes, Cases
<1>c. PICK t \in Nat \ {0} : t = Timeout(i)
  BY TimeoutIs
<1>d. e < t
  BY <1>b, <1>c DEF Timely
<1>e. Moments' = Moments
  BY DEF Moments
<1>f. ToMake' = {} /\ ToMake = {}
  BY <1>a DEF ToMake
<1>g. \A n \in Nat : n <= t => <<i, n>> \in Moments
  BY <1>c DEF Moments
<1>h. \A m \in Moments : m = <<m[1], m[2]>> /\ m[1] \in Nat /\ m[2] \in Nat
  BY DEF Moments, Cases
<1>i. Turns(pc'[Main]) = Turns(pc[Main])
  BY <1>a DEF Turns
<1>w. /\ pc[Main] = "polling" => ToWait = {m \in Moments : m[1] > i \/ (m[1] = i /\ m[2] >= e)}
      /\ pc[Main] = "sleeping" => ToWait = {m \in Moments : m[1] > i \/ (m[1] = i /\ m[2] > e)}
  BY <1>b DEF ToWait, Submitting, Waiting
<1>n. ASSUME NEW j \in Nat, NEW f \in Nat, current' = j, elapsed' = f
      PROVE  /\ pc'[Main] = "polling" => ToWait' = {m \in Moments : m[1] > j \/ (m[1] = j /\ m[2] >= f)}
             /\ pc'[Main] = "sleeping" => ToWait' = {m \in Moments : m[1] > j \/ (m[1] = j /\ m[2] > f)}
  BY <1>e, <1>n DEF ToWait, Submitting, Waiting
<1>1. CASE CaseAnswered
  <2>1. pc[Main] = "polling" /\ pc'[Main] = "polling" /\ current' = i + 1 /\ elapsed' = 0
    BY <1>1, <1>b DEF CaseAnswered, PollFinds, threadVars
  <2>2. i + 1 \in Nat /\ 0 \in Nat
    BY DEF Cases
  <2>3. ToWait' = {m \in Moments : m[1] > i + 1 \/ (m[1] = i + 1 /\ m[2] >= 0)}
    BY <1>n, <2>1, <2>2
  <2>4. <<i, e>> \in ToWait /\ <<i, e>> \notin ToWait'
    BY <1>d, <1>g, <1>w, <2>1, <2>3 DEF Cases
  <2>5. ToWait' \subseteq ToWait
    BY <1>h, <1>w, <2>1, <2>3 DEF Cases
  <2> QED
    BY <1>a, <1>f, <1>i, <2>4, <2>5, MainLoops DEF MainLabels
<1>2. CASE CaseTimedOut
  <2>1. pc[Main] = "sleeping" /\ pc'[Main] = "polling" /\ current' = i + 1 /\ elapsed' = 0
    BY <1>2, <1>b, MainAt DEF CaseTimedOut, PollEnds
  <2>2. i + 1 \in Nat /\ 0 \in Nat
    BY DEF Cases
  <2>3. ToWait' = {m \in Moments : m[1] > i + 1 \/ (m[1] = i + 1 /\ m[2] >= 0)}
    BY <1>n, <2>1, <2>2
  <2>4. <<i, t>> \in ToWait /\ <<i, t>> \notin ToWait'
    BY <1>d, <1>g, <1>w, <2>1, <2>3 DEF Cases
  <2>5. ToWait' \subseteq ToWait
    BY <1>h, <1>w, <2>1, <2>3 DEF Cases
  <2> QED
    BY <1>a, <1>f, <1>i, <2>4, <2>5, MainLoops DEF MainLabels
<1>3. CASE PollMisses
  <2>1. pc[Main] = "polling" /\ pc'[Main] = "sleeping" /\ current' = i /\ elapsed' = e
    BY <1>3, <1>b, MainAt DEF PollMisses, mainVars, waitVars
  <2>2. i \in Nat
    BY DEF Cases
  <2>3. ToWait' = {m \in Moments : m[1] > i \/ (m[1] = i /\ m[2] > e)}
    BY <1>n, <2>1, <2>2
  <2>4. <<i, e>> \in ToWait /\ <<i, e>> \notin ToWait'
    BY <1>d, <1>g, <1>w, <2>1, <2>3 DEF Cases
  <2>5. ToWait' \subseteq ToWait
    BY <1>h, <1>w, <2>1, <2>3
  <2> QED
    BY <1>a, <1>f, <1>i, <2>4, <2>5, MainLoops DEF MainLabels
<1>4. CASE PollAgain(Timeout(current))
  <2>1. /\ pc[Main] = "sleeping" /\ pc'[Main] = "polling" /\ current' = i
        /\ elapsed' = e + 100 /\ e + 100 < t
    BY <1>4, <1>b, <1>c, MainAt DEF PollAgain, PollInterval
  <2>2. i \in Nat /\ e + 100 \in Nat
    BY DEF Cases
  <2>3. ToWait' = {m \in Moments : m[1] > i \/ (m[1] = i /\ m[2] >= e + 100)}
    BY <1>n, <2>1, <2>2
  <2>4. <<i, e + 1>> \in ToWait /\ <<i, e + 1>> \notin ToWait'
    BY <1>g, <1>w, <2>1, <2>3 DEF Cases
  <2>5. ToWait' \subseteq ToWait
    BY <1>h, <1>w, <2>1, <2>3
  <2> QED
    BY <1>a, <1>f, <1>i, <2>4, <2>5, MainLoops DEF MainLabels
<1> QED
  BY <1>1, <1>2, <1>3, <1>4 DEF WaitStep

\* Every step of the pipeline that is not a stutter.
LEMMA NextDescends ==
  ASSUME TypeOK, Bounded, Owned, Timely, Next
  PROVE  (NoMore /\ Less) \/ UNCHANGED vars
<1>1. CASE RunPlan
  BY <1>1, TurningDescends, SubmitDescends, DispatchDescends, StartDescends, WaitDescends DEF RunPlan
<1>2. CASE \E w \in Workers : HttpWorker(w)
  BY <1>2, HttpWorkerDescends
<1>3. CASE DispatcherStep \/ DbWorkerStep
  BY <1>3, DispatcherDescends, DbWorkerDescends
<1>4. CASE Returned
  BY <1>4 DEF Returned
<1> QED
  BY <1>1, <1>2, <1>3, <1>4 DEF Next

-----------------------------------------------------------------------------
(* Counting the steps *)

LEMMA FewerThan ==
  ASSUME NEW S, IsFiniteSet(S), NEW T, T \subseteq S
  PROVE  /\ IsFiniteSet(T) /\ Cardinality(S) \in Nat /\ Cardinality(T) \in Nat
         /\ Cardinality(T) <= Cardinality(S)
         /\ T # S => Cardinality(T) < Cardinality(S)
<1>1. IsFiniteSet(T) /\ Cardinality(T) <= Cardinality(S) /\ (Cardinality(S) = Cardinality(T) => S = T)
  BY FS_Subset
<1>2. Cardinality(S) \in Nat /\ Cardinality(T) \in Nat
  BY <1>1, FS_CardinalityType
<1> QED
  BY <1>1, <1>2

\* A wait has finitely many moments, and a plan finitely many waits.
LEMMA MomentsFinite == IsFiniteSet(Moments)
<1> DEFINE of == [i \in Cases |-> {i} \X (0 .. Timeout(i))]
           all == {of[i] : i \in Cases}
<1>1. IsFiniteSet(Cases)
  <2>1. 1 \in Int /\ MaxCases \in Int
    OBVIOUS
  <2> QED
    BY <2>1, FS_Interval DEF Cases
<1>2. of \in Surjection(Cases, all)
  BY DEF Surjection
<1>3. IsFiniteSet(all)
  BY <1>1, <1>2, FS_Surjection
<1>4. \A T \in all : IsFiniteSet(T)
  <2> SUFFICES ASSUME NEW i \in Cases PROVE IsFiniteSet(of[i])
    OBVIOUS
  <2>1. PICK t \in Int : t = Timeout(i)
    BY TimeoutIs
  <2>2. IsFiniteSet(0 .. t)
    <3>1. 0 \in Int
      OBVIOUS
    <3> QED
      BY ONLY <3>1, t \in Int, FS_Interval
  <2>3. IsFiniteSet({i})
    BY FS_Singleton
  <2>4. IsFiniteSet({i} \X (0 .. t))
    BY <2>2, <2>3, FS_Product
  <2> QED
    BY <2>1, <2>4
<1>5. IsFiniteSet(UNION all)
  BY <1>3, <1>4, FS_UNION
<1>6. Moments \subseteq UNION all
  <2> SUFFICES ASSUME NEW m \in Moments PROVE m \in of[m[1]] /\ m[1] \in Cases
    OBVIOUS
  <2>1. m[1] \in Cases /\ m[2] \in Nat /\ m[2] <= Timeout(m[1]) /\ m = <<m[1], m[2]>>
    BY DEF Moments
  <2>2. m[2] \in 0 .. Timeout(m[1])
    BY <2>1, TimeoutIs
  <2> QED
    BY <2>1, <2>2
<1> QED
  BY <1>5, <1>6, FS_Subset

LEMMA LeftFinite ==
  ASSUME IsFiniteSet(Workers)
  PROVE  /\ IsFiniteSet(StopsLeft) /\ IsFiniteSet(TasksLeft) /\ IsFiniteSet(Unborn)
         /\ IsFiniteSet(Staying) /\ IsFiniteSet(ToMake) /\ IsFiniteSet(ToWait)
<1>1. IsFiniteSet(Cases) /\ IsFiniteSet(Stops)
  <2>1. 0 \in Int /\ 1 \in Int /\ 10 \in Int /\ MaxCases \in Int
    OBVIOUS
  <2>2. IsFiniteSet(1 .. MaxCases)
    BY ONLY <2>1, FS_Interval
  <2>3. IsFiniteSet(0 .. 10)
    BY ONLY <2>1, FS_Interval
  <2> QED
    BY ONLY <2>2, <2>3 DEF Cases, Stops
<1>2. IsFiniteSet(Cases \X Stops)
  BY <1>1, FS_Product
<1>3. IsFiniteSet(Consumers)
  <2>1. IsFiniteSet({Dispatcher, DbWorker})
    <3>1. IsFiniteSet({Dispatcher} \cup {DbWorker})
      BY FS_Singleton, FS_Union
    <3>2. {Dispatcher, DbWorker} = {Dispatcher} \cup {DbWorker}
      OBVIOUS
    <3> QED
      BY <3>1, <3>2
  <2> QED
    BY <2>1, FS_Union DEF Consumers
<1>4. /\ StopsLeft \subseteq Cases \X Stops /\ TasksLeft \subseteq Cases /\ ToMake \subseteq Cases
      /\ Unborn \subseteq Consumers /\ Staying \subseteq Consumers /\ ToWait \subseteq Moments
  BY DEF StopsLeft, TasksLeft, ToMake, Unborn, Staying, ToWait
<1> QED
  BY <1>1, <1>2, <1>3, <1>4, FewerThan, MomentsFinite

LEMMA StepsLeftNat ==
  ASSUME TypeOK, IsFiniteSet(Workers)
  PROVE  StepsLeft \in Nat
<1>1. Turns(pc[Main]) \in Nat
  <2>1. pc[Main] \in MainLabels
    BY DEF TypeOK, ThreadTypes
  <2> QED
    BY ONLY <2>1, TurnsOf
<1>2. /\ Cardinality(StopsLeft) \in Nat /\ Cardinality(TasksLeft) \in Nat
      /\ Cardinality(Unborn) \in Nat /\ Cardinality(Staying) \in Nat
      /\ Cardinality(ToMake) \in Nat /\ Cardinality(ToWait) \in Nat
  BY LeftFinite, FS_CardinalityType
<1> QED
  BY <1>1, <1>2 DEF StepsLeft

LEMMA StepsLeftFalls ==
  ASSUME TypeOK, TypeOK', IsFiniteSet(Workers), NoMore, Less
  PROVE  StepsLeft' < StepsLeft
<1>f. /\ IsFiniteSet(StopsLeft) /\ IsFiniteSet(TasksLeft) /\ IsFiniteSet(Unborn)
      /\ IsFiniteSet(Staying) /\ IsFiniteSet(ToMake) /\ IsFiniteSet(ToWait)
  BY LeftFinite
<1>1. PICK s1 \in Nat, s2 \in Nat : /\ s1 = Cardinality(StopsLeft) /\ s2 = Cardinality(StopsLeft')
                                    /\ s2 <= s1 /\ (StopsLeft' # StopsLeft => s2 < s1)
  BY <1>f, FewerThan DEF NoMore
<1>2. PICK t1 \in Nat, t2 \in Nat : /\ t1 = Cardinality(TasksLeft) /\ t2 = Cardinality(TasksLeft')
                                    /\ t2 <= t1 /\ (TasksLeft' # TasksLeft => t2 < t1)
  BY <1>f, FewerThan DEF NoMore
<1>3. PICK u1 \in Nat, u2 \in Nat : /\ u1 = Cardinality(Unborn) /\ u2 = Cardinality(Unborn')
                                    /\ u2 <= u1 /\ (Unborn' # Unborn => u2 < u1)
  BY <1>f, FewerThan DEF NoMore
<1>4. PICK v1 \in Nat, v2 \in Nat : /\ v1 = Cardinality(Staying) /\ v2 = Cardinality(Staying')
                                    /\ v2 <= v1 /\ (Staying' # Staying => v2 < v1)
  BY <1>f, FewerThan DEF NoMore
<1>5. PICK m1 \in Nat, m2 \in Nat : /\ m1 = Cardinality(ToMake) /\ m2 = Cardinality(ToMake')
                                    /\ m2 <= m1 /\ (ToMake' # ToMake => m2 < m1)
  BY <1>f, FewerThan DEF NoMore
<1>6. PICK w1 \in Nat, w2 \in Nat : /\ w1 = Cardinality(ToWait) /\ w2 = Cardinality(ToWait')
                                    /\ w2 <= w1 /\ (ToWait' # ToWait => w2 < w1)
  BY <1>f, FewerThan DEF NoMore
<1>7. PICK r1 \in Nat, r2 \in Nat : /\ r1 = Turns(pc[Main]) /\ r2 = Turns(pc[Main])' /\ r2 <= r1
  <2>1. pc[Main] \in MainLabels /\ pc'[Main] \in MainLabels
    BY DEF TypeOK, ThreadTypes
  <2>2. PICK r1 \in Nat : r1 = Turns(pc[Main])
    BY ONLY <2>1, TurnsOf
  <2>3. PICK r2 \in Nat : r2 = Turns(pc'[Main])
    BY ONLY <2>1, TurnsOf
  <2> QED
    BY <2>2, <2>3 DEF NoMore
<1>8. StepsLeft = r1 + u1 + v1 + m1 + w1 + s1 + t1
  BY <1>1, <1>2, <1>3, <1>4, <1>5, <1>6, <1>7 DEF StepsLeft
<1>9. StepsLeft' = r2 + u2 + v2 + m2 + w2 + s2 + t2
  BY <1>1, <1>2, <1>3, <1>4, <1>5, <1>6, <1>7 DEF StepsLeft
<1>10. s2 < s1 \/ t2 < t1 \/ u2 < u1 \/ v2 < v1 \/ m2 < m1 \/ w2 < w1 \/ r2 < r1
  BY <1>1, <1>2, <1>3, <1>4, <1>5, <1>6, <1>7 DEF Less
<1>11. r2 + u2 + v2 + m2 + w2 + s2 + t2 < r1 + u1 + v1 + m1 + w1 + s1 + t1
  BY ONLY r1 \in Nat, r2 \in Nat, u1 \in Nat, u2 \in Nat, v1 \in Nat, v2 \in Nat,
          m1 \in Nat, m2 \in Nat, w1 \in Nat, w2 \in Nat, s1 \in Nat, s2 \in Nat,
          t1 \in Nat, t2 \in Nat, <1>1, <1>2, <1>3, <1>4, <1>5, <1>6, <1>7, <1>10
<1> QED
  BY ONLY <1>8, <1>9, <1>11

\* run_plan comes to an end by itself, if the number of workers is finite: with
\* every step of main or of a thread, of whatever speed and in whatever order,
\* and whatever fails, the steps that are left become fewer.  No loop of
\* http_worker_routine, dispatcher_routine, db_worker_routine, run_plan or
\* wait_for_response can keep the process busy for ever.
THEOREM RunDescends ==
  ASSUME IsFiniteSet(Workers)
  PROVE  Safety => [](StepsLeft \in Nat) /\ [][StepsLeft' < StepsLeft]_vars
<1> DEFINE Inv == TypeOK /\ Bounded /\ Owned /\ Timely
<1>1. Init => Inv
  <2>1. Init => Timely
    BY DEF Init, Timely
  <2> QED
    BY <2>1, InitTypes, InitOwned
<1>2. Inv /\ [Next]_vars => Inv'
  BY StepTypes, StepOwned, StepTimely
<1>3. Inv => StepsLeft \in Nat
  BY StepsLeftNat
<1>4. Inv /\ Inv' /\ [Next]_vars => [StepsLeft' < StepsLeft]_vars
  BY NextDescends, StepsLeftFalls
<1> QED
  BY <1>1, <1>2, <1>3, <1>4, PTL DEF Safety

-----------------------------------------------------------------------------
(* Nobody waits for ever *)

\* At a join the queue of those who are joined is closed: they see it, finish
\* what is left in it and leave.
JoinsClosed == \A q \in Queues : AtJoin(q) => Closed(q)

\* A step that closes nothing, or more, and does not enter a join.
LEMMA JoinsStayClosed ==
  ASSUME JoinsClosed, closed \subseteq closed',
         pc'[Main] = pc[Main] \/ pc'[Main] \notin {"join_workers", "join_dispatcher", "join_db"}
  PROVE  JoinsClosed'
BY DEF JoinsClosed, AtJoin, Closed, Queues

LEMMA RunPlanJoinsClosed ==
  ASSUME TypeOK, JoinsClosed, RunPlan
  PROVE  JoinsClosed'
<1>1. CASE CloseRequestQueue \/ CloseResponseQueue \/ CloseDbQueue
  <2>1. CASE CloseRequestQueue
    <3>1. pc'[Main] = "join_workers" /\ "request" \in closed'
      BY <2>1, MainAt DEF CloseRequestQueue, Shutdown, WithClosed
    <3> QED
      BY <3>1 DEF JoinsClosed, AtJoin, Closed, Queues
  <2>2. CASE CloseResponseQueue
    <3>1. pc'[Main] = "join_dispatcher" /\ "response" \in closed'
      BY <2>2, MainAt DEF CloseResponseQueue, Shutdown, WithClosed
    <3> QED
      BY <3>1 DEF JoinsClosed, AtJoin, Closed, Queues
  <2>3. CASE CloseDbQueue
    <3>1. pc'[Main] = "join_db" /\ "db" \in closed'
      BY <2>3, MainAt DEF CloseDbQueue, Shutdown, WithClosed
    <3> QED
      BY <3>1 DEF JoinsClosed, AtJoin, Closed, Queues
  <2> QED
    BY <1>1, <2>1, <2>2, <2>3
<1>2. CASE StartThread \/ CaseAnswered
  <2>1. pc'[Main] = pc[Main] /\ closed' = closed
    <3>1. CASE StartThread
      <4>1. PICK t \in Consumers : Goto(t, "idle")
        BY <3>1 DEF StartThread
      <4> QED
        BY <3>1, <4>1, ConsumerGoes DEF StartThread, queueVars
    <3>2. CASE CaseAnswered
      BY <3>2 DEF CaseAnswered, threadVars, queueVars
    <3> QED
      BY <1>2, <3>1, <3>2
  <2> QED
    BY <2>1, JoinsStayClosed
<1>3. CASE \/ RunRefused \/ OpenDatabase \/ NoRuntime \/ StartFails \/ RuntimeReady
           \/ SubmitCase \/ SubmitFails \/ DispatchCase \/ DispatchFails \/ AllDispatched
           \/ CaseTimedOut \/ PollMisses \/ PollAgain(Timeout(current)) \/ AllWaited
           \/ FreeHeld \/ JoinWorkers \/ JoinDispatcher \/ JoinDbWorker \/ FreeRuntime
           \/ CloseDatabase
  <2>1. \E l \in MainLabels \ {"join_workers", "join_dispatcher", "join_db"} : Goto(Main, l)
    <3>1. CASE RunRefused \/ OpenDatabase \/ NoRuntime \/ StartFails \/ RuntimeReady
      BY <3>1 DEF RunRefused, OpenDatabase, NoRuntime, StartFails, RuntimeReady, MainLabels
    <3>2. CASE SubmitCase \/ SubmitFails \/ DispatchCase \/ DispatchFails \/ AllDispatched
      BY <3>2 DEF SubmitCase, SubmitFails, DispatchCase, DispatchFails, AllDispatched, MainLabels
    <3>3. CASE CaseTimedOut \/ PollMisses \/ PollAgain(Timeout(current)) \/ AllWaited
      BY <3>3 DEF CaseTimedOut, PollMisses, PollAgain, AllWaited, MainLabels
    <3>4. CASE FreeHeld \/ JoinWorkers \/ JoinDispatcher \/ JoinDbWorker \/ FreeRuntime \/ CloseDatabase
      BY <3>4 DEF FreeHeld, JoinWorkers, JoinDispatcher, JoinDbWorker, Join, FreeRuntime,
           CloseDatabase, MainLabels
    <3> QED
      BY <1>3, <3>1, <3>2, <3>3, <3>4
  <2>2. pc'[Main] \notin {"join_workers", "join_dispatcher", "join_db"}
    BY <2>1, MainAt
  <2>3. closed' = closed
    BY <1>3 DEF RunRefused, OpenDatabase, NoRuntime, StartFails, RuntimeReady,
         SubmitCase, SubmitFails, DispatchCase, DispatchFails, AllDispatched,
         CaseTimedOut, PollMisses, PollAgain, AllWaited, FreeHeld, JoinWorkers,
         JoinDispatcher, JoinDbWorker, Join, FreeRuntime, CloseDatabase,
         Push, PushFails, queueVars
  <2> QED
    BY <2>2, <2>3, JoinsStayClosed
<1> QED
  BY <1>1, <1>2, <1>3 DEF RunPlan, WaitStep, DestroyRuntime

LEMMA StepJoinsClosed == TypeOK /\ JoinsClosed /\ [Next]_vars => JoinsClosed'
<1> SUFFICES ASSUME TypeOK, JoinsClosed, [Next]_vars PROVE JoinsClosed'
  OBVIOUS
<1>c. ASSUME NEW c \in Consumers, Consumes(c) PROVE JoinsClosed'
  <2>1. Main \in Threads \ {c}
    BY DEF Threads, Consumers
  <2>2. pc'[Main] = pc[Main] /\ closed' = closed
    BY <1>c, <2>1 DEF Consumes
  <2> QED
    BY <2>2, JoinsStayClosed
<1>1. CASE RunPlan
  BY <1>1, RunPlanJoinsClosed
<1>2. ASSUME NEW w \in Workers, HttpWorker(w) PROVE JoinsClosed'
  BY <1>2, <1>c, HttpWorkerConsumes DEF Consumers
<1>3. CASE DispatcherStep
  BY <1>3, <1>c, DispatcherConsumes DEF Consumers
<1>4. CASE DbWorkerStep
  BY <1>4, <1>c, DbWorkerConsumes DEF Consumers
<1>5. CASE UNCHANGED vars
  BY <1>5, JoinsStayClosed DEF vars, threadVars, queueVars
<1> QED
  BY <1>1, <1>2, <1>3, <1>4, <1>5 DEF Next, Returned

\* The places after a member of a set of places, ordered by inclusion, are the
\* fewest after the last one.
LEMMA LastPlace ==
  ASSUME NEW n \in Nat, NEW S \in SUBSET (1 .. n), S # {}
  PROVE  \E x \in S : \A y \in S : y <= x
<1> DEFINE After(x) == {k \in 1 .. n : k > x}
           Afters   == {After(x) : x \in S}
           Fewer    == StrictSubsetOrdering(1 .. n)
<1>1. Afters \subseteq FiniteSubsetsOf(1 .. n) /\ Afters # {}
  <2>1. IsFiniteSet(1 .. n)
    <3>1. 1 \in Int /\ n \in Int
      OBVIOUS
    <3> QED
      BY ONLY <3>1, FS_Interval
  <2>2. ASSUME NEW x \in S PROVE After(x) \in FiniteSubsetsOf(1 .. n)
    <3>1. After(x) \subseteq 1 .. n
      OBVIOUS
    <3> HIDE DEF After
    <3> QED
      BY <2>1, <3>1, FS_Subset DEF FiniteSubsetsOf
  <2>3. ASSUME NEW t \in Afters PROVE t \in FiniteSubsetsOf(1 .. n)
    <3>1. PICK x \in S : t = After(x)
      OBVIOUS
    <3> QED
      BY ONLY <2>2, <3>1
  <2>4. Afters # {}
    <3>1. PICK x \in S : TRUE
      OBVIOUS
    <3>2. After(x) \in Afters
      OBVIOUS
    <3> QED
      BY ONLY <3>2
  <2> HIDE DEF Afters
  <2> QED
    BY ONLY <2>3, <2>4
<1>2. IsWellFoundedOn(Fewer, FiniteSubsetsOf(1 .. n))
  BY FS_StrictSubsetOrderingWellFounded
<1>3. \E t \in Afters : \A u \in Afters : <<u, t>> \notin Fewer
  <2> HIDE DEF Afters, Fewer
  <2> QED
    BY <1>1, <1>2, WFMin
<1>4. PICK x \in S : \A u \in Afters : <<u, After(x)>> \notin Fewer
  BY <1>3
<1>5. ASSUME NEW y \in S, y > x PROVE FALSE
  <2>1. After(y) \in Afters /\ After(y) \subseteq 1 .. n /\ After(x) \subseteq 1 .. n
    OBVIOUS
  <2>2. After(y) \subseteq After(x) /\ y \in After(x) /\ y \notin After(y)
    BY <1>5
  <2>3. <<After(y), After(x)>> \in Fewer
    BY <2>1, <2>2 DEF StrictSubsetOrdering
  <2> QED
    BY <1>4, <2>1, <2>3
<1> QED
  BY <1>5

\* The query of wait_for_response finds no row of a request or has a latest one.
LEMMA NoneOrLatest ==
  ASSUME TypeOK, NEW r
  PROVE  NoResponse(r) \/ \E k \in DOMAIN responses : IsLatest(k, r)
<1> DEFINE S == {k \in DOMAIN responses : responses[k].request = r}
<1>1. CASE S = {}
  BY <1>1 DEF NoResponse
<1>2. CASE S # {}
  <2>1. PICK n \in Nat : DOMAIN responses = 1 .. n
    <3>1. responses \in Seq(Rows)
      BY DEF TypeOK, TableTypes
    <3> QED
      BY <3>1
  <2>2. S \in SUBSET (1 .. n)
    BY <2>1
  <2>3. PICK k \in S : \A j \in S : j <= k
    <3> HIDE DEF S
    <3> QED
      BY <1>2, <2>2, LastPlace
  <2> QED
    BY <2>3 DEF IsLatest
<1> QED
  BY <1>1, <1>2

LEMMA NextToStart ==
  ASSUME TypeOK
  PROVE  Unborn = {} \/ \E t \in Consumers : StartsNext(t)
<1>1. CASE DbWorker \in Unborn
  BY <1>1 DEF StartsNext, Consumers
<1>2. CASE DbWorker \notin Unborn /\ Dispatcher \in Unborn
  BY <1>2 DEF StartsNext, Consumers
<1>3. CASE DbWorker \notin Unborn /\ Dispatcher \notin Unborn
  BY <1>3 DEF StartsNext, Unborn
<1> QED
  BY <1>1, <1>2, <1>3

LEMMA SomebodyGoes == TypeOK /\ JoinsClosed => NobodyStuck
<1> SUFFICES ASSUME TypeOK, JoinsClosed, pc[Main] # "done"
             PROVE  \/ MainCanGo
                    \/ \E q \in Queues : /\ AtJoin(q)
                                         /\ \A c \in Takes(q) : pc[c] \in Gone \/ CanGo(c)
  BY DEF NobodyStuck
<1>1. ASSUME NEW q \in Queues, AtJoin(q), NEW c \in Takes(q), pc[c] \notin Gone PROVE CanGo(c)
  BY <1>1 DEF JoinsClosed, CanGo
<1>2. ASSUME \A q \in Queues : ~ AtJoin(q) PROVE MainCanGo
  <2>1. NoResponse(PolledRequest) \/ \E k \in DOMAIN responses : IsLatest(k, PolledRequest)
    BY NoneOrLatest
  <2> QED
    BY <1>2, <2>1, NextToStart DEF MainCanGo, PollFinds
<1> QED
  BY <1>1, <1>2

\* There is no deadlock: until run_plan returns, main has a step to take, or it
\* waits in a pthread_join of destroy_runtime for threads of which none waits in
\* queue_pop for ever: each that has not left has a step itself.
THEOREM NoDeadlock == Safety => []NobodyStuck
<1> DEFINE Inv == TypeOK /\ Bounded /\ JoinsClosed
<1>1. Init => Inv
  <2>1. Init => JoinsClosed
    BY DEF Init, JoinsClosed, AtJoin, Queues, Threads
  <2> QED
    BY <2>1, InitTypes
<1>2. Inv /\ [Next]_vars => Inv'
  BY StepTypes, StepJoinsClosed
<1>3. Inv => NobodyStuck
  BY SomebodyGoes
<1> QED
  BY <1>1, <1>2, <1>3, PTL DEF Safety
=============================================================================
