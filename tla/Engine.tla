------------------------------- MODULE Engine -------------------------------
(***************************************************************************)
(* src/core/engine.c: run_plan, the main thread of a test run, composed    *)
(* with the threads of the runtime.  This is the specification of the      *)
(* whole pipeline                                                          *)
(*                                                                         *)
(*    request queue -> HTTP workers -> response queue -> dispatcher        *)
(*                  -> db queue -> DB worker -> database -> main           *)
(***************************************************************************)
EXTENDS Orchestrator

\* RunPlan, RunResult and the process before run_plan is called.
Init == /\ pc = [t \in Threads |-> IF t = Main THEN "starting" ELSE "unborn"]
        /\ job = [c \in Consumers |-> 0]
        /\ exitTo = [w \in Workers |-> "cleanup_task"]
        /\ queue = [q \in Queues |-> <<>>]
        /\ closed = {}
        /\ live = {}
        /\ answer = [i \in Cases |-> [ok |-> FALSE, meets |-> FALSE]]
        /\ DbInit
        /\ caseCount \in 0 .. MaxCases + 1
        /\ current = 1
        /\ elapsed = 0
        /\ held = {}
        /\ requestId = [i \in Cases |-> -1]
        /\ result = [i \in Cases |-> 0]
        /\ allRequestsOk = FALSE /\ allAssertionsOk = FALSE
        /\ exitCode = 1
        /\ submitted = {}

-----------------------------------------------------------------------------
(* Up to create_runtime *)

\* Too many cases, no database, or no collection: straight to db_close.
RunRefused == /\ pc[Main] = "starting"
              /\ caseCount > MaxCases \/ "open" \in Faults
              /\ Goto(Main, "closing")
              /\ UNCHANGED <<job, exitTo, queueVars, heapVars, dbVars, mainVars>>

\* db_init and db_save_collection succeed, create_runtime is entered.
OpenDatabase == /\ pc[Main] = "starting"
                /\ caseCount <= MaxCases
                /\ Goto(Main, "creating")
                /\ UNCHANGED <<job, exitTo, queueVars, heapVars, dbVars, mainVars>>

\* create_runtime has started every thread.
RuntimeReady == /\ pc[Main] = "creating"
                /\ Unborn = {}
                /\ allRequestsOk' = TRUE /\ allAssertionsOk' = TRUE
                /\ Goto(Main, "submitting")
                /\ UNCHANGED <<job, exitTo, queueVars, heapVars, dbVars, caseCount, current,
                               held, requestId, submitted, elapsed, result, exitCode>>

-----------------------------------------------------------------------------
(* The loop that creates and dispatches the tasks *)

\* create_request, db_save_request, create_http_worker_task; req = NULL.
SubmitCase ==
    /\ pc[Main] = "submitting"
    /\ current <= caseCount
    /\ SaveRequestRow(current)
    /\ live' = Made({"request", "task"}, current)
    /\ held' = {"task"}
    /\ Goto(Main, "dispatching")
    /\ UNCHANGED <<job, exitTo, queueVars, answer, caseCount, current, submitted, waitVars>>

\* create_request has no memory: nothing is held; db_save_request fails: req is.
SubmitFails ==
    /\ pc[Main] = "submitting"
    /\ current <= caseCount
    /\ \/ "create_request" \in Faults /\ UNCHANGED <<live, held>>
       \/ /\ "save_request" \in Faults
          /\ live' = Made({"request"}, current)
          /\ held' = {"request"}
    /\ allRequestsOk' = FALSE
    /\ Goto(Main, "cleanup")
    /\ UNCHANGED <<job, exitTo, queueVars, answer, dbVars, caseCount, current, requestId,
                   submitted, elapsed, result, allAssertionsOk, exitCode>>

\* dispatch_task; task = NULL.
DispatchCase ==
    /\ pc[Main] = "dispatching"
    /\ Push("request", current)
    /\ submitted' = submitted \cup {current}
    /\ held' = {}
    /\ current' = current + 1
    /\ Goto(Main, "submitting")
    /\ UNCHANGED <<job, exitTo, heapVars, dbVars, caseCount, requestId, waitVars>>

DispatchFails ==
    /\ pc[Main] = "dispatching"
    /\ PushFails("request", "push_request")
    /\ allRequestsOk' = FALSE
    /\ Goto(Main, "cleanup")
    /\ UNCHANGED <<job, exitTo, heapVars, dbVars, caseCount, current, held, requestId,
                   submitted, elapsed, result, allAssertionsOk, exitCode>>

AllDispatched ==
    /\ pc[Main] = "submitting"
    /\ current > caseCount
    /\ current' = 1
    /\ Goto(Main, "polling")
    /\ UNCHANGED <<job, exitTo, queueVars, heapVars, dbVars, caseCount, held, requestId,
                   submitted, waitVars>>

-----------------------------------------------------------------------------
(* The loop that waits for the responses *)

Timeout(i) ==
    LET t == IF CaseTimeout[i] > 0 THEN CaseTimeout[i] ELSE DefaultTimeout
    IN  IF t <= 0 THEN FallbackTimeout ELSE t

\* wait_for_response returns row k; eval_assertion judges it.
CaseAnswered ==
    /\ current <= caseCount
    /\ \E k \in DOMAIN responses :
          /\ PollFinds(k)
          /\ result' = [result EXCEPT ![current] = k]
          /\ allAssertionsOk' = (allAssertionsOk /\ (current \in Asserting => responses[k].meets))
    /\ current' = current + 1
    /\ elapsed' = 0
    /\ UNCHANGED <<threadVars, queueVars, heapVars, dbVars, caseCount, held, requestId,
                   submitted, allRequestsOk, exitCode>>

\* A case without an answer marks both flags for good.
IgnoreFailure == UNCHANGED <<allRequestsOk, allAssertionsOk>>
NoteFailure   == allRequestsOk' = FALSE /\ allAssertionsOk' = FALSE

\* It returns NULL: the case failed, and the loop goes on.
CaseTimedOut ==
    /\ PollEnds(Timeout(current))
    /\ NoteFailure
    /\ current' = current + 1
    /\ elapsed' = 0
    /\ Goto(Main, "polling")
    /\ UNCHANGED <<job, exitTo, queueVars, heapVars, dbVars, caseCount, held, requestId,
                   submitted, result, exitCode>>

WaitStep == \/ CaseAnswered
            \/ CaseTimedOut
            \/ current <= caseCount /\ PollMisses
            \/ PollAgain(Timeout(current))

AllWaited ==
    /\ pc[Main] = "polling"
    /\ current > caseCount
    /\ exitCode' = IF allRequestsOk /\ allAssertionsOk THEN 0 ELSE 1
    /\ Goto(Main, "cleanup")
    /\ UNCHANGED <<job, exitTo, queueVars, heapVars, dbVars, caseCount, current, held,
                   requestId, submitted, elapsed, result, allRequestsOk, allAssertionsOk>>

-----------------------------------------------------------------------------
(* cleanup: *)

\* What main still owns is freed first, then the runtime is destroyed.
FreeHeld == /\ pc[Main] = "cleanup"
            /\ live' = Freed(held, current)
            /\ held' = {}
            /\ Goto(Main, "close_request")
            /\ UNCHANGED <<job, exitTo, queueVars, answer, dbVars, caseCount, current,
                           requestId, submitted, waitVars>>

\* db_close; run_plan returns exit_code.
CloseDatabase == /\ pc[Main] = "closing"
                 /\ Goto(Main, "done")
                 /\ UNCHANGED <<job, exitTo, queueVars, heapVars, dbVars, mainVars>>

RunPlan == \/ RunRefused \/ OpenDatabase
           \/ NoRuntime \/ StartThread \/ StartFails \/ RuntimeReady
           \/ SubmitCase \/ SubmitFails \/ DispatchCase \/ DispatchFails \/ AllDispatched
           \/ WaitStep \/ AllWaited
           \/ FreeHeld \/ DestroyRuntime \/ CloseDatabase

\* run_plan returned; any other state without a step is a deadlock.
Returned == pc[Main] = "done" /\ UNCHANGED vars

Next == \/ RunPlan
        \/ \E w \in Workers : HttpWorker(w)
        \/ DispatcherStep
        \/ DbWorkerStep
        \/ Returned

\* Every thread goes on as long as it can: sleeps end, libcurl gives up after
\* CURLOPT_TIMEOUT, and a mutex or an SQLite call is not held for ever.
Fairness == /\ WF_vars(RunPlan)
            /\ \A w \in Workers : WF_vars(HttpWorker(w))
            /\ WF_vars(DispatcherStep)
            /\ WF_vars(DbWorkerStep)

Safety == Init /\ [][Next]_vars
Spec   == Safety /\ Fairness

-----------------------------------------------------------------------------
(* Properties *)

MainLabels == {"starting", "creating", "submitting", "dispatching", "polling", "sleeping",
               "cleanup", "close_request", "join_workers", "close_response",
               "join_dispatcher", "close_db", "join_db", "freeing", "closing", "done"}
WorkerLabels     == {"setup", "performing", "pushing", "releasing"}
DispatcherLabels == {"forwarding"}
DbLabels         == {"inserting", "reading", "logging", "freeing"}
Idle             == {"unborn", "idle", "exited"}

CleanupLabels == {"cleanup_header_list", "cleanup_curl", "cleanup_task"}

Rows == [request : Int, origin : 0 .. MaxCases, ok : BOOLEAN, meets : BOOLEAN]

ThreadTypes ==
    /\ pc \in [Threads -> MainLabels \cup WorkerLabels \cup DispatcherLabels
                             \cup DbLabels \cup Idle]
    /\ pc[Main] \in MainLabels
    /\ \A w \in Workers : pc[w] \in WorkerLabels \cup Idle
    /\ pc[Dispatcher] \in DispatcherLabels \cup Idle
    /\ pc[DbWorker] \in DbLabels \cup Idle
    /\ job \in [Consumers -> 0 .. MaxCases]
    /\ \A c \in Consumers : pc[c] \notin Idle => job[c] \in Cases
    /\ exitTo \in [Workers -> CleanupLabels]

ObjectTypes ==
    /\ queue \in [Queues -> Seq(Cases)]
    /\ closed \subseteq Queues
    /\ live \subseteq Objects
    /\ answer \in [Cases -> Answers]

TableTypes ==
    /\ requests \in Seq(Identities)
    /\ responses \in Seq(Rows)
    /\ lastRowid \in Nat
    /\ savedId \in Nat

RunTypes ==
    /\ caseCount \in 0 .. MaxCases + 1
    /\ current \in Nat \ {0}
    /\ elapsed \in Nat
    /\ held \subseteq {"task", "request"}
    /\ requestId \in [Cases -> Int]
    /\ result \in [Cases -> Nat]
    /\ exitCode \in {0, 1}
    /\ submitted \subseteq Cases

FlagTypes == allRequestsOk \in BOOLEAN /\ allAssertionsOk \in BOOLEAN

\* The type of every variable, and: a thread past queue_pop holds no NULL.
TypeOK == ThreadTypes /\ ObjectTypes /\ TableTypes /\ RunTypes /\ FlagTypes

\* The objects the next steps of a consumer will read, write or free.
InHands(c) ==
    CASE pc[c] = "setup"      -> TaskObjects
      [] pc[c] = "performing" -> TaskObjects \cup CurlObjects(job[c])
      [] pc[c] = "pushing"    -> {"response"} \cup FreedFrom(exitTo[c], job[c])
      [] pc[c] = "releasing"  -> FreedFrom(exitTo[c], job[c])
      [] pc[c] = "forwarding" -> {"response"}
      [] pc[c] \in DbLabels   -> {"response", "dbtask"}
      [] OTHER                -> {}

Carried(q) == CASE q = "request"  -> TaskObjects
                [] q = "response" -> {"response"}
                [] q = "db"       -> {"response", "dbtask"}

\* Main's req and task, and the request the task points to until it is pushed.
MainObjects == IF pc[Main] = "dispatching" THEN TaskObjects ELSE held

Reachable == (UNION {InHands(c) \X {job[c]} : c \in Consumers})
             \cup (UNION {Carried(q) \X Range(queue[q]) : q \in Queues})
             \cup (MainObjects \X {current})

\* Nothing a thread or a queue still refers to has been freed: every transfer
\* of ownership (main to worker to dispatcher to DB worker) frees it once.
NoDangling == Reachable \subseteq live

\* Every object that is not freed is still somebody's, at every step.
NothingLeaked == live \subseteq Reachable

\* The stages hold a case one after the other: an answer is not in two places
\* of the pipeline, so it is stored at most once and freed once.
Answering == {c \in Consumers : pc[c] \in {"setup", "performing", "pushing", "forwarding", "inserting"}}

Places(i) == Cardinality({c \in Answering : job[c] = i})
             + Cardinality({s \in Queues \X Cases :
                               s[2] \in DOMAIN queue[s[1]] /\ queue[s[1]][s[2]] = i})
             + Cardinality({k \in DOMAIN responses : responses[k].origin = i})

OnePlace == \A i \in Cases : Places(i) <= IF i \in submitted THEN 1 ELSE 0

\* destroy_runtime frees the queues when no thread can touch them any more,
\* db_close comes when the DB worker is gone.
ThreadsStopped ==
    pc[Main] \in {"freeing", "closing", "done"} =>
       \A c \in Consumers : pc[c] \in {"unborn", "exited"}

Feeds(q) == CASE q = "request"  -> {Main}
              [] q = "response" -> Workers
              [] q = "db"       -> {Dispatcher}

Takes(q) == CASE q = "request"  -> Workers
              [] q = "response" -> {Dispatcher}
              [] q = "db"       -> {DbWorker}

\* The stages stop in the order of the pipeline: a queue is closed when those
\* who push to it are gone (no push is refused), and those who take from it
\* leave only when it is empty (nothing is left behind).
DrainedInOrder ==
    \A q \in Queues :
       /\ q \in closed /\ q # "request" =>
             \A t \in Feeds(q) : pc[t] \in {"unborn", "exited"}
       /\ q \in closed => pc[Main] \notin {"submitting", "dispatching", "polling", "sleeping"}
       /\ (\E t \in Takes(q) : pc[t] = "exited") => queue[q] = <<>> /\ q \in closed

Stored(i) == \E k \in DOMAIN responses : responses[k].origin = i

\* Losing nothing: when run_plan returns, every dispatched case has its answer
\* in the database, the ones main stopped waiting for included.
AllStored == pc[Main] = "done" => \A i \in submitted : Stored(i)

\* A case is given the answer to its own request, of this run.
OwnAnswer == \A i \in Cases : result[i] # 0 => responses[result[i]].origin = i

\* Whatever the database holds, a case is given an answer to its own request:
\* same collection, method, url and body.
OwnRequest ==
    \A i \in Cases : result[i] # 0 =>
       requests[responses[result[i]].request] = Identity[i]

Passed(i) == /\ result[i] \in DOMAIN responses
             /\ i \in Asserting => responses[result[i]].meets

AllPassed == caseCount <= MaxCases /\ \A i \in 1 .. caseCount : Passed(i)

\* Exit code 0 says exactly that every case of the plan was answered in time
\* and every assertion held.
VerdictExact == pc[Main] = "done" => (exitCode = 0 <=> AllPassed)

\* The same when setup and dispatching may fail: 0 is never wrong.
VerdictSound == pc[Main] = "done" /\ exitCode = 0 => AllPassed

\* With one HTTP worker the answers are stored in the order of the plan.
StoredInOrder ==
    \A j, k \in DOMAIN responses :
       j < k /\ responses[j].origin # 0 => responses[j].origin < responses[k].origin

\* run_plan returns, whatever fails: no join waits for ever.
Returns == <>(pc[Main] = "done")

\* The refinement mapping to CaseRun: a case is submitted when its task is in
\* the request queue, recorded when its row is inserted, lost when nothing of
\* the pipeline holds it any more.
UnderWay(i) == \/ \E c \in Answering : job[c] = i
               \/ \E q \in Queues : i \in Range(queue[q])

Phase(i) == IF i \notin submitted THEN "planned"
            ELSE IF \E k \in DOMAIN responses : responses[k].origin = i /\ responses[k].meets
                 THEN "met"
            ELSE IF Stored(i) THEN "unmet"
            ELSE IF UnderWay(i) THEN "submitted" ELSE "lost"

\* The verdicts come in order: current is the first case without one.
Judged == \/ pc[Main] \in {"polling", "sleeping"}
          \/ pc[Main] \notin {"starting", "creating", "submitting", "dispatching"}
             /\ current > caseCount /\ caseCount <= MaxCases /\ submitted = 1 .. caseCount

Verdict(i) == IF ~Judged \/ i >= current THEN "none"
              ELSE IF result[i] # 0 THEN "answered" ELSE "missing"

R == INSTANCE CaseRun WITH
        Lossy   <- Faults # {},
        size    <- caseCount,
        phase   <- [i \in Cases |-> Phase(i)],
        verdict <- [i \in Cases |-> Verdict(i)],
        ended   <- pc[Main] = "done",
        exit    <- IF pc[Main] = "done" THEN exitCode ELSE 1

\* The pipeline keeps the promises of CaseRun.
ImplementsCaseRun == R!Safety

-----------------------------------------------------------------------------
(* What comments, messages and the README say, and the code does not do *)

\* README.md:103: assertions are about a response that went through the request
\* queue, the worker pool and the response queue of this run.
FreshAnswer == \A i \in Cases : result[i] # 0 => responses[result[i]].origin # 0

\* README.md:273: "in use at exit: 0 bytes in 0 blocks".  orchestrator.c:97 has
\* the caller own a task that could not be dispatched (and the request in it),
\* and worker.c:270 has a label that frees the header list.
NothingInUseAtExit == pc[Main] = "done" => live = {}

\* commands.c:126: a request that failed is reported as failed, so a run with
\* exit code 0 had none.
ZeroMeansAnswered ==
    pc[Main] = "done" /\ exitCode = 0 =>
       \A i \in 1 .. caseCount : result[i] # 0 => responses[result[i]].ok
=============================================================================
