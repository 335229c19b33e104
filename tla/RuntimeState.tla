---------------------------- MODULE RuntimeState ----------------------------
(***************************************************************************)
(* The state one test run shares among its threads: the three queues of    *)
(* the Runtime, the objects handed from thread to thread through them, and *)
(* the tables behind the one SQLite connection.  DbManager, Worker,        *)
(* Orchestrator and Engine define the steps, each from its source file.    *)
(*                                                                         *)
(* A case is the index of a RequestCase in the plan.  The Request, the     *)
(* WorkerTask, the Response, the curl handle, the header list and the      *)
(* DBTask made for case i are the objects <<kind, i>>; a queue holds the   *)
(* case numbers of the pointers in it, and 0 stands for NULL.  A queue     *)
(* operation is one step: module Queue shows that queue.c provides that.   *)
(***************************************************************************)
EXTENDS Integers, Sequences, FiniteSets, Functions

CONSTANTS
    MaxCases,          \* MAX_REQUEST_CASES, scaled down
    Workers,           \* the HTTP worker threads
    Main, Dispatcher, DbWorker,   \* the other threads
    Identities,        \* what the UNIQUE constraint of requests tells apart
    Identity,          \* the identity of each case
    Asserting,         \* cases with assertions
    WithHeaders,       \* cases with a headers text
    Unsupported,       \* cases whose method set_curl_method rejects
    OldRequests,       \* rows an earlier run left in the database
    CaseTimeout,       \* timeout_ms of each case; 0 when not given
    DefaultTimeout,    \* default_timeout_ms of the plan
    Faults             \* what may fail in this instance

PollInterval    == 100
FallbackTimeout == 5000

Cases     == 1 .. MaxCases
Consumers == Workers \cup {Dispatcher, DbWorker}
Threads   == Consumers \cup {Main}
Queues    == {"request", "response", "db"}
Kinds     == {"request", "task", "response", "curl", "headers", "dbtask"}
Objects   == Kinds \X Cases

\* result, and whether the assertions of the case would hold of it
Answers == [ok : BOOLEAN, meets : BOOLEAN]

ASSUME CasesAssumption == MaxCases \in Nat \ {0}
ASSUME ThreadsAssumption ==
    /\ Workers # {}
    /\ {Main, Dispatcher, DbWorker} \cap Workers = {}
    /\ Main # Dispatcher /\ Main # DbWorker /\ Dispatcher # DbWorker
ASSUME PlanAssumption ==
    /\ Identity \in [Cases -> Identities]
    /\ Asserting \subseteq Cases
    /\ WithHeaders \subseteq Cases
    /\ Unsupported \subseteq Cases
    /\ CaseTimeout \in [Cases -> Int]
    /\ DefaultTimeout \in Int
    /\ OldRequests \in Seq(Identities)

VARIABLES
    \* threads
    pc,              \* where each thread is
    job,             \* the case a consumer works on
    exitTo,          \* the cleanup label an HTTP worker goes to after its push
    \* queues and objects
    queue, closed,   \* contents of each queue; the queues shut down
    live,            \* the objects allocated and not freed
    answer,          \* what the Response object of a case says
    \* database
    requests,        \* the table requests: row id -> identity
    responses,       \* the table responses: row id -> row
    lastRowid,       \* sqlite3_last_insert_rowid of the connection
    savedId,         \* resp->id, which the DB worker logs
    \* run_plan
    caseCount,       \* plan->case_count
    current,         \* the loop variable i
    elapsed,         \* of wait_for_response, in ms
    held,            \* req and task while main still owns them
    requestId,       \* request_ids
    result,          \* the row main was given for a case; 0 when none
    allRequestsOk, allAssertionsOk, exitCode,
    submitted        \* the cases whose task was pushed (history)

threadVars == <<pc, job, exitTo>>
queueVars  == <<queue, closed>>
heapVars   == <<live, answer>>
dbVars     == <<requests, responses, lastRowid, savedId>>
waitVars   == <<elapsed, result, allRequestsOk, allAssertionsOk, exitCode>>
mainVars   == <<caseCount, current, held, requestId, submitted, waitVars>>
vars       == <<threadVars, queueVars, heapVars, dbVars, mainVars>>

Goto(t, l) == pc' = [pc EXCEPT ![t] = l]

Made(kinds, i)  == live \cup (kinds \X {i})
Freed(kinds, i) == live \ (kinds \X {i})

-----------------------------------------------------------------------------
(* Queue operations *)

AtFront(q, i) == <<i>> \o queue[q]
AtBack(q, i)  == Append(queue[q], i)

Push(q, i) == /\ q \notin closed
              /\ queue' = [queue EXCEPT ![q] = AtBack(q, i)]
              /\ UNCHANGED closed

\* queue_push has no memory for the node, or finds the queue shut down.
PushFails(q, fault) == /\ q \in closed \/ fault \in Faults
                       /\ UNCHANGED queueVars

All(q)  == queue[q]
Rest(q) == Tail(queue[q])

\* queue_pop gives the oldest element to consumer c, which goes on at label l.
Pop(c, q, l) == /\ pc[c] = "idle"
                /\ queue[q] # <<>>
                /\ job' = [job EXCEPT ![c] = Head(queue[q])]
                /\ queue' = [queue EXCEPT ![q] = Rest(q)]
                /\ Goto(c, l)
                /\ UNCHANGED closed

Closed(q)   == q \in closed
Finished(q) == q \in closed /\ queue[q] = <<>>

CarryOn == "setup"
Leave   == "exited"

\* queue_pop returns NULL and the routine of c with it.
PopNull(c, q) == /\ pc[c] = "idle"
                 /\ Finished(q)
                 /\ Goto(c, Leave)
                 /\ UNCHANGED <<job, exitTo, queueVars, heapVars, dbVars, mainVars>>

\* c has dealt with its case and calls queue_pop again.
Release(c) == /\ Goto(c, "idle")
              /\ job' = [job EXCEPT ![c] = 0]
=============================================================================
