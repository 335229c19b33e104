---------------------------- MODULE Orchestrator ----------------------------
(***************************************************************************)
(* src/core/orchestrator.c: the main thread starts the threads of the      *)
(* Runtime, hands tasks to them, waits for answers by polling the database *)
(* and takes the pipeline down stage by stage; the dispatcher carries      *)
(* responses from the HTTP workers to the DB worker.                       *)
(***************************************************************************)
EXTENDS Worker

-----------------------------------------------------------------------------
(* create_runtime *)

Unborn == {t \in Consumers : pc[t] = "unborn"}

\* The DB worker is started first, then the dispatcher, then the workers.
StartsNext(t) == /\ t \in Unborn
                 /\ DbWorker \in Unborn => t = DbWorker
                 /\ Dispatcher \in Unborn => t \in {DbWorker, Dispatcher}

StartThread == /\ pc[Main] = "creating"
               /\ \E t \in Consumers : StartsNext(t) /\ Goto(t, "idle")
               /\ UNCHANGED <<job, exitTo, queueVars, heapVars, dbVars, mainVars>>

\* pthread_create fails: create_runtime destroys what there is of the runtime.
StartFails == /\ pc[Main] = "creating"
              /\ Unborn # {}
              /\ "thread" \in Faults
              /\ Goto(Main, "close_request")
              /\ UNCHANGED <<job, exitTo, queueVars, heapVars, dbVars, mainVars>>

\* calloc, create_queue or the malloc of the thread array fails.
NoRuntime == /\ pc[Main] = "creating"
             /\ Unborn = Consumers
             /\ "runtime" \in Faults
             /\ Goto(Main, "closing")
             /\ UNCHANGED <<job, exitTo, queueVars, heapVars, dbVars, mainVars>>

-----------------------------------------------------------------------------
(* wait_for_response, called for case i *)

FirstRequest == requestId[1]
PolledRequest == requestId[current]

\* The query finds a row: the loop returns the latest one, numbered k.
PollFinds(k) == /\ pc[Main] = "polling"
                /\ IsLatest(k, PolledRequest)

\* No row yet, or the query fails: sleep.
PollMisses == /\ pc[Main] = "polling"
              /\ NoResponse(PolledRequest) \/ "poll" \in Faults
              /\ Goto(Main, "sleeping")
              /\ UNCHANGED <<job, exitTo, queueVars, heapVars, dbVars, mainVars>>

\* usleep returns and there is time left for another poll.
PollAgain(timeout) ==
    /\ pc[Main] = "sleeping"
    /\ elapsed + PollInterval < timeout
    /\ elapsed' = elapsed + PollInterval
    /\ Goto(Main, "polling")
    /\ UNCHANGED <<job, exitTo, queueVars, heapVars, dbVars, caseCount, current, held,
                   requestId, submitted, result, allRequestsOk, allAssertionsOk, exitCode>>

\* usleep returns and the time is over: NULL, without another look.
PollEnds(timeout) == /\ pc[Main] = "sleeping"
                     /\ elapsed + PollInterval >= timeout

-----------------------------------------------------------------------------
(* destroy_runtime *)

NeverClosed(q) == closed
WithClosed(q)  == closed \cup {q}

\* queue_shutdown of queue q, between two labels of the main thread.
Shutdown(q, from, to) ==
    /\ pc[Main] = from
    /\ closed' = WithClosed(q)
    /\ Goto(Main, to)
    /\ UNCHANGED <<job, exitTo, queue, heapVars, dbVars, mainVars>>

NotWaited(ts) == TRUE
Joined(ts)    == \A t \in ts : pc[t] \in {"unborn", "exited"}

\* pthread_join of those of the threads ts that were started.
Join(ts, from, to) ==
    /\ pc[Main] = from
    /\ Joined(ts)
    /\ Goto(Main, to)
    /\ UNCHANGED <<job, exitTo, queueVars, heapVars, dbVars, mainVars>>

CloseRequestQueue  == Shutdown("request", "close_request", "join_workers")
JoinWorkers        == Join(Workers, "join_workers", "close_response")
CloseResponseQueue == Shutdown("response", "close_response", "join_dispatcher")
JoinDispatcher     == Join({Dispatcher}, "join_dispatcher", "close_db")
CloseDbQueue       == Shutdown("db", "close_db", "join_db")
JoinDbWorker       == Join({DbWorker}, "join_db", "freeing")

\* destroy_queue frees nodes, not data: what is still queued is lost.
FreeRuntime == /\ pc[Main] = "freeing"
               /\ queue' = [q \in Queues |-> <<>>]
               /\ Goto(Main, "closing")
               /\ UNCHANGED <<job, exitTo, closed, heapVars, dbVars, mainVars>>

DestroyRuntime == \/ CloseRequestQueue \/ JoinWorkers
                  \/ CloseResponseQueue \/ JoinDispatcher
                  \/ CloseDbQueue \/ JoinDbWorker
                  \/ FreeRuntime

-----------------------------------------------------------------------------
(* dispatcher_routine *)

DispatcherPop == /\ Pop(Dispatcher, "response", "forwarding")
                 /\ UNCHANGED <<exitTo, heapVars, dbVars, mainVars>>

DispatcherExit == PopNull(Dispatcher, "response")

\* After the push the DB worker owns response and task: nothing is freed here.
FreeForwarded == {"response"}
KeepForwarded == {}

\* The response goes on in a DBTask.
DispatcherForward ==
    LET i == job[Dispatcher] IN
    /\ pc[Dispatcher] = "forwarding"
    /\ Push("db", i)
    /\ live' = Made({"dbtask"}, i) \ (KeepForwarded \X {i})
    /\ Release(Dispatcher)
    /\ UNCHANGED <<exitTo, answer, dbVars, mainVars>>

\* No DBTask, or the queue refuses it: the response is dropped.
DispatcherDrops ==
    /\ pc[Dispatcher] = "forwarding"
    /\ \/ "db_task" \in Faults /\ UNCHANGED queueVars
       \/ PushFails("db", "push_db")
    /\ live' = Freed({"response"}, job[Dispatcher])
    /\ Release(Dispatcher)
    /\ UNCHANGED <<exitTo, answer, dbVars, mainVars>>

DispatcherStep == DispatcherPop \/ DispatcherExit \/ DispatcherForward \/ DispatcherDrops
=============================================================================
