------------------------------- MODULE Worker -------------------------------
(***************************************************************************)
(* src/core/worker.c: the routine of the HTTP workers and, of the routine  *)
(* of the DB worker, the task run_plan sends (DB_TASK_SAVE_RESPONSE).      *)
(* libcurl is external: a transfer ends with any answer or an error.       *)
(***************************************************************************)
EXTENDS DbManager

-----------------------------------------------------------------------------
(* http_worker_routine *)

HeaderList(i) == IF i \in WithHeaders THEN {"headers"} ELSE {}
CurlObjects(i) == {"response", "curl"} \cup HeaderList(i)

OnlyTask    == {"task"}
TaskObjects == {"task", "request"}

\* What is freed from a cleanup label to the end of the loop body.
FreedFrom(l, i) ==
    TaskObjects
      \cup (IF l \in {"cleanup_curl", "cleanup_header_list"} THEN {"curl"} ELSE {})
      \cup (IF l = "cleanup_header_list" THEN HeaderList(i) ELSE {})

WorkerPop(w) == /\ Pop(w, "request", "setup")
                /\ UNCHANGED <<exitTo, heapVars, dbVars, mainVars>>

WorkerExit(w) == PopNull(w, "request")

\* No memory for the Response: goto cleanup_task, and nobody is told.
WorkerNoResponse(w) ==
    /\ pc[w] = "setup"
    /\ "response" \in Faults
    /\ exitTo' = [exitTo EXCEPT ![w] = "cleanup_task"]
    /\ Goto(w, "releasing")
    /\ UNCHANGED <<job, queueVars, heapVars, dbVars, mainVars>>

\* The answer is decided: it is pushed next, and then the worker goes to l.
Answer(w, ok, made, l) ==
    LET i == job[w] IN
    /\ \E m \in BOOLEAN :
          /\ i \in Asserting \/ m
          /\ answer' = [answer EXCEPT ![i] = [ok |-> ok, meets |-> m]]
    /\ exitTo' = [exitTo EXCEPT ![w] = l]
    /\ live' = Made(made, i)
    /\ Goto(w, "pushing")
    /\ UNCHANGED <<job, queueVars, dbVars, mainVars>>

\* Every failure before the transfer pushes a RESPONSE_CURL_ERROR and leaves
\* by the goto of its place in the code.
WorkerSetupFails(w) ==
    LET i == job[w] IN
    /\ pc[w] = "setup"
    /\ \/ /\ "curl_init" \in Faults
          /\ Answer(w, FALSE, {"response"}, "cleanup_task")
       \/ /\ i \in Unsupported
          /\ Answer(w, FALSE, {"response", "curl"}, "cleanup_curl")
       \/ /\ i \notin Unsupported /\ i \in WithHeaders /\ "headers" \in Faults
          /\ Answer(w, FALSE, {"response", "curl"}, "cleanup_curl")
       \/ /\ i \notin Unsupported /\ "setopt" \in Faults
          /\ Answer(w, FALSE, CurlObjects(i), "cleanup_curl")

WorkerSetup(w) ==
    LET i == job[w] IN
    /\ pc[w] = "setup"
    /\ i \notin Unsupported
    /\ live' = Made(CurlObjects(i), i)
    /\ Goto(w, "performing")
    /\ UNCHANGED <<job, exitTo, queueVars, answer, dbVars, mainVars>>

\* curl_easy_perform, bounded by CURLOPT_TIMEOUT, then the normal way out.
WorkerPerform(w) ==
    /\ pc[w] = "performing"
    /\ \E ok \in BOOLEAN : Answer(w, ok, {}, "cleanup_header_list")

KeepUnpushed == {}
FreeUnpushed == {"response"}

\* push_response_or_free
WorkerPush(w) ==
    LET i == job[w] IN
    /\ pc[w] = "pushing"
    /\ \/ Push("response", i) /\ UNCHANGED live
       \/ /\ PushFails("response", "push_response")
          /\ live' = Freed(FreeUnpushed, i)
    /\ Goto(w, "releasing")
    /\ UNCHANGED <<job, exitTo, answer, dbVars, mainVars>>

WorkerRelease(w) ==
    /\ pc[w] = "releasing"
    /\ live' = Freed(FreedFrom(exitTo[w], job[w]), job[w])
    /\ Release(w)
    /\ UNCHANGED <<exitTo, queueVars, answer, dbVars, mainVars>>

HttpWorker(w) == \/ WorkerPop(w) \/ WorkerExit(w) \/ WorkerNoResponse(w)
                 \/ WorkerSetupFails(w) \/ WorkerSetup(w) \/ WorkerPerform(w)
                 \/ WorkerPush(w) \/ WorkerRelease(w)

-----------------------------------------------------------------------------
(* db_worker_routine *)

DbWorkerPop == /\ Pop(DbWorker, "db", "inserting")
               /\ UNCHANGED <<exitTo, heapVars, dbVars, mainVars>>

DbWorkerExit == PopNull(DbWorker, "db")

DbWorkerInsert ==
    /\ pc[DbWorker] = "inserting"
    /\ InsertResponse(job[DbWorker])
    /\ Goto(DbWorker, "reading")
    /\ UNCHANGED <<job, exitTo, queueVars, heapVars, mainVars>>

\* The result of db_save_response is ignored: the answer is gone.
DbWorkerInsertFails ==
    /\ pc[DbWorker] = "inserting"
    /\ "save_response" \in Faults
    /\ Goto(DbWorker, "freeing")
    /\ UNCHANGED <<job, exitTo, queueVars, heapVars, dbVars, mainVars>>

DbWorkerRowid ==
    /\ pc[DbWorker] = "reading"
    /\ ReadRowid
    /\ Goto(DbWorker, "logging")
    /\ UNCHANGED <<job, exitTo, queueVars, heapVars, mainVars>>

\* free_response, and the DBTask at the end of the loop.
DbWorkerFree ==
    /\ pc[DbWorker] \in {"logging", "freeing"}
    /\ live' = Freed({"response", "dbtask"}, job[DbWorker])
    /\ Release(DbWorker)
    /\ UNCHANGED <<exitTo, queueVars, answer, dbVars, mainVars>>

DbWorkerStep == \/ DbWorkerPop \/ DbWorkerExit \/ DbWorkerInsert
                \/ DbWorkerInsertFails \/ DbWorkerRowid \/ DbWorkerFree
=============================================================================
