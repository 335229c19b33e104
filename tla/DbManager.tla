------------------------------ MODULE DbManager ------------------------------
(***************************************************************************)
(* src/core/db_manager.c as run_plan and the DB worker use it.  A call of  *)
(* sqlite3_step is one step: the connection is shared, and SQLite's own    *)
(* mutex serialises the calls the main thread and the DB worker make.      *)
(***************************************************************************)
EXTENDS RuntimeState

\* INSERT OR IGNORE: the UNIQUE constraint keeps one row for an identity.
WithRequest(id) == IF id \in Range(requests) THEN requests ELSE Append(requests, id)

\* SELECT id FROM requests WHERE ... LIMIT 1
HasRow(k, id) == k \in DOMAIN requests' /\ requests'[k] = id

\* db_save_request sets req->id, which run_plan copies to request_ids.  The
\* rowid of the connection moves only when a row was really inserted.
SaveRequestRow(i) ==
    /\ requests' = WithRequest(Identity[i])
    /\ lastRowid' = IF requests' = requests THEN lastRowid ELSE Len(requests')
    /\ \E k \in DOMAIN requests' :
          HasRow(k, Identity[i]) /\ requestId' = [requestId EXCEPT ![i] = k]
    /\ UNCHANGED <<responses, savedId>>

\* The INSERT of db_save_response; origin remembers whose answer it is.
InsertResponse(i) ==
    /\ responses' = Append(responses, [request |-> requestId[i], origin |-> i,
                                       ok |-> answer[i].ok, meets |-> answer[i].meets])
    /\ lastRowid' = Len(responses')
    /\ UNCHANGED <<requests, savedId>>

\* resp->id = sqlite3_last_insert_rowid(db), a call of its own.
ReadRowid == /\ savedId' = lastRowid
             /\ UNCHANGED <<requests, responses, lastRowid>>

\* SELECT ... FROM responses WHERE request_id = r ORDER BY id DESC LIMIT 1
IsLatest(k, r) == /\ k \in DOMAIN responses
                  /\ responses[k].request = r
                  /\ \A j \in DOMAIN responses : responses[j].request = r => j <= k

NoResponse(r) == \A k \in DOMAIN responses : responses[k].request # r

\* What db_init finds: the rows of an earlier run, each with one answer.
DbInit == /\ requests = OldRequests
          /\ responses = [k \in DOMAIN OldRequests |->
                            [request |-> k, origin |-> 0, ok |-> TRUE, meets |-> TRUE]]
          /\ lastRowid = 0
          /\ savedId = 0
=============================================================================
