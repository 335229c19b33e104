\* One HTTP worker, so the pipeline is first in, first out from end to end; the
\* third case repeats the first, the database holds an old request without an
\* answer, a method is unsupported, and tasks get lost on the way.
SPECIFICATION Safety
CONSTANTS
    MaxCases = 3
    Workers = {w1}
    Main = main
    Dispatcher = dispatcher
    DbWorker = dbworker
    Identities = {1, 2, 3}
    Identity <- FirstRepeated
    Asserting = {}
    WithHeaders = {}
    Unsupported = {2}
    OldRequests <- OneOld
    CaseTimeout <- OnePoll
    DefaultTimeout = 100
    Faults = {"push_request", "push_response", "db_task", "save_response", "thread"}
INVARIANTS StoredInOrder OwnRequest
