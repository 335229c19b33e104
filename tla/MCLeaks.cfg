\* queue_push has no memory for the node of a task, or a curl_easy_setopt after
\* the header list fails.
SPECIFICATION Safety
CONSTANTS
    MaxCases = 1
    Workers = {w1}
    Main = main
    Dispatcher = dispatcher
    DbWorker = dbworker
    Identities = {1, 2}
    Identity <- Distinct
    Asserting = {}
    WithHeaders = {1}
    Unsupported = {}
    OldRequests <- NoHistory
    CaseTimeout <- OnePoll
    DefaultTimeout = 100
    Faults = {"push_request", "setopt"}
INVARIANT NothingInUseAtExit
