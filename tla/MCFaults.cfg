\* Everything the code handles may fail, but for the two failures after which
\* it leaks (MCLeaks.cfg): who owns what, and does everybody still stop?
SPECIFICATION Spec
CONSTANTS
    MaxCases = 2
    Workers = {w1, w2}
    Main = main
    Dispatcher = dispatcher
    DbWorker = dbworker
    Identities = {1, 2}
    Identity <- Distinct
    Asserting = {1}
    WithHeaders = {1}
    Unsupported = {2}
    OldRequests <- NoHistory
    CaseTimeout <- OnePoll
    DefaultTimeout = 100
    Faults = {"open", "runtime", "thread", "create_request", "save_request", "response",
              "curl_init", "headers", "push_response", "db_task", "push_db",
              "save_response", "poll"}
INVARIANTS NoDangling NothingLeaked ThreadsStopped DrainedInOrder VerdictSound
PROPERTIES Returns ImplementsCaseRun
