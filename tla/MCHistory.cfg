\* The database already holds an answer to the request of the only case.
SPECIFICATION Safety
CONSTANTS
    MaxCases = 1
    Workers = {w1}
    Main = main
    Dispatcher = dispatcher
    DbWorker = dbworker
    Identities = {1, 2}
    Identity <- Distinct
    Asserting = {}
    WithHeaders = {}
    Unsupported = {}
    OldRequests <- OneOld
    CaseTimeout <- OnePoll
    DefaultTimeout = 100
    Faults = {}
INVARIANT FreshAnswer
