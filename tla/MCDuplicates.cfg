\* Two cases with the same collection, method, url and body.
SPECIFICATION Safety
CONSTANTS
    MaxCases = 2
    Workers = {w1, w2}
    Main = main
    Dispatcher = dispatcher
    DbWorker = dbworker
    Identities = {1, 2}
    Identity <- Repeated
    Asserting = {}
    WithHeaders = {}
    Unsupported = {}
    OldRequests <- NoHistory
    CaseTimeout <- OnePoll
    DefaultTimeout = 100
    Faults = {}
INVARIANT OwnAnswer
