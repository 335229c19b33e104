\* The only case has no assertions and its transfer fails.
SPECIFICATION Safety
CONSTANTS
    MaxCases = 1
    Workers = {w1}
    Main = main
    Dispatcher = dispatcher
    DbWorker = dbworker
    Identities = {1, 2}
    Identity <- Distinct
    Asserting = {}
    WithHeaders = {}
    Unsupported = {}
    OldRequests <- NoHistory
    CaseTimeout <- OnePoll
    DefaultTimeout = 100
    Faults = {}
INVARIANT ZeroMeansAnswered
