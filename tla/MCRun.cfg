\* A run in which nothing fails but servers and clocks: two different cases,
\* two HTTP workers.
SPECIFICATION Safety
CONSTANTS
    MaxCases = 2
    Workers = {w1, w2}
    Main = main
    Dispatcher = dispatcher
    DbWorker = dbworker
    Identities = {1, 2}
    Identity <- Distinct
    Asserting = {2}
    WithHeaders = {1}
    Unsupported = {}
    OldRequests <- NoHistory
    CaseTimeout <- Mixed
    DefaultTimeout = 100
    Faults = {}
INVARIANTS TypeOK AllStored OwnAnswer VerdictExact OnePlace
