\* Two threads and a saver on one connection, another process on a second one.
\* Request 2 has an empty url; all but 1 are saved while claims are under way.
SPECIFICATION Spec
CONSTANTS
    p1 = p1
    p2 = p2
    Processes = {p1, p2}
    Claimers = {"a", "b", "d"}
    Savers = {"s"}
    Process <- TwoProcesses
    Identities = {1, 2, 3, 4}
    Unmappable = {2}
    OldRows <- OneOld
    None = None
    MaxFailures = 1
    MaxPutBacks = 1
INVARIANTS TypeOK TransactionOwned HandedOutOnce
PROPERTIES Delivered ImplementsPool
