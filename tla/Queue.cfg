\* queue.c with two producers, so that pushes overlap with each other and with
\* the shutdown, and two consumers that may both sleep and both leave early, so
\* that destroy_queue finds nodes.
SPECIFICATION Spec
CONSTANTS
    Producers = {p1, p2}
    Consumers = {c1, c2}
    Owner = main
    Data = {d1, d2, d3}
    Null = NULL
    Quitters = {c1, c2}
    MaxSpurious = 1
INVARIANTS TypeOK MutualExclusion ListShape NodesOwned NoLostWakeup
PROPERTIES Terminates ImplementsChannel
