\* Two jobs, three finalize requests, every fault.
CONSTANTS
    Jobs = {j1, j2}
    Requests = {r1, r2, r3}
    NoJob = NoJob
    RepeatedCompleteWorks = FALSE
    Faults <- AllFaults
SYMMETRY Symmetry
SPECIFICATION Spec
INVARIANTS
    TypeOK
    QueuedOnce
    QueuedIsReady
    AcceptedIsQueued
PROPERTIES
    FeedsPipeline
CHECK_DEADLOCK FALSE
