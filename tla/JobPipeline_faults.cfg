\* Two jobs and two workers, one reaper, every fault.
CONSTANTS
    Jobs = {j1, j2}
    Workers = {w1, w2}
    Reapers = {r1}
    NoJob = NoJob
    WorkerMaxRetries = 1
    ReaperMaxRetries = 1
    Faults <- AllFaults
SYMMETRY Symmetry
SPECIFICATION Spec
INVARIANTS
    TypeOK
    SingleClaim
    OneOwner
    OneQueueEntry
    RetryableIsExact
    DurableCompletionIsReal
PROPERTIES
    ImplementsLifecycle
CHECK_DEADLOCK FALSE
