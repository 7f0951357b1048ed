\* Two reapers (a rolling deployment) whose MAX_RETRIES is lower than the workers'; they keep running.
CONSTANTS
    Jobs = {j1}
    Workers = {w1, w2}
    Reapers = {r1, r2}
    NoJob = NoJob
    WorkerMaxRetries = 3
    ReaperMaxRetries = 2
    Faults <- AllButReaper
SPECIFICATION FairSpec
INVARIANTS
    CountersAgree
PROPERTIES
    AbandonedIsRecovered
    FailureIsHandled
CHECK_DEADLOCK FALSE
