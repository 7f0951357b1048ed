\* No fault at all: an idle worker is quicker than the reaper.
CONSTANTS
    Jobs = {j1}
    Workers = {w1, w2}
    Reapers = {r1}
    NoJob = NoJob
    WorkerMaxRetries = 1
    ReaperMaxRetries = 1
    Faults = {}
SPECIFICATION Spec
INVARIANTS
    RequeuedJobIsHeld
CHECK_DEADLOCK FALSE
