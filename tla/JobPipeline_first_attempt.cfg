\* Live workers that only stall, consistent reads, a reaper that may restart.
CONSTANTS
    Jobs = {j1, j2}
    Workers = {w1, w2}
    Reapers = {r1}
    NoJob = NoJob
    WorkerMaxRetries = 1
    ReaperMaxRetries = 1
    Faults <- StallsAndRestarts
SPECIFICATION FairSpec
INVARIANTS
    FirstAttemptIsHeld
PROPERTIES
    FirstAttemptEnds
CHECK_DEADLOCK FALSE
