\* Three nodes; every W and R that overlap, leaderless, and background replication only.
CONSTANTS
    N = 3
    Keys = {k1}
    Writes = {u1, u2}
    Reads = {q1, q2}
    NoWrite = NoWrite
    Settings <- AllSettings
SPECIFICATION FairSpec
INVARIANTS
    TypeOK
    AckedAtW
    FreshReads
    FollowersAgree
PROPERTIES
    NoNodeGoesBack
    Converges
CHECK_DEADLOCK FALSE
