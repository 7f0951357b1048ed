\* One photo, two workers, two DELETE requests at a time; every fault, or disk errors only.
CONSTANTS
    Photos = {p1}
    Deletes = {d1, d2}
    Workers = {w1, w2}
    NoPhoto = NoPhoto
    FaultSets <- AllOrDisk
SPECIFICATION FairSpec
INVARIANTS
    TypeOK
    OneInFlight
    AcceptedIsSafe
    DeletedStaysGone
PROPERTIES
    ImplementsLifecycle
    AcceptedEnds
CHECK_DEADLOCK FALSE
