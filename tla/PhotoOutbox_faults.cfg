\* One photo whose message may exist twice, two services, one DELETE request, every fault.
CONSTANTS
    Photos = {p1}
    Deletes = {d1}
    NoPhoto = NoPhoto
    Services = {s1, s2}
    MaxCopies = 2
    MaxTasks = 2
    FaultSets <- FaultsInFour
SPECIFICATION FairSpec
INVARIANTS
    TypeOK
    AcceptedIsSafe
PROPERTIES
    ClosedStaysClosed
    AcceptedEnds
CHECK_DEADLOCK FALSE
