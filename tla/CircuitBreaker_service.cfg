\* Three requests at a time, a threshold of two, a cooldown of three ticks, a timeout of two.
CONSTANTS
    Requests = {r1, r2, r3}
    Threshold = 2
    Cooldown = 3
    Timeout = 2
SPECIFICATION FairSpec
INVARIANTS
    TypeOK
PROPERTIES
    ProbeDecides
    FollowsService
