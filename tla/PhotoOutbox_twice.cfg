\* Two services and not a single fault.
CONSTANTS
    Photos = {p1}
    Deletes = {d1}
    NoPhoto = NoPhoto
    Services = {s1, s2}
    MaxCopies = 2
    MaxTasks = 2
    FaultSets <- NoFault
SPECIFICATION Spec
PROPERTY
    ImplementsLifecycle
CHECK_DEADLOCK FALSE
