\* The object of a deleted photo that nobody is working on any more.
CONSTANTS
    Photos = {p1}
    Deletes = {d1, d2}
    Workers = {w1, w2}
    NoPhoto = NoPhoto
    FaultSets <- AllOrDisk
SPECIFICATION Spec
INVARIANT
    DeletedIsNotServed
CHECK_DEADLOCK FALSE
