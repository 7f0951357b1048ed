\* Two orders, two processors with two workers each; both backends, without and with faults.
CONSTANTS
    Orders = {o1, o2}
    Processors = {p1, p2}
    WorkerCount = 2
    NoOrder = NoOrder
    MaxPaid = 2
    Settings <- BothBackends
SPECIFICATION FairSpec
INVARIANTS
    TypeOK
    PaidOnce
    UnpaidIsPending
PROPERTIES
    AcceptedIsPaid
CHECK_DEADLOCK FALSE
