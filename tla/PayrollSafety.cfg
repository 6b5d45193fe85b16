SPECIFICATION Spec
CONSTANTS
    Employees = {e1}
    Tickets = {t1}
    LastMonth = 2
    MaxQueued = 1
    MaxCreations = 0
    NoSlip = NoSlip
    NoTicket = NoTicket
INVARIANTS
    TypeOK
    PayableUnblocked
    PaidInCompletedPeriod
    SlipsInSync
PROPERTIES
    SlipsFollowFlow
