SPECIFICATION FairSpec
CONSTANTS
    Employees = {e1}
    Tickets = {t1}
    LastMonth = 1
    MaxQueued = 2
    MaxCreations = 1
    NoSlip = NoSlip
    NoTicket = NoTicket
PROPERTIES
    PendingSettles
