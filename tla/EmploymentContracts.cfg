SPECIFICATION Spec
CONSTANTS
    MaxContract = 2
    LastDay = 2
    LeaveDays = {1}
    Notice = 0
    NoContract = NoContract
    NoPlan = NoPlan
    NoImport = NoImport
INVARIANTS
    TypeOK
    OneInForce
    ExitEndsContracts
    InForceCoversToday
    LeaveDated
CHECK_DEADLOCK FALSE
