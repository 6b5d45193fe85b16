SPECIFICATION Spec
CONSTANTS
    MaxContract = 1
    LastDay = 2
    LeaveDays = {1, 2}
    Notice = 0
    NoContract = NoContract
    NoPlan = NoPlan
    NoImport = NoImport
PROPERTIES
    MaternityReturns
