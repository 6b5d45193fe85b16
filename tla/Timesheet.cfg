CONSTANTS
    Requests = {1, 2}
    RequestKinds = {"PAID", "HALF"}
    Filed <- SomeFilings
    Jobs = {j1, j2}
    MaxJobs = 3
SPECIFICATION Spec
SYMMETRY JobSymmetry
INVARIANTS TypeOK  PunchesCounted  MonthReflects
PROPERTY CorrectionStands
CHECK_DEADLOCK FALSE
