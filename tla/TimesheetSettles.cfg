CONSTANTS
    Requests = {1}
    RequestKinds = {"PAID", "COMPLAINT"}
    Filed <- SomeFilings
    Jobs = {j1, j2}
    MaxJobs = 2
SPECIFICATION FairSpec
PROPERTY MonthSettles
CHECK_DEADLOCK FALSE
