CONSTANTS
    First = 12
    Last = 16
    Opening = 2
    Generated = 1
    Uncovered = {14}
    DaysTaken = {0, 2}
    MaxRefreshes = 2
    Jobs = {j1, j2}
SPECIFICATION Spec
SYMMETRY JobSymmetry
INVARIANTS TypeOK WithinEntitlement FifoRule
CHECK_DEADLOCK FALSE
