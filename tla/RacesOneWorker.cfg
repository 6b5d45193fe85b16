SPECIFICATION Spec
CONSTANTS
    Calculators = {w1}
    Clerks = {c1, c2}
    Requests = {"hold", "ready"}
    Closers = {}
    Editors = {d1}
    Mailers = {m1}
    Mortals = {c1, m1}
    MaxTasks = 2
    MaxNet = 1
INVARIANTS
    PendingCurrent
