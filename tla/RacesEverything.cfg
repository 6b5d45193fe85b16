SPECIFICATION Spec
CONSTANTS
    Calculators = {w1}
    Clerks = {c1}
    Requests = {"hold", "ready", "deliver"}
    Closers = {p1}
    Editors = {}
    Mailers = {}
    Mortals = {w1, p1}
    MaxTasks = 1
    MaxNet = 0
INVARIANTS
    TypeOK
    PendingExplained
