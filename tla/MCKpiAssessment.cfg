CONSTANTS
    Staff = {e1}
    Joiner = e1
    Leader = boss
    Grades = {A, C}
    DefaultGrade = C
    Scored = {A}
    NoGrade = nograde
    None = None
    Forms = {f1, f2}
    MaxForms = 2
    Workers = {w1, w2}
SPECIFICATION Spec
SYMMETRY Symmetry
INVARIANTS TypeOK  SlipFollows DeptFollows
PROPERTY FinalKept
CHECK_DEADLOCK FALSE
