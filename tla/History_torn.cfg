CONSTANTS
    Shell = {p1, p2}
    Session = {s1, s2}
    Command = {a, b}
    Limit = 1
    Earlier = 2
    MaxEntries = 4
    MayFail = FALSE
SPECIFICATION Spec
INVARIANTS WholeEntries
CHECK_DEADLOCK FALSE
