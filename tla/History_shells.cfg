CONSTANTS
    Shell = {p1, p2}
    Session = {s1, s2}
    Command = {a, b}
    Limit = 1
    Earlier = 2
    MaxEntries = 3
    MayFail = TRUE
SPECIFICATION Spec
INVARIANTS TypeOK Ordered ParentsTrue NewestKept GrowthAccounted
PROPERTIES ImplementsLog
SYMMETRY Symmetry
CHECK_DEADLOCK FALSE
