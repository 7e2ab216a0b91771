CONSTANTS
    MaxPids = 3
    Kinds <- AllKinds
    Builtins <- AllBuiltins
    Codes = {3}
SPECIFICATION FairSpec
INVARIANTS TypeOK NoneForgotten TerminalBack
PROPERTIES StatusTrue ResumedWhole WaitReturns
CHECK_DEADLOCK FALSE
