CONSTANTS
    MaxPids = 1
    Kinds <- AllKinds
    Builtins <- AllBuiltins
    Codes = {0}
SPECIFICATION FairSpec
PROPERTIES WaitPidReturns
CHECK_DEADLOCK FALSE
