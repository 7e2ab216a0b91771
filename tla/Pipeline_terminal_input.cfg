CONSTANTS
    N = 2
    External = {}
    Roles <- TerminalReader
    Cap = 2
    Chunk = 2
    Quota = 1
    Feed = 2
    Terminal = "slow"
    Outer = {"off", "armed"}
    MayFail = FALSE
SPECIFICATION FairSpec
PROPERTIES GetsItsTurn
