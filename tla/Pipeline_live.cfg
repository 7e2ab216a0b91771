CONSTANTS
    N = 3
    External = {}
    Roles <- Busy
    Cap = 3
    Chunk = 2
    Quota = 1
    Feed = 2
    Terminal = "file"
    Outer = {"off", "armed"}
    MayFail = FALSE
SPECIFICATION FairSpec
PROPERTIES Ends StoppedWhenUnread GetsItsTurn
