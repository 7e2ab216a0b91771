CONSTANTS
    N = 3
    External = {}
    Roles <- ThreeShells
    Cap = 3
    Chunk = 2
    Quota = 1
    Feed = 3
    Terminal = "pane"
    Outer = {"off", "armed"}
    MayFail = FALSE
SPECIFICATION Spec
INVARIANTS TypeOK InStep OnlyItsOwnReader WatchGivenBack NothingKept
PROPERTIES WokenByItsOwn
