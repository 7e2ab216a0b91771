CONSTANTS
    N = 3
    External = {2}
    Roles <- ShellProcShell
    Cap = 3
    Chunk = 2
    Quota = 2
    Feed = 2
    Terminal = "slow"
    Outer = {"off", "armed"}
    MayFail = TRUE
SPECIFICATION Spec
INVARIANTS StepInv SafetyInv
PROPERTIES ImplementsNetwork
