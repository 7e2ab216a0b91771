CONSTANTS
    Files = {"f", "g"}
    Texts = {"a", "b", "empty"}
    Incremental = TRUE
    MaxResponses = 1
    Bounds <- OnlyReopened
SPECIFICATION Spec
INVARIANTS PaintedShown
CHECK_DEADLOCK FALSE
