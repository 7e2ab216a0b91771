CONSTANTS
    Files = {"f", "g"}
    Texts = {"a", "b", "empty"}
    Incremental = TRUE
    MaxResponses = 1
    Bounds <- EveryBound
SPECIFICATION FairSpec
INVARIANTS TypeOK InSync TokensTrue DiagnosticsTrue AskedOnce
PROPERTIES Coloured
CHECK_DEADLOCK FALSE
