CONSTANTS
    a = a
    b = b
    c = c
    lib = lib
    new = new
    Names = {a, b, c, lib, new}
    Cases <- AllCases
    Bufs = {"here", "other"}
    Dirty = {TRUE}
    MayFail = TRUE
    DiskFull = TRUE
SPECIFICATION Spec
INVARIANTS TypeOK EditedInOrder UnsavedKept BuffersFollow DeletedForGood PlannedDisk RefusedForAReason NothingChanged
