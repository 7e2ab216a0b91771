CONSTANTS
    a = a
    b = b
    c = c
    lib = lib
    new = new
    Names = {a, b, c, lib, new}
    Cases <- FlatOnly
    Bufs = {"here"}
    Dirty = {FALSE}
    MayFail = FALSE
    DiskFull = FALSE
SPECIFICATION Spec
INVARIANTS EditedInOrder
