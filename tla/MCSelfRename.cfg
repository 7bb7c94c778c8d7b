\* The path API as any SDK user may call it.
CONSTANTS
    Names = {a, b}
    NoSlot = NoSlot
    MaxIno = 2
    CacheSize = 2
    MaxOpen = 0
    MaxFaults = 0
    MaxDepth = 1
    MaxFollow = 1
    MaxLinks = 4
    Targets = {}
    Guarded = FALSE
SPECIFICATION PathSpec
INVARIANT DentriesReferenceInodes
