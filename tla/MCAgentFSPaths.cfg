\* The path API used with care: no rename onto the same inode, no child of
\* something that is not a directory, one fault anywhere.
CONSTANTS
    Names = {a, b}
    NoSlot = NoSlot
    MaxIno = 3
    CacheSize = 2
    MaxOpen = 0
    MaxFaults = 1
    MaxDepth = 2
    MaxFollow = 3
    MaxLinks = 4
    Targets <- TopLevel
    Guarded = TRUE
SPECIFICATION PathSpec
SYMMETRY NameSymmetry
INVARIANTS
    TreeConnected
    CacheCoherent
