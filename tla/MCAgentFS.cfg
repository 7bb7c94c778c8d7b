\* The inode store behind a FUSE mount, two operations cut short anywhere:
\* root and two more inodes, two names.
CONSTANTS
    Names = {a, b}
    NoSlot = NoSlot
    MaxIno = 3
    CacheSize = 2
    MaxOpen = 1
    MaxFaults = 2
    Guarded = TRUE
SPECIFICATION Spec
SYMMETRY NameSymmetry
INVARIANTS
    TypeOK
    RootProtected
    DirNamedOnce
    EntriesResolve
    TreeConnected
    CacheCoherent
    LinksRight
PROPERTY HandleNeverRetargeted
