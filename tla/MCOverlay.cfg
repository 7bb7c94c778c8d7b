SPECIFICATION Spec
CONSTANTS
    na = na
    nb = nb
    Names = {na, nb}
    Base <- BaseTree
    MaxDelta = 3
    MaxIno = 4
    MaxSession = 2
INVARIANTS
    TypeOK
    NoAliasing
    AttrOfItsName
    ListsWhatIsThere
    WhiteoutHidesBaseOnly
PROPERTIES
    ImplementsUnion
CHECK_DEADLOCK FALSE
CONSTRAINT
    Trusted
