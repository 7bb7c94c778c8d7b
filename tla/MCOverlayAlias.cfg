SPECIFICATION Spec
CONSTANTS
    na = na
    nb = nb
    Names = {na, nb}
    Base <- BaseTwo
    MaxDelta = 2
    MaxIno = 3
    MaxSession = 2
INVARIANT
    NeverAliases
CHECK_DEADLOCK FALSE
