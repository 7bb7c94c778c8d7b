SPECIFICATION Spec
CONSTANTS
    Names = {"a", "b"}
    HostInodes = {1, 2}
    Callers = {"c1", "c2", "c3"}
    Owner = {"c1", "c2"}
    Uses <- MCUses
    MaxCalls = 3
INVARIANTS
    TypeOK
    InodesServed
    NoStaleHandle
PROPERTIES
    Progress
CHECK_DEADLOCK FALSE
