SPECIFICATION Spec
CONSTANTS
    FIRST_USER_FD = 1
    MaxFd = 3
    Added <- MCAdded
    BeginsWith <- MCBeginsWith
    Threads = {"t1", "t2"}
    Procs = {"p1", "p2"}
    ProcOf <- MCProcOf
    First = "p1"
    Child = "p2"
    Paths <- MCOnePath
    Relative <- MCRelative
    OpenFlags <- MCOpenFlags
    HostFiles <- MCHostFiles
    Stored <- MCStored
    MaxOps = 2
    MaxLen = 1
    MaxCalls = 4
CONSTRAINT Polite
INVARIANT ClosedMeansStored
CHECK_DEADLOCK FALSE
