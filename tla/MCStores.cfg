\* Three tasks and one permit, one key, one row of the log, two instants; a file
\* that is new, of version 0.0 or of version 0.2.
CONSTANTS
    Tasks = {t1, t2, t3}
    NoTask = NoTask
    MaxConnections = 1
    MaxCreated = 6
    Keys = {k1}
    MaxCalls = 1
    MaxTime = 1
SPECIFICATION StoresSpec
INVARIANTS
    StoresTypeOK
    PermitsConserved
    SettingsKept
    OpenIsComplete
    RecordsConsistent
PROPERTY WaiterServed
