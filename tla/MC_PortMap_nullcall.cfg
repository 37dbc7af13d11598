\* On Windows 2000 FindPIDByPort calls the NULL AllocateAndGetTcpExTableFromStack pointer.
CONSTANTS
    SortedConns <- MC_SortedConns
    Platforms <- MC_AllPlatforms
    OsFailures <- MC_OsFailures
    QueryPorts = {80, 20480}
    MaxRows = 2
    MaxQueries = 2
    NoSnap = NoSnap
    NoReply = NoReply
SPECIFICATION Spec
INVARIANT NoNullEntryPointCall
