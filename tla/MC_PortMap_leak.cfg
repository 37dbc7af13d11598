\* A successful query returns with its table buffer and snapshot handle still held.
CONSTANTS
    SortedConns <- MC_SortedConns
    Platforms <- MC_SupportedPlatforms
    OsFailures <- MC_OsFailures
    QueryPorts = {80, 20480}
    MaxRows = 2
    MaxQueries = 2
    NoSnap = NoSnap
    NoReply = NoReply
SPECIFICATION Spec
INVARIANT TablesReleased
