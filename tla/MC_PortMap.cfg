\* FindPIDByPort on every Windows version the code probes for.
\* A fault stops the query for good; the OS still opens and closes endpoints.
CONSTANTS
    SortedConns <- MC_SortedConns
    Platforms <- MC_AllPlatforms
    OsFailures <- MC_OsFailures
    QueryPorts = {80, 20480}
    MaxRows = 2
    MaxQueries = 2
    NoSnap = NoSnap
    NoReply = NoReply
SPECIFICATION Spec
INVARIANT TypeOK
INVARIANT NullCallOnlyWhenUnsupported
PROPERTY QueryRefinesPortOwner
