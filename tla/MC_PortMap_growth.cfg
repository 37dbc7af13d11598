\* A table that grows between the size probe and the fetch makes the query fail with -2.
CONSTANTS
    SortedConns <- MC_SortedConns
    Platforms <- MC_SupportedPlatforms
    OsFailures <- MC_OsFailures
    QueryPorts = {80, 20480}
    MaxRows = 2
    MaxQueries = 2
    NoSnap = NoSnap
    NoReply = NoReply
SPECIFICATION Spec
INVARIANT GrowthRetried
