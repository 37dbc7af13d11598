\* A pid-0 TIME_WAIT endpoint sorted before a live endpoint of a process on the port makes the answer "no owner".
CONSTANTS
    SortedConns <- MC_SortedConns
    Platforms <- MC_SupportedPlatforms
    OsFailures <- MC_OsFailures
    QueryPorts = {80, 20480}
    MaxRows = 2
    MaxQueries = 2
    NoSnap = NoSnap
    NoReply = NoReply
SPECIFICATION Spec
INVARIANT ZeroMeansNoOwner
