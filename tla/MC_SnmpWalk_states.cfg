\* The SNMP walk over a table holding a deleteTCB endpoint.
CONSTANTS
    SortedTcp <- MC_SortedTcp
    SortedUdp <- MC_SortedUdp
    MaxRows = 2
    SnmpFails = FALSE
    Garbage = Garbage
    OutOfRange = OutOfRange
    End = End
    Services <- MC_Services
    Hosts <- MC_Hosts
    HostName = MyHost
    MyHost = MyHost
SPECIFICATION Spec
INVARIANT StatesDecoded
