\* Lister on Windows XP: names are looked up with an uninitialised PROCESSENTRY32.
CONSTANTS
    SortedTcp <- MC_SortedTcp
    SortedUdp <- MC_SortedUdp
    MaxRows = 2
    PidOrder <- MC_PidOrder
    Images <- MC_Images
    IdleImage = Idle
    Idle = Idle
    ImgA = ImgA
    ImgB = ImgB
    Platforms <- MC_XPOnly
    OsFailures = {}
    Argvs <- MC_Argvs
    NoProc = NoProc
    NoSnap = NoSnap
    NoTable = NoTable
    Absent = Absent
    OutOfRange = OutOfRange
    Services <- MC_Services
    Hosts <- MC_Hosts
    HostName = MyHost
    MyHost = MyHost
    PeerHost = PeerHost
SPECIFICATION Spec
INVARIANT NamesShownWithSnapshot
CHECK_DEADLOCK FALSE
