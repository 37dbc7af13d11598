\* The lister on Windows 2000 and XP, with endpoint and process churn and OS failures.
CONSTANTS
    SortedTcp <- MC_SortedTcp
    SortedUdp <- MC_SortedUdp
    MaxRows = 2
    PidOrder <- MC_PidOrder
    Images <- MC_Images
    IdleImage = Idle
    Idle = Idle
    ImgA = ImgA
    ImgB = ImgB
    Platforms <- MC_Platforms
    OsFailures <- MC_OsFailures
    Argvs <- MC_Argvs
    NoProc = NoProc
    NoSnap = NoSnap
    NoTable = NoTable
    Absent = Absent
    OutOfRange = OutOfRange
    Services <- MC_Services
    Hosts <- MC_Hosts
    HostName = MyHost
    MyHost = MyHost
    PeerHost = PeerHost
SPECIFICATION Spec
SYMMETRY MC_ImageSymmetry
INVARIANT TypeOK
INVARIANT StatesDecoded
INVARIANT AddressesShown
PROPERTY FindRefinesPortOwner
CHECK_DEADLOCK FALSE
