SPECIFICATION BFairSpec
CONSTANTS
    BytesPerSec = 4
    SecPerTrk = 6
    TotSec = 15
    FATsz = 3
    RootDirSectors = 2
    DirEntries = 2
    Disks <- MCDisks
    Window = 4
    Reports <- MCReports
    RoomFor = 3
    PagesPerTable = 2
    TableCount = 4
    Cells = 4
INVARIANTS
    LegacyInv
    FileInPlace
    KernelInPlace
PROPERTY BootEndsSomewhere
CHECK_DEADLOCK FALSE
