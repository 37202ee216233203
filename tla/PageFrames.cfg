SPECIFICATION Spec
CONSTANTS
    BitsPerByte = 2
    PageBytes = 2
    WordPages = 64
    MemoryMaps <- BootMaps
    Ranges <- SomeRanges
INVARIANTS
    PoolMatchesFree
    BitmapNotInPool
    FirmwareNotInPool
    IInv
PROPERTIES
    ImplementsPool
CHECK_DEADLOCK FALSE
