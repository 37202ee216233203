SPECIFICATION KFairSpec
CONSTANTS
    BitsPerByte = 2
    PageBytes = 4
    WordPages = 64
    Fan = 3
    Machines <- AllMachines
    MemoryMaps <- MapsOfMachines
    Ranges <- RangesOfMachines
INVARIANTS
    MappingInv
    TablesSafe
    NeverOutOfPages
    LiveMemoryMapped
PROPERTIES
    BootEnds
CHECK_DEADLOCK FALSE
