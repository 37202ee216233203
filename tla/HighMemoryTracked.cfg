SPECIFICATION Spec
CONSTANTS
    BitsPerByte = 2
    PageBytes = 2
    WordPages = 64
    MemoryMaps <- HoledMaps
    Ranges <- SomeRanges
INVARIANT
    HighMemoryTracked
