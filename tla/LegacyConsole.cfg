SPECIFICATION LCSpec
CONSTANTS
    Cols = 2
    Rows = 2
    MAX_THREAD = 2
    Callers = {1}
    Openings <- MCOpenings
INVARIANTS
    ConsoleInv
    TripsOnlyNested
CHECK_DEADLOCK FALSE
