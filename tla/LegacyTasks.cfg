SPECIFICATION TFairSpec
CONSTANTS
    MAX_THREAD = 3
    Callers = {1}
    Lines <- MCLines
    Openings <- MCOpenings
INVARIANTS
    TaskInv
    NoReentry
    CallAnswered
PROPERTIES
    ImplementsRoundRobin
    KeyRead
    AllTasksRun
