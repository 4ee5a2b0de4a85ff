SPECIFICATION FairSpec
CONSTANTS
    Ciks = {1}
    Procs = {p1, p2}
    None = None
    Overlap = 2
    TTL = 1
    Delay = 0
    RunDays = 1
    FileBy = 1
    LastDay = 3
    MaxMishaps = 2
    p1 = p1
    p2 = p2
CHECK_DEADLOCK FALSE
INVARIANTS
    TypeOK
    CursorLeavesNothing
    NotedMeansHeld
PROPERTY
    FilingsArrive
