SPECIFICATION FairSpec
CONSTANTS
    Symbols = {1, 2}
    Procs = {p1, p2}
    None = None
    Sessions = 3
    PerSession = 2
    Supplies <- MCSupplies
    Window = 2
    Overlap = 1
    Starts = {1}
    Ends = {7}
    Required <- MCRequired
    Kinds = {k}
    Warmups = {2}
    MaxMishaps = 1
    p1 = p1
    p2 = p2
    k = k
CHECK_DEADLOCK FALSE
INVARIANTS
    TypeOK
    AbsenceIsReal
    ResumesWithoutHole
PROPERTY
    Settles
