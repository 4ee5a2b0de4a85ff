SPECIFICATION Spec
CONSTANTS
    Symbols = {1}
    Procs = {p1, p2}
    None = None
    Sessions = 3
    PerSession = 2
    Supplies <- Complete
    Window = 2
    Overlap = 1
    Starts = {1, 5}
    Ends = {7}
    Required = {}
    Kinds = {k}
    Warmups = {2}
    MaxMishaps = 1
    p1 = p1
    p2 = p2
    k = k
CHECK_DEADLOCK FALSE
INVARIANT
    NoSilentHole
