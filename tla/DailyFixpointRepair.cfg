SPECIFICATION Spec
CONSTANTS
    Symbols = {1, 2, 3}
    Days = {1, 2, 3, 4}
    Overlap = 1
    BatchSize = 2
    Signals = {4}
    TopN = 2
    Lookback = 3
    Calibration = 3
    MaxExcluded = 1
    MaxRounds = 2
    Worlds <- MCWorlds
    Procs = {p1}
    Syncers = {p1, operator}
    Ranges <- MCRanges
    None = None
    MaxEvents = 0
    p1 = p1
    p2 = p2
    operator = operator
CHECK_DEADLOCK FALSE
INVARIANTS
    RepairedIsUsable
