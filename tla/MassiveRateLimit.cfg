SPECIFICATION FairSpec
CONSTANTS
    Callers = {c1, c2}
    None = None
    MaxSlots = 2
    Limits = {1, 2}
    Expiry = 3
    Tolerance = 1
    Nap = 2
    Backoffs = {1}
    Adjustments <- MCAdjustments
    StartBy = 1
    MaxTime = 20
    MaxFaults = 2
    c1 = c1
    c2 = c2
CHECK_DEADLOCK FALSE
INVARIANTS
    TypeOK
    RollingBudget
    SavedStateLoads
    SleepsOneWindow
PROPERTY
    OwnersRelease
