SPECIFICATION FairSpec
CONSTANTS
    None = None
    Cost = 0
    Symbols = {1, 2}
    SectorOf <- Sector
    RuleSets <- MCRules
    Fee = 1
    Quantity = 4
    Atrs = {1, 2}
    TopPrice = 5
    LastSession = 4
CHECK_DEADLOCK FALSE
INVARIANTS
    TypeOK
    FillsInRange
    StopsFirst
    LegsAddUp
    OrdersFit
    HardHoldKept
PROPERTIES
    StopsNeverFall
    CooldownKept
    EndsFlat
