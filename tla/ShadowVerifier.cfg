SPECIFICATION Spec
CONSTANTS
    LastDay = 4
    Lookahead = 10
    Official = {0, 1, 3, 4}
    Close <- MCClose
    Clock <- MCClock
    Symbols = {"AAA", "BBB"}
    Capital = 2
    MaxHold = 10
    None = None
    Identities = {"A"}
    Inceptions <- MCInceptions
    Offers <- MCOffers
INVARIANTS
    TypeOK
    CommittedContiguous
    AtRestIsBook
    RestingBook
PROPERTY
    SessionsTrade
CHECK_DEADLOCK FALSE
