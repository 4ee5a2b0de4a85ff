SPECIFICATION Spec
CONSTANTS
    LastDay = 6
    Lookahead = 10
    Official = {0, 1, 3, 4, 5, 6}
    Close <- MCClose
    Clock = {1, 4, 9, 13}
    Symbols = {"AAA"}
    Capital = 2
    MaxHold = 3
    None = None
    Identities = {A, B}
    Procs = {p1, p2}
    Asks = {0, 1, 2, 3, 4, None}
    Fills = {1, 3}
    Proceeds = {1, 2}
    p1 = p1
    p2 = p2
    A = A
    B = B
SYMMETRY MCSymmetry
INVARIANTS
    TypeOK
    AppendsVerify
    ForwardOnly
PROPERTY
    ImplementsLedger
