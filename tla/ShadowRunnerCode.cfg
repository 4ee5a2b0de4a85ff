SPECIFICATION Spec
CONSTANTS
    LastDay = 3
    Lookahead = 10
    Official = {0, 1, 3}
    Close <- MCClose
    Clock = {1, 4}
    Symbols = {"AAA"}
    Capital = 2
    MaxHold = 3
    None = None
    Identities = {A, B}
    Procs = {p1, p2}
    Asks = {None}
    Fills = {1, 3}
    Proceeds = {1, 2}
    p1 = p1
    p2 = p2
    A = A
    B = B
INVARIANT
    RunsInceptionCode
