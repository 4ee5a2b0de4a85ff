SPECIFICATION OpsSpec
CONSTANTS
    LastDay = 5
    Lookahead = 10
    Official = {0, 1, 3, 4, 5}
    Close <- MCClose
    Clock = {1, 9}
    Symbols = {"AAA"}
    Capital = 2
    MaxHold = 2
    None = None
    Identities = {"A"}
    Procs = {"p", "q"}
    Asks = {None}
    Fills = {1}
    Proceeds = {1}
    MaxMishaps = 2
PROPERTIES
    InvocationsEnd
    CatchesUp
