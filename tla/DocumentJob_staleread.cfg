\* Reading the id of an older, cancelled conversation makes it the key's record.
SPECIFICATION Spec
CONSTANTS
    Clients = {c1, c2}
    Children = {k1}
    Main = main
    None = none
    Turns = 1
    Retries = 0
    StallLimit = 1
    Budgets = {}
    TokenBudgets = {}
    DefaultTokens = 0
    TokenCosts = {0}
    ServerKey = FALSE
    ReadOld = TRUE
    MaxConvs = 3
    MaxSubmits = 3
    MaxAborts = 1
    MaxCrashes = 0
    MaxCircles = 0
INVARIANT OneLiveJob
CHECK_DEADLOCK FALSE
