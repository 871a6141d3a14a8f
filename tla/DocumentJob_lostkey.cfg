\* A failing task drops the key of the submission that is continuing it.
SPECIFICATION Spec
CONSTANTS
    Clients = {c1, c2}
    Children = {k1}
    Main = main
    None = none
    Turns = 1
    Retries = 0
    StallLimit = 1
    Budgets = {}
    TokenBudgets = {}
    DefaultTokens = 0
    TokenCosts = {0}
    ServerKey = FALSE
    ReadOld = FALSE
    MaxConvs = 1
    MaxSubmits = 2
    MaxAborts = 0
    MaxCrashes = 0
    MaxCircles = 0
INVARIANT KeyOnlyLostByRestart
CHECK_DEADLOCK FALSE
