\* A cancellation that is acknowledged and keeps the checkpoint.
SPECIFICATION Spec
CONSTANTS
    Clients = {c1, c2}
    Children = {k1}
    Main = main
    None = none
    Turns = 1
    Retries = 0
    StallLimit = 1
    Budgets = {}
    TokenBudgets = {}
    DefaultTokens = 0
    TokenCosts = {0}
    ServerKey = TRUE
    ReadOld = FALSE
    MaxConvs = 1
    MaxSubmits = 2
    MaxAborts = 1
    MaxCrashes = 0
    MaxCircles = 0
INVARIANT CancelClearsCheckpoint
CHECK_DEADLOCK FALSE
