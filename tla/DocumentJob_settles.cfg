\* One caller, failing calls, children that go round in circles until a budget
\* ends it, retries, backoff and a restart; the server holds a key.
SPECIFICATION FairSpec
CONSTANTS
    Clients = {c1}
    Children = {k1, k2}
    Main = main
    None = none
    Turns = 1
    Retries = 1
    StallLimit = 1
    Budgets = {5}
    TokenBudgets = {3}
    DefaultTokens = 4
    TokenCosts = {1}
    ServerKey = TRUE
    ReadOld = FALSE
    MaxConvs = 1
    MaxSubmits = 1
    MaxAborts = 0
    MaxCrashes = 1
    MaxCircles = 0
PROPERTY JobSettles
CHECK_DEADLOCK FALSE
