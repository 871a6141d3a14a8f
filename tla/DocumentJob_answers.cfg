\* Two callers and a cancellation: nobody waits for ever for an answer.
SPECIFICATION FairSpec
CONSTANTS
    Clients = {c1, c2}
    Children = {k1}
    Main = main
    None = none
    Turns = 1
    Retries = 0
    StallLimit = 1
    Budgets = {}
    TokenBudgets = {}
    DefaultTokens = 0
    TokenCosts = {0}
    ServerKey = FALSE
    ReadOld = FALSE
    MaxConvs = 2
    MaxSubmits = 2
    MaxAborts = 1
    MaxCrashes = 0
    MaxCircles = 0
PROPERTIES
    SubmissionAnswered
    CancellationAnswered
CHECK_DEADLOCK FALSE
