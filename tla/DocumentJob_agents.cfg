\* Two children in parallel under a request and a token budget, one caller,
\* one restart: what the durable task does.
SPECIFICATION Spec
CONSTANTS
    Clients = {c1}
    Children = {k1, k2}
    Main = main
    None = none
    Turns = 1
    Retries = 1
    StallLimit = 1
    Budgets = {0, 4}
    TokenBudgets = {3}
    DefaultTokens = 0
    TokenCosts = {1}
    ServerKey = TRUE
    ReadOld = FALSE
    MaxConvs = 1
    MaxSubmits = 2
    MaxAborts = 0
    MaxCrashes = 1
    MaxCircles = 2
SYMMETRY ChildSymmetry
INVARIANTS
    TypeOK
    RequestBudgetHolds
    TokenOverrunBounded
    PublicationIsWhole
    PreviewIsDurable
PROPERTIES
    NoTurnLost
    AllowanceOnlyByContinuation
CHECK_DEADLOCK FALSE
