\* Two callers racing to submit, continue and cancel one document, with keys
\* that live in memory only, across a restart.
SPECIFICATION Spec
CONSTANTS
    Clients = {c1, c2}
    Children = {k1}
    Main = main
    None = none
    Turns = 1
    Retries = 0
    StallLimit = 1
    Budgets = {}
    TokenBudgets = {}
    DefaultTokens = 0
    TokenCosts = {0}
    ServerKey = FALSE
    ReadOld = FALSE
    MaxConvs = 2
    MaxSubmits = 3
    MaxAborts = 1
    MaxCrashes = 1
    MaxCircles = 0
SYMMETRY ClientSymmetry
INVARIANTS
    OneLiveJob
    CancellationIsFinal
PROPERTY KeepsPromise
CHECK_DEADLOCK FALSE
