\* One section dispatched without an opening, then reviewed: pages read and
\* confirmed in every order with a correction, by a main agent that need not
\* get anywhere, with a lost turn and a continuation.
SPECIFICATION FairSpec
CONSTANTS
    Cues = 2
    Texts = {a}
    Blank = blank
    Alien = alien
    None = none
    MaxSubagents = 1
    StreamOpening = FALSE
    OpeningMin = 0
    OpeningMax = 1
    PlanningLimit = 1
    ReviewLimit = 2
    StallLimit = 1
    MaxCalls = 2
    Tools <- ReviewTools
    MaxRevision = 2
    MaxEdits = 1
    MaxLost = 1
    MaxContinues = 1
INVARIANTS
    EvidenceIsCurrent
PROPERTIES
    PlanSurvives
    MainPhaseEnds
CHECK_DEADLOCK FALSE
