\* A dispatch, two sections, and every order of corrections, validation,
\* acceptance, closing and submission.
SPECIFICATION Spec
CONSTANTS
    Cues = 2
    Texts = {a, b}
    Blank = blank
    Alien = alien
    None = none
    MaxSubagents = 1
    StreamOpening = TRUE
    OpeningMin = 0
    OpeningMax = 1
    PlanningLimit = 2
    ReviewLimit = 3
    StallLimit = 2
    MaxCalls = 4
    Tools <- GateTools
    MaxRevision = 3
    MaxEdits = 1
    MaxLost = 1
    MaxContinues = 0
INVARIANTS
    TypeOK
    PublicationWasAccepted
    SectionsMerged
PROPERTIES
    KeepsPromise
CHECK_DEADLOCK FALSE
