\* Documents of eight cues, a pack of three roles with two tasks, three processes
\* around the lock and the storage, three requests for one video.
SPECIFICATION Spec
CONSTANTS
    Length = 8
    MaxSubagents = 3
    PerAgent = 4
    Window = 1
    SmallOpening = 2
    EndTimes = {1, 9}
    MaxCues = 6
    MaxPlanned = 4
    MaxPlan = 3
    Pack <- PackOfThree
    BatchRoles = {"architect"}
    Propagation <- CopiesOfThree
    Tasks = {1, 2}
    MaxMail = 4
    MaxFaults = 1
    GitDrafts = {d1, d2}
    Note = note
    Faulty = faulty
    Commits = {1, 2}
    Procs = {p1, p2, p3}
    Nobody = nobody
    Workers = {w1, w2, w3}
    NoWorker = noworker
    Videos = {1}
    MetadataTtl = 2
    FileSizes = {1, 2}
    MaxBytes = 2
    LastTick = 3
    Requests = {r1, r2, r3}
    Chunks = 2
    Attempts = 2
    Clips = {a, b}
    NoClip = noclip
    PollAttempts = 2
    MaxCaptured = 1
    MaxPolls = 3
    MaxSegments = 4
    Leads = {0, 1, 3}
    Lasts = {1, 3}
    Pause = 1
    MaxGroup = 8
    MaxWords = 2
    LongText = 2
    MaxLine = 3
    MergeGap = 1
    MaxSentence = 5
    MinWords = 2
    MinSentence = 1
    ForcedWords = 3
    MostWords = 4
    Relays = {c1, c2}
    CueCount = 3
    WholeChunk = 2
INVARIANTS
    EvidenceKept
    DispatchSound
    DeliveredExactlyOnce
    TaskCarried
    AgentsServed
    NumbersUnique
    OneOwner
    CacheSound
    OneIngestion
    CaptionsArrive
    TextKept
    CachedIsWhole
PROPERTIES
    AuditedFirst
    OutboxDrains
    LockServes
CHECK_DEADLOCK FALSE
