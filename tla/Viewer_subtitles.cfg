\* One video and two loads of it; two cues near the player, one retry.
SPECIFICATION FairSpec
CONSTANTS
    Videos = {v1}
    None = none
    Length = 2
    Versions = 2
    Previews = 1
    ChunkSize = 1
    MaxLoads = 2
    Spoken = {0}
    Before = 0
    After = 2
    MaxWindow = 2
    Retries = 1
INVARIANTS
    ShownIsWhole
    OneLegacyStream
    RequestsUseful
PROPERTIES
    NoDowngrade
    LoadSettles
CHECK_DEADLOCK FALSE
