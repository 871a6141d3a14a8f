\* Two videos with one cue each, two loads.
SPECIFICATION Spec
CONSTANTS
    Videos = {v1, v2}
    None = none
    Length = 1
    Versions = 1
    Previews = 1
    ChunkSize = 1
    MaxLoads = 2
    Spoken = {0}
    Before = 0
    After = 0
    MaxWindow = 1
    Retries = 0
INVARIANT OnlyAfterOptIn
CHECK_DEADLOCK FALSE
