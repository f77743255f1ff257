\* The program is cancelled at any instant, or its health server fails.
CONSTANTS
    d1 = d1
    stem = stem
    other = other
    path1 = path1
    path2 = path2
    plain = plain
    limits = limits
    None = None
    NoWake = NoWake
    BadWake = BadWake
    NoSpecific = plain
    Device <- MCDevice
    Path = {path1}
    Specific = {plain, limits}
    Time = {0}
    TopicNames = {stem}
    TopicSeq <- MCTopicSeq
    MaxHops = 4
    RetainedLogs <- MCScoped
    ControlsInputs <- OneStatus
    PhoebusInputs <- OneRecord
    MaxNow = 0
    MaxActions = 1
    MaxFaults = 1
    Paced = FALSE
SPECIFICATION FairProgramSpec
INVARIANTS
    StopsOnlyWhenCancelled
    CleanExit
PROPERTIES
    CancelledEnds
    HealthFailureEnds
    TakenUpIsFinished
