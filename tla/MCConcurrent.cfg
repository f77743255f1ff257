\* Operators on both sides act at once, from startup on.  No property of this run is
\* about the ghost counter of mirrorings, which is cut short.
CONSTANTS
    d1 = d1
    stem = stem
    other = other
    path1 = path1
    path2 = path2
    plain = plain
    limits = limits
    None = None
    NoWake = NoWake
    BadWake = BadWake
    NoSpecific = plain
    Device <- MCDevice
    Path = {path1}
    Specific = {plain, limits}
    Time = {1}
    TopicNames = {stem}
    TopicSeq <- MCTopicSeq
    MaxHops = 1
    RetainedLogs <- MCStartups
    ControlsInputs <- ConcurrentStatuses
    PhoebusInputs <- ConcurrentRecords
    MaxNow = 1
    MaxActions = 2
    MaxFaults = 1
    Paced = FALSE
SPECIFICATION MirroringSpec
INVARIANTS
    ScopeInvariant
    Routable
    NoAmplification
    StartupRaceHeals
    HealingUnderway
PROPERTIES
    BypassKeptAtStartup
