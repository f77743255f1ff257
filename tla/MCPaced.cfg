\* Operators act one at a time; nothing fails.
CONSTANTS
    d1 = d1
    stem = stem
    other = other
    path1 = path1
    path2 = path2
    plain = plain
    limits = limits
    None = None
    NoWake = NoWake
    BadWake = BadWake
    NoSpecific = plain
    Device <- MCDevice
    Path = {path1}
    Specific = {plain, limits}
    Time = {0, 1, 2}
    TopicNames = {stem}
    TopicSeq <- MCTopicSeq
    MaxHops = 5
    RetainedLogs <- MCScopedOrNot
    ControlsInputs <- OperatorStatuses
    PhoebusInputs <- OperatorRecords
    MaxNow = 2
    MaxActions = 4
    MaxFaults = 0
    Paced = TRUE
SPECIFICATION FairMirroringSpec
INVARIANTS
    Agreement
    InFlightIntended
    MetadataCurrent
    CacheCurrent
    ScopeComplete
    CorrectionUnderway
    SettingsUnderway
    ReflectionBounded
PROPERTIES
    BypassLeftExplicitly
    OnlyIntentIsMirrored
    Settles
