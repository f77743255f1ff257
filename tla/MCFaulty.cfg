\* Calls fail, streams close, records are lost; topics with an odd name and noise.
CONSTANTS
    d1 = d1
    stem = stem
    other = other
    path1 = path1
    path2 = path2
    plain = plain
    limits = limits
    None = None
    NoWake = NoWake
    BadWake = BadWake
    NoSpecific = plain
    Device <- MCDevice
    Path = {path1, path2}
    Specific = {plain, limits}
    Time = {0, 1}
    TopicNames = {stem, other}
    TopicSeq <- MCTwoTopics
    MaxHops = 4
    RetainedLogs <- MCScopedOrNot
    ControlsInputs <- MixedStatuses
    PhoebusInputs <- MixedRecords
    MaxNow = 1
    MaxActions = 2
    MaxFaults = 2
    Paced = TRUE
SPECIFICATION FairSpec
INVARIANTS
    TypeOK
    ScopeImpliesObserved
    ReflectionBounded
    TurnsAreTaken
    Reflected
    SingleUpdate
PROPERTIES
    RecordsDespiteFailure
    RouteKept
    BypassLeftExplicitly
    Settles
