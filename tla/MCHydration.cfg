\* The startup pass alone.
CONSTANTS
    d1 = d1
    stem = stem
    other = other
    path1 = path1
    plain = plain
    limits = limits
    None = None
    NoWake = NoWake
    BadWake = BadWake
    NoSpecific = plain
    Device <- MCDevice
    path2 = path2
    Path = {path1, path2}
    Specific = {plain, limits}
    Time = {0, 1}
    TopicNames = {stem, other}
    TopicSeq <- MCTwoTopics
    MaxHops = 4
    RetainedLogs <- AllShortLogs
    ControlsInputs <- Nothing
    PhoebusInputs <- Nothing
    MaxNow = 0
    MaxActions = 0
    MaxFaults = 0
    Paced = TRUE
SPECIFICATION FairSpec
INVARIANTS
    HydratedAsPromised
    AppliedAsPromised
