\* A config that says of a device what its last state said.
CONSTANTS
    d1 = d1
    stem = stem
    other = other
    path1 = path1
    path2 = path2
    plain = plain
    limits = limits
    None = None
    NoWake = NoWake
    BadWake = BadWake
    NoSpecific = plain
    Device <- MCDevice
    Path = {path1}
    Specific = {plain, limits}
    Time = {0, 1}
    TopicNames = {stem}
    TopicSeq <- MCTopicSeq
    MaxHops = 4
    RetainedLogs <- KnownByState
    ControlsInputs <- NoStatuses
    PhoebusInputs <- FirstConfig
    MaxNow = 0
    MaxActions = 1
    MaxFaults = 0
    Paced = TRUE
SPECIFICATION Spec
INVARIANT
    ScopeComplete
