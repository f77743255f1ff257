\* Controls bypasses while Phoebus acknowledges.
CONSTANTS
    d1 = d1
    stem = stem
    other = other
    path1 = path1
    path2 = path2
    plain = plain
    limits = limits
    None = None
    NoWake = NoWake
    BadWake = BadWake
    NoSpecific = plain
    Device <- MCDevice
    Path = {path1}
    Specific = {plain, limits}
    Time = {0, 1}
    TopicNames = {stem}
    TopicSeq <- MCTopicSeq
    MaxHops = 4
    RetainedLogs <- MCScoped
    ControlsInputs <- BypassStatus
    PhoebusInputs <- AcknowledgeRecord
    MaxNow = 0
    MaxActions = 2
    MaxFaults = 0
    Paced = FALSE
SPECIFICATION Spec
PROPERTY
    BypassLeftExplicitly
