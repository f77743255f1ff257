\* Phoebus bypasses an alarm and edits its settings in one config.
CONSTANTS
    d1 = d1
    stem = stem
    other = other
    path1 = path1
    path2 = path2
    plain = plain
    limits = limits
    None = None
    NoWake = NoWake
    BadWake = BadWake
    NoSpecific = plain
    Device <- MCDevice
    Path = {path1}
    Specific = {plain, limits}
    Time = {0, 1}
    TopicNames = {stem}
    TopicSeq <- MCTopicSeq
    MaxHops = 4
    RetainedLogs <- MCScoped
    ControlsInputs <- NoStatuses
    PhoebusInputs <- EditRecords
    MaxNow = 0
    MaxActions = 1
    MaxFaults = 0
    Paced = TRUE
SPECIFICATION Spec
PROPERTY
    ConfigPreserved
