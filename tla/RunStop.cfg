SPECIFICATION Spec
CONSTANTS
    Sessions = {s1, s2}
    Strict = {s2}
    Executable = {t1}
    Terminal = {Complete}
    Complete = Complete
    None = None
    MaxNudges = 1
    CheckpointEvents = 1
    MaxMaterial = 1
    MaxEpochs = 1
INVARIANT HeldAtMost
PROPERTIES
    StopNeverEnables
    NoEarlyRelease
CHECK_DEADLOCK FALSE
