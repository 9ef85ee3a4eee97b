\* One call, no operation fails.
SPECIFICATION Spec
CONSTANTS
    None = None
    Calls = {c1}
    MaxFaults = 0
    MaxPendingApprovals = 1
INVARIANT CleanupOfOversizedFinishes
CHECK_DEADLOCK FALSE
