\* One call against the sweeps and the shutdown, two operations that fail or
\* are lost.
SPECIFICATION LiveSpec
CONSTANTS
    None = None
    Calls = {c1}
    MaxFaults = 2
    MaxPendingApprovals = 1
PROPERTIES
    RetainedIsReleased
    LeaseIsClosed
    EveryCallIsAnswered
\* A gateway that is closed stops.
CHECK_DEADLOCK FALSE
