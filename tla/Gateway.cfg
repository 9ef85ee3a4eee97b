\* Two calls that share the pending map, transitionMu and the sweep, one
\* operation that fails or is lost.
SPECIFICATION Spec
CONSTANTS
    None = None
    Calls = {c1, c2}
    MaxFaults = 1
    MaxPendingApprovals = 1
SYMMETRY CallSymmetry
INVARIANTS
    SentOnceAndBacked
    ForwardedIsApprovedAndSettled
    LedgerMirrorsState
    CleanupNeverRefused
\* A gateway that is closed stops.
CHECK_DEADLOCK FALSE
