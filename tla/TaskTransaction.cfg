SPECIFICATION LiveSpec
CONSTANTS
    None = None
    Absent = Absent
    Torn = Torn
    Txns = {t1, t2}
    Edits = {e1}
    MaxFaults = 2
INVARIANTS
    AllOrNothing
    OutcomesHold
    EditsKept
    RefusedForCause
    ReadsAreCommitted
PROPERTIES
    PendingIsResolved
