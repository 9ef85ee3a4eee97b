\* Two operations in flight, two changes, four interruptions or power failures:
\* enough for a write whose recovery and second recovery die too.
SPECIFICATION LiveSpec
CONSTANTS
    Procs = {p1, p2}
    Ops = {a, b}
    Nothing = Nothing
    MaxFaults = 4
INVARIANTS
    NeverDiverges
    AcknowledgedSurvives
PROPERTIES
    ImplementsVersionedLog
    RecoveryCompletes
