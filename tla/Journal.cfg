SPECIFICATION LiveSpec
CONSTANTS
    None = None
    MaxArchives = 2
    RecordsPerFile = 2
    MaxAttempts = 8
    MaxFaults = 3
INVARIANTS
    RecoveryNeverRefused
    NoOrphans
    SnapshotVerifies
PROPERTIES
    RingSpec
    JournalResolved
