CONSTANTS
    c1 = c1
    c2 = c2
    o1 = o1
    o2 = o2
    b1 = b1
    b2 = b2
    NoOwner = NoOwner
    Calls = {c1, c2}
    Owners = {o1}
    Budgets = {b1, b2}
    Generations = {1, 2}
    Receipts = {1}
    BudgetsOf <- BothBudgets
    Limits <- SharedLimits
    WindowLength <- OneWindow
    MaxResult <- OneByte
    ResultSizes = {0, 2}
    AdmissionWindow = 1
    ClockSkew = 0
    ApprovalTTL = 1
    MaxBudgetRecords = 3
    MaxReservations = 2
    MaxTerminalCallRecords = 2
    MaxApprovalRecords = 3
    MaxPendingApprovals = 2
    Rollback = FALSE
    MaxTime = 2
SPECIFICATION LiveSpec
CHECK_DEADLOCK FALSE
INVARIANTS
    TypeOK
    CapacityNeverOversubscribed
    ChargedOnce
    IndeterminateCanBeReconciled
PROPERTIES
    PendingIsDecided
    DecisionsAreFinal
