CONSTANTS
    c1 = c1
    c2 = c2
    o1 = o1
    o2 = o2
    b1 = b1
    b2 = b2
    NoOwner = NoOwner
    Calls = {c1, c2}
    Owners = {o1}
    Budgets = {b1}
    Generations = {1}
    Receipts = {1}
    BudgetsOf <- OneBudgetedOneFree
    Limits <- RetentionLimits
    WindowLength <- NoWindow
    MaxResult <- NoResult
    ResultSizes = {0}
    AdmissionWindow = 1
    ClockSkew = 1
    ApprovalTTL = 1
    MaxBudgetRecords = 1
    MaxReservations = 2
    MaxTerminalCallRecords = 1
    MaxApprovalRecords = 2
    MaxPendingApprovals = 1
    Rollback = TRUE
    MaxTime = 5
SPECIFICATION Spec
CHECK_DEADLOCK FALSE
INVARIANTS
    CallHistoryInv
    CallAdmittedOnce
    BlockedNeverDispatched
    ApprovalAskedOnce
PROPERTIES
    ImplementsLifecycle
