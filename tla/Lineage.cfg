\* Limits and resets change in order while calls of different cost are in flight.
SPECIFICATION Spec
CONSTANTS
    Calls = {c1, c2, c3}
    Cost <- MixedCost
    Runs = {r1}
    NoRun = NoRun
    Contract <- LimitsThenRun
    Reverts = FALSE
    MaxBudgetRecords = 4
    Period = 2
    MaxTime = 4
CHECK_DEADLOCK FALSE
INVARIANTS
    ChargesBacked
    NoFreshBudget
PROPERTIES
    ConsumptionKept
