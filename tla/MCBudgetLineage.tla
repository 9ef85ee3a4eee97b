--------------------------- MODULE MCBudgetLineage ---------------------------
(* Small instances of BudgetLineage for TLC.                               *)
EXTENDS BudgetLineage, TLC

Declared(reset, seconds, limit) == [reset |-> reset, seconds |-> seconds, limit |-> limit]
MixedCost == [c \in Calls |-> IF c = CHOOSE d \in Calls : TRUE THEN 2 ELSE 1]

\* Two changes of the reset without a return, and between them a fixed window
\* whose limit shrinks and grows.
LimitsThenRun == 1 :> Declared("never", 0, 2) @@ 2 :> Declared("fixed_window", 2, 2)
                 @@ 3 :> Declared("fixed_window", 2, 1)
                 @@ 4 :> Declared("fixed_window", 2, 2)
                 @@ 5 :> Declared("operator_run", 0, 2)

\* These contracts are among those of theorem OrderlyChangesAddNothing.
ASSUME OrderlyAssumption == Orderly
=============================================================================
