--------------------------- MODULE MCActionState ---------------------------
(* Instances of ActionState for TLC: which budgets match which call, what  *)
(* they limit, and the result ceiling of the tools called.                 *)
EXTENDS ActionState, TLC

CONSTANTS c1, c2, o1, o2, b1, b2

\* Budgets: both calls draw on b1, which never resets and bounds approvals,
\* with capacity for less than they may ask, and on b2, a fixed window of two
\* instants. Both may be in flight, so that two approvals are pending at once
\* and expire for one sweep. A result may exceed its tool's ceiling.
BothBudgets  == (c1 :> {b1, b2}) @@ (c2 :> {b1, b2})
SharedLimits == (b1 :> [call |-> 2, denied |-> 1, approval |-> 2,
                        result |-> 3, concurrent |-> 0])
             @@ (b2 :> [call |-> 2, denied |-> 2, approval |-> 0,
                        result |-> 2, concurrent |-> 2])
OneWindow    == (b1 :> 0) @@ (b2 :> 2)
OneByte      == (c1 :> 1) @@ (c2 :> 1)

\* Retention and reconciliation: c1 with a budget that has no approval limit,
\* c2 without any budget.
OneBudgetedOneFree == (c1 :> {b1}) @@ (c2 :> {})
NoWindow           == b1 :> 0
NoResult           == (c1 :> 0) @@ (c2 :> 0)
RetentionLimits    == b1 :> [call |-> 2, denied |-> 0, approval |-> 0,
                             result |-> 0, concurrent |-> 1]
=============================================================================
