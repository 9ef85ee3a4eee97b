---------------------------- MODULE LedgerLifecycle ----------------------------
(***************************************************************************)
(* The lifecycle the action ledger holds the records of one call to: which *)
(* event may follow which, and when the call is complete. These are the    *)
(* operators of src/internal/actionledger/lifecycle.go as functions of a   *)
(* state and an event; the modules of the gateway and of the retained      *)
(* ledger step through them.                                               *)
(*                                                                         *)
(* An event is a pair <<type, value>>. Warn is allow. An event whose       *)
(* binding drifts (reservation, budgets, request, policy, reason) is never *)
(* built by the gateway, so bindings are left out, except the approval     *)
(* count of a settlement: that depends on the records the reader holds.    *)
(* Progress decisions and suppressed progress leave the state alone.       *)
(***************************************************************************)
CONSTANT None

\* No field that has not been recorded looks like a recorded value.
ASSUME LedgerAssumption ==
    None \notin {"allow", "block", "require_approval", "pending", "approved", "refused",
                 "reserved", "dispatched", "released", "settled", "indeterminate", "denied",
                 "succeeded", "failed", "unknown"}

Events ==
    {<<"accepted", None>>}
    \cup ({"pre_decision"} \X {"allow", "block", "require_approval"})
    \cup ({"pre_approval", "post_approval"} \X {"pending", "approved", "refused"})
    \cup ({"budget"} \X {"reserved", "post_reserved", "dispatched", "released",
                         "settled", "settled_charged", "settled_returned",
                         "indeterminate", "denied"})
    \cup {<<"dispatch", None>>}
    \cup ({"downstream"} \X {"succeeded", "failed", "unknown"})
    \cup ({"inspection"} \X {"allow", "block", "require_approval"})
    \cup ({"delivery"} \X {"forwarded", "withheld"})
    \cup ({"failure"} \X {"dispatch_known", "dispatch_unknown"})

LifecycleStates ==
    [accepted : BOOLEAN, missing : BOOLEAN, started : BOOLEAN,
     decision : {None, "allow", "block", "require_approval"},
     pre : {None, "pending", "approved", "refused"},
     post : {None, "pending", "approved", "refused"},
     stage : {None, "reserved", "dispatched", "released", "settled",
              "indeterminate", "denied"},
     postBudget : BOOLEAN, dispatched : BOOLEAN,
     outcome : {None, "succeeded", "failed", "unknown"},
     inspection : {None, "allow", "block", "require_approval"},
     terminal : BOOLEAN]

\* The state before the first record of a call; `missing` is set for the
\* first record read when it is not the acceptance and the ledger has
\* dropped records.
Fresh(missing) ==
    [accepted |-> FALSE, missing |-> missing, started |-> FALSE,
     decision |-> None, pre |-> None, post |-> None, stage |-> None,
     postBudget |-> FALSE, dispatched |-> FALSE, outcome |-> None,
     inspection |-> None, terminal |-> FALSE]

BudgetSeen(s)     == s.stage # None
BudgetStops(s)    == s.stage \in {"released", "indeterminate", "denied"}
BudgetTerminal(s) == BudgetStops(s) \/ s.stage = "settled"
\* The first budget transition a reader of the rest of a call sees.
HistoryStart(s)   == s.missing /\ ~BudgetSeen(s)

DispatchEligible(s) ==
    \/ s.decision = "allow"
    \/ s.decision = "require_approval" /\ s.pre = "approved"

\* What every event is held to before its own rules.
Open(s, type) ==
    /\ type = "accepted" \/ s.accepted \/ s.missing
    /\ ~BudgetStops(s)
    /\ s.pre = "refused" => type = "budget"
    /\ s.pre = "pending" => type = "pre_approval"
    /\ s.post = "pending" => type = "post_approval"
    /\ s.post = "refused" => type \in {"budget", "delivery"}
    /\ s.decision = "block" => type = "budget"

PreApprovalAccepted(s, status) ==
    /\ s.missing \/ s.decision = "require_approval"
    /\ ~s.dispatched
    /\ s.pre \notin {"approved", "refused"}
    /\ s.stage # "dispatched"
    /\ IF status = "pending" THEN s.pre = None ELSE s.pre # None \/ s.missing

PostApprovalAccepted(s, status) ==
    /\ s.missing \/ s.inspection = "require_approval"
    /\ s.outcome = "succeeded"
    /\ s.post \notin {"approved", "refused"}
    /\ IF status = "pending" THEN s.post = None ELSE s.post # None \/ s.missing

\* The settlement that answers the post-result approval the reader knows of.
SettlementOf(s) ==
    CASE ~s.postBudget -> "settled"
      [] s.postBudget /\ s.post = "approved" -> "settled_charged"
      [] OTHER -> "settled_returned"

BudgetAccepted(s, kind) ==
    /\ s.decision # None \/ s.missing
    /\ ~BudgetTerminal(s)
    /\ kind \notin {"reserved", "denied"} => BudgetSeen(s) \/ HistoryStart(s)
    /\ CASE kind = "post_reserved" ->
              /\ s.stage = "dispatched" /\ s.outcome # None
              /\ s.inspection = "require_approval"
              /\ s.post = None /\ ~s.postBudget
         [] kind = "reserved" ->
              /\ s.stage = None /\ ~s.dispatched
              /\ s.pre = None /\ s.post = None
         [] kind = "dispatched" ->
              /\ ~s.dispatched
              /\ HistoryStart(s) \/ (s.stage = "reserved" /\ DispatchEligible(s))
         [] kind = "released" ->
              /\ ~s.dispatched
              /\ HistoryStart(s) \/ s.stage = "reserved"
         [] kind = "denied" ->
              /\ ~s.dispatched
              /\ HistoryStart(s) \/ s.stage = "reserved"
              /\ s.pre = "refused" \/ s.decision = "block"
         [] kind = "indeterminate" ->
              HistoryStart(s) \/ s.stage \in {"reserved", "dispatched"}
         [] OTHER ->
              /\ HistoryStart(s) \/ (s.stage = "dispatched" /\ s.outcome # None)
              /\ kind = SettlementOf(s)

DispatchAccepted(s) ==
    /\ ~s.dispatched
    /\ s.missing \/ DispatchEligible(s)
    /\ s.decision = "require_approval" => s.pre = "approved"
    /\ BudgetSeen(s) => s.stage = "dispatched"

InspectionPermits(s) ==
    \/ s.inspection = "allow"
    \/ s.inspection = "require_approval" /\ s.post = "approved"

DeliveryAccepted(s, status) ==
    /\ s.inspection # None \/ s.missing
    /\ BudgetSeen(s) => BudgetTerminal(s)
    /\ s.missing \/ (status = "forwarded") = InspectionPermits(s)

\* BuildCallStatuses takes event e after state s.
Accepts(s, e) ==
    LET type == e[1]  value == e[2] IN
    /\ ~s.terminal
    /\ Open(s, type)
    /\ CASE type = "accepted"      -> ~s.started
         [] type = "pre_decision"  -> s.decision = None /\ ~s.dispatched
         [] type = "pre_approval"  -> PreApprovalAccepted(s, value)
         [] type = "post_approval" -> PostApprovalAccepted(s, value)
         [] type = "budget"        -> BudgetAccepted(s, value)
         [] type = "dispatch"      -> DispatchAccepted(s)
         [] type = "downstream"    -> (s.dispatched \/ s.missing) /\ s.outcome = None
         [] type = "inspection"    -> /\ s.outcome = "succeeded" \/ s.missing
                                      /\ s.inspection = None
         [] type = "delivery"      -> DeliveryAccepted(s, value)
         [] OTHER -> value = "dispatch_unknown" =>
                        ~s.dispatched /\ s.outcome = None /\ s.inspection = None

Apply(s, e) ==
    LET type == e[1]  value == e[2]  t == [s EXCEPT !.started = TRUE] IN
    CASE type = "accepted"      -> [t EXCEPT !.accepted = TRUE]
      [] type = "pre_decision"  -> [t EXCEPT !.decision = value]
      [] type = "pre_approval"  -> [t EXCEPT !.pre = value]
      [] type = "post_approval" -> [t EXCEPT !.post = value]
      [] type = "budget" ->
           IF value = "post_reserved" THEN [t EXCEPT !.postBudget = TRUE]
           ELSE [t EXCEPT !.stage = IF value \in {"settled_charged", "settled_returned"}
                                    THEN "settled" ELSE value]
      [] type = "dispatch"      -> [t EXCEPT !.dispatched = TRUE]
      [] type = "downstream"    -> [t EXCEPT !.outcome = value]
      [] type = "inspection"    -> [t EXCEPT !.inspection = value]
      [] OTHER                  -> [t EXCEPT !.terminal = TRUE]

\* finish: nothing more is owed for the call.
TerminalComplete(s) ==
    /\ \/ s.terminal
       \/ s.decision = "block"
       \/ s.pre = "refused"
       \/ s.outcome \in {"failed", "unknown"}
       \/ BudgetStops(s)
    /\ BudgetSeen(s) => BudgetTerminal(s)

\* What Append takes from a writer of a call whose acceptance is retained:
\* a complete call takes a budget transition and nothing else.
AppendAccepts(s, e) ==
    /\ TerminalComplete(s) => e[1] = "budget" /\ s.accepted
    /\ Accepts(s, e)
=============================================================================
