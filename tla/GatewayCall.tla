------------------------------ MODULE GatewayCall ------------------------------
(***************************************************************************)
(* The calls of one gateway process, from the policy decision to the last  *)
(* ledger record, with the sweep for expired approvals and the shutdown.   *)
(* Every call, the sweep and Close run concurrently; a step is one         *)
(* operation on the action state, one ledger append, or one change of the  *)
(* gateway's own maps. The action state is abstracted to the reservation   *)
(* and the approvals of each call (ActionState has the operations in full),*)
(* the ledger to the lifecycle of each call, in mode `required`.           *)
(*                                                                         *)
(* An operation may fail, or be lost: it took effect, its caller is told   *)
(* that it failed. A state operation and its one retry with the current    *)
(* version are one step. Every budget counts approvals.                    *)
(***************************************************************************)
EXTENDS LedgerLifecycle, FiniteSets, Naturals

CONSTANTS Calls,          \* tool calls of this gateway
          MaxFaults,      \* failed and lost operations
          MaxPendingApprovals

VARIABLES
    pc,       \* where each call is
    call,     \* what the action state, the ledger and the gateway hold of it
    due,      \* calls whose approval has reached its expiry
    mu,       \* who holds transitionMu
    sweep,    \* the pass over the retained approvals, by the holder of transitionMu
    closing,  \* Close has been called
    leased,   \* the gateway still holds its key lease
    faults    \* operations that failed or were lost

vars == <<pc, call, due, mu, sweep, closing, leased, faults>>

Free   == "free"
Worker == "expiry worker"
Closer == "close"

\* A call is nobody else who can hold transitionMu; an absent value is no word.
ASSUME GatewayAssumption == /\ None \notin Calls
                            /\ None \notin {"cleanup", "shutdown", "withheld", "forwarded",
                                            "presweep", "asksweep", "postsweep"}
                            /\ Calls \cap {Free, Worker, Closer} = {}
                            /\ MaxFaults \in Nat
                            /\ MaxPendingApprovals \in Nat \ {0}

\* A call holds: budgeted, oversize: whether a budget matches it, whether its
\* ledger record is too long; res, pre, post: its reservation and approvals; led:
\* its state in the ledger; at: None, pending, cleanup or shutdown, the place of
\* its retained approval; done: the parts of the cleanup that are complete; io:
\* how often the tool was called; verdict: what the client was answered; lost,
\* elsewhere: an append was lost, another gateway's sweep decided it.

Idle == [stage |-> "off", todo |-> {}, failed |-> FALSE, back |-> None]

Init ==
    /\ pc = [c \in Calls |-> "new"]
    /\ call = [c \in Calls |->
                 [budgeted |-> FALSE, oversize |-> FALSE, res |-> None,
                  pre |-> None, post |-> None, led |-> Fresh(FALSE), at |-> None,
                  done |-> {}, io |-> 0, verdict |-> None,
                  lost |-> FALSE, elsewhere |-> FALSE]]
    /\ due = {} /\ mu = Free /\ sweep = Idle
    /\ closing = FALSE /\ leased = TRUE /\ faults = 0

--------------------------------------------------------------------------------
\* Operations and their outcomes

Outcomes == IF faults < MaxFaults THEN {"ok", "fail", "lost"} ELSE {"ok"}

Spend(o) == faults' = IF o = "ok" THEN faults ELSE faults + 1

\* Close, shutdown and the sweep hold transitionMu for a whole pass; a resumed
\* call until its dispatch is committed or its answer is ready.
LeavesLock(c, step) == mu' = IF mu = c /\ step \in {"io", "done"} THEN Free ELSE mu

\* c's record becomes r and c goes to step.
Go(c, r, step) == /\ call' = [call EXCEPT ![c] = r]
                  /\ pc' = [pc EXCEPT ![c] = step]
                  /\ LeavesLock(c, step)
                  /\ UNCHANGED <<due, sweep, closing, leased>>

Step(c, step) == Go(c, call[c], step) /\ UNCHANGED faults

\* An append of event e: recorded when its lifecycle accepts it.
Recorded(c, e, o) == o # "fail" /\ AppendAccepts(call[c].led, e)

WithEvent(c, e, o) ==
    IF Recorded(c, e, o)
    THEN [call[c] EXCEPT !.led = Apply(@, e), !.lost = @ \/ o = "lost"]
    ELSE call[c]

Record(c, e, good, bad) ==
    \E o \in Outcomes :
        /\ Spend(o)
        /\ Go(c, WithEvent(c, e, o), IF o = "ok" /\ Recorded(c, e, o) THEN good ELSE bad)

DurableIgnored(c, enabled, r, good, bad) ==
    \E o \in Outcomes :
        /\ Spend(o)
        /\ Go(c, IF enabled /\ o # "fail" THEN [r EXCEPT !.lost = @ \/ o = "lost"] ELSE call[c],
              good)

\* A state operation that, when enabled, makes c's record r.
Durable(c, enabled, r, good, bad) ==
    \E o \in Outcomes :
        /\ Spend(o)
        /\ Go(c, IF enabled /\ o # "fail" THEN [r EXCEPT !.lost = @ \/ o = "lost"] ELSE call[c],
              IF enabled /\ o = "ok" THEN good ELSE bad)

Held == \E c \in Calls : call[c].at # None
Phase(c) == IF call[c].led.outcome = None THEN "pre_approval" ELSE "post_approval"
Approval(c) == IF Phase(c) = "pre_approval" THEN call[c].pre ELSE call[c].post

\* An approval that ends without being granted closes the reservation of a
\* call that has not been sent, and returns the approval of one that has.
Refused(c) == IF Phase(c) = "post_approval" THEN [call[c] EXCEPT !.post = "refused"]
              ELSE [call[c] EXCEPT !.pre = "refused",
                                   !.res = IF call[c].budgeted THEN "denied" ELSE @]

\* FinalizeApproval changes a pending approval and answers with a decided one.
Finalized(c) == IF Approval(c) = "pending" THEN Refused(c) ELSE call[c]

NoPending(c) == call[c].pre # "pending" /\ call[c].post # "pending"

Becomes(c, status) == [call[c] EXCEPT !.res = status]

MarkIndeterminate(c, good, bad) ==
    Durable(c, call[c].res \in {"reserved", "dispatched", "indeterminate"} /\ NoPending(c),
            Becomes(c, "indeterminate"), good, bad)

--------------------------------------------------------------------------------
\* Before dispatch

\* handleTool and startCall: a new call waits for the sweep when the gateway
\* retains approvals.
Arrive(c) ==
    /\ pc[c] = "new" /\ ~closing
    /\ \E budgeted \in BOOLEAN :
          Go(c, [call[c] EXCEPT !.budgeted = budgeted],
             IF Held THEN "presweep" ELSE IF budgeted THEN "reserve" ELSE "accept")
    /\ UNCHANGED faults

\* The reservation, the accepted request and the decision.
Reserve(c) ==
    /\ pc[c] = "reserve"
    /\ Durable(c, TRUE, Becomes(c, "reserved"), "accept", "done")

AcceptRequest(c) ==
    /\ pc[c] = "accept"
    /\ Record(c, <<"accepted", None>>, "decide", "release_quiet")

AfterDecision(c, d) ==
    CASE d = "require_approval"               -> IF Held THEN "asksweep" ELSE "issue"
      [] d # "require_approval" /\ call[c].budgeted -> "reserved"
      [] d = "allow" /\ ~call[c].budgeted     -> "mark"
      [] OTHER                                -> "done"

Decide(c) ==
    /\ pc[c] = "decide"
    /\ \E d \in {"allow", "block", "require_approval"} :
          Record(c, <<"pre_decision", d>>, AfterDecision(c, d), "release_quiet")

RecordReserved(c) ==
    /\ pc[c] = "reserved"
    /\ Record(c, <<"budget", "reserved">>,
              IF call[c].led.decision = "block" THEN "deny" ELSE "mark", "release_quiet")

\* releaseReservation, whose result nobody looks at.
ReleaseReservation(c, next) ==
    IF call[c].budgeted
    THEN Durable(c, call[c].res = "reserved" /\ NoPending(c), Becomes(c, "released"), next, next)
    ELSE Step(c, next)

ReleaseQuietly(c) == pc[c] = "release_quiet" /\ ReleaseReservation(c, "done")

\* releaseCall: the ledger hears of the release whether or not it happened.
ReleaseCall(c) ==
    \/ /\ pc[c] = "release" /\ call[c].budgeted
       /\ ReleaseReservation(c, "release_event")
    \/ /\ pc[c] = "release" /\ ~call[c].budgeted
       /\ Record(c, <<"failure", "dispatch_known">>, "done", "done")
    \/ /\ pc[c] = "release_event"
       /\ Record(c, <<"budget", "released">>, "done", "done")

\* denyCall: without a reservation there is nothing to deny.
DenyCall(c) ==
    \/ /\ pc[c] = "deny" /\ ~call[c].budgeted
       /\ Step(c, "done")
    \/ /\ pc[c] = "deny" /\ call[c].budgeted
       /\ Durable(c, call[c].res = "reserved" /\ NoPending(c),
                  Becomes(c, "denied"), "deny_event", "deny_failure")
    \/ /\ pc[c] = "deny_event"
       /\ Record(c, <<"budget", "denied">>, "done", "done")
    \/ /\ pc[c] = "deny_failure"
       /\ Record(c, <<"failure", "dispatch_known">>, "done", "done")

\* commitDispatch: the repository, the policy and the tool are sampled again,
\* then the reservation is marked dispatched, then the ledger hears of it.
CommitDispatch(c) ==
    \/ /\ pc[c] = "mark"
       /\ Step(c, "release")
    \/ /\ pc[c] = "mark" /\ ~call[c].budgeted
       /\ Step(c, "dispatch_event")
    \/ /\ pc[c] = "mark" /\ call[c].budgeted
       /\ Durable(c, call[c].res = "reserved", Becomes(c, "dispatched"),
                  "commit_event", "release")
    \/ /\ pc[c] = "commit_event"
       /\ Record(c, <<"budget", "dispatched">>, "dispatch_event", "indeterminate_quiet")
    \/ /\ pc[c] = "dispatch_event"
       /\ Record(c, <<"dispatch", None>>, "io",
                 IF call[c].budgeted THEN "indeterminate_quiet" ELSE "done")

MarkQuietly(c) ==
    /\ pc[c] = "indeterminate_quiet"
    /\ IF call[c].budgeted THEN MarkIndeterminate(c, "done", "done") ELSE Step(c, "done")

--------------------------------------------------------------------------------
\* Approvals of a call

\* requestApproval and requestPostApproval. No authority policy, or an issue
\* the action state refuses, ends the request; what follows differs by phase.
Ask(c, status) == IF Phase(c) = "pre_approval" THEN [call[c] EXCEPT !.pre = status]
                  ELSE [call[c] EXCEPT !.post = status]

Unasked(c, step) ==
    IF step = "settle" THEN Go(c, [call[c] EXCEPT !.verdict = "withheld"], "settle")
                       ELSE Go(c, call[c], step)

IssueApproval(c) ==
    /\ pc[c] \in {"issue", "post_issue"}
    /\ LET pre == pc[c] = "issue"
           refused == IF pre THEN "deny" ELSE "settle"
           issued == CASE ~call[c].budgeted      -> IF pre THEN "issue_event" ELSE "post_event"
                       [] call[c].budgeted       -> IF pre THEN "issue_reserved" ELSE "post_reserved"
       IN \/ Unasked(c, refused) /\ UNCHANGED faults
          \/ Go(c, Ask(c, "pending"), issued) /\ UNCHANGED faults
          \/ /\ faults < MaxFaults
             /\ faults' = faults + 1
             /\ Go(c, [Ask(c, "pending") EXCEPT !.lost = TRUE,
                                                !.verdict = IF pre THEN None ELSE "withheld"],
                   refused)

RecordRequest(c) ==
    \/ /\ pc[c] = "issue_reserved"
       /\ Record(c, <<"budget", "reserved">>, "issue_event", "finalize_quiet")
    \/ /\ pc[c] = "issue_event"
       /\ Record(c, <<"pre_approval", "pending">>, "park", "finalize_quiet")
    \/ /\ pc[c] = "post_reserved"
       /\ Record(c, <<"budget", "post_reserved">>, "post_event", "finalize_quiet")
    \/ /\ pc[c] = "post_event"
       /\ Record(c, <<"post_approval", "pending">>, "park", "finalize_quiet")

\* finalizeIssuedApproval after a ledger failure, then blockApprovalLedgerFailure
\* when the call has been sent.
FinalizeQuietly(c) ==
    /\ pc[c] = "finalize_quiet"
    /\ LET next == IF Phase(c) = "post_approval" THEN "indeterminate_quiet" ELSE "done"
       IN Durable(c, TRUE, Finalized(c), next, next)

\* storePending, and the ways in which the request cannot be sent to the client.
\* A request that is stored and removed again at once is not seen in the map.
Park(c) ==
    /\ pc[c] = "park" /\ mu = Free
    /\ \/ /\ Cardinality({d \in Calls : call[d].at # None}) < MaxPendingApprovals
          /\ Go(c, [call[c] EXCEPT !.at = "pending"], "parked")
       \/ Go(c, call[c], "finalize")
    /\ UNCHANGED faults

\* takePending, by the client's retry or by the end of the elicitation.
Resume(c) ==
    /\ pc[c] = "parked" /\ call[c].at = "pending"
    /\ Go(c, [call[c] EXCEPT !.at = None], "taken")
    /\ UNCHANGED faults

\* The resumed call gets transitionMu, to fail the approval or to consume it.
TakeLock(c) ==
    /\ pc[c] = "taken" /\ mu = Free
    /\ mu' = c
    /\ \E step \in {"finalize", "consume"} : pc' = [pc EXCEPT ![c] = step]
    /\ UNCHANGED <<call, due, sweep, closing, leased, faults>>

\* consumeApproval and consumePostApproval up to the answer of the action
\* state: the boundary or the evaluation changed, the approval was decided
\* meanwhile, the receipt is refused, the operation ends without a result, or
\* the approval is granted.
Consume(c) ==
    /\ pc[c] = "consume"
    /\ \/ Step(c, "finalize")
       \/ Approval(c) = "refused" /\ Step(c, "decided_event")
       \/ /\ Approval(c) = "pending" /\ c \in due
          /\ Durable(c, TRUE, Refused(c), "decided_event", "finalize")
       \/ /\ Approval(c) = "pending" /\ c \notin due
          /\ \/ Durable(c, TRUE, Refused(c), "decided_event", "finalize")
             \/ Durable(c, TRUE, Ask(c, "approved"), "granted_event", "finalize")

\* FinalizeApproval of a request that was stored or taken, for its record.
Finalize(c) ==
    /\ pc[c] = "finalize"
    /\ Durable(c, TRUE, Finalized(c), "decided_event",
               IF Phase(c) = "pre_approval" THEN "deny_failure" ELSE "done")

\* recordTerminalizedApproval and finalizePostApproval: the ledger hears of
\* the decision, and of what becomes of the call.
RecordDecided(c) ==
    /\ pc[c] = "decided_event"
    /\ LET e == <<Phase(c), Approval(c)>>
           pre == Phase(c) = "pre_approval"
           next == CASE pre /\ call[c].budgeted  -> "deny_event"
                     [] pre /\ ~call[c].budgeted -> "done"
                     [] OTHER                    -> "settle"
       IN \E o \in Outcomes :
             /\ Spend(o)
             /\ Go(c, [WithEvent(c, e, o) EXCEPT !.verdict = IF pre THEN None ELSE "withheld"],
                   IF o = "ok" /\ Recorded(c, e, o) THEN next ELSE "done")

\* A granted approval: the call goes on, unless the ledger cannot record it.
RecordGranted(c) ==
    /\ pc[c] = "granted_event"
    /\ LET e == <<Phase(c), "approved">>
           pre == Phase(c) = "pre_approval"
       IN \E o \in Outcomes :
             /\ Spend(o)
             /\ Go(c, [WithEvent(c, e, o) EXCEPT !.verdict = IF pre THEN None ELSE "forwarded"],
                   IF o = "ok" /\ Recorded(c, e, o)
                   THEN IF pre THEN "again" ELSE "settle"
                   ELSE IF pre THEN "deny" ELSE "indeterminate_quiet")

\* The approved call is reserved, inspected and evaluated once more.
EvaluateAgain(c) ==
    /\ pc[c] = "again"
    /\ \E step \in {"mark", "deny"} : Step(c, step)

--------------------------------------------------------------------------------
\* The call downstream and its result

\* executeCall. The tool may not answer, answer with what is no result, or
\* answer; a budgeted answer may be larger than what was reserved for it.
CallTool(c) ==
    /\ pc[c] = "io"
    /\ \/ Go(c, [call[c] EXCEPT !.io = @ + 1],
             IF call[c].budgeted THEN "unknown_ind" ELSE "unknown_event")
       \/ \E oversize \in {FALSE, call[c].budgeted} :
             \/ Go(c, [call[c] EXCEPT !.io = @ + 1, !.oversize = oversize,
                                      !.verdict = "failed"], "settle")
             \/ Go(c, [call[c] EXCEPT !.io = @ + 1, !.oversize = oversize], "succeeded_event")
    /\ UNCHANGED faults

\* failUnknownDownstream.
FailUnknown(c) ==
    \/ /\ pc[c] = "unknown_ind"
       /\ MarkIndeterminate(c, "unknown_event", "unknown_only")
    \/ /\ pc[c] = "unknown_event"
       /\ Record(c, <<"downstream", "unknown">>,
                 IF call[c].budgeted THEN "ind_event" ELSE "unknown_failure", "done")
    \/ /\ pc[c] = "unknown_only"
       /\ Record(c, <<"downstream", "unknown">>, "done", "done")
    \/ /\ pc[c] = "unknown_failure"
       /\ Record(c, <<"failure", "dispatch_known">>, "done", "done")

\* finishCall and inspectAndDeliver.
FinishCall(c) ==
    \/ /\ pc[c] = "succeeded_event"
       /\ Record(c, <<"downstream", "succeeded">>, "inspect", "done")
    \/ /\ pc[c] = "inspect"
       /\ \E d \in {"allow", "block", "require_approval"}, o \in Outcomes :
             LET e == <<"inspection", d>>
                 verdict == CASE d = "allow" -> "forwarded"
                              [] d = "block" -> "withheld"
                              [] OTHER -> None
             IN /\ Spend(o)
                /\ Go(c, [WithEvent(c, e, o) EXCEPT !.verdict = verdict],
                      IF o # "ok" \/ ~Recorded(c, e, o) THEN "done"
                      ELSE IF d # "require_approval" THEN "settle"
                      ELSE IF Held THEN "postsweep" ELSE "post_issue")

\* settleCallState: a result above its reserved ceiling leaves the reservation
\* indeterminate. A malformed result is settled before the ledger hears of it.
Settled(c) == Becomes(c, IF call[c].oversize THEN "indeterminate" ELSE "settled")

AfterSettle(c) ==
    CASE call[c].verdict = "failed"                        -> "failed_event"
      [] call[c].verdict # "failed" /\ call[c].oversize    -> "ind_event"
      [] OTHER                                             -> "settle_event"

Settle(c) ==
    \/ /\ pc[c] = "settle" /\ ~call[c].budgeted
       /\ Step(c, IF call[c].verdict = "failed" THEN "failed_event" ELSE "delivery")
    \/ /\ pc[c] = "settle" /\ call[c].budgeted
       /\ Durable(c, call[c].res = "dispatched" /\ NoPending(c), Settled(c),
                  AfterSettle(c), "settle_failed")
    \/ /\ pc[c] = "settle_failed"
       /\ IF call[c].verdict = "failed"
          THEN MarkIndeterminate(c, "failed_event", "failed_only")
          ELSE MarkIndeterminate(c, "ind_event", "done")

\* What the settlement says of the approval of a withheld or forwarded result.
Settlement(c) ==
    CASE ~call[c].led.postBudget -> "settled"
      [] call[c].led.postBudget /\ call[c].verdict = "forwarded" -> "settled_charged"
      [] OTHER -> "settled_returned"

RecordResult(c) ==
    \/ /\ pc[c] = "failed_event"
       /\ Record(c, <<"downstream", "failed">>,
                 CASE ~call[c].budgeted                             -> "done"
                   [] call[c].budgeted /\ call[c].res = "settled"   -> "settle_event"
                   [] OTHER                                         -> "ind_event", "done")
    \/ /\ pc[c] = "failed_only"
       /\ Record(c, <<"downstream", "failed">>, "done", "done")
    \/ /\ pc[c] = "settle_event"
       /\ Record(c, <<"budget", Settlement(c)>>,
                 IF call[c].verdict = "failed" THEN "done" ELSE "delivery", "done")
    \/ /\ pc[c] = "ind_event"
       /\ Record(c, <<"budget", "indeterminate">>, "done", "done")
    \/ /\ pc[c] = "delivery"
       /\ Record(c, <<"delivery", call[c].verdict>>, "done", "done")

--------------------------------------------------------------------------------
\* Expiry, the sweep and shutdown

\* An approval reaches its expiry; never before it is stored.
Expire(c) ==
    /\ pc[c] \in {"parked", "taken", "consume", "done"}
    /\ Approval(c) = "pending" /\ c \notin due
    /\ due' = due \cup {c}
    /\ UNCHANGED <<pc, call, mu, sweep, closing, leased, faults>>

\* The sweep of another gateway on the same action state expires it.
ExpireElsewhere(c) ==
    /\ Approval(c) = "pending" /\ c \in due
    /\ call' = [call EXCEPT ![c] = [Refused(c) EXCEPT !.elsewhere = TRUE]]
    /\ UNCHANGED <<pc, due, mu, sweep, closing, leased, faults>>

Items(places) == {c \in Calls : call[c].at \in places}

Begin(stage, todo, back) ==
    sweep' = [stage |-> stage, todo |-> todo, failed |-> FALSE, back |-> back]

\* reconcileExpiredApprovals, by the expiry worker or by a call that needs it.
WorkerSweep ==
    /\ mu = Free /\ ~closing
    /\ mu' = Worker
    /\ Begin("first", Items({"cleanup"}), None)
    /\ UNCHANGED <<pc, call, due, closing, leased, faults>>

CallSweep(c) ==
    /\ pc[c] \in {"presweep", "asksweep", "postsweep"} /\ mu = Free
    /\ mu' = c
    /\ pc' = [pc EXCEPT ![c] = "sweeping"]
    /\ Begin("first", Items({"cleanup"}), pc[c])
    /\ UNCHANGED <<call, due, closing, leased, faults>>

\* The next thing an item owes, once its approval is decided.
Owed(c) ==
    LET it == call[c] IN
    CASE "approval" \notin it.done -> <<Phase(c), Approval(c)>>
      [] "approval" \in it.done /\ Phase(c) = "pre_approval" -> <<"budget", "denied">>
      [] "approval" \in it.done /\ Phase(c) = "post_approval"
            /\ it.budgeted /\ "budget" \notin it.done ->
            <<"budget", IF it.oversize THEN "indeterminate" ELSE Settlement(c)>>
      [] OTHER -> <<"delivery", "withheld">>

Mark(e) == CASE e[1] \in {"pre_approval", "post_approval"} -> "approval"
             [] e[1] = "budget" -> "budget"
             [] OTHER -> "delivery"

OwesSettlement(c) ==
    /\ "approval" \in call[c].done /\ Phase(c) = "post_approval"
    /\ call[c].budgeted /\ "settled" \notin call[c].done

ItemBudgeted(c) ==
    IF Phase(c) = "pre_approval" THEN {"approval", "budget"} \subseteq call[c].done
    ELSE "delivery" \in call[c].done
ItemComplete(c) ==
    IF Phase(c) = "pre_approval"
    THEN "approval" \in call[c].done /\ (call[c].budgeted => "budget" \in call[c].done)
    ELSE "delivery" \in call[c].done

\* One operation on item c made its record r; on an error the pass goes on to
\* the other items.
Item(c, r, good) ==
    /\ call' = [call EXCEPT ![c] = r]
    /\ sweep' = IF good THEN sweep
                ELSE [sweep EXCEPT !.todo = @ \ {c}, !.failed = TRUE]
    /\ UNCHANGED <<pc, due, mu, closing, leased>>

ItemState(c, enabled, r, mark) ==
    \E o \in Outcomes :
        /\ Spend(o)
        /\ Item(c, IF ~enabled \/ o = "fail" THEN call[c]
                   ELSE IF o = "lost" THEN [r EXCEPT !.lost = TRUE]
                   ELSE [r EXCEPT !.done = @ \cup {mark}],
                enabled /\ o = "ok")

\* finishShutdownApproval, finishTerminalizedApproval and
\* finishTerminalizedPostApproval, one operation at a time.
FinishItem(c) ==
    /\ sweep.stage \in {"first", "second", "shutdown"} /\ c \in sweep.todo
    /\ \/ /\ "finalized" \notin call[c].done
          /\ ItemState(c, TRUE, Finalized(c), "finalized")
       \/ /\ "finalized" \in call[c].done /\ OwesSettlement(c)
          /\ ItemState(c, call[c].res = "dispatched" /\ NoPending(c), Settled(c), "settled")
       \/ /\ "finalized" \in call[c].done /\ ~OwesSettlement(c) /\ ~ItemComplete(c)
          /\ \E o \in Outcomes :
                LET e == Owed(c)
                    r == WithEvent(c, e, o)
                    good == o = "ok" /\ Recorded(c, e, o)
                IN /\ Spend(o)
                   /\ Item(c, IF good THEN [r EXCEPT !.done = @ \cup {Mark(e)}] ELSE r, good)
       \/ /\ "finalized" \in call[c].done /\ ItemComplete(c)
          /\ call' = [call EXCEPT ![c].at = None]
          /\ pc' = [pc EXCEPT ![c] = "done"]
          /\ sweep' = [sweep EXCEPT !.todo = @ \ {c}]
          /\ UNCHANGED <<due, mu, closing, leased, faults>>

ClaimedAll(expired) == expired
Claimed(expired)    == {c \in expired : call[c].at = "pending"}

\* The state expires every approval that is due; those the gateway still
\* retains as pending are claimed for cleanup.
ReconcileExpired ==
    /\ sweep.todo = {} /\ sweep.stage = "first"
    /\ LET expired == {c \in due : Approval(c) = "pending"}
       IN \E o \in Outcomes :
             /\ Spend(o)
             /\ call' = [c \in Calls |->
                           IF o = "fail" \/ c \notin expired THEN call[c]
                           ELSE IF o = "lost" THEN [Refused(c) EXCEPT !.lost = TRUE]
                           ELSE IF c \in Claimed(expired)
                                THEN [Refused(c) EXCEPT !.at = "cleanup", !.done = {"finalized"}]
                                ELSE Refused(c)]
             /\ sweep' = [sweep EXCEPT !.stage = "second",
                                       !.todo = {c \in Calls : call'[c].at = "cleanup"},
                                       !.failed = @ \/ o # "ok"]
    /\ UNCHANGED <<pc, due, mu, closing, leased>>

AfterSweep(c) ==
    CASE sweep.back = "presweep" -> IF sweep.failed THEN "done"
                                    ELSE IF call[c].budgeted THEN "reserve" ELSE "accept"
      [] sweep.back = "asksweep" -> IF sweep.failed THEN "deny" ELSE "issue"
      [] OTHER -> IF sweep.failed THEN "settle" ELSE "post_issue"

UnlockUnlessFailed == mu' = IF sweep.failed THEN mu ELSE Free
Unlock             == mu' = Free

EndSweep ==
    /\ sweep.stage \in {"second", "shutdown"} /\ sweep.todo = {}
    /\ sweep' = Idle /\ Unlock
    /\ IF mu \in Calls
       THEN /\ pc' = [pc EXCEPT ![mu] = AfterSweep(mu)]
            /\ call' = [call EXCEPT ![mu].verdict = IF AfterSweep(mu) = "settle"
                                                    THEN "withheld" ELSE @]
       ELSE UNCHANGED <<pc, call>>
    /\ UNCHANGED <<due, closing, leased, faults>>

\* Close: no call starts any more; what is retained is finalized, and again at
\* every further Close, until nothing is left and the key lease is given up.
Close ==
    /\ ~closing
    /\ closing' = TRUE
    /\ UNCHANGED <<pc, call, due, mu, sweep, leased, faults>>

FirstShutdownItems == Items({"pending"})
ShutdownItems      == Items({"pending", "cleanup", "shutdown"})

ShutdownPending ==
    /\ closing /\ leased /\ Held /\ mu = Free
    /\ mu' = Closer
    /\ call' = [c \in Calls |-> IF call[c].at = "pending"
                                THEN [call[c] EXCEPT !.at = "shutdown"] ELSE call[c]]
    /\ Begin("shutdown", ShutdownItems, None)
    /\ UNCHANGED <<pc, due, closing, leased, faults>>

CloseLease ==
    /\ closing /\ leased /\ mu = Free /\ ~Held
    /\ \A c \in Calls : pc[c] \in {"new", "parked", "done"}
    /\ leased' = FALSE
    /\ UNCHANGED <<pc, call, due, mu, sweep, closing, faults>>

--------------------------------------------------------------------------------
Work(c) ==
    \/ Reserve(c) \/ AcceptRequest(c) \/ Decide(c) \/ RecordReserved(c)
    \/ ReleaseQuietly(c) \/ ReleaseCall(c) \/ DenyCall(c) \/ CommitDispatch(c)
    \/ MarkQuietly(c) \/ IssueApproval(c) \/ RecordRequest(c) \/ FinalizeQuietly(c)
    \/ Consume(c) \/ Finalize(c) \/ RecordDecided(c) \/ RecordGranted(c)
    \/ EvaluateAgain(c) \/ CallTool(c) \/ FailUnknown(c) \/ FinishCall(c)
    \/ Settle(c) \/ RecordResult(c)

Sweeping == ReconcileExpired \/ EndSweep \/ \E c \in Calls : FinishItem(c)

Next == \/ \E c \in Calls : \/ Arrive(c) \/ Work(c) \/ Park(c) \/ Resume(c)
                            \/ TakeLock(c) \/ CallSweep(c)
                            \/ Expire(c) \/ ExpireElsewhere(c)
        \/ WorkerSweep \/ Sweeping \/ Close \/ ShutdownPending \/ CloseLease

Spec == Init /\ [][Next]_vars

\* A goroutine that can go on does; transitionMu is handed to whoever waits for
\* it; the worker's ticker and the caller of Close come back; approvals expire.
Fairness ==
    /\ \A c \in Calls : /\ WF_vars(Work(c)) /\ SF_vars(Park(c)) /\ SF_vars(TakeLock(c))
                        /\ SF_vars(CallSweep(c)) /\ WF_vars(Expire(c))
    /\ WF_vars(Sweeping) /\ SF_vars(WorkerSweep) /\ SF_vars(ShutdownPending)
    /\ WF_vars(CloseLease)

LiveSpec == Spec /\ Fairness

--------------------------------------------------------------------------------
\* executeCall and commitDispatch: the tool is called at most once, and only
\* when the ledger has recorded the dispatch, the reservation has been marked
\* dispatched in the action state, and an approval the decision asked for has
\* been granted there - whatever failed, expired or was lost on the way.
SentOnceAndBacked ==
    \A c \in Calls : call[c].io > 0 =>
        /\ call[c].io = 1
        /\ call[c].led.dispatched
        /\ call[c].budgeted => call[c].res \in {"dispatched", "indeterminate", "settled"}
        /\ call[c].led.decision # "block"
        /\ call[c].led.decision = "require_approval" => call[c].pre = "approved"

\* forwardResult: a result reaches the client only when it was inspected, the
\* approval its inspection asked for is granted in the action state, and its
\* reservation is settled there.
ForwardedIsApprovedAndSettled ==
    \A c \in Calls : call[c].led.terminal /\ call[c].verdict = "forwarded" =>
        /\ call[c].led.inspection # "block"
        /\ call[c].led.inspection = "require_approval" => call[c].post = "approved"
        /\ call[c].budgeted => call[c].res = "settled"

\* docs/documentation.md:3855: budget transitions in the ledger mirror persisted
\* changes. A recorded commitment, settlement, denial or indeterminate outcome
\* is what the action state holds. (A release is recorded even when it failed:
\* releaseReservation does not say.)
LedgerMirrorsState ==
    \A c \in Calls : LET stage == call[c].led.stage IN
        /\ stage \in {"settled", "indeterminate", "denied"} => call[c].res = stage
        /\ stage = "dispatched" => call[c].res \in {"dispatched", "indeterminate", "settled"}

\* finishTerminalizedApproval: what a retained item owes the ledger next is
\* something its lifecycle takes, or the item is retried for ever. Not so once
\* an append or a state change of the call was lost (a retry carries a new
\* timestamp, so sameRecordInput does not recognise it), nor for an oversized
\* result.
Cleaning(c) == call[c].at \in {"cleanup", "shutdown"} /\ "finalized" \in call[c].done

Owing(c) == Cleaning(c) /\ ~OwesSettlement(c) /\ ~ItemComplete(c)

CleanupNeverRefused ==
    \A c \in Calls : Owing(c) /\ ~call[c].lost /\ ~call[c].oversize =>
        AppendAccepts(call[c].led, Owed(c))

\* gateway.go:804-806: a settlement that left the reservation indeterminate is
\* preserved, "and finish its ledger transition instead of retrying forever".
CleanupOfOversizedFinishes ==
    \A c \in Calls : Owing(c) /\ ~call[c].lost =>
        AppendAccepts(call[c].led, Owed(c))

\* The sweeps claim and finish what they can: an approval that expired, or that
\* shutdown cancelled, is not retained for ever.
Clean(c) == ~call[c].lost /\ ~call[c].oversize /\ ~call[c].elsewhere

RetainedIsReleased ==
    \A c \in Calls : call[c].at # None /\ Clean(c)
                       ~> (call[c].at = None \/ ~Clean(c))

\* Close: the key lease is given up in the end, unless a call is stuck.
LeaseIsClosed == closing ~> (~leased \/ \E c \in Calls : call[c].at # None /\ ~Clean(c))

\* No call waits for ever for transitionMu or for a sweep.
EveryCallIsAnswered ==
    \A c \in Calls : pc[c] # "new" ~> pc[c] \in {"parked", "done"}
=============================================================================
