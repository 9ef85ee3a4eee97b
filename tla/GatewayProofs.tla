----------------------------- MODULE GatewayProofs -----------------------------
(***************************************************************************)
(* The four safety properties of GatewayCall, proved for every number of   *)
(* calls, of faults and of retained approvals.                             *)
(*                                                                         *)
(* None of them is inductive: what a step may record depends on where the  *)
(* call is, on what the action state holds of it and on what the ledger    *)
(* was told. GatewayInv says, of each place of a call, what its record is  *)
(* there (CallOK, in seven parts), and how the sweep is wired: a call in   *)
(* its own sweep holds transitionMu, the items of a pass are retained for  *)
(* cleanup, so that no call and no sweep work on the same record. A call   *)
(* in its own sweep counts as being where it will come back to (At).       *)
(*                                                                         *)
(* Beside them stands what the ledger's own rules come to (AllLawful):     *)
(* every event it accepts keeps the laws of a call that it has read from   *)
(* its acceptance, in whatever order the events come.                      *)
(*                                                                         *)
(* The last part is the refinement: the reservations, as this gateway and  *)
(* its sweeps move them, are the calls of CallLifecycle. ChargedInv says   *)
(* where a call that is budgeted must hold one.                            *)
(*                                                                         *)
(* The proof has one lemma for what each kind of step does to a record     *)
(* (Reservation, ApprovalEvent, BudgetEvent, OutcomeEvent, ...), three for *)
(* what it does to everything else (GoKeeps, DurableKeeps, RecordKeeps;    *)
(* ItemKeeps for the sweep), and one per action.                           *)
(***************************************************************************)
EXTENDS GatewayCall, TLAPS

--------------------------------------------------------------------------------
\* Where a call can be.

\* It has not been sent, it has been sent, it waits for an approval in either
\* phase.
Before == {"new", "presweep", "reserve", "accept", "decide", "reserved",
           "release_quiet", "release", "release_event", "deny", "deny_event",
           "deny_failure", "mark", "commit_event", "dispatch_event", "asksweep",
           "issue", "issue_reserved", "issue_event", "again", "io"}
Beyond == {"unknown_ind", "unknown_event", "unknown_only", "unknown_failure",
           "succeeded_event", "inspect", "postsweep", "post_issue",
           "post_reserved", "post_event", "settle", "settle_failed",
           "failed_event", "failed_only", "settle_event", "ind_event", "delivery"}
Asking == {"finalize_quiet", "park", "parked", "taken", "consume", "finalize",
           "decided_event", "granted_event"}
Ended  == {"indeterminate_quiet", "done"}
Places == Before \cup Beyond \cup Asking \cup Ended

CallRecords ==
    [budgeted : BOOLEAN, oversize : BOOLEAN,
     res : {None, "reserved", "dispatched", "released", "denied", "indeterminate", "settled"},
     pre : {None, "pending", "approved", "refused"},
     post : {None, "pending", "approved", "refused"},
     led : LifecycleStates,
     at : {None, "pending", "cleanup", "shutdown"},
     done : SUBSET {"finalized", "approval", "settled", "budget", "delivery"},
     io : {0, 1}, verdict : {None, "failed", "withheld", "forwarded"},
     lost : BOOLEAN, elsewhere : BOOLEAN]

\* The approval a call waits for, of its record r.
Answer(r) == IF r.led.outcome = None THEN r.pre ELSE r.post

Committed == {"dispatched", "indeterminate", "settled"}

--------------------------------------------------------------------------------
\* What is true of a call with record r at place p.

\* The tool is called in one step, and everything about the answer follows it.
Counted(p, r) ==
    /\ p \in Before => r.io = 0
    /\ p \in Beyond => r.io = 1
    /\ p \in Asking => (r.io = 1 <=> r.led.outcome # None)
    /\ r.led.outcome # None => r.io = 1
    /\ r.io = 0 => r.verdict = None /\ r.post = None
    /\ p \in Asking \cup {"unknown_ind", "unknown_event", "unknown_only", "unknown_failure",
                       "succeeded_event", "inspect", "postsweep", "post_issue",
                       "post_reserved", "post_event"} => r.verdict = None

Cleared(r) == \/ r.led.decision = "allow"
              \/ r.led.decision = "require_approval" /\ r.pre = "approved"

\* A call that may be sent is cleared, its reservation is committed first.
Backed(p, r) ==
    /\ r.io = 1 \/ p = "io" => r.led.dispatched
    /\ r.io = 1 \/ p \in {"mark", "commit_event", "dispatch_event", "io"} => Cleared(r)
    /\ r.io = 1 \/ p \in {"commit_event", "dispatch_event", "io"} =>
          (r.budgeted => r.res \in Committed)

\* While an approval for the call is open nothing has been committed; refusing
\* it denies the reservation.
Asked(p, r) ==
    /\ r.pre = "pending" =>
          /\ r.io = 0 /\ r.led.stage \in {None, "reserved"}
          /\ p \in Asking \cup {"issue_reserved", "issue_event", "deny", "deny_failure", "done"}
    /\ r.pre = "refused" /\ r.budgeted => r.res = "denied"
    /\ p \in {"issue_reserved", "issue_event", "finalize_quiet", "park", "parked", "taken",
              "consume", "post_reserved", "post_event"} => Answer(r) \in {"pending", "refused"}
    /\ p = "finalize" => Answer(r) # None
    /\ p = "granted_event" => Answer(r) = "approved"
    /\ p = "decided_event" => Answer(r) \in {"approved", "refused"}
    /\ p = "again" => r.pre = "approved"

\* The ledger says of reservation and approvals what the action state holds.
Mirrored(p, r) ==
    /\ r.led.stage \in {"settled", "indeterminate", "denied"} => r.res = r.led.stage
    /\ r.led.stage = "dispatched" => r.res \in Committed
    /\ r.led.pre \in {"approved", "refused"} => r.pre = r.led.pre
    /\ r.led.post \in {"approved", "refused"} => r.post = r.led.post
    /\ p = "deny_event" =>
          r.res = "denied" \/ (r.led.decision = "require_approval" /\ r.led.pre # "refused")
    /\ p = "settle_event" => r.res = "settled"
    /\ p = "ind_event" => r.res = "indeterminate"
    /\ p = "delivery" /\ r.budgeted => r.res = "settled"
    /\ p = "failed_event" /\ r.budgeted => r.res \in {"settled", "indeterminate"}
    /\ p = "unknown_event" /\ r.budgeted => r.res = "indeterminate"

\* The last record of a call is its last step, or that of its cleanup.
Closed(p, r) ==
    /\ ~r.led.missing
    /\ r.led.terminal => p \in {"done", "parked"}
    /\ r.led.terminal /\ r.verdict = "forwarded" =>
          /\ r.led.inspection # "block"
          /\ r.led.inspection = "require_approval" => r.post = "approved"
          /\ r.budgeted => r.res = "settled"

\* What the gateway retains, and what its cleanup has done.
Retained(p, r) ==
    /\ (r.at # None) <=> (p = "parked")
    /\ p # "done" /\ r.at \in {None, "pending"} => r.done = {}
    /\ p = "parked" =>
          /\ "finalized" \in r.done => Answer(r) = "refused"
          /\ "approval" \in r.done => "finalized" \in r.done
          /\ {"settled", "budget", "delivery"} \cap r.done # {} => "approval" \in r.done
          /\ "delivery" \in r.done => ~r.budgeted \/ "budget" \in r.done
          /\ "settled" \in r.done =>
                r.res = IF r.oversize THEN "indeterminate" ELSE "settled"

\* The ledger of a call on which every append succeeded so far, before and
\* after it was sent.
Judged(r, d, pre) ==
    /\ r.led.accepted /\ ~r.led.terminal
    /\ r.led.decision = d /\ r.led.pre = pre

Unsent(r, stage) ==
    /\ r.led.stage = stage /\ ~r.led.dispatched /\ r.led.outcome = None
    /\ r.led.inspection = None /\ ~r.led.postBudget /\ r.led.post = None

Sent(r, outcome, inspection) ==
    /\ r.led.accepted /\ r.led.dispatched
    /\ \/ r.led.decision = "allow" /\ r.led.pre = None
       \/ r.led.decision = "require_approval" /\ r.led.pre = "approved"
    /\ r.led.outcome = outcome /\ r.led.inspection = inspection

Stage(r, stage) == IF r.budgeted THEN stage ELSE None

Uncharged(r) == r.led.stage = Stage(r, "dispatched") /\ ~r.led.postBudget /\ r.led.post = None

WaitsBefore(r) ==
    /\ Judged(r, "require_approval",
              IF "approval" \in r.done THEN "refused" ELSE "pending")
    /\ Unsent(r, Stage(r, IF "budget" \in r.done THEN "denied" ELSE "reserved"))

WaitsAfter(r) ==
    /\ Sent(r, "succeeded", "require_approval")
    /\ r.led.post = IF "approval" \in r.done THEN "refused" ELSE "pending"
    /\ r.led.stage = Stage(r, IF "budget" \in r.done THEN "settled" ELSE "dispatched")
    /\ r.led.postBudget = r.budgeted
    /\ r.led.terminal <=> "delivery" \in r.done

Waits(r) == IF r.led.outcome = None THEN WaitsBefore(r) ELSE WaitsAfter(r)

RecordingBefore(p, r) ==
    /\ p \in {"new", "presweep", "reserve", "accept"} => r.led = Fresh(FALSE) /\ r.pre = None
    /\ p = "decide" => Judged(r, None, None) /\ Unsent(r, None)
    /\ p = "reserved" => /\ Judged(r, "allow", None) \/ Judged(r, "block", None)
                         /\ Unsent(r, None)
    /\ p \in {"asksweep", "issue", "issue_reserved"} =>
          Judged(r, "require_approval", None) /\ Unsent(r, None)
    /\ p = "issue_event" =>
          Judged(r, "require_approval", None) /\ Unsent(r, Stage(r, "reserved"))
    /\ p = "again" => Judged(r, "require_approval", "approved")
    /\ p \in {"mark", "commit_event", "dispatch_event"} =>
          Judged(r, "allow", None) \/ Judged(r, "require_approval", "approved")
    /\ p \in {"again", "mark", "commit_event"} => Unsent(r, Stage(r, "reserved"))
    /\ p = "dispatch_event" => Unsent(r, Stage(r, "dispatched"))
    /\ p \in {"reserved", "issue_reserved", "commit_event"} => r.budgeted

RecordingAfter(p, r) ==
    /\ p \in {"io", "succeeded_event"} => Sent(r, None, None) /\ Uncharged(r)
    /\ p = "inspect" => Sent(r, "succeeded", None) /\ Uncharged(r)
    /\ p \in {"postsweep", "post_issue", "post_reserved"} =>
          Sent(r, "succeeded", "require_approval") /\ Uncharged(r)
    /\ p = "post_event" =>
          /\ Sent(r, "succeeded", "require_approval") /\ r.led.post = None
          /\ r.led.stage = Stage(r, "dispatched") /\ r.led.postBudget = r.budgeted
    /\ p = "post_reserved" => r.budgeted

RecordingAsk(p, r) ==
    /\ p \in {"park", "taken", "consume", "granted_event"} => Waits(r)
    /\ p = "parked" /\ (r.at = "pending" \/ ~(r.lost \/ r.oversize)) => Waits(r)

Recording(p, r) == RecordingBefore(p, r) /\ RecordingAfter(p, r) /\ RecordingAsk(p, r)

CallOK(p, r) ==
    /\ p \in Places /\ r \in CallRecords
    /\ Counted(p, r) /\ Backed(p, r) /\ Asked(p, r) /\ Mirrored(p, r)
    /\ Closed(p, r) /\ Retained(p, r) /\ Recording(p, r)

--------------------------------------------------------------------------------
\* A call inside its own sweep is where it will come back to.
At(c) == IF pc[c] = "sweeping" THEN sweep.back ELSE pc[c]

Wired ==
    /\ sweep \in [stage : {"off", "first", "second", "shutdown"}, todo : SUBSET Calls,
                  failed : BOOLEAN, back : {None, "presweep", "asksweep", "postsweep"}]
    /\ sweep.stage # "off" =>
          mu \in {Worker, Closer} \/ (mu \in Calls /\ pc[mu] = "sweeping")
    /\ \A c \in Calls : pc[c] = "sweeping" =>
          /\ mu = c /\ sweep.stage # "off"
          /\ sweep.back # None
    /\ \A c \in sweep.todo : call[c].at \in {"cleanup", "shutdown"}
    /\ due \subseteq Calls

GatewayInv ==
    /\ pc \in [Calls -> Places \cup {"sweeping"}]
    /\ call \in [Calls -> CallRecords]
    /\ Wired
    /\ \A c \in Calls : CallOK(At(c), call[c])

--------------------------------------------------------------------------------
WithLed(r, l) == [r EXCEPT !.led = l]
WithRes(r, status) == [r EXCEPT !.res = status]

\* A record that differs only in how it came about.
LEMMA Unobserved ==
    ASSUME NEW p, NEW r \in CallRecords, NEW q \in CallRecords, CallOK(p, r),
           q.budgeted = r.budgeted, q.oversize = r.oversize, q.res = r.res,
           q.pre = r.pre, q.post = r.post, q.led = r.led, q.at = r.at,
           q.done = r.done, q.io = r.io, q.verdict = r.verdict, r.lost => q.lost
    PROVE  CallOK(p, q)
<1>1. Counted(p, q) /\ Backed(p, q) /\ Asked(p, q) /\ Mirrored(p, q)
  BY DEF CallOK, Counted, Backed, Cleared, Asked, Answer, Mirrored
<1>2. Closed(p, q) /\ Retained(p, q)
  BY DEF CallOK, Closed, Retained, Answer
<1>3. RecordingBefore(p, r) /\ RecordingAfter(p, r) /\ RecordingAsk(p, r)
  BY DEF CallOK, Recording
<1>4. RecordingBefore(p, q)
  BY <1>3 DEF RecordingBefore, Judged, Unsent, Stage
<1>5. RecordingAfter(p, q)
  BY <1>3 DEF RecordingAfter, Sent, Uncharged, Stage
<1>6. RecordingAsk(p, q)
  <2>1. Waits(q) <=> Waits(r)
    BY DEF Waits, WaitsBefore, WaitsAfter, Judged, Unsent, Sent, Stage
  <2> QED
    BY <1>3, <2>1 DEF RecordingAsk
<1> QED
  BY <1>1, <1>2, <1>4, <1>5, <1>6 DEF CallOK, Recording

\* The record of a call whose event was recorded, as the caller was told or not.
LEMMA MaybeLost ==
    ASSUME NEW p, NEW r \in CallRecords, CallOK(p, r), NEW b \in BOOLEAN
    PROVE  CallOK(p, [r EXCEPT !.lost = @ \/ b])
<1> DEFINE q == [r EXCEPT !.lost = @ \/ b]
<1>1. /\ q \in CallRecords
      /\ q.budgeted = r.budgeted /\ q.oversize = r.oversize /\ q.res = r.res
      /\ q.pre = r.pre /\ q.post = r.post /\ q.led = r.led /\ q.at = r.at
      /\ q.done = r.done /\ q.io = r.io /\ q.verdict = r.verdict /\ (r.lost => q.lost)
  BY DEF CallRecords
<1> HIDE DEF q
<1>2. CallOK(p, q)
  BY <1>1, Unobserved
<1> QED
  BY <1>2 DEF q

\* Go moves one call; the sweep works on calls it retains.
LEMMA GoKeeps ==
    ASSUME GatewayInv, NEW c \in Calls, NEW r, NEW step, Go(c, r, step),
           pc[c] # "sweeping", call[c].at \notin {"cleanup", "shutdown"},
           CallOK(step, r)
    PROVE  GatewayInv'
<1>1. step \in Places /\ r \in CallRecords /\ step # "sweeping"
  BY DEF CallOK, Places, Before, Beyond, Asking, Ended
<1>2. /\ pc' = [pc EXCEPT ![c] = step] /\ call' = [call EXCEPT ![c] = r]
      /\ due' = due /\ sweep' = sweep
  BY DEF Go
<1>3. pc \in [Calls -> Places \cup {"sweeping"}] /\ call \in [Calls -> CallRecords]
  BY DEF GatewayInv
<1>4. pc' \in [Calls -> Places \cup {"sweeping"}] /\ call' \in [Calls -> CallRecords]
  BY <1>1, <1>2, <1>3
<1>5. pc'[c] = step /\ call'[c] = r
  BY <1>2, <1>3
<1>6. \A d \in Calls \ {c} : pc'[d] = pc[d] /\ call'[d] = call[d]
  BY <1>2, <1>3
<1>7. \A d \in Calls : CallOK(At(d)', call'[d])
  <2> TAKE d \in Calls
  <2>1. CASE d = c
    BY <2>1, <1>1, <1>2, <1>5 DEF At
  <2>2. CASE d # c
    BY <2>2, <1>2, <1>6 DEF At, GatewayInv
  <2> QED
    BY <2>1, <2>2
<1>8. Wired'
  <2>1. mu' = mu \/ (mu = c /\ mu' = Free)
    BY DEF Go, LeavesLock
  <2>2. mu = c => sweep.stage = "off"
    <3>1. c # Worker /\ c # Closer
      BY GatewayAssumption
    <3> QED
      BY <3>1 DEF GatewayInv, Wired
  <2>3. sweep'.stage # "off" => mu' = mu
    BY <2>1, <2>2, <1>2
  <2>4. c \notin sweep.todo
    BY DEF GatewayInv, Wired
  <2>5. sweep'.stage # "off" =>
           mu' \in {Worker, Closer} \/ (mu' \in Calls /\ pc'[mu'] = "sweeping")
    <3> SUFFICES ASSUME sweep.stage # "off"
                 PROVE  mu \in {Worker, Closer} \/ (mu \in Calls /\ pc'[mu] = "sweeping")
      BY <2>3, <1>2
    <3>1. mu # c
      BY <2>2
    <3> QED
      BY <3>1, <1>6 DEF GatewayInv, Wired
  <2>6. \A d \in Calls : pc'[d] = "sweeping" =>
           mu' = d /\ sweep'.stage # "off" /\ sweep'.back # None
    <3> SUFFICES ASSUME NEW d \in Calls, pc'[d] = "sweeping"
                 PROVE  mu' = d /\ sweep'.stage # "off" /\ sweep'.back # None
      OBVIOUS
    <3>1. d # c
      BY <1>1, <1>5
    <3>2. mu = d /\ sweep.stage # "off" /\ sweep.back # None
      BY <3>1, <1>6 DEF GatewayInv, Wired
    <3> QED
      BY <3>2, <2>3, <1>2
  <2>7. \A d \in sweep'.todo : call'[d].at \in {"cleanup", "shutdown"}
    BY <2>4, <1>2, <1>6 DEF GatewayInv, Wired
  <2> QED
    BY <2>5, <2>6, <2>7, <1>2 DEF GatewayInv, Wired
<1> QED
  BY <1>4, <1>7, <1>8 DEF GatewayInv

\* One operation on the state.
LEMMA DurableKeeps ==
    ASSUME GatewayInv, NEW c \in Calls, NEW enabled, NEW r, NEW good, NEW bad,
           Durable(c, enabled, r, good, bad),
           pc[c] # "sweeping", call[c].at \notin {"cleanup", "shutdown"},
           enabled => CallOK(good, r) /\ CallOK(bad, r),
           CallOK(bad, call[c])
    PROVE  GatewayInv'
<1> PICK o \in Outcomes :
           Go(c, IF enabled /\ o # "fail" THEN [r EXCEPT !.lost = @ \/ o = "lost"] ELSE call[c],
                 IF enabled /\ o = "ok" THEN good ELSE bad)
  BY DEF Durable
<1>1. CASE enabled /\ o # "fail"
  <2>1. r \in CallRecords
    BY <1>1 DEF CallOK
  <2>2. (o = "lost") \in BOOLEAN
    OBVIOUS
  <2>3. CallOK(good, [r EXCEPT !.lost = @ \/ o = "lost"])
    BY <1>1, <2>1, <2>2, MaybeLost
  <2>4. CallOK(bad, [r EXCEPT !.lost = @ \/ o = "lost"])
    BY <1>1, <2>1, <2>2, MaybeLost
  <2>5. Go(c, [r EXCEPT !.lost = @ \/ o = "lost"], IF o = "ok" THEN good ELSE bad)
    BY <1>1
  <2>6. CASE o = "ok"
    BY <2>3, <2>5, <2>6, GoKeeps
  <2>7. CASE o # "ok"
    BY <2>4, <2>5, <2>7, GoKeeps
  <2> QED
    BY <2>6, <2>7
<1>2. CASE ~(enabled /\ o # "fail")
  <2>1. Go(c, call[c], bad)
    BY <1>2
  <2> QED
    BY <2>1, GoKeeps
<1> QED
  BY <1>1, <1>2

\* One append.
LEMMA RecordKeeps ==
    ASSUME GatewayInv, NEW c \in Calls, NEW e, NEW good, NEW bad,
           Record(c, e, good, bad),
           pc[c] # "sweeping", call[c].at \notin {"cleanup", "shutdown"},
           AppendAccepts(call[c].led, e) =>
              /\ CallOK(good, WithLed(call[c], Apply(call[c].led, e)))
              /\ CallOK(bad, WithLed(call[c], Apply(call[c].led, e))),
           CallOK(bad, call[c])
    PROVE  GatewayInv'
<1> PICK o \in Outcomes :
           Go(c, WithEvent(c, e, o), IF o = "ok" /\ Recorded(c, e, o) THEN good ELSE bad)
  BY DEF Record
<1> DEFINE r == WithLed(call[c], Apply(call[c].led, e))
<1>1. CASE Recorded(c, e, o)
  <2>1. CallOK(good, r) /\ CallOK(bad, r)
    BY <1>1 DEF Recorded
  <2>2. r \in CallRecords
    BY <2>1 DEF CallOK
  <2>3. WithEvent(c, e, o) = [r EXCEPT !.lost = @ \/ o = "lost"]
    <3>1. call[c] \in CallRecords
      BY DEF GatewayInv
    <3> QED
      BY <1>1, <3>1 DEF WithEvent, WithLed, CallRecords
  <2> HIDE DEF r
  <2>4. (o = "lost") \in BOOLEAN
    OBVIOUS
  <2>5. CallOK(good, WithEvent(c, e, o)) /\ CallOK(bad, WithEvent(c, e, o))
    <3>1. CallOK(good, [r EXCEPT !.lost = @ \/ o = "lost"])
      BY <2>1, <2>2, <2>4, MaybeLost
    <3>2. CallOK(bad, [r EXCEPT !.lost = @ \/ o = "lost"])
      BY <2>1, <2>2, <2>4, MaybeLost
    <3> QED
      BY <2>3, <3>1, <3>2
  <2>6. CASE o = "ok"
    BY <1>1, <2>5, <2>6, GoKeeps
  <2>7. CASE o # "ok"
    BY <2>5, <2>7, GoKeeps
  <2> QED
    BY <2>6, <2>7
<1>2. CASE ~Recorded(c, e, o)
  <2>1. Go(c, call[c], bad)
    BY <1>2 DEF WithEvent
  <2> QED
    BY <2>1, GoKeeps
<1> QED
  BY <1>1, <1>2

--------------------------------------------------------------------------------
\* What an event leaves true of a call that is not retained, wherever the call
\* goes next: what is true of every call that has ended.

\* No word a field is written in is None.
LEMMA Words ==
    None \notin {"pending", "approved", "refused", "allow", "block", "require_approval",
                 "reserved", "dispatched", "released", "denied", "indeterminate", "settled",
                 "succeeded", "failed", "unknown", "withheld", "forwarded",
                 "cleanup", "shutdown", "presweep", "asksweep", "postsweep"}
  BY GatewayAssumption, LedgerAssumption

\* A record with another ledger state is the same in everything else.
LEMMA LedFields ==
    ASSUME NEW r \in CallRecords, NEW l
    PROVE  LET w == WithLed(r, l) IN
           /\ l \in LifecycleStates => w \in CallRecords
           /\ w.led = l
           /\ w.budgeted = r.budgeted /\ w.oversize = r.oversize /\ w.res = r.res
           /\ w.pre = r.pre /\ w.post = r.post /\ w.at = r.at /\ w.done = r.done
           /\ w.io = r.io /\ w.verdict = r.verdict /\ w.lost = r.lost
  BY DEF WithLed, CallRecords

\* A call whose step ended it owes nothing to the places it left.
LEMMA Ends ==
    ASSUME NEW p, NEW r, CallOK(p, r), p # "parked"
    PROVE  CallOK("done", r)
<1>1. Counted("done", r) /\ Backed("done", r) /\ Asked("done", r) /\ Mirrored("done", r)
  BY DEF CallOK, Counted, Backed, Asked, Mirrored, Before, Beyond, Asking
<1>2. Closed("done", r) /\ Retained("done", r)
  BY DEF CallOK, Closed, Retained
<1>3. Recording("done", r)
  BY DEF Recording, RecordingBefore, RecordingAfter, RecordingAsk
<1>4. "done" \in Places
  BY DEF Places, Ended
<1> QED
  BY <1>1, <1>2, <1>3, <1>4 DEF CallOK

\* What an event that is no budget transition and does not end the call makes of
\* the call's state s: it sets the one field it is about.
SetsField(s, l, e) ==
    /\ IF e[1] = "accepted" THEN l.accepted ELSE l.accepted = s.accepted
    /\ IF e[1] = "dispatch" THEN l.dispatched ELSE l.dispatched = s.dispatched
    /\ l.decision = IF e[1] = "pre_decision" THEN e[2] ELSE s.decision
    /\ l.pre = IF e[1] = "pre_approval" THEN e[2] ELSE s.pre
    /\ l.post = IF e[1] = "post_approval" THEN e[2] ELSE s.post
    /\ l.outcome = IF e[1] = "downstream" THEN e[2] ELSE s.outcome
    /\ l.inspection = IF e[1] = "inspection" THEN e[2] ELSE s.inspection
    /\ l.stage = s.stage /\ l.postBudget = s.postBudget
    /\ l.missing = s.missing /\ l.terminal = s.terminal

\* A budget transition sets the stage, or the post-result charge.
SetsStage(s, l, kind) ==
    /\ l.accepted = s.accepted /\ l.missing = s.missing /\ l.decision = s.decision
    /\ l.pre = s.pre /\ l.post = s.post
    /\ l.outcome = s.outcome /\ l.terminal = s.terminal
    /\ l.dispatched = s.dispatched /\ l.inspection = s.inspection
    /\ l.stage = IF kind = "post_reserved" THEN s.stage
                 ELSE IF kind \in {"settled_charged", "settled_returned"} THEN "settled"
                 ELSE kind
    /\ IF kind = "post_reserved" THEN l.postBudget ELSE l.postBudget = s.postBudget

\* Recording a decision on an approval changes that field of the ledger only.
LEMMA Applied ==
    ASSUME NEW s \in LifecycleStates, NEW e,
           \/ e[1] \in {"accepted", "dispatch"}
           \/ e[1] \in {"pre_decision", "inspection"}
              /\ e[2] \in {"allow", "block", "require_approval"}
           \/ e[1] \in {"pre_approval", "post_approval"}
              /\ e[2] \in {"pending", "approved", "refused"}
           \/ e[1] = "downstream" /\ e[2] \in {"succeeded", "failed", "unknown"}
    PROVE  Apply(s, e) \in LifecycleStates /\ SetsField(s, Apply(s, e), e)
<1> DEFINE t == [s EXCEPT !.started = TRUE]
<1>1. /\ t \in LifecycleStates
      /\ t.accepted = s.accepted /\ t.missing = s.missing /\ t.decision = s.decision
      /\ t.pre = s.pre /\ t.post = s.post /\ t.stage = s.stage
      /\ t.postBudget = s.postBudget /\ t.dispatched = s.dispatched
      /\ t.outcome = s.outcome /\ t.inspection = s.inspection /\ t.terminal = s.terminal
  BY DEF LifecycleStates
<1>2. CASE e[1] = "accepted"
  <2>1. Apply(s, e) = [t EXCEPT !.accepted = TRUE]
    BY <1>2 DEF Apply
  <2> DEFINE l == Apply(s, e)
  <2> HIDE DEF t, l
  <2>2. l = [t EXCEPT !.accepted = TRUE]
    BY <2>1 DEF l
  <2>3. l \in LifecycleStates
    BY <1>1, <2>2 DEF LifecycleStates
  <2>4. /\ l.accepted
        /\ l.missing = s.missing /\ l.decision = s.decision /\ l.pre = s.pre
        /\ l.post = s.post /\ l.stage = s.stage
        /\ l.postBudget = s.postBudget /\ l.dispatched = s.dispatched
        /\ l.outcome = s.outcome /\ l.inspection = s.inspection /\ l.terminal = s.terminal
    BY <1>1, <2>2 DEF LifecycleStates
  <2>5. SetsField(s, l, e)
    BY <1>2, <2>4 DEF SetsField
  <2> QED
    BY <2>3, <2>5 DEF l
<1>3. CASE e[1] = "dispatch"
  <2>1. Apply(s, e) = [t EXCEPT !.dispatched = TRUE]
    BY <1>3 DEF Apply
  <2> DEFINE l == Apply(s, e)
  <2> HIDE DEF t, l
  <2>2. l = [t EXCEPT !.dispatched = TRUE]
    BY <2>1 DEF l
  <2>3. l \in LifecycleStates
    BY <1>1, <2>2 DEF LifecycleStates
  <2>4. /\ l.dispatched
        /\ l.accepted = s.accepted /\ l.missing = s.missing /\ l.decision = s.decision
        /\ l.pre = s.pre /\ l.post = s.post
        /\ l.stage = s.stage /\ l.postBudget = s.postBudget
        /\ l.outcome = s.outcome /\ l.inspection = s.inspection /\ l.terminal = s.terminal
    BY <1>1, <2>2 DEF LifecycleStates
  <2>5. SetsField(s, l, e)
    BY <1>3, <2>4 DEF SetsField
  <2> QED
    BY <2>3, <2>5 DEF l
<1>4. CASE e[1] = "pre_decision"
  <2>1. Apply(s, e) = [t EXCEPT !.decision = e[2]]
    BY <1>4 DEF Apply
  <2> HIDE DEF t
  <2> QED
    BY <1>1, <1>4, <2>1 DEF LifecycleStates, SetsField
<1>5. CASE e[1] = "inspection"
  <2>1. Apply(s, e) = [t EXCEPT !.inspection = e[2]]
    BY <1>5 DEF Apply
  <2> HIDE DEF t
  <2> QED
    BY <1>1, <1>5, <2>1 DEF LifecycleStates, SetsField
<1>6. CASE e[1] = "pre_approval"
  <2>1. Apply(s, e) = [t EXCEPT !.pre = e[2]]
    BY <1>6 DEF Apply
  <2> HIDE DEF t
  <2> QED
    BY <1>1, <1>6, <2>1 DEF LifecycleStates, SetsField
<1>7. CASE e[1] = "post_approval"
  <2>1. Apply(s, e) = [t EXCEPT !.post = e[2]]
    BY <1>7 DEF Apply
  <2> HIDE DEF t
  <2> QED
    BY <1>1, <1>7, <2>1 DEF LifecycleStates, SetsField
<1>8. CASE e[1] = "downstream"
  <2>1. Apply(s, e) = [t EXCEPT !.outcome = e[2]]
    BY <1>8 DEF Apply
  <2> HIDE DEF t
  <2> QED
    BY <1>1, <1>8, <2>1 DEF LifecycleStates, SetsField
<1> QED
  BY <1>2, <1>3, <1>4, <1>5, <1>6, <1>7, <1>8

\* Recording a budget transition changes the stage of the ledger only.
LEMMA BudgetApplied ==
    ASSUME NEW s \in LifecycleStates, NEW e, e[1] = "budget",
           e[2] \in {"reserved", "post_reserved", "dispatched", "released", "settled",
                     "settled_charged", "settled_returned", "indeterminate", "denied"}
    PROVE  Apply(s, e) \in LifecycleStates /\ SetsStage(s, Apply(s, e), e[2])
<1> DEFINE t == [s EXCEPT !.started = TRUE]
<1>1. /\ t \in LifecycleStates
      /\ t.accepted = s.accepted /\ t.missing = s.missing /\ t.decision = s.decision
      /\ t.pre = s.pre /\ t.post = s.post /\ t.stage = s.stage
      /\ t.postBudget = s.postBudget /\ t.dispatched = s.dispatched
      /\ t.outcome = s.outcome /\ t.inspection = s.inspection /\ t.terminal = s.terminal
  BY DEF LifecycleStates
<1>2. CASE e[2] = "post_reserved"
  <2>1. Apply(s, e) = [t EXCEPT !.postBudget = TRUE]
    BY <1>2 DEF Apply
  <2> DEFINE l == Apply(s, e)
  <2> HIDE DEF t, l
  <2>2. l = [t EXCEPT !.postBudget = TRUE]
    BY <2>1 DEF l
  <2>3. l \in LifecycleStates
    BY <1>1, <2>2 DEF LifecycleStates
  <2>4. /\ l.postBudget
        /\ l.accepted = s.accepted /\ l.missing = s.missing /\ l.decision = s.decision
        /\ l.pre = s.pre /\ l.post = s.post
        /\ l.stage = s.stage /\ l.dispatched = s.dispatched
        /\ l.outcome = s.outcome /\ l.inspection = s.inspection /\ l.terminal = s.terminal
    BY <1>1, <2>2 DEF LifecycleStates
  <2>5. SetsStage(s, l, e[2])
    BY <1>2, <2>4 DEF SetsStage
  <2> QED
    BY <2>3, <2>5 DEF l
<1>3. CASE e[2] # "post_reserved"
  <2> DEFINE stage == IF e[2] \in {"settled_charged", "settled_returned"} THEN "settled" ELSE e[2]
  <2>1. Apply(s, e) = [t EXCEPT !.stage = stage]
    BY <1>3 DEF Apply
  <2>2. stage \in {"reserved", "dispatched", "released", "settled", "indeterminate", "denied"}
    BY <1>3
  <2> HIDE DEF t
  <2>3. Apply(s, e) \in LifecycleStates
    <3> HIDE DEF stage
    <3> QED
      BY <1>1, <2>1, <2>2 DEF LifecycleStates
  <2>4. SetsStage(s, Apply(s, e), e[2])
    BY <1>1, <1>3, <2>1 DEF LifecycleStates, SetsStage
  <2> QED
    BY <2>3, <2>4
<1> QED
  BY <1>2, <1>3

\* The acceptance, the decision, the dispatch and the inspection say nothing of
\* the reservation or of an approval.
LEMMA ProgressEvent ==
    ASSUME NEW p, NEW r, CallOK(p, r), p # "parked", NEW e,
           \/ e[1] \in {"accepted", "dispatch"}
           \/ e[1] \in {"pre_decision", "inspection"}
              /\ e[2] \in {"allow", "block", "require_approval"},
           e[1] = "pre_decision" => r.io = 0,
           AppendAccepts(r.led, e)
    PROVE  CallOK("done", WithLed(r, Apply(r.led, e)))
<1> DEFINE l == Apply(r.led, e)
           w == WithLed(r, l)
<1>1. r \in CallRecords /\ r.led \in LifecycleStates /\ CallOK("done", r)
  BY Ends DEF CallOK, CallRecords
<1>2. /\ l \in LifecycleStates
      /\ l.missing = r.led.missing /\ l.pre = r.led.pre /\ l.post = r.led.post
      /\ l.stage = r.led.stage /\ l.postBudget = r.led.postBudget
      /\ l.outcome = r.led.outcome /\ l.terminal = r.led.terminal
      /\ r.led.dispatched => l.dispatched
      /\ e[1] # "pre_decision" => l.decision = r.led.decision
  <2>1. l \in LifecycleStates /\ SetsField(r.led, l, e)
    BY <1>1, Applied
  <2> HIDE DEF l
  <2> QED
    BY <2>1 DEF SetsField
<1>3. ~r.led.terminal
  BY DEF AppendAccepts, Accepts
<1> HIDE DEF l
<1>4. /\ w \in CallRecords /\ w.led = l
      /\ w.budgeted = r.budgeted /\ w.oversize = r.oversize /\ w.res = r.res
      /\ w.pre = r.pre /\ w.post = r.post /\ w.at = r.at /\ w.done = r.done
      /\ w.io = r.io /\ w.verdict = r.verdict
  BY <1>1, <1>2, LedFields
<1> HIDE DEF w
<1>5. Counted("done", w) /\ Backed("done", w) /\ Asked("done", w) /\ Mirrored("done", w)
  BY <1>1, <1>2, <1>4 DEF CallOK, Counted, Backed, Cleared, Asked, Mirrored, Before, Beyond, Asking
<1>6. Closed("done", w) /\ Retained("done", w)
  BY <1>1, <1>2, <1>3, <1>4 DEF CallOK, Closed, Retained
<1>7. Recording("done", w) /\ "done" \in Places
  BY DEF Recording, RecordingBefore, RecordingAfter, RecordingAsk, Places, Ended
<1> QED
  BY <1>4, <1>5, <1>6, <1>7 DEF CallOK, w, l

\* An approval event says what the action state holds.
LEMMA ApprovalEvent ==
    ASSUME NEW p, NEW r, CallOK(p, r), p # "parked", NEW e,
           e[2] \in {"pending", "approved", "refused"},
           \/ e[1] = "pre_approval" /\ e[2] \in {"pending", r.pre}
           \/ e[1] = "post_approval" /\ e[2] \in {"pending", r.post},
           AppendAccepts(r.led, e)
    PROVE  CallOK("done", WithLed(r, Apply(r.led, e)))
<1> DEFINE l == Apply(r.led, e)
           w == WithLed(r, l)
<1>1. r \in CallRecords /\ r.led \in LifecycleStates /\ CallOK("done", r)
  BY Ends DEF CallOK, CallRecords
<1>2. /\ l \in LifecycleStates
      /\ l.missing = r.led.missing /\ l.decision = r.led.decision
      /\ l.stage = r.led.stage /\ l.postBudget = r.led.postBudget
      /\ l.outcome = r.led.outcome /\ l.terminal = r.led.terminal
      /\ l.dispatched = r.led.dispatched /\ l.inspection = r.led.inspection
      /\ \/ l.pre = e[2] /\ e[2] \in {"pending", r.pre} /\ l.post = r.led.post
         \/ l.post = e[2] /\ e[2] \in {"pending", r.post} /\ l.pre = r.led.pre
  <2>1. l \in LifecycleStates /\ SetsField(r.led, l, e)
    BY <1>1, Applied
  <2> HIDE DEF l
  <2> QED
    BY <2>1 DEF SetsField
<1> HIDE DEF l
<1>4. /\ w \in CallRecords /\ w.led = l
      /\ w.budgeted = r.budgeted /\ w.oversize = r.oversize /\ w.res = r.res
      /\ w.pre = r.pre /\ w.post = r.post /\ w.at = r.at /\ w.done = r.done
      /\ w.io = r.io /\ w.verdict = r.verdict
  BY <1>1, <1>2, LedFields
<1> HIDE DEF w
<1>5. Counted("done", w) /\ Backed("done", w) /\ Asked("done", w) /\ Mirrored("done", w)
  BY <1>1, <1>2, <1>4 DEF CallOK, Counted, Backed, Cleared, Asked, Mirrored, Before, Beyond, Asking
<1>6. Closed("done", w) /\ Retained("done", w)
  BY <1>1, <1>2, <1>4 DEF CallOK, Closed, Retained
<1>7. Recording("done", w) /\ "done" \in Places
  BY DEF Recording, RecordingBefore, RecordingAfter, RecordingAsk, Places, Ended
<1> QED
  BY <1>4, <1>5, <1>6, <1>7 DEF CallOK, w, l

\* A budget event is true of the reservation when it is recorded. (An accepted
\* denial finds the pre-result approval refused, or the decision against it.)
LEMMA BudgetEvent ==
    ASSUME NEW p, NEW r, CallOK(p, r), p # "parked", NEW e, e[1] = "budget",
           e[2] \in {"reserved", "post_reserved", "dispatched", "released", "settled",
                  "settled_charged", "settled_returned", "indeterminate", "denied"},
           e[2] = "dispatched" => r.res \in Committed,
           e[2] \in {"settled", "settled_charged", "settled_returned"} => r.res = "settled",
           e[2] \in {"indeterminate", "denied"} => r.res = e[2],
           r.pre = "pending" => e[2] = "reserved",
           AppendAccepts(r.led, e)
    PROVE  CallOK("done", WithLed(r, Apply(r.led, e)))
<1> DEFINE l == Apply(r.led, e)
           w == WithLed(r, l)
<1>1. r \in CallRecords /\ r.led \in LifecycleStates /\ CallOK("done", r)
  BY Ends DEF CallOK, CallRecords
<1>2. /\ l \in LifecycleStates
      /\ l.missing = r.led.missing /\ l.decision = r.led.decision
      /\ l.pre = r.led.pre /\ l.post = r.led.post
      /\ l.outcome = r.led.outcome /\ l.terminal = r.led.terminal
      /\ l.dispatched = r.led.dispatched /\ l.inspection = r.led.inspection
      /\ l.stage = IF e[2] = "post_reserved" THEN r.led.stage
                   ELSE IF e[2] \in {"settled_charged", "settled_returned"} THEN "settled" ELSE e[2]
  BY <1>1, BudgetApplied DEF SetsStage
<1>3. ~r.led.terminal
  BY DEF AppendAccepts, Accepts
<1> HIDE DEF l
<1>4. /\ w \in CallRecords /\ w.led = l
      /\ w.budgeted = r.budgeted /\ w.oversize = r.oversize /\ w.res = r.res
      /\ w.pre = r.pre /\ w.post = r.post /\ w.at = r.at /\ w.done = r.done
      /\ w.io = r.io /\ w.verdict = r.verdict
  BY <1>1, <1>2, LedFields
<1> HIDE DEF w
<1>5. Counted("done", w) /\ Backed("done", w) /\ Asked("done", w) /\ Mirrored("done", w)
  BY <1>1, <1>2, <1>4 DEF CallOK, Counted, Backed, Cleared, Asked, Mirrored, Before, Beyond,
                          Asking, Committed
<1>6. Closed("done", w) /\ Retained("done", w)
  BY <1>1, <1>2, <1>3, <1>4 DEF CallOK, Closed, Retained
<1>7. Recording("done", w) /\ "done" \in Places
  BY DEF Recording, RecordingBefore, RecordingAfter, RecordingAsk, Places, Ended
<1> QED
  BY <1>4, <1>5, <1>6, <1>7 DEF CallOK, w, l

\* An answer is recorded of a call that was sent; the last record of a call whose
\* result is forwarded finds the approval granted and the reservation settled.
LEMMA OutcomeEvent ==
    ASSUME NEW p, NEW r, CallOK(p, r), p # "parked", NEW e,
           \/ e[1] = "downstream" /\ e[2] \in {"succeeded", "failed", "unknown"}
           \/ e[1] \in {"delivery", "failure"},
           e[1] = "downstream" => r.io = 1,
           e[1] # "downstream" /\ r.verdict = "forwarded" =>
              /\ r.led.inspection # "block"
              /\ r.led.inspection = "require_approval" => r.post = "approved"
              /\ r.budgeted => r.res = "settled",
           AppendAccepts(r.led, e)
    PROVE  CallOK("done", WithLed(r, Apply(r.led, e)))
<1> DEFINE l == Apply(r.led, e)
           w == WithLed(r, l)
<1>1. r \in CallRecords /\ r.led \in LifecycleStates /\ CallOK("done", r)
  BY Ends DEF CallOK, CallRecords
<1>2. /\ l \in LifecycleStates
      /\ l.missing = r.led.missing /\ l.decision = r.led.decision
      /\ l.pre = r.led.pre /\ l.post = r.led.post
      /\ l.stage = r.led.stage /\ l.postBudget = r.led.postBudget
      /\ l.dispatched = r.led.dispatched /\ l.inspection = r.led.inspection
      /\ e[1] # "downstream" => l.outcome = r.led.outcome
      /\ e[1] = "downstream" => l.terminal = r.led.terminal
  BY <1>1 DEF Apply, LifecycleStates
<1>3. ~r.led.terminal
  BY DEF AppendAccepts, Accepts
<1> HIDE DEF l
<1>4. /\ w \in CallRecords /\ w.led = l
      /\ w.budgeted = r.budgeted /\ w.oversize = r.oversize /\ w.res = r.res
      /\ w.pre = r.pre /\ w.post = r.post /\ w.at = r.at /\ w.done = r.done
      /\ w.io = r.io /\ w.verdict = r.verdict
  BY <1>1, <1>2, LedFields
<1> HIDE DEF w
<1>5. Counted("done", w) /\ Backed("done", w) /\ Asked("done", w) /\ Mirrored("done", w)
  BY <1>1, <1>2, <1>4 DEF CallOK, Counted, Backed, Cleared, Asked, Mirrored, Before, Beyond, Asking
<1>6. Closed("done", w) /\ Retained("done", w)
  BY <1>1, <1>2, <1>3, <1>4 DEF CallOK, Closed, Retained
<1>7. Recording("done", w) /\ "done" \in Places
  BY DEF Recording, RecordingBefore, RecordingAfter, RecordingAsk, Places, Ended
<1> QED
  BY <1>4, <1>5, <1>6, <1>7 DEF CallOK, w, l


\* A record with another reservation is the same in everything else.
LEMMA ResFields ==
    ASSUME NEW r \in CallRecords,
           NEW status \in {"reserved", "dispatched", "released", "denied", "indeterminate",
                           "settled"}
    PROVE  LET w == WithRes(r, status) IN
           /\ w \in CallRecords /\ w.res = status
           /\ w.budgeted = r.budgeted /\ w.oversize = r.oversize /\ w.led = r.led
           /\ w.pre = r.pre /\ w.post = r.post /\ w.at = r.at /\ w.done = r.done
           /\ w.io = r.io /\ w.verdict = r.verdict /\ w.lost = r.lost
  BY DEF WithRes, CallRecords

\* A reservation goes forward; from a reservation that is still open every way
\* is free, for the call has not been sent.
LEMMA Reservation ==
    ASSUME NEW p, NEW r, CallOK(p, r), p \notin {"parked", "done"},
           NEW status \in {"reserved", "dispatched", "released", "denied", "indeterminate",
                           "settled"},
           \/ p = "reserve"
           \/ r.res = "reserved"
           \/ r.res = "dispatched" /\ status \in {"indeterminate", "settled"}
           \/ r.res = "indeterminate" /\ status = "indeterminate"
    PROVE  CallOK("done", WithRes(r, status))
<1> DEFINE w == WithRes(r, status)
<1>1. r \in CallRecords /\ CallOK("done", r) /\ ~r.led.terminal
  BY Ends DEF CallOK, Closed
<1>2. /\ w \in CallRecords /\ w.res = status
      /\ w.budgeted = r.budgeted /\ w.led = r.led
      /\ w.pre = r.pre /\ w.post = r.post /\ w.at = r.at /\ w.done = r.done
      /\ w.io = r.io /\ w.verdict = r.verdict
  BY <1>1, ResFields
<1> HIDE DEF w
<1>3. CASE p = "reserve"
  <2>1. /\ r.led.stage = None /\ r.led.outcome = None /\ r.pre = None /\ r.io = 0
        /\ r.led.pre = None /\ r.led.post = None
    BY <1>3, LedgerAssumption DEF CallOK, Recording, RecordingBefore, Fresh, Counted, Before
  <2>2. Counted("done", w) /\ Backed("done", w) /\ Asked("done", w) /\ Mirrored("done", w)
    BY <1>1, <1>2, <2>1, Words DEF CallOK, Counted, Backed, Cleared, Asked, Mirrored, Before,
                                   Beyond, Asking
  <2> QED
    BY <2>2, <1>1, <1>2 DEF CallOK, Closed, Retained, Recording, RecordingBefore,
                            RecordingAfter, RecordingAsk, w
<1>4. CASE p # "reserve"
  <2>2. Counted("done", w) /\ Backed("done", w) /\ Asked("done", w) /\ Mirrored("done", w)
    BY <1>1, <1>2, <1>4 DEF CallOK, Counted, Backed, Cleared, Asked, Mirrored, Before,
                            Beyond, Asking, Committed
  <2> QED
    BY <2>2, <1>1, <1>2 DEF CallOK, Closed, Retained, Recording, RecordingBefore,
                            RecordingAfter, RecordingAsk, w
<1> QED
  BY <1>3, <1>4

\* What is left to show of a call that goes to q.
LEMMA Moves ==
    ASSUME NEW r, CallOK("done", r), NEW q \in Places \ {"parked"},
           r.done = {}, ~r.led.terminal,
           Counted(q, r), Backed(q, r), Asked(q, r), Mirrored(q, r), Recording(q, r)
    PROVE  CallOK(q, r)
  BY DEF CallOK, Closed, Retained

\* A call whose goroutine can go on.
LEMMA AtWork ==
    ASSUME GatewayInv, NEW c \in Calls, pc[c] \notin {"sweeping", "parked"}
    PROVE  /\ CallOK(pc[c], call[c]) /\ call[c] \in CallRecords
           /\ call[c].led \in LifecycleStates /\ call[c].at = None
           /\ pc[c] # "done" => call[c].done = {} /\ ~call[c].led.terminal
           /\ call[c].at \notin {"cleanup", "shutdown"}
<1>1. CallOK(pc[c], call[c])
  BY DEF GatewayInv, At
<1>2. call[c] \in CallRecords /\ call[c].led \in LifecycleStates
  BY <1>1 DEF CallOK, CallRecords
<1>3. call[c].at = None
  BY <1>1 DEF CallOK, Retained
<1> QED
  BY <1>1, <1>2, <1>3, Words DEF CallOK, Retained, Closed

--------------------------------------------------------------------------------
\* Before dispatch

\* beginCall: the reservation.
LEMMA ReserveKeeps ==
    ASSUME GatewayInv, NEW c \in Calls, Reserve(c)
    PROVE  GatewayInv'
<1> DEFINE r == call[c]
           w == WithRes(r, "reserved")
<1>1. /\ CallOK("reserve", r) /\ r \in CallRecords /\ r.at \notin {"cleanup", "shutdown"}
      /\ r.done = {} /\ ~r.led.terminal
      /\ pc[c] = "reserve" /\ Durable(c, TRUE, w, "accept", "done")
  BY AtWork DEF Reserve, Becomes, WithRes
<1>2. CallOK("done", r) /\ CallOK("done", w)
  BY <1>1, Ends, Reservation
<1>3. CallOK("accept", w)
  <2>1. w.led = r.led /\ w.pre = r.pre /\ w.done = r.done /\ w.io = r.io
        /\ w.post = r.post /\ w.verdict = r.verdict
    BY <1>1, ResFields
  <2> HIDE DEF w
  <2>2. Counted("accept", w) /\ Backed("accept", w) /\ Asked("accept", w) /\ Mirrored("accept", w)
    BY <1>1, <1>2, <2>1, Words DEF CallOK, Counted, Backed, Asked, Mirrored, Before, Beyond,
        Asking, Recording, RecordingBefore
  <2>3. Recording("accept", w)
    BY <1>1, <2>1 DEF CallOK, Recording, RecordingBefore, RecordingAfter, RecordingAsk
  <2> QED
    BY <1>1, <1>2, <2>1, <2>2, <2>3, Moves DEF Places, Before
<1> QED
  BY <1>1, <1>2, <1>3, DurableKeeps

\* The accepted request is the first record of the call.
LEMMA AcceptRequestKeeps ==
    ASSUME GatewayInv, NEW c \in Calls, AcceptRequest(c)
    PROVE  GatewayInv'
<1> DEFINE r == call[c]
           e == <<"accepted", None>>
           w == WithLed(r, Apply(r.led, e))
<1>1. /\ CallOK("accept", r) /\ r \in CallRecords /\ r.at \notin {"cleanup", "shutdown"}
      /\ r.done = {} /\ ~r.led.terminal /\ r.led \in LifecycleStates
      /\ pc[c] = "accept" /\ Record(c, e, "decide", "release_quiet")
  BY AtWork DEF AcceptRequest
<1>2. r.led = Fresh(FALSE) /\ r.pre = None /\ r.io = 0 /\ r.verdict = None /\ r.post = None
  BY <1>1 DEF CallOK, Recording, RecordingBefore, Counted, Before
<1>3. CallOK("release_quiet", r)
  <2>1. Counted("release_quiet", r) /\ Backed("release_quiet", r)
        /\ Asked("release_quiet", r) /\ Mirrored("release_quiet", r)
    BY <1>1, <1>2, Words DEF CallOK, Counted, Backed, Asked, Mirrored, Before, Beyond, Asking
  <2>2. Recording("release_quiet", r)
    BY DEF Recording, RecordingBefore, RecordingAfter, RecordingAsk
  <2> QED
    BY <1>1, <2>1, <2>2, Ends, Moves DEF Places, Before
<1>4. ASSUME AppendAccepts(r.led, e)
      PROVE  CallOK("decide", w) /\ CallOK("release_quiet", w)
  <2>1. CallOK("done", w)
    BY <1>1, <1>4, ProgressEvent
  <2>2. /\ w.led = Apply(r.led, e) /\ w.pre = None /\ w.done = {} /\ w.io = 0
        /\ w.verdict = None /\ w.post = None
    BY <1>1, <1>2, LedFields
  <2>3. /\ w.led.accepted /\ ~w.led.terminal /\ w.led.decision = None /\ w.led.pre = None
        /\ Unsent(w, None)
    <3> DEFINE l == Apply(r.led, e)
    <3>1. ~r.led.terminal /\ r.led.decision = None /\ r.led.pre = None /\ Unsent(r, None)
      BY <1>2 DEF Fresh, Unsent
    <3>2. SetsField(r.led, l, e) /\ e[1] = "accepted"
      BY <1>1, Applied
    <3>3. w.led = l
      BY <2>2
    <3> HIDE DEF e, l, w
    <3> QED
      BY <3>1, <3>2, <3>3 DEF SetsField, Unsent
  <2> HIDE DEF w
  <2>4. Counted("decide", w) /\ Backed("decide", w) /\ Asked("decide", w) /\ Mirrored("decide", w)
    BY <2>1, <2>2, <2>3, Words DEF CallOK, Counted, Backed, Asked, Mirrored, Before, Beyond, Asking
  <2>5. Counted("release_quiet", w) /\ Backed("release_quiet", w)
        /\ Asked("release_quiet", w) /\ Mirrored("release_quiet", w)
    BY <2>1, <2>2, <2>3, Words DEF CallOK, Counted, Backed, Asked, Mirrored, Before, Beyond, Asking
  <2>6. Recording("decide", w) /\ Recording("release_quiet", w)
    BY <2>3 DEF Recording, RecordingBefore, RecordingAfter, RecordingAsk, Judged
  <2> QED
    BY <2>1, <2>2, <2>3, <2>4, <2>5, <2>6, Moves DEF Places, Before
<1> QED
  BY <1>1, <1>3, <1>4, RecordKeeps

\* Places nothing is known of but whether the call was sent.
LEMMA Plain ==
    ASSUME NEW r, CallOK("done", r), r.done = {}, ~r.led.terminal, r.io = 0,
           NEW q \in {"release_quiet", "release", "release_event", "deny", "deny_failure"},
           r.pre = "pending" => q \in {"deny", "deny_failure"}
    PROVE  CallOK(q, r)
<1>1. Counted(q, r) /\ Backed(q, r) /\ Asked(q, r) /\ Mirrored(q, r)
  BY DEF CallOK, Counted, Backed, Asked, Mirrored, Before, Beyond, Asking
<1>2. Recording(q, r)
  BY DEF Recording, RecordingBefore, RecordingAfter, RecordingAsk
<1> QED
  BY <1>1, <1>2, Moves DEF Places, Before

\* The same of a call that has been sent.
LEMMA PlainAfter ==
    ASSUME NEW r, CallOK("done", r), r.done = {}, ~r.led.terminal,
           NEW q \in {"indeterminate_quiet", "settle", "settle_failed", "failed_only"},
           r.io = 1 \/ (q = "indeterminate_quiet" /\ r.pre # "pending")
    PROVE  CallOK(q, r)
<1>1. Counted(q, r) /\ Backed(q, r) /\ Asked(q, r) /\ Mirrored(q, r)
  BY DEF CallOK, Counted, Backed, Asked, Mirrored, Before, Beyond, Asking
<1>2. Recording(q, r)
  BY DEF Recording, RecordingBefore, RecordingAfter, RecordingAsk
<1> QED
  BY <1>1, <1>2, Moves DEF Places, Beyond, Ended

\* The decision of the evaluator, and what it leads to.
LEMMA DecideKeeps ==
    ASSUME GatewayInv, NEW c \in Calls, Decide(c)
    PROVE  GatewayInv'
<1> DEFINE r == call[c]
<1> PICK d \in {"allow", "block", "require_approval"} :
           Record(c, <<"pre_decision", d>>, AfterDecision(c, d), "release_quiet")
  BY DEF Decide
<1> DEFINE e == <<"pre_decision", d>>
           w == WithLed(r, Apply(r.led, e))
<1>1. /\ CallOK("decide", r) /\ r \in CallRecords /\ r.at \notin {"cleanup", "shutdown"}
      /\ r.done = {} /\ ~r.led.terminal /\ r.led \in LifecycleStates /\ pc[c] = "decide"
  BY AtWork DEF Decide
<1>2. Judged(r, None, None) /\ Unsent(r, None) /\ r.io = 0 /\ r.pre # "pending"
  BY <1>1 DEF CallOK, Recording, RecordingBefore, Counted, Asked, Before, Asking
<1>3. CallOK("release_quiet", r)
  BY <1>1, <1>2, Ends, Plain
<1>4. ASSUME AppendAccepts(r.led, e)
      PROVE  CallOK(AfterDecision(c, d), w) /\ CallOK("release_quiet", w)
  <2>1. CallOK("done", w)
    BY <1>1, <1>2, <1>4, ProgressEvent
  <2>2. /\ w.led = Apply(r.led, e) /\ w.pre = r.pre /\ w.done = {} /\ w.io = 0
        /\ w.budgeted = r.budgeted
    BY <1>1, <1>2, LedFields
  <2>3. Judged(w, d, None) /\ Unsent(w, None)
    <3> DEFINE l == Apply(r.led, e)
    <3>1. SetsField(r.led, l, e) /\ e[1] = "pre_decision" /\ e[2] = d
      BY <1>1, Applied
    <3>2. w.led = l
      BY <2>2
    <3> HIDE DEF e, l, w
    <3> QED
      BY <1>2, <3>1, <3>2 DEF SetsField, Judged, Unsent
  <2> HIDE DEF w
  <2>4. CallOK("release_quiet", w)
    BY <1>2, <2>1, <2>2, <2>3, Plain DEF Judged
  <2>5. ASSUME NEW q \in {"asksweep", "issue"}, d = "require_approval"
        PROVE  CallOK(q, w)
    <3>1. Counted(q, w) /\ Backed(q, w) /\ Asked(q, w) /\ Mirrored(q, w)
      BY <1>2, <2>1, <2>2 DEF CallOK, Counted, Backed, Asked, Mirrored, Before, Beyond, Asking
    <3>2. Recording(q, w)
      BY <2>3, <2>5 DEF Recording, RecordingBefore, RecordingAfter, RecordingAsk
    <3> QED
      BY <2>1, <2>2, <2>3, <3>1, <3>2, Moves DEF Places, Before, Judged
  <2>6. ASSUME d \in {"allow", "block"}, r.budgeted
        PROVE  CallOK("reserved", w)
    <3>1. Counted("reserved", w) /\ Backed("reserved", w) /\ Asked("reserved", w)
          /\ Mirrored("reserved", w)
      BY <1>2, <2>1, <2>2 DEF CallOK, Counted, Backed, Asked, Mirrored, Before, Beyond, Asking
    <3>2. Recording("reserved", w)
      BY <2>2, <2>3, <2>6 DEF Recording, RecordingBefore, RecordingAfter, RecordingAsk
    <3> QED
      BY <2>1, <2>2, <2>3, <3>1, <3>2, Moves DEF Places, Before, Judged
  <2>7. ASSUME d = "allow", ~r.budgeted
        PROVE  CallOK("mark", w)
    <3>1. Counted("mark", w) /\ Backed("mark", w) /\ Asked("mark", w) /\ Mirrored("mark", w)
      BY <1>2, <2>1, <2>2, <2>3, <2>7
      DEF CallOK, Counted, Backed, Cleared, Judged, Asked, Mirrored, Before, Beyond, Asking
    <3>2. Recording("mark", w)
      BY <2>2, <2>3, <2>7 DEF Recording, RecordingBefore, RecordingAfter, RecordingAsk, Stage
    <3> QED
      BY <2>1, <2>2, <2>3, <3>1, <3>2, Moves DEF Places, Before, Judged
  <2> QED
    BY <2>1, <2>4, <2>5, <2>6, <2>7 DEF AfterDecision
<1> HIDE DEF w
<1> QED
  BY <1>1, <1>3, <1>4, RecordKeeps DEF w

\* The ledger hears of the reservation.
LEMMA RecordReservedKeeps ==
    ASSUME GatewayInv, NEW c \in Calls, RecordReserved(c)
    PROVE  GatewayInv'
<1> DEFINE r == call[c]
           e == <<"budget", "reserved">>
           w == WithLed(r, Apply(r.led, e))
           next == IF r.led.decision = "block" THEN "deny" ELSE "mark"
<1>1. /\ CallOK("reserved", r) /\ r \in CallRecords /\ r.at \notin {"cleanup", "shutdown"}
      /\ r.done = {} /\ ~r.led.terminal /\ r.led \in LifecycleStates /\ pc[c] = "reserved"
      /\ Record(c, e, next, "release_quiet")
  BY AtWork DEF RecordReserved
<1>2. /\ Judged(r, "allow", None) \/ Judged(r, "block", None)
      /\ Unsent(r, None) /\ r.budgeted /\ r.io = 0 /\ r.pre # "pending"
  BY <1>1 DEF CallOK, Recording, RecordingBefore, Counted, Asked, Before, Asking
<1>5. e[1] = "budget" /\ e[2] = "reserved"
  OBVIOUS
<1> HIDE DEF e
<1>3. CallOK("release_quiet", r)
  BY <1>1, <1>2, Ends, Plain
<1>4. ASSUME AppendAccepts(r.led, e)
      PROVE  CallOK(next, w) /\ CallOK("release_quiet", w)
  <2>1. CallOK("done", w)
    BY <1>1, <1>2, <1>4, <1>5, BudgetEvent
  <2>2. /\ w.led = Apply(r.led, e) /\ w.pre = r.pre /\ w.done = {} /\ w.io = 0
        /\ w.budgeted = r.budgeted
    BY <1>1, <1>2, LedFields
  <2>3. /\ Judged(r, "allow", None) => Judged(w, "allow", None)
        /\ Unsent(w, "reserved") /\ ~w.led.terminal
    <3> DEFINE l == Apply(r.led, e)
    <3>1. /\ l \in LifecycleStates
          /\ l.accepted = r.led.accepted /\ l.missing = r.led.missing
          /\ l.decision = r.led.decision /\ l.pre = r.led.pre /\ l.post = r.led.post
          /\ l.outcome = r.led.outcome /\ l.terminal = r.led.terminal
          /\ l.dispatched = r.led.dispatched /\ l.inspection = r.led.inspection
          /\ l.stage = "reserved" /\ l.postBudget = r.led.postBudget
      <4>1. l \in LifecycleStates /\ SetsStage(r.led, l, "reserved")
        BY <1>1, <1>5, BudgetApplied
      <4> QED
        BY <4>1 DEF SetsStage
    <3> HIDE DEF l
    <3>2. w.led = l
      BY <2>2 DEF l
    <3>3. r.led \in LifecycleStates
      BY <1>1
    <3> QED
      BY <1>2, <1>1, <3>1, <3>2 DEF Judged, Unsent
  <2> HIDE DEF w
  <2>4. CallOK("release_quiet", w) /\ CallOK("deny", w)
    BY <1>2, <2>1, <2>2, <2>3, Plain
  <2>5. ASSUME r.led.decision # "block"
        PROVE  CallOK("mark", w)
    <3>1. Judged(w, "allow", None)
      BY <1>2, <2>3, <2>5 DEF Judged
    <3>2. Counted("mark", w) /\ Backed("mark", w) /\ Asked("mark", w) /\ Mirrored("mark", w)
      BY <1>2, <2>1, <2>2, <3>1
      DEF CallOK, Counted, Backed, Cleared, Judged, Asked, Mirrored, Before, Beyond, Asking
    <3>3. Recording("mark", w)
      BY <1>2, <2>2, <2>3, <3>1
      DEF Recording, RecordingBefore, RecordingAfter, RecordingAsk, Stage
    <3> QED
      BY <2>1, <2>2, <2>3, <3>2, <3>3, Moves DEF Places, Before
  <2> QED
    BY <2>4, <2>5
<1> HIDE DEF w
<1> QED
  BY <1>1, <1>3, <1>4, RecordKeeps DEF w

\* A last record, after which the call has ended whatever became of it.
LEMMA LastRecordKeeps ==
    ASSUME GatewayInv, NEW c \in Calls, NEW e, Record(c, e, "done", "done"),
           pc[c] \notin {"sweeping", "parked"},
           AppendAccepts(call[c].led, e) =>
              CallOK("done", WithLed(call[c], Apply(call[c].led, e)))
    PROVE  GatewayInv'
<1>1. CallOK("done", call[c]) /\ call[c].at \notin {"cleanup", "shutdown"}
  BY AtWork, Ends
<1> QED
  BY <1>1, RecordKeeps

\* releaseReservation: at worst nothing is released.
LEMMA ReleaseReservationKeeps ==
    ASSUME GatewayInv, NEW c \in Calls, pc[c] \in {"release_quiet", "release"},
           NEW next \in {"done", "release_event"}, ReleaseReservation(c, next)
    PROVE  GatewayInv'
<1> DEFINE r == call[c]
           w == WithRes(r, "released")
<1>1. /\ CallOK(pc[c], r) /\ r \in CallRecords /\ r.at \notin {"cleanup", "shutdown"}
      /\ r.done = {} /\ ~r.led.terminal
  BY AtWork
<1>2. r.io = 0 /\ r.pre # "pending" /\ CallOK("done", r)
  BY <1>1, Ends DEF CallOK, Counted, Asked, Before, Asking
<1>3. CallOK(next, r)
  BY <1>1, <1>2, Plain
<1>4. CASE r.budgeted
  <2>1. Durable(c, r.res = "reserved" /\ NoPending(c), w, next, next)
    BY <1>4 DEF ReleaseReservation, Becomes, WithRes
  <2>2. ASSUME r.res = "reserved"
        PROVE  CallOK(next, w)
    <3>1. CallOK("done", w)
      BY <1>1, <2>2, Reservation
    <3>2. w.led = r.led /\ w.pre = r.pre /\ w.done = r.done /\ w.io = r.io
      BY <1>1, ResFields
    <3> HIDE DEF w
    <3> QED
      BY <1>1, <1>2, <3>1, <3>2, Plain
  <2> HIDE DEF w
  <2> QED
    BY <1>1, <1>3, <2>1, <2>2, DurableKeeps
<1>5. CASE ~r.budgeted
  <2>1. Go(c, r, next)
    BY <1>5 DEF ReleaseReservation, Step
  <2> QED
    BY <1>1, <1>3, <2>1, GoKeeps
<1> QED
  BY <1>4, <1>5

\* releaseCall: the release is recorded, whether or not it happened.
LEMMA ReleaseCallKeeps ==
    ASSUME GatewayInv, NEW c \in Calls, ReleaseCall(c) \/ ReleaseQuietly(c)
    PROVE  GatewayInv'
<1>1. ASSUME pc[c] \in {"release", "release_event"}
      PROVE  /\ CallOK(pc[c], call[c])
             /\ call[c].verdict # "forwarded" /\ call[c].pre # "pending"
  BY <1>1, AtWork, Words DEF CallOK, Counted, Asked, Before, Asking
<1>2. CASE pc[c] = "release" /\ Record(c, <<"failure", "dispatch_known">>, "done", "done")
  <2>1. AppendAccepts(call[c].led, <<"failure", "dispatch_known">>) =>
           CallOK("done", WithLed(call[c], Apply(call[c].led, <<"failure", "dispatch_known">>)))
    BY <1>1, <1>2, OutcomeEvent
  <2> QED
    BY <1>2, <2>1, LastRecordKeeps
<1>3. CASE pc[c] = "release_event" /\ Record(c, <<"budget", "released">>, "done", "done")
  <2>1. AppendAccepts(call[c].led, <<"budget", "released">>) =>
           CallOK("done", WithLed(call[c], Apply(call[c].led, <<"budget", "released">>)))
    BY <1>1, <1>3, BudgetEvent
  <2> QED
    BY <1>3, <2>1, LastRecordKeeps
<1> QED
  BY <1>2, <1>3, ReleaseReservationKeeps DEF ReleaseCall, ReleaseQuietly

\* denyCall: a denial is recorded only when the reservation is denied.
LEMMA DenyCallKeeps ==
    ASSUME GatewayInv, NEW c \in Calls, DenyCall(c)
    PROVE  GatewayInv'
<1> DEFINE r == call[c]
           w == WithRes(r, "denied")
<1>1. /\ CallOK(pc[c], r) /\ r \in CallRecords /\ r.at \notin {"cleanup", "shutdown"}
      /\ r.done = {} /\ ~r.led.terminal /\ r.io = 0 /\ CallOK("done", r)
      /\ r.verdict # "forwarded"
  <2>1. pc[c] \in {"deny", "deny_event", "deny_failure"}
    BY DEF DenyCall
  <2> QED
    BY <2>1, AtWork, Ends, Words DEF CallOK, Counted, Before
<1>2. CASE pc[c] = "deny" /\ Step(c, "done")
  BY <1>1, <1>2, GoKeeps DEF Step
<1>3. CASE /\ pc[c] = "deny"
           /\ Durable(c, r.res = "reserved" /\ NoPending(c), Becomes(c, "denied"),
                      "deny_event", "deny_failure")
  <2>1. CallOK("deny_failure", r)
    BY <1>1, Plain
  <2>2. ASSUME r.res = "reserved", NoPending(c)
        PROVE  CallOK("deny_event", w) /\ CallOK("deny_failure", w)
    <3>1. CallOK("done", w)
      BY <1>1, <1>3, <2>2, Reservation
    <3>2. /\ w.led = r.led /\ w.pre = r.pre /\ w.done = r.done /\ w.io = r.io
          /\ w.res = "denied" /\ w.pre # "pending"
      BY <1>1, <2>2, ResFields DEF NoPending
    <3> HIDE DEF w
    <3>3. Counted("deny_event", w) /\ Backed("deny_event", w) /\ Asked("deny_event", w)
          /\ Mirrored("deny_event", w)
      BY <1>1, <3>1, <3>2 DEF CallOK, Counted, Backed, Asked, Mirrored, Before, Beyond, Asking
    <3>4. Recording("deny_event", w)
      BY DEF Recording, RecordingBefore, RecordingAfter, RecordingAsk
    <3> QED
      BY <1>1, <3>1, <3>2, <3>3, <3>4, Moves, Plain DEF Places, Before
  <2>3. w = Becomes(c, "denied")
    BY DEF Becomes, WithRes
  <2> HIDE DEF w
  <2> QED
    BY <1>1, <1>3, <2>1, <2>2, <2>3, DurableKeeps
<1>4. CASE pc[c] = "deny_event" /\ Record(c, <<"budget", "denied">>, "done", "done")
  <2> DEFINE e == <<"budget", "denied">>
  <2>1. ASSUME AppendAccepts(r.led, e)
        PROVE  CallOK("done", WithLed(r, Apply(r.led, e)))
    <3>1. r.pre # "pending"
      BY <1>1, <1>4 DEF CallOK, Asked, Asking
    <3>2. r.res = "denied"
      <4>1. ~r.led.missing
        BY <1>1 DEF CallOK, Closed
      <4>2. r.led.pre = "refused" \/ r.led.decision = "block"
        BY <2>1 DEF AppendAccepts, Accepts, BudgetAccepted
      <4>3. r.led.decision = "block" => r.led.decision # "require_approval"
        OBVIOUS
      <4> QED
        BY <1>1, <1>4, <4>2, <4>3 DEF CallOK, Mirrored
    <3> QED
      BY <1>1, <2>1, <3>1, <3>2, <1>4, BudgetEvent
  <2> QED
    BY <1>4, <2>1, LastRecordKeeps
<1>5. CASE pc[c] = "deny_failure" /\ Record(c, <<"failure", "dispatch_known">>, "done", "done")
  <2>1. AppendAccepts(r.led, <<"failure", "dispatch_known">>) =>
           CallOK("done", WithLed(r, Apply(r.led, <<"failure", "dispatch_known">>)))
    BY <1>1, <1>5, OutcomeEvent
  <2> QED
    BY <1>5, <2>1, LastRecordKeeps
<1> QED
  BY <1>2, <1>3, <1>4, <1>5 DEF DenyCall

\* The mark before dispatch: what is recorded of the call stays as it is.
LEMMA MarkDispatched ==
    ASSUME NEW r, CallOK("mark", r), NEW w, CallOK("done", w), w.res = "dispatched",
           w.led = r.led, w.budgeted = r.budgeted, w.pre = r.pre, w.done = r.done,
           w.io = r.io, r.budgeted, r.done = {}, ~r.led.terminal
    PROVE  CallOK("commit_event", w)
<1>1. Counted("commit_event", w) /\ Backed("commit_event", w) /\ Asked("commit_event", w)
      /\ Mirrored("commit_event", w)
  BY DEF CallOK, Counted, Backed, Cleared, Asked, Mirrored, Before, Beyond, Asking, Committed
<1>2. Recording("commit_event", w)
  BY DEF CallOK, Recording, RecordingBefore, RecordingAfter, RecordingAsk, Judged, Unsent, Stage
<1> QED
  BY <1>1, <1>2, Moves DEF Places, Before

\* The dispatch is recorded of a call that is cleared and committed.
LEMMA DispatchEventOK ==
    ASSUME NEW r, CallOK("dispatch_event", r), r.done = {},
           AppendAccepts(r.led, <<"dispatch", None>>)
    PROVE  LET w == WithLed(r, Apply(r.led, <<"dispatch", None>>)) IN
           /\ CallOK("io", w) /\ CallOK("done", w)
           /\ CallOK("indeterminate_quiet", w)
<1> DEFINE e == <<"dispatch", None>>
           l == Apply(r.led, e)
           w == WithLed(r, l)
<1>1. /\ r \in CallRecords /\ r.led \in LifecycleStates /\ r.io = 0 /\ r.pre # "pending"
      /\ ~r.led.terminal
  BY DEF CallOK, CallRecords, Counted, Asked, Closed, Before, Asking
<1>2. Judged(r, "allow", None) \/ Judged(r, "require_approval", "approved")
  BY DEF CallOK, Recording, RecordingBefore
<1>3. Unsent(r, Stage(r, "dispatched")) /\ Cleared(r) /\ (r.budgeted => r.res \in Committed)
  BY DEF CallOK, Recording, RecordingBefore, Backed
<1>4. CallOK("done", w)
  BY ProgressEvent
<1>5. e[1] = "dispatch"
  OBVIOUS
<1> HIDE DEF e
<1>6. /\ l \in LifecycleStates /\ l.accepted = r.led.accepted /\ l.dispatched
      /\ l.decision = r.led.decision /\ l.pre = r.led.pre /\ l.post = r.led.post
      /\ l.outcome = r.led.outcome /\ l.inspection = r.led.inspection
      /\ l.stage = r.led.stage /\ l.postBudget = r.led.postBudget
      /\ l.terminal = r.led.terminal
  <2>1. l \in LifecycleStates /\ SetsField(r.led, l, e)
    BY <1>1, <1>5, Applied
  <2> HIDE DEF l
  <2> QED
    BY <2>1, <1>5 DEF SetsField
<1> HIDE DEF l
<1>7. /\ w.led = l /\ w.budgeted = r.budgeted /\ w.res = r.res /\ w.pre = r.pre
      /\ w.done = r.done /\ w.io = r.io
  BY <1>1, LedFields
<1> HIDE DEF w
<1>8. CallOK("io", w)
  <2>1. Counted("io", w) /\ Backed("io", w) /\ Asked("io", w) /\ Mirrored("io", w)
    BY <1>1, <1>3, <1>4, <1>6, <1>7
    DEF CallOK, Counted, Backed, Cleared, Asked, Mirrored, Before, Beyond, Asking
  <2>2. Sent(w, None, None) /\ Uncharged(w)
    BY <1>2, <1>3, <1>6, <1>7 DEF Judged, Unsent, Stage, Sent, Uncharged
  <2>3. Recording("io", w)
    BY <2>2 DEF Recording, RecordingBefore, RecordingAfter, RecordingAsk
  <2> QED
    BY <1>1, <1>4, <1>6, <1>7, <2>1, <2>3, Moves DEF Places, Before
<1>9. CallOK("indeterminate_quiet", w)
  BY <1>1, <1>4, <1>6, <1>7, PlainAfter
<1> QED
  BY <1>4, <1>8, <1>9 DEF w, l, e

\* The ledger hears of the dispatch after the action state holds it.
LEMMA CommitEventOK ==
    ASSUME NEW r, CallOK("commit_event", r), r.done = {},
           AppendAccepts(r.led, <<"budget", "dispatched">>)
    PROVE  LET w == WithLed(r, Apply(r.led, <<"budget", "dispatched">>)) IN
           /\ CallOK("dispatch_event", w)
           /\ CallOK("indeterminate_quiet", w)
<1> DEFINE e == <<"budget", "dispatched">>
           l == Apply(r.led, e)
           w == WithLed(r, l)
<1>1. /\ r \in CallRecords /\ r.led \in LifecycleStates /\ r.io = 0 /\ r.pre # "pending"
      /\ ~r.led.terminal /\ r.budgeted
  BY DEF CallOK, CallRecords, Counted, Asked, Closed, Before, Asking, Recording, RecordingBefore
<1>2. Judged(r, "allow", None) \/ Judged(r, "require_approval", "approved")
  BY DEF CallOK, Recording, RecordingBefore
<1>3. Unsent(r, Stage(r, "reserved")) /\ Cleared(r) /\ r.res \in Committed
  BY <1>1 DEF CallOK, Recording, RecordingBefore, Backed
<1>4. CallOK("done", w)
  BY <1>1, <1>3, BudgetEvent
<1>5. e[1] = "budget" /\ e[2] = "dispatched"
  OBVIOUS
<1> HIDE DEF e
<1>6. /\ l \in LifecycleStates /\ l.accepted = r.led.accepted /\ l.dispatched = r.led.dispatched
      /\ l.decision = r.led.decision /\ l.pre = r.led.pre /\ l.post = r.led.post
      /\ l.outcome = r.led.outcome /\ l.inspection = r.led.inspection
      /\ l.stage = "dispatched" /\ l.postBudget = r.led.postBudget
      /\ l.terminal = r.led.terminal
  <2>1. l \in LifecycleStates /\ SetsStage(r.led, l, "dispatched")
    BY <1>1, <1>5, BudgetApplied
  <2> HIDE DEF l
  <2> QED
    BY <2>1, <1>5 DEF SetsStage
<1> HIDE DEF l
<1>7. /\ w.led = l /\ w.budgeted = r.budgeted /\ w.res = r.res /\ w.pre = r.pre
      /\ w.done = r.done /\ w.io = r.io
  <2>1. r \in CallRecords
    BY <1>1
  <2> QED
    BY <2>1, LedFields
<1> HIDE DEF w
<1>8. CallOK("dispatch_event", w)
  <2>1. Counted("dispatch_event", w) /\ Backed("dispatch_event", w)
        /\ Asked("dispatch_event", w) /\ Mirrored("dispatch_event", w)
    BY <1>1, <1>3, <1>4, <1>6, <1>7
    DEF CallOK, Counted, Backed, Cleared, Asked, Mirrored, Before, Beyond, Asking
  <2>2. /\ Judged(w, "allow", None) \/ Judged(w, "require_approval", "approved")
        /\ Unsent(w, Stage(w, "dispatched"))
    BY <1>1, <1>2, <1>3, <1>6, <1>7 DEF Judged, Unsent, Stage
  <2>3. Recording("dispatch_event", w)
    BY <2>2 DEF Recording, RecordingBefore, RecordingAfter, RecordingAsk
  <2> QED
    BY <1>1, <1>4, <1>6, <1>7, <2>1, <2>3, Moves DEF Places, Before
<1>9. CallOK("indeterminate_quiet", w)
  BY <1>1, <1>4, <1>6, <1>7, PlainAfter
<1> QED
  BY <1>8, <1>9 DEF w, l, e

\* commitDispatch: reservation first, ledger second, tool last.
LEMMA CommitDispatchKeeps ==
    ASSUME GatewayInv, NEW c \in Calls, CommitDispatch(c)
    PROVE  GatewayInv'
<1> DEFINE r == call[c]
<1>1. pc[c] \in {"mark", "commit_event", "dispatch_event"}
  BY DEF CommitDispatch
<1>2. /\ CallOK(pc[c], r) /\ r \in CallRecords /\ r.at \notin {"cleanup", "shutdown"}
      /\ r.done = {} /\ ~r.led.terminal /\ r.io = 0 /\ r.pre # "pending" /\ CallOK("done", r)
  BY <1>1, AtWork, Ends DEF CallOK, Counted, Asked, Before, Asking
<1>3. CASE pc[c] = "mark" /\ Step(c, "release")
  <2>1. CallOK("release", r)
    BY <1>2, Plain
  <2> QED
    BY <1>2, <1>3, <2>1, GoKeeps DEF Step
<1>4. CASE pc[c] = "mark" /\ ~r.budgeted /\ Step(c, "dispatch_event")
  <2>1. Counted("dispatch_event", r) /\ Backed("dispatch_event", r)
        /\ Asked("dispatch_event", r) /\ Mirrored("dispatch_event", r)
    BY <1>2, <1>4 DEF CallOK, Counted, Backed, Cleared, Asked, Mirrored, Before, Beyond, Asking
  <2>2. Recording("dispatch_event", r)
    BY <1>2, <1>4 DEF CallOK, Recording, RecordingBefore, RecordingAfter, RecordingAsk, Stage
  <2>3. CallOK("dispatch_event", r)
    BY <1>2, <2>1, <2>2, Moves DEF Places, Before
  <2> QED
    BY <1>2, <1>4, <2>3, GoKeeps DEF Step
<1>5. CASE /\ pc[c] = "mark" /\ r.budgeted
           /\ Durable(c, r.res = "reserved", Becomes(c, "dispatched"), "commit_event", "release")
  <2> DEFINE w == WithRes(r, "dispatched")
  <2>1. CallOK("release", r)
    BY <1>2, Plain
  <2>2. ASSUME r.res = "reserved"
        PROVE  CallOK("commit_event", w) /\ CallOK("release", w)
    <3>1. CallOK("done", w)
      BY <1>2, <1>5, <2>2, Reservation
    <3>2. /\ w.led = r.led /\ w.pre = r.pre /\ w.done = r.done /\ w.io = r.io
          /\ w.res = "dispatched" /\ w.budgeted = r.budgeted
      BY <1>2, ResFields
    <3> HIDE DEF w
    <3> QED
      BY <1>2, <1>5, <3>1, <3>2, MarkDispatched, Plain
  <2>3. w = Becomes(c, "dispatched")
    BY DEF Becomes, WithRes
  <2> HIDE DEF w
  <2> QED
    BY <1>2, <1>5, <2>1, <2>2, <2>3, DurableKeeps
<1>6. CASE /\ pc[c] = "commit_event"
           /\ Record(c, <<"budget", "dispatched">>, "dispatch_event", "indeterminate_quiet")
  <2>1. CallOK("indeterminate_quiet", r)
    BY <1>2, PlainAfter
  <2> QED
    BY <1>2, <1>6, <2>1, CommitEventOK, RecordKeeps
<1>7. CASE /\ pc[c] = "dispatch_event"
           /\ Record(c, <<"dispatch", None>>, "io",
                     IF r.budgeted THEN "indeterminate_quiet" ELSE "done")
  <2>1. CallOK("indeterminate_quiet", r)
    BY <1>2, PlainAfter
  <2> QED
    BY <1>2, <1>7, <2>1, DispatchEventOK, RecordKeeps
<1> QED
  BY <1>3, <1>4, <1>5, <1>6, <1>7 DEF CommitDispatch

\* MarkIndeterminate after the call was committed.
LEMMA MarkIndeterminateKeeps ==
    ASSUME GatewayInv, NEW c \in Calls, pc[c] \notin {"sweeping", "parked", "done"},
           NEW good, NEW bad, MarkIndeterminate(c, good, bad),
           CallOK(bad, call[c]),
           CallOK("done", WithRes(call[c], "indeterminate")) =>
              /\ CallOK(good, WithRes(call[c], "indeterminate"))
              /\ CallOK(bad, WithRes(call[c], "indeterminate"))
    PROVE  GatewayInv'
<1> DEFINE r == call[c]
           w == WithRes(r, "indeterminate")
<1>1. CallOK(pc[c], r) /\ r.at \notin {"cleanup", "shutdown"}
  BY AtWork
<1>2. r.res \in {"reserved", "dispatched", "indeterminate"} => CallOK("done", w)
  BY <1>1, Reservation
<1>3. w = Becomes(c, "indeterminate")
  BY DEF Becomes, WithRes
<1> HIDE DEF w
<1> QED
  BY <1>1, <1>2, <1>3, DurableKeeps DEF MarkIndeterminate, w

\* markIndeterminate after a ledger failure.
LEMMA MarkQuietlyKeeps ==
    ASSUME GatewayInv, NEW c \in Calls, MarkQuietly(c)
    PROVE  GatewayInv'
<1>1. /\ pc[c] = "indeterminate_quiet" /\ CallOK("done", call[c])
      /\ call[c].at \notin {"cleanup", "shutdown"}
  BY AtWork, Ends DEF MarkQuietly
<1>2. CASE MarkIndeterminate(c, "done", "done")
  BY <1>1, <1>2, MarkIndeterminateKeeps
<1>3. CASE Step(c, "done")
  BY <1>1, <1>3, GoKeeps DEF Step
<1> QED
  BY <1>2, <1>3 DEF MarkQuietly

--------------------------------------------------------------------------------
\* Approvals of a call

\* The decision of an open approval against the call, by whoever makes it.
LEMMA RefusedFields ==
    ASSUME NEW c \in Calls, call[c] \in CallRecords
    PROVE  LET r == call[c]
               w == Refused(c)
           IN /\ w \in CallRecords
              /\ w.budgeted = r.budgeted /\ w.oversize = r.oversize /\ w.led = r.led
              /\ w.at = r.at /\ w.done = r.done /\ w.io = r.io /\ w.verdict = r.verdict
              /\ w.lost = r.lost
              /\ IF r.led.outcome = None
                 THEN /\ w.pre = "refused" /\ w.post = r.post
                      /\ w.res = IF r.budgeted THEN "denied" ELSE r.res
                 ELSE w.post = "refused" /\ w.pre = r.pre /\ w.res = r.res
  BY DEF Refused, Phase, CallRecords

\* An approval that ends ungranted ends at any place at which it was waited for.
LEMMA RefusedKeeps ==
    ASSUME NEW c \in Calls, NEW p, CallOK(p, call[c]), Approval(c) = "pending"
    PROVE  CallOK(p, Refused(c)) /\ Answer(Refused(c)) = "refused"
<1> DEFINE r == call[c]
           w == Refused(c)
<1>1. r \in CallRecords /\ p \in Places
  BY DEF CallOK
<1>2. /\ w \in CallRecords
      /\ w.budgeted = r.budgeted /\ w.oversize = r.oversize /\ w.led = r.led
      /\ w.at = r.at /\ w.done = r.done /\ w.io = r.io /\ w.verdict = r.verdict
      /\ w.lost = r.lost
      /\ IF r.led.outcome = None
         THEN /\ w.pre = "refused" /\ w.post = r.post
              /\ w.res = IF r.budgeted THEN "denied" ELSE r.res
         ELSE w.post = "refused" /\ w.pre = r.pre /\ w.res = r.res
  BY <1>1, RefusedFields
<1>3. IF r.led.outcome = None THEN r.pre = "pending" ELSE r.post = "pending"
  BY DEF Approval, Phase
<1> HIDE DEF w
<1>4. Counted(p, w) /\ Backed(p, w)
  BY <1>1, <1>2, <1>3 DEF CallOK, Counted, Backed, Cleared, Asked, Before, Beyond, Asking
<1>5. Asked(p, w)
  BY <1>1, <1>2, <1>3, Words DEF CallOK, Asked, Answer, Asking
<1>6. Mirrored(p, w)
  BY <1>1, <1>2, <1>3, Words DEF CallOK, Asked, Mirrored, Asking
<1>7. Closed(p, w)
  BY <1>1, <1>2, <1>3, Words DEF CallOK, Closed, Counted, Asked
<1>8. Retained(p, w)
  BY <1>1, <1>2, <1>3 DEF CallOK, Retained, Answer
<1>9. Recording(p, w)
  <2>1. Waits(w) <=> Waits(r)
    BY <1>2 DEF Waits, WaitsBefore, WaitsAfter, Judged, Unsent, Sent, Stage
  <2>2. RecordingAsk(p, w)
    BY <1>2, <2>1 DEF CallOK, Recording, RecordingAsk
  <2>3. r.pre = "pending" => p \notin {"new", "presweep", "reserve", "accept"}
    BY DEF CallOK, Asked, Asking
  <2>4. w.pre = r.pre \/ p \notin {"new", "presweep", "reserve", "accept"}
    BY <1>2, <1>3, <2>3
  <2>5. RecordingBefore(p, w)
    BY <1>2, <2>4 DEF CallOK, Recording, RecordingBefore, Judged, Unsent, Stage
  <2>6. RecordingAfter(p, w)
    BY <1>2 DEF CallOK, Recording, RecordingAfter, Sent, Uncharged, Stage
  <2> QED
    BY <2>2, <2>5, <2>6 DEF Recording
<1> QED
  BY <1>1, <1>2, <1>4, <1>5, <1>6, <1>7, <1>8, <1>9 DEF CallOK, Answer, w

\* FinalizeApproval refuses a pending approval and repeats a decided one.
LEMMA FinalizedKeeps ==
    ASSUME NEW c \in Calls, NEW p, CallOK(p, call[c])
    PROVE  /\ CallOK(p, Finalized(c))
           /\ Answer(Finalized(c)) = IF Approval(c) = "pending" THEN "refused" ELSE Approval(c)
<1>1. CASE Approval(c) = "pending"
  BY <1>1, RefusedKeeps DEF Finalized
<1>2. CASE Approval(c) # "pending"
  <2>1. Answer(call[c]) = Approval(c)
    BY DEF Answer, Approval, Phase
  <2> QED
    BY <1>2, <2>1 DEF Finalized
<1> QED
  BY <1>1, <1>2

\* Between two places where a call waits for the same answer.
LEMMA AskingMoves ==
    ASSUME NEW p \in Asking \ {"parked"}, NEW r, CallOK(p, r),
           NEW q \in {"finalize_quiet", "finalize", "decided_event"},
           q = "finalize_quiet" => Answer(r) \in {"pending", "refused"},
           q = "finalize" => Answer(r) # None,
           q = "decided_event" => Answer(r) \in {"approved", "refused"}
    PROVE  CallOK(q, r)
<1>1. CallOK("done", r) /\ r.done = {} /\ ~r.led.terminal
  <2>1. p # "done" /\ p # "parked"
    BY DEF Asking
  <2>2. r.at = None
    BY <2>1 DEF CallOK, Retained
  <2> QED
    BY <2>1, <2>2, Ends DEF CallOK, Retained, Closed
<1>2. Counted(q, r) /\ Backed(q, r) /\ Asked(q, r) /\ Mirrored(q, r)
  BY DEF CallOK, Counted, Backed, Asked, Mirrored, Before, Beyond, Asking
<1>3. Recording(q, r)
  BY DEF Recording, RecordingBefore, RecordingAfter, RecordingAsk
<1> QED
  BY <1>1, <1>2, <1>3, Moves DEF Places, Asking

\* finalizeIssuedApproval, whose failure nobody hears of.
LEMMA FinalizeQuietlyKeeps ==
    ASSUME GatewayInv, NEW c \in Calls, FinalizeQuietly(c)
    PROVE  GatewayInv'
<1> DEFINE next == IF Phase(c) = "post_approval" THEN "indeterminate_quiet" ELSE "done"
           w == Finalized(c)
<1>1. /\ pc[c] = "finalize_quiet" /\ CallOK("finalize_quiet", call[c])
      /\ call[c].at \notin {"cleanup", "shutdown"} /\ Durable(c, TRUE, w, next, next)
  BY AtWork DEF FinalizeQuietly
<1>2. ASSUME NEW r, CallOK("finalize_quiet", r), r.led.outcome = call[c].led.outcome
      PROVE  CallOK(next, r)
  <2>1. CallOK("done", r) /\ r.done = {} /\ ~r.led.terminal
    <3>1. r.at = None
      BY <1>2 DEF CallOK, Retained
    <3> QED
      BY <1>2, <3>1, Ends DEF CallOK, Retained, Closed
  <2>2. r.led.outcome # None => r.io = 1
    BY <1>2 DEF CallOK, Counted
  <2>3. next # "done" => r.led.outcome # None
    BY <1>2 DEF Phase
  <2>4. r.io = 1 => CallOK("indeterminate_quiet", r)
    BY <2>1, PlainAfter
  <2> QED
    BY <2>1, <2>2, <2>3, <2>4
<1>3. CallOK("finalize_quiet", w) /\ w.led = call[c].led
  <2>1. call[c] \in CallRecords
    BY <1>1 DEF CallOK
  <2> QED
    BY <1>1, <2>1, FinalizedKeeps, RefusedFields DEF Finalized
<1> HIDE DEF next, w
<1>4. CallOK(next, call[c]) /\ CallOK(next, w)
  BY <1>1, <1>2, <1>3
<1> QED
  BY <1>1, <1>4, DurableKeeps

\* FinalizeApproval of a request that was stored or taken.
LEMMA FinalizeKeeps ==
    ASSUME GatewayInv, NEW c \in Calls, Finalize(c)
    PROVE  GatewayInv'
<1> DEFINE bad == IF Phase(c) = "pre_approval" THEN "deny_failure" ELSE "done"
           w == Finalized(c)
<1>1. /\ pc[c] = "finalize" /\ CallOK("finalize", call[c])
      /\ call[c].at \notin {"cleanup", "shutdown"} /\ Durable(c, TRUE, w, "decided_event", bad)
  BY AtWork DEF Finalize
<1>2. ASSUME NEW r, CallOK("finalize", r), r.led.outcome = call[c].led.outcome
      PROVE  CallOK(bad, r)
  <2>1. CallOK("done", r) /\ r.done = {} /\ ~r.led.terminal
    <3>1. r.at = None
      BY <1>2 DEF CallOK, Retained
    <3> QED
      BY <1>2, <3>1, Ends DEF CallOK, Retained, Closed
  <2>2. r.led.outcome = None => r.io = 0
    BY <1>2 DEF CallOK, Counted, Asking, CallRecords
  <2>3. bad # "done" => r.led.outcome = None
    BY <1>2 DEF Phase
  <2>4. r.io = 0 => CallOK("deny_failure", r)
    BY <2>1, Plain
  <2> QED
    BY <2>1, <2>2, <2>3, <2>4
<1>3. CallOK("finalize", w) /\ w.led = call[c].led /\ Answer(w) \in {"approved", "refused"}
  <2>1. call[c] \in CallRecords /\ Approval(c) # None
        /\ Approval(c) \in {None, "pending", "approved", "refused"}
    BY <1>1 DEF CallOK, CallRecords, Asked, Answer, Approval, Phase
  <2> QED
    BY <1>1, <2>1, FinalizedKeeps, RefusedFields DEF Finalized
<1> HIDE DEF bad, w
<1>4. CallOK(bad, call[c]) /\ CallOK(bad, w)
  BY <1>1, <1>2, <1>3
<1>5. CallOK("decided_event", w)
  BY <1>3, AskingMoves DEF Asking
<1> QED
  BY <1>1, <1>4, <1>5, DurableKeeps

\* An approval that is asked for or granted changes that field only.
LEMMA AskFields ==
    ASSUME NEW c \in Calls, call[c] \in CallRecords, NEW status \in {"pending", "approved"}
    PROVE  LET r == call[c]
               w == Ask(c, status)
           IN /\ w \in CallRecords
              /\ w.budgeted = r.budgeted /\ w.oversize = r.oversize /\ w.led = r.led
              /\ w.at = r.at /\ w.done = r.done /\ w.io = r.io /\ w.verdict = r.verdict
              /\ w.lost = r.lost /\ w.res = r.res
              /\ IF r.led.outcome = None
                 THEN w.pre = status /\ w.post = r.post
                 ELSE w.post = status /\ w.pre = r.pre
  BY DEF Ask, Phase, CallRecords

\* The receipt is accepted: the ledger still has the request.
LEMMA ApprovedKeeps ==
    ASSUME NEW c \in Calls, CallOK("consume", call[c]), Approval(c) = "pending"
    PROVE  /\ CallOK("granted_event", Ask(c, "approved"))
           /\ CallOK("finalize", Ask(c, "approved"))
<1> DEFINE r == call[c]
           w == Ask(c, "approved")
<1>1. r \in CallRecords /\ CallOK("done", r) /\ r.done = {} /\ ~r.led.terminal
  <2>1. r.at = None
    BY DEF CallOK, Retained
  <2> QED
    BY <2>1, Ends DEF CallOK, Retained, Closed
<1>2. /\ w \in CallRecords
      /\ w.budgeted = r.budgeted /\ w.oversize = r.oversize /\ w.led = r.led
      /\ w.at = r.at /\ w.done = r.done /\ w.io = r.io /\ w.verdict = r.verdict
      /\ w.lost = r.lost /\ w.res = r.res
      /\ IF r.led.outcome = None THEN w.pre = "approved" /\ w.post = r.post
                                 ELSE w.post = "approved" /\ w.pre = r.pre
  BY <1>1, AskFields
<1>3. IF r.led.outcome = None THEN r.pre = "pending" ELSE r.post = "pending"
  BY DEF Approval, Phase
<1>4. /\ Waits(r)
      /\ r.verdict = None
      /\ (r.io = 1 <=> r.led.outcome # None)
  BY DEF CallOK, Recording, RecordingAsk, Counted, Asking
<1>5. IF r.led.outcome = None
      THEN r.led.pre = "pending" /\ r.io = 0 ELSE r.led.post = "pending" /\ r.io = 1
  BY <1>1, <1>4 DEF Waits, WaitsBefore, WaitsAfter, Judged, CallRecords
<1> HIDE DEF w
<1>6. CallOK("done", w)
  <2>1. Counted("done", w) /\ Backed("done", w) /\ Asked("done", w) /\ Mirrored("done", w)
    BY <1>1, <1>2, <1>3, <1>5, Words
    DEF CallOK, Counted, Backed, Cleared, Asked, Mirrored, Before, Beyond, Asking
  <2>2. Closed("done", w) /\ Retained("done", w)
    BY <1>1, <1>2, <1>4, Words DEF CallOK, Closed, Retained
  <2>3. Recording("done", w)
    BY DEF Recording, RecordingBefore, RecordingAfter, RecordingAsk
  <2> QED
    BY <1>2, <2>1, <2>2, <2>3 DEF CallOK, Places, Ended
<1>7. ASSUME NEW q \in {"granted_event", "finalize"}
      PROVE  CallOK(q, w)
  <2>1. Counted(q, w) /\ Backed(q, w) /\ Asked(q, w) /\ Mirrored(q, w)
    BY <1>2, <1>4, <1>6, Words DEF CallOK, Counted, Backed, Cleared, Asked, Answer, Mirrored,
                                   Before, Beyond, Asking
  <2>2. Waits(w)
    BY <1>2, <1>4 DEF Waits, WaitsBefore, WaitsAfter, Judged, Unsent, Sent, Stage
  <2>3. Recording(q, w)
    BY <2>2 DEF Recording, RecordingBefore, RecordingAfter, RecordingAsk
  <2> QED
    BY <1>1, <1>2, <1>6, <2>1, <2>3, Moves DEF Places, Asking
<1> QED
  BY <1>7 DEF w

\* consumeApproval and consumePostApproval, up to the answer of the state.
LEMMA ConsumeKeeps ==
    ASSUME GatewayInv, NEW c \in Calls, Consume(c)
    PROVE  GatewayInv'
<1> DEFINE r == call[c]
<1>1. /\ pc[c] = "consume" /\ CallOK("consume", r) /\ r.at \notin {"cleanup", "shutdown"}
      /\ r \in CallRecords
  BY AtWork DEF Consume
<1>2. Approval(c) = Answer(r) /\ Answer(r) \in {"pending", "refused"}
  BY <1>1 DEF CallOK, Asked, Answer, Approval, Phase
<1>3. CallOK("finalize", r)
  BY <1>1, <1>2, Words, AskingMoves DEF Asking
<1>4. CASE Step(c, "finalize")
  BY <1>1, <1>3, <1>4, GoKeeps DEF Step
<1>5. CASE Approval(c) = "refused" /\ Step(c, "decided_event")
  <2>1. CallOK("decided_event", r)
    BY <1>1, <1>2, <1>5, AskingMoves DEF Asking
  <2> QED
    BY <1>1, <1>5, <2>1, GoKeeps DEF Step
<1>6. CASE Approval(c) = "pending" /\ Durable(c, TRUE, Refused(c), "decided_event", "finalize")
  <2> DEFINE w == Refused(c)
  <2>1. CallOK("consume", w) /\ Answer(w) = "refused"
    BY <1>1, <1>6, RefusedKeeps
  <2> HIDE DEF w
  <2>2. CallOK("decided_event", w) /\ CallOK("finalize", w)
    BY <2>1, Words, AskingMoves DEF Asking
  <2> QED
    BY <1>1, <1>3, <1>6, <2>2, DurableKeeps DEF w
<1>7. CASE /\ Approval(c) = "pending"
           /\ Durable(c, TRUE, Ask(c, "approved"), "granted_event", "finalize")
  BY <1>1, <1>3, <1>7, ApprovedKeeps, DurableKeeps
<1> QED
  BY <1>4, <1>5, <1>6, <1>7 DEF Consume

\* The request for an approval reaches the action state, answered or not.
LEMMA IssueKeeps ==
    ASSUME NEW c \in Calls, CallOK("issue", call[c])
    PROVE  LET w == Ask(c, "pending") IN
           /\ CallOK("deny", w)
           /\ CallOK(IF call[c].budgeted THEN "issue_reserved" ELSE "issue_event", w)
           /\ w \in CallRecords /\ w.verdict = None
<1> DEFINE r == call[c]
           w == Ask(c, "pending")
           q == IF r.budgeted THEN "issue_reserved" ELSE "issue_event"
<1>1. r \in CallRecords /\ CallOK("done", r) /\ r.done = {} /\ ~r.led.terminal
  <2>1. r.at = None
    BY DEF CallOK, Retained
  <2> QED
    BY <2>1, Ends DEF CallOK, Retained, Closed
<1>2. r.io = 0 /\ r.verdict = None /\ Judged(r, "require_approval", None) /\ Unsent(r, None)
  BY DEF CallOK, Counted, Before, Recording, RecordingBefore
<1>3. /\ w \in CallRecords
      /\ w.budgeted = r.budgeted /\ w.led = r.led /\ w.res = r.res
      /\ w.at = r.at /\ w.done = r.done /\ w.io = r.io /\ w.verdict = r.verdict
      /\ w.pre = "pending" /\ w.post = r.post
  BY <1>1, <1>2, AskFields DEF Unsent
<1> HIDE DEF w
<1>4. CallOK("done", w)
  <2>1. Counted("done", w) /\ Backed("done", w) /\ Asked("done", w) /\ Mirrored("done", w)
    BY <1>1, <1>2, <1>3, Words
    DEF CallOK, Counted, Backed, Cleared, Asked, Mirrored, Before, Beyond, Asking, Judged, Unsent
  <2>2. Closed("done", w) /\ Retained("done", w)
    BY <1>1, <1>2, <1>3, Words DEF CallOK, Closed, Retained
  <2>3. Recording("done", w)
    BY DEF Recording, RecordingBefore, RecordingAfter, RecordingAsk
  <2> QED
    BY <1>3, <2>1, <2>2, <2>3 DEF CallOK, Places, Ended
<1>5. CallOK("deny", w)
  BY <1>1, <1>2, <1>3, <1>4, Plain
<1>6. CallOK(q, w)
  <2>1. Counted(q, w) /\ Backed(q, w) /\ Asked(q, w) /\ Mirrored(q, w)
    BY <1>2, <1>3, <1>4 DEF CallOK, Counted, Backed, Asked, Answer, Mirrored, Before, Beyond,
                            Asking, Unsent
  <2>2. /\ Judged(w, "require_approval", None) /\ Unsent(w, None)
        /\ q = "issue_event" => Unsent(w, Stage(w, "reserved"))
    BY <1>2, <1>3 DEF Judged, Unsent, Stage
  <2>3. Recording(q, w)
    BY <1>3, <2>2 DEF Recording, RecordingBefore, RecordingAfter, RecordingAsk
  <2> QED
    BY <1>1, <1>3, <1>4, <2>1, <2>3, Moves DEF Places, Before
<1> QED
  BY <1>2, <1>3, <1>5, <1>6 DEF w

\* requestPostApproval: the approval of a result.
LEMMA PostIssueKeeps ==
    ASSUME NEW c \in Calls, CallOK("post_issue", call[c])
    PROVE  LET w == Ask(c, "pending") IN
           /\ CallOK("settle", w)
           /\ CallOK(IF call[c].budgeted THEN "post_reserved" ELSE "post_event", w)
           /\ w \in CallRecords
<1> DEFINE r == call[c]
           w == Ask(c, "pending")
           q == IF r.budgeted THEN "post_reserved" ELSE "post_event"
<1>1. r \in CallRecords /\ CallOK("done", r) /\ r.done = {} /\ ~r.led.terminal
  <2>1. r.at = None
    BY DEF CallOK, Retained
  <2> QED
    BY <2>1, Ends DEF CallOK, Retained, Closed
<1>2. /\ r.io = 1 /\ r.verdict = None
      /\ Sent(r, "succeeded", "require_approval") /\ Uncharged(r)
  BY DEF CallOK, Counted, Beyond, Recording, RecordingAfter
<1>3. /\ w \in CallRecords
      /\ w.budgeted = r.budgeted /\ w.led = r.led /\ w.res = r.res
      /\ w.at = r.at /\ w.done = r.done /\ w.io = r.io /\ w.verdict = r.verdict
      /\ w.pre = r.pre /\ w.post = "pending"
  BY <1>1, <1>2, AskFields, Words DEF Sent
<1> HIDE DEF w
<1>4. CallOK("done", w)
  <2>1. Counted("done", w) /\ Backed("done", w) /\ Asked("done", w) /\ Mirrored("done", w)
    BY <1>1, <1>2, <1>3, Words
    DEF CallOK, Counted, Backed, Cleared, Asked, Mirrored, Before, Beyond, Asking, Sent, Uncharged
  <2>2. Closed("done", w) /\ Retained("done", w)
    BY <1>1, <1>2, <1>3, Words DEF CallOK, Closed, Retained
  <2>3. Recording("done", w)
    BY DEF Recording, RecordingBefore, RecordingAfter, RecordingAsk
  <2> QED
    BY <1>3, <2>1, <2>2, <2>3 DEF CallOK, Places, Ended
<1>5. CallOK("settle", w)
  BY <1>1, <1>2, <1>3, <1>4, PlainAfter
<1>6. CallOK(q, w)
  <2>1. Counted(q, w) /\ Backed(q, w) /\ Asked(q, w) /\ Mirrored(q, w)
    BY <1>2, <1>3, <1>4, Words DEF CallOK, Counted, Backed, Asked, Answer, Mirrored, Before,
                            Beyond, Asking, Sent
  <2>2. /\ Sent(w, "succeeded", "require_approval") /\ Uncharged(w)
        /\ ~w.led.postBudget /\ w.led.post = None /\ w.led.stage = Stage(w, "dispatched")
    BY <1>2, <1>3 DEF Sent, Uncharged, Stage
  <2>3. q = "post_event" => w.led.postBudget = w.budgeted
    <3>1. w.led.postBudget \in BOOLEAN /\ w.budgeted \in BOOLEAN
      BY <1>3 DEF CallRecords, LifecycleStates
    <3> QED
      BY <1>3, <2>2, <3>1
  <2>4. Recording(q, w)
    BY <1>3, <2>2, <2>3 DEF Recording, RecordingBefore, RecordingAfter, RecordingAsk
  <2> QED
    BY <1>1, <1>3, <1>4, <2>1, <2>4, Moves DEF Places, Beyond
<1> QED
  BY <1>3, <1>5, <1>6 DEF w

\* The verdict of a call that was sent, which a later step may still answer.
LEMMA VerdictKeeps ==
    ASSUME NEW r, NEW p, CallOK(p, r), p \notin {"parked", "done"}, r.io = 1,
           NEW v \in {"failed", "withheld", "forwarded"}
    PROVE  /\ CallOK("done", [r EXCEPT !.verdict = v])
           /\ CallOK("settle", [r EXCEPT !.verdict = v])
           /\ CallOK("indeterminate_quiet", [r EXCEPT !.verdict = v])
<1> DEFINE w == [r EXCEPT !.verdict = v]
<1>1. r \in CallRecords /\ CallOK("done", r) /\ ~r.led.terminal /\ r.done = {}
  <2>1. r.at = None
    BY DEF CallOK, Retained
  <2> QED
    BY <2>1, Ends DEF CallOK, Closed, Retained
<1>2. /\ w \in CallRecords /\ w.verdict = v
      /\ w.budgeted = r.budgeted /\ w.oversize = r.oversize /\ w.res = r.res
      /\ w.pre = r.pre /\ w.post = r.post /\ w.at = r.at /\ w.done = r.done
      /\ w.io = r.io /\ w.led = r.led
  BY <1>1 DEF CallRecords
<1> HIDE DEF w
<1>3. CallOK("done", w)
  <2>1. Counted("done", w) /\ Backed("done", w) /\ Asked("done", w) /\ Mirrored("done", w)
    BY <1>1, <1>2 DEF CallOK, Counted, Backed, Cleared, Asked, Mirrored, Before, Beyond, Asking
  <2>2. Closed("done", w) /\ Retained("done", w)
    BY <1>1, <1>2 DEF CallOK, Closed, Retained
  <2>3. Recording("done", w)
    BY DEF Recording, RecordingBefore, RecordingAfter, RecordingAsk
  <2> QED
    BY <1>2, <2>1, <2>2, <2>3 DEF CallOK, Places, Ended
<1>4. CallOK("settle", w) /\ CallOK("indeterminate_quiet", w)
  BY <1>1, <1>2, <1>3, PlainAfter
<1> QED
  BY <1>3, <1>4 DEF w

\* Both requests, and their failures.
LEMMA IssueApprovalKeeps ==
    ASSUME GatewayInv, NEW c \in Calls, IssueApproval(c)
    PROVE  GatewayInv'
<1> DEFINE r == call[c]
           w == Ask(c, "pending")
<1>1. /\ pc[c] \in {"issue", "post_issue"} /\ CallOK(pc[c], r) /\ r \in CallRecords
      /\ r.at \notin {"cleanup", "shutdown"} /\ CallOK("done", r) /\ r.done = {}
      /\ ~r.led.terminal
  BY AtWork, Ends DEF IssueApproval
<1>2. CASE pc[c] = "issue"
  <2> DEFINE q == IF r.budgeted THEN "issue_reserved" ELSE "issue_event"
             u == [w EXCEPT !.lost = TRUE, !.verdict = None]
  <2>1. CallOK("deny", w) /\ CallOK(q, w) /\ w \in CallRecords /\ w.verdict = None
    BY <1>1, <1>2, IssueKeeps
  <2>2. CallOK("deny", r)
    <3>1. r.io = 0
      BY <1>1, <1>2 DEF CallOK, Counted, Before
    <3> QED
      BY <1>1, <3>1, Plain
  <2> HIDE DEF w
  <2>3. CallOK("deny", u)
    <3>1. /\ u \in CallRecords
          /\ u.budgeted = w.budgeted /\ u.oversize = w.oversize /\ u.res = w.res
          /\ u.pre = w.pre /\ u.post = w.post /\ u.led = w.led /\ u.at = w.at
          /\ u.done = w.done /\ u.io = w.io /\ u.verdict = w.verdict /\ (w.lost => u.lost)
      BY <2>1 DEF CallRecords
    <3> HIDE DEF u
    <3> QED
      BY <2>1, <3>1, Unobserved
  <2>4. \/ Go(c, r, "deny") \/ Go(c, w, q) \/ Go(c, u, "deny")
    BY <1>2 DEF IssueApproval, Unasked, w
  <2> HIDE DEF u
  <2> QED
    BY <1>1, <1>2, <2>1, <2>2, <2>3, <2>4, GoKeeps
<1>3. CASE pc[c] = "post_issue"
  <2> DEFINE q == IF r.budgeted THEN "post_reserved" ELSE "post_event"
             v == [r EXCEPT !.verdict = "withheld"]
             u == [w EXCEPT !.lost = TRUE, !.verdict = "withheld"]
  <2>1. CallOK("settle", w) /\ CallOK(q, w) /\ w \in CallRecords
    BY <1>1, <1>3, PostIssueKeeps
  <2>2. CallOK("settle", v)
    <3>1. r.io = 1
      BY <1>1, <1>3 DEF CallOK, Counted, Beyond
    <3> QED
      BY <1>1, <1>3, <3>1, VerdictKeeps
  <2> HIDE DEF w
  <2>3. CallOK("settle", u)
    <3> DEFINE x == [w EXCEPT !.lost = TRUE]
    <3>1. /\ x \in CallRecords
          /\ x.budgeted = w.budgeted /\ x.oversize = w.oversize /\ x.res = w.res
          /\ x.pre = w.pre /\ x.post = w.post /\ x.led = w.led /\ x.at = w.at
          /\ x.done = w.done /\ x.io = w.io /\ x.verdict = w.verdict /\ (w.lost => x.lost)
      BY <2>1 DEF CallRecords
    <3>2. u = [x EXCEPT !.verdict = "withheld"]
      BY <2>1 DEF CallRecords
    <3> HIDE DEF x, u
    <3>3. CallOK("settle", x)
      BY <2>1, <3>1, Unobserved
    <3>4. x.io = 1
      BY <3>3 DEF CallOK, Counted, Beyond
    <3> QED
      BY <3>2, <3>3, <3>4, VerdictKeeps
  <2>4. \/ Go(c, v, "settle") \/ Go(c, w, q) \/ Go(c, u, "settle")
    BY <1>3 DEF IssueApproval, Unasked, w
  <2> HIDE DEF u, v
  <2> QED
    BY <1>1, <1>3, <2>1, <2>2, <2>3, <2>4, GoKeeps
<1> QED
  BY <1>1, <1>2, <1>3

\* The three records of a request, the ledger as it is expected to be.
LEMMA RecordRequestKeeps ==
    ASSUME GatewayInv, NEW c \in Calls, RecordRequest(c)
    PROVE  GatewayInv'
<1> DEFINE r == call[c]
<1>1. pc[c] \in {"issue_reserved", "issue_event", "post_reserved", "post_event"}
  BY DEF RecordRequest
<1>2. /\ CallOK(pc[c], r) /\ r \in CallRecords /\ r.led \in LifecycleStates
      /\ r.at \notin {"cleanup", "shutdown"} /\ r.done = {} /\ ~r.led.terminal
      /\ CallOK("done", r)
  BY <1>1, AtWork, Ends
<1>3. /\ Answer(r) \in {"pending", "refused"} /\ r.verdict = None
      /\ r.io = 1 <=> r.led.outcome # None
  BY <1>1, <1>2, Words DEF CallOK, Asked, Counted, Before, Beyond, Recording, RecordingBefore,
                           RecordingAfter, Unsent, Sent
<1>4. ASSUME NEW w, CallOK("done", w), w.done = {}, ~w.led.terminal,
             w.led.outcome = r.led.outcome, w.io = r.io, w.verdict = r.verdict,
             w.pre = r.pre, w.post = r.post,
             NEW q \in {"finalize_quiet", "park", "issue_event", "post_event"},
             q = "issue_event" => r.io = 0, q = "post_event" => r.io = 1,
             Recording(q, w)
      PROVE  CallOK(q, w)
  <2>1. Counted(q, w) /\ Backed(q, w) /\ Asked(q, w) /\ Mirrored(q, w)
    BY <1>3, <1>4 DEF CallOK, Counted, Backed, Asked, Answer, Mirrored, Before, Beyond, Asking
  <2> QED
    BY <1>4, <2>1, Moves DEF Places, Before, Beyond, Asking
<1>5. CallOK("finalize_quiet", r)
  <2>1. Recording("finalize_quiet", r)
    BY DEF Recording, RecordingBefore, RecordingAfter, RecordingAsk
  <2> QED
    BY <1>2, <1>4, <2>1
<1>6. ASSUME NEW e, NEW q \in {"park", "issue_event", "post_event"},
             Record(c, e, q, "finalize_quiet"),
             q = "issue_event" => r.io = 0, q = "post_event" => r.io = 1,
             AppendAccepts(r.led, e) =>
                LET w == WithLed(r, Apply(r.led, e)) IN
                /\ CallOK("done", w) /\ ~w.led.terminal
                /\ w.led.outcome = r.led.outcome /\ Recording(q, w)
      PROVE  GatewayInv'
  <2> DEFINE w == WithLed(r, Apply(r.led, e))
  <2>1. AppendAccepts(r.led, e) => CallOK(q, w) /\ CallOK("finalize_quiet", w)
    <3>1. /\ w.done = {} /\ w.io = r.io /\ w.verdict = r.verdict
          /\ w.pre = r.pre /\ w.post = r.post
      BY <1>2, LedFields
    <3>2. Recording("finalize_quiet", w)
      BY DEF Recording, RecordingBefore, RecordingAfter, RecordingAsk
    <3> SUFFICES ASSUME AppendAccepts(r.led, e)
                 PROVE  CallOK(q, w) /\ CallOK("finalize_quiet", w)
      OBVIOUS
    <3>3. CallOK("done", w) /\ ~w.led.terminal /\ w.led.outcome = r.led.outcome
          /\ Recording(q, w)
      BY <1>6
    <3> HIDE DEF w
    <3> QED
      BY <1>4, <1>6, <3>1, <3>2, <3>3
  <2> QED
    BY <1>1, <1>2, <1>5, <1>6, <2>1, RecordKeeps
<1>7. CASE pc[c] = "issue_reserved"
  <2> DEFINE e == <<"budget", "reserved">>
             l == Apply(r.led, e)
             w == WithLed(r, l)
  <2>1. Judged(r, "require_approval", None) /\ Unsent(r, None) /\ r.budgeted /\ r.io = 0
    BY <1>2, <1>7 DEF CallOK, Recording, RecordingBefore, Counted, Before
  <2>2. AppendAccepts(r.led, e) => CallOK("done", w)
    BY <1>2, <1>7, BudgetEvent
  <2>3. e[1] = "budget" /\ e[2] = "reserved"
    OBVIOUS
  <2>4. Record(c, e, "issue_event", "finalize_quiet")
    BY <1>7 DEF RecordRequest
  <2> HIDE DEF e
  <2>5. SetsStage(r.led, l, "reserved")
    BY <1>2, <2>3, BudgetApplied
  <2> HIDE DEF l
  <2>6. w.led = l /\ w.budgeted = r.budgeted
    BY <1>2, LedFields
  <2> HIDE DEF w
  <2>7. /\ Judged(w, "require_approval", None) /\ Unsent(w, Stage(w, "reserved"))
        /\ w.led.outcome = r.led.outcome
    BY <2>1, <2>5, <2>6 DEF SetsStage, Judged, Unsent, Stage
  <2>8. Recording("issue_event", w) /\ ~w.led.terminal
    BY <2>7 DEF Recording, RecordingBefore, RecordingAfter, RecordingAsk, Judged
  <2> QED
    BY <1>6, <2>1, <2>2, <2>4, <2>7, <2>8 DEF w, l
<1>8. CASE pc[c] = "issue_event"
  <2> DEFINE e == <<"pre_approval", "pending">>
             l == Apply(r.led, e)
             w == WithLed(r, l)
  <2>1. /\ Judged(r, "require_approval", None) /\ Unsent(r, Stage(r, "reserved")) /\ r.io = 0
    BY <1>2, <1>8 DEF CallOK, Recording, RecordingBefore, Counted, Before
  <2>2. AppendAccepts(r.led, e) => CallOK("done", w)
    BY <1>2, <1>8, ApprovalEvent
  <2>3. e[1] = "pre_approval" /\ e[2] = "pending"
    OBVIOUS
  <2>4. Record(c, e, "park", "finalize_quiet")
    BY <1>8 DEF RecordRequest
  <2> HIDE DEF e
  <2>5. SetsField(r.led, l, e)
    BY <1>2, <2>3, Applied
  <2> HIDE DEF l
  <2>6. w.led = l /\ w.budgeted = r.budgeted /\ w.done = {}
    BY <1>2, LedFields
  <2> HIDE DEF w
  <2>7. WaitsBefore(w) /\ w.led.outcome = None /\ r.led.outcome = None
    BY <2>1, <2>3, <2>5, <2>6 DEF SetsField, Judged, Unsent, Stage, WaitsBefore
  <2>8. Recording("park", w) /\ ~w.led.terminal
    BY <2>7 DEF Recording, RecordingBefore, RecordingAfter, RecordingAsk, Waits, WaitsBefore,
                Judged
  <2> QED
    BY <1>6, <2>1, <2>2, <2>4, <2>7, <2>8 DEF w, l
<1>9. CASE pc[c] = "post_reserved"
  <2> DEFINE e == <<"budget", "post_reserved">>
             l == Apply(r.led, e)
             w == WithLed(r, l)
  <2>1. /\ Sent(r, "succeeded", "require_approval") /\ Uncharged(r) /\ r.budgeted /\ r.io = 1
        /\ r.pre # "pending"
    BY <1>2, <1>9 DEF CallOK, Recording, RecordingAfter, Counted, Beyond, Asked
  <2>2. AppendAccepts(r.led, e) => CallOK("done", w)
    BY <1>2, <1>9, <2>1, BudgetEvent
  <2>3. e[1] = "budget" /\ e[2] = "post_reserved"
    OBVIOUS
  <2>4. Record(c, e, "post_event", "finalize_quiet")
    BY <1>9 DEF RecordRequest
  <2> HIDE DEF e
  <2>5. l \in LifecycleStates /\ SetsStage(r.led, l, "post_reserved")
    BY <1>2, <2>3, BudgetApplied
  <2> HIDE DEF l
  <2>6. w.led = l /\ w.budgeted = r.budgeted /\ w.budgeted \in BOOLEAN
    BY <1>2, LedFields DEF CallRecords
  <2> HIDE DEF w
  <2>7. /\ Sent(w, "succeeded", "require_approval") /\ w.led.post = None
        /\ w.led.stage = Stage(w, "dispatched") /\ w.led.outcome = r.led.outcome
        /\ w.led.postBudget /\ w.budgeted /\ ~w.led.terminal
    BY <1>2, <2>1, <2>5, <2>6 DEF SetsStage, Sent, Uncharged, Stage
  <2>8. w.led.postBudget = w.budgeted
    BY <2>5, <2>6, <2>7 DEF LifecycleStates
  <2>9. Recording("post_event", w)
    BY <2>7, <2>8 DEF Recording, RecordingBefore, RecordingAfter, RecordingAsk
  <2> QED
    BY <1>6, <2>1, <2>2, <2>4, <2>7, <2>9 DEF w, l
<1>10. CASE pc[c] = "post_event"
  <2> DEFINE e == <<"post_approval", "pending">>
             l == Apply(r.led, e)
             w == WithLed(r, l)
  <2>1. /\ Sent(r, "succeeded", "require_approval") /\ r.led.post = None
        /\ r.led.stage = Stage(r, "dispatched") /\ r.led.postBudget = r.budgeted
        /\ r.io = 1
    BY <1>2, <1>10 DEF CallOK, Recording, RecordingAfter, Counted, Beyond
  <2>2. AppendAccepts(r.led, e) => CallOK("done", w)
    BY <1>2, <1>10, ApprovalEvent
  <2>3. e[1] = "post_approval" /\ e[2] = "pending"
    OBVIOUS
  <2>4. Record(c, e, "park", "finalize_quiet")
    BY <1>10 DEF RecordRequest
  <2> HIDE DEF e
  <2>5. SetsField(r.led, l, e)
    BY <1>2, <2>3, Applied
  <2> HIDE DEF l
  <2>6. w.led = l /\ w.budgeted = r.budgeted /\ w.done = {}
    BY <1>2, LedFields
  <2> HIDE DEF w
  <2>7. WaitsAfter(w) /\ w.led.outcome = "succeeded" /\ r.led.outcome = "succeeded"
        /\ ~w.led.terminal
    BY <1>2, <2>1, <2>3, <2>5, <2>6 DEF SetsField, Sent, Stage, WaitsAfter
  <2>8. Recording("park", w)
    BY <2>7, Words DEF Recording, RecordingBefore, RecordingAfter, RecordingAsk, Waits
  <2> QED
    BY <1>6, <2>1, <2>2, <2>4, <2>7, <2>8 DEF w, l
<1> QED
  BY <1>1, <1>7, <1>8, <1>9, <1>10

\* storePending and takePending: the record of the call stays as it is.
LEMMA ParkKeeps ==
    ASSUME GatewayInv, NEW c \in Calls, Park(c) \/ Resume(c)
    PROVE  GatewayInv'
<1> DEFINE r == call[c]
<1>1. CASE pc[c] = "park"
  <2>1. /\ CallOK("park", r) /\ r \in CallRecords /\ r.at = None /\ r.done = {}
        /\ r.at \notin {"cleanup", "shutdown"} /\ ~r.led.terminal /\ CallOK("done", r)
    BY <1>1, AtWork, Ends
  <2>2. Waits(r) /\ Answer(r) \in {"pending", "refused"}
    BY <2>1 DEF CallOK, Recording, RecordingAsk, Asked
  <2>3. CASE Go(c, r, "finalize")
    <3>1. CallOK("finalize", r)
      BY <2>1, <2>2, Words, AskingMoves DEF Asking
    <3> QED
      BY <1>1, <2>1, <2>3, <3>1, GoKeeps
  <2>4. CASE Go(c, [r EXCEPT !.at = "pending"], "parked")
    <3> DEFINE w == [r EXCEPT !.at = "pending"]
    <3>1. /\ w \in CallRecords /\ w.at = "pending"
          /\ w.budgeted = r.budgeted /\ w.oversize = r.oversize /\ w.res = r.res
          /\ w.pre = r.pre /\ w.post = r.post /\ w.led = r.led /\ w.done = r.done
          /\ w.io = r.io /\ w.verdict = r.verdict
      BY <2>1 DEF CallRecords
    <3> HIDE DEF w
    <3>2. Counted("parked", w) /\ Backed("parked", w) /\ Asked("parked", w)
          /\ Mirrored("parked", w)
      BY <2>1, <3>1 DEF CallOK, Counted, Backed, Cleared, Asked, Answer, Mirrored, Before,
                        Beyond, Asking
    <3>3. Closed("parked", w) /\ Retained("parked", w)
      BY <2>1, <3>1, Words DEF CallOK, Closed, Retained
    <3>4. Waits(w)
      BY <2>2, <3>1 DEF Waits, WaitsBefore, WaitsAfter, Judged, Unsent, Sent, Stage
    <3>5. Recording("parked", w)
      BY <3>4 DEF Recording, RecordingBefore, RecordingAfter, RecordingAsk
    <3>6. CallOK("parked", w)
      BY <3>1, <3>2, <3>3, <3>5 DEF CallOK, Places, Asking
    <3> QED
      BY <1>1, <2>1, <2>4, <3>6, GoKeeps DEF w
  <2> QED
    BY <1>1, <2>3, <2>4 DEF Park, Resume
<1>2. CASE pc[c] = "parked" /\ r.at = "pending" /\ Go(c, [r EXCEPT !.at = None], "taken")
  <2> DEFINE w == [r EXCEPT !.at = None]
  <2>1. CallOK("parked", r)
    BY <1>2 DEF GatewayInv, At
  <2>2. r \in CallRecords /\ r.done = {} /\ Waits(r) /\ ~r.led.terminal
    <3>1. r \in CallRecords /\ r.done = {} /\ Waits(r)
      BY <1>2, <2>1 DEF CallOK, Retained, Recording, RecordingAsk
    <3> QED
      BY <3>1 DEF Waits, WaitsBefore, WaitsAfter, Judged, CallRecords, LifecycleStates
  <2>3. /\ w \in CallRecords /\ w.at = None
        /\ w.budgeted = r.budgeted /\ w.oversize = r.oversize /\ w.res = r.res
        /\ w.pre = r.pre /\ w.post = r.post /\ w.led = r.led /\ w.done = r.done
        /\ w.io = r.io /\ w.verdict = r.verdict
    BY <2>2 DEF CallRecords
  <2> HIDE DEF w
  <2>4. Counted("taken", w) /\ Backed("taken", w) /\ Asked("taken", w) /\ Mirrored("taken", w)
    BY <2>1, <2>3 DEF CallOK, Counted, Backed, Cleared, Asked, Answer, Mirrored, Before,
                      Beyond, Asking
  <2>5. Closed("taken", w) /\ Retained("taken", w)
    BY <2>1, <2>2, <2>3 DEF CallOK, Closed, Retained
  <2>6. Waits(w)
    BY <2>2, <2>3 DEF Waits, WaitsBefore, WaitsAfter, Judged, Unsent, Sent, Stage
  <2>7. Recording("taken", w)
    BY <2>6 DEF Recording, RecordingBefore, RecordingAfter, RecordingAsk
  <2>8. CallOK("taken", w)
    BY <2>3, <2>4, <2>5, <2>7 DEF CallOK, Places, Asking
  <2> QED
    BY <1>2, <2>8, GoKeeps DEF w
<1> QED
  BY <1>1, <1>2 DEF Park, Resume

\* An append whose caller goes on in its own way.
LEMMA WithEventKeeps ==
    ASSUME NEW c \in Calls, NEW p, CallOK(p, call[c]), p # "parked", NEW e, NEW o,
           AppendAccepts(call[c].led, e) =>
              CallOK("done", WithLed(call[c], Apply(call[c].led, e)))
    PROVE  LET r == call[c]
               w == WithEvent(c, e, o)
           IN /\ CallOK("done", w) /\ w \in CallRecords
              /\ w.budgeted = r.budgeted /\ w.oversize = r.oversize /\ w.res = r.res
              /\ w.pre = r.pre /\ w.post = r.post /\ w.at = r.at /\ w.done = r.done
              /\ w.io = r.io /\ w.verdict = r.verdict
              /\ w.led = IF Recorded(c, e, o) THEN Apply(r.led, e) ELSE r.led
<1> DEFINE r == call[c]
           x == WithLed(r, Apply(r.led, e))
           w == WithEvent(c, e, o)
<1>1. r \in CallRecords /\ CallOK("done", r)
  BY Ends DEF CallOK
<1>2. CASE Recorded(c, e, o)
  <2>1. CallOK("done", x)
    BY <1>2 DEF Recorded
  <2>2. x \in CallRecords
    BY <2>1 DEF CallOK
  <2>3. /\ x.led = Apply(r.led, e)
        /\ x.budgeted = r.budgeted /\ x.oversize = r.oversize /\ x.res = r.res
        /\ x.pre = r.pre /\ x.post = r.post /\ x.at = r.at /\ x.done = r.done
        /\ x.io = r.io /\ x.verdict = r.verdict
    BY <1>1, LedFields
  <2>4. w = [x EXCEPT !.lost = @ \/ o = "lost"]
    BY <1>1, <1>2 DEF WithEvent, WithLed, CallRecords
  <2> HIDE DEF x, w
  <2>5. (o = "lost") \in BOOLEAN
    OBVIOUS
  <2>6. CallOK("done", [x EXCEPT !.lost = @ \/ o = "lost"])
    BY <2>1, <2>2, <2>5, MaybeLost
  <2>7. /\ w.led = x.led
        /\ w.budgeted = x.budgeted /\ w.oversize = x.oversize /\ w.res = x.res
        /\ w.pre = x.pre /\ w.post = x.post /\ w.at = x.at /\ w.done = x.done
        /\ w.io = x.io /\ w.verdict = x.verdict
    BY <2>2, <2>4 DEF CallRecords
  <2>8. w \in CallRecords /\ CallOK("done", w)
    BY <2>4, <2>6 DEF CallOK
  <2> QED
    BY <1>2, <2>3, <2>7, <2>8 DEF w
<1>3. CASE ~Recorded(c, e, o)
  BY <1>1, <1>3 DEF WithEvent
<1> QED
  BY <1>2, <1>3

\* The decision against an approval is recorded: the call is denied, or settled
\* with its result withheld.
LEMMA RecordDecidedKeeps ==
    ASSUME GatewayInv, NEW c \in Calls, RecordDecided(c)
    PROVE  GatewayInv'
<1> DEFINE r == call[c]
           e == <<Phase(c), Approval(c)>>
           pre == Phase(c) = "pre_approval"
           next == CASE pre /\ r.budgeted  -> "deny_event"
                     [] pre /\ ~r.budgeted -> "done"
                     [] OTHER              -> "settle"
<1> PICK o \in Outcomes :
       Go(c, [WithEvent(c, e, o) EXCEPT !.verdict = IF pre THEN None ELSE "withheld"],
             IF o = "ok" /\ Recorded(c, e, o) THEN next ELSE "done")
  BY DEF RecordDecided
<1> DEFINE w == WithEvent(c, e, o)
           l == Apply(r.led, e)
<1>1. /\ pc[c] = "decided_event" /\ CallOK("decided_event", r) /\ r \in CallRecords
      /\ r.led \in LifecycleStates /\ r.at \notin {"cleanup", "shutdown"} /\ r.done = {}
      /\ ~r.led.terminal
  BY AtWork DEF RecordDecided
<1>2. /\ r.verdict = None /\ Answer(r) \in {"approved", "refused"}
      /\ IF r.led.outcome = None THEN r.io = 0 ELSE r.io = 1
  BY <1>1 DEF CallOK, Counted, Asked, Asking, CallRecords
<1>3. /\ pre <=> r.led.outcome = None
      /\ e[1] = IF pre THEN "pre_approval" ELSE "post_approval"
      /\ e[2] = Answer(r)
      /\ Answer(r) = IF pre THEN r.pre ELSE r.post
  BY DEF Phase, Approval, Answer
<1>4. AppendAccepts(r.led, e) =>
         CallOK("done", WithLed(r, l)) /\ (pre => r.led.decision = "require_approval")
               /\ SetsField(r.led, l, e)
  <2> HIDE DEF pre, e
  <2> SUFFICES ASSUME AppendAccepts(r.led, e)
               PROVE  CallOK("done", WithLed(r, l)) /\ (pre => r.led.decision = "require_approval")
                         /\ SetsField(r.led, l, e)
    OBVIOUS
  <2>1. CallOK("done", WithLed(r, l))
    BY <1>1, <1>2, <1>3, ApprovalEvent
  <2>2. ~r.led.missing
    BY <1>1 DEF CallOK, Closed
  <2>3. pre => r.led.decision = "require_approval"
    BY <1>3, <2>2 DEF AppendAccepts, Accepts, PreApprovalAccepted
  <2>4. SetsField(r.led, l, e)
    BY <1>1, <1>2, <1>3, Applied
  <2> QED
    BY <2>1, <2>3, <2>4
<1>5. /\ CallOK("done", w) /\ w \in CallRecords
      /\ w.budgeted = r.budgeted /\ w.res = r.res
      /\ w.pre = r.pre /\ w.post = r.post /\ w.at = r.at /\ w.done = r.done
      /\ w.io = r.io /\ w.verdict = r.verdict
      /\ w.led = IF Recorded(c, e, o) THEN l ELSE r.led
  <2> HIDE DEF e
  <2> QED
    BY <1>1, <1>4, WithEventKeeps
<1>6. ~w.led.terminal
  BY <1>1, <1>4, <1>5 DEF Recorded, SetsField
<1>7. CASE pre
  <2>1. [w EXCEPT !.verdict = None] = w
    BY <1>2, <1>5 DEF CallRecords
  <2>2. ASSUME o = "ok", Recorded(c, e, o), r.budgeted
        PROVE  CallOK("deny_event", w)
    <3>1. AppendAccepts(r.led, e) /\ w.led = l
      BY <1>5, <2>2 DEF Recorded
    <3>2. SetsField(r.led, l, e) /\ r.led.decision = "require_approval"
      BY <1>4, <1>7, <3>1
    <3> HIDE DEF l, w
    <3>3. w.led.decision = "require_approval" /\ w.led.pre = r.pre
      BY <1>3, <1>7, <3>1, <3>2 DEF SetsField
    <3>4. r.pre = "refused" => w.res = "denied"
      BY <1>1, <1>5, <2>2 DEF CallOK, Asked
    <3>5. w.pre = r.pre /\ r.pre \in {"approved", "refused"} /\ w.io = 0
      BY <1>2, <1>3, <1>5, <1>7
    <3> HIDE DEF e, pre
    <3>6. Counted("deny_event", w) /\ Backed("deny_event", w) /\ Asked("deny_event", w)
          /\ Mirrored("deny_event", w)
      BY <1>5, <3>3, <3>4, <3>5
      DEF CallOK, Counted, Backed, Asked, Mirrored, Before, Beyond, Asking
    <3>7. Recording("deny_event", w)
      BY DEF Recording, RecordingBefore, RecordingAfter, RecordingAsk
    <3> QED
      BY <1>1, <1>5, <1>6, <3>6, <3>7, Moves DEF Places, Before
  <2>3. Go(c, w, IF o = "ok" /\ Recorded(c, e, o) /\ r.budgeted THEN "deny_event" ELSE "done")
    BY <1>7, <2>1
  <2> HIDE DEF w, e
  <2> QED
    BY <1>1, <1>5, <2>2, <2>3, GoKeeps
<1>8. CASE ~pre
  <2> DEFINE u == [w EXCEPT !.verdict = "withheld"]
  <2>1. Go(c, u, IF o = "ok" /\ Recorded(c, e, o) THEN "settle" ELSE "done")
    BY <1>8
  <2>2. w.io = 1 /\ w.at = None
    BY <1>2, <1>3, <1>5, <1>8 DEF CallOK, Retained
  <2> HIDE DEF w, e, pre
  <2>3. CallOK("settle", w)
    BY <1>1, <1>5, <1>6, <2>2, PlainAfter
  <2>4. CallOK("settle", u) /\ CallOK("done", u)
    BY <2>2, <2>3, VerdictKeeps
  <2> HIDE DEF u
  <2> QED
    BY <1>1, <2>1, <2>4, GoKeeps
<1> QED
  BY <1>7, <1>8

\* A granted approval is recorded; the call goes on as the ledger says.
LEMMA RecordGrantedKeeps ==
    ASSUME GatewayInv, NEW c \in Calls, RecordGranted(c)
    PROVE  GatewayInv'
<1> DEFINE r == call[c]
           e == <<Phase(c), "approved">>
           pre == Phase(c) = "pre_approval"
<1> PICK o \in Outcomes :
       Go(c, [WithEvent(c, e, o) EXCEPT !.verdict = IF pre THEN None ELSE "forwarded"],
             IF o = "ok" /\ Recorded(c, e, o)
             THEN IF pre THEN "again" ELSE "settle"
             ELSE IF pre THEN "deny" ELSE "indeterminate_quiet")
  BY DEF RecordGranted
<1> DEFINE w == WithEvent(c, e, o)
           l == Apply(r.led, e)
<1>1. /\ pc[c] = "granted_event" /\ CallOK("granted_event", r) /\ r \in CallRecords
      /\ r.led \in LifecycleStates /\ r.at \notin {"cleanup", "shutdown"} /\ r.done = {}
      /\ ~r.led.terminal
  BY AtWork DEF RecordGranted
<1>2. /\ r.verdict = None /\ Answer(r) = "approved" /\ Waits(r)
      /\ IF r.led.outcome = None THEN r.io = 0 ELSE r.io = 1
  BY <1>1 DEF CallOK, Counted, Asked, Asking, CallRecords, Recording, RecordingAsk
<1>3. /\ pre <=> r.led.outcome = None
      /\ e[1] = IF pre THEN "pre_approval" ELSE "post_approval"
      /\ e[2] = "approved"
      /\ IF pre THEN r.pre = "approved" ELSE r.post = "approved"
  BY <1>2 DEF Phase, Answer
<1>4. /\ AppendAccepts(r.led, e) => CallOK("done", WithLed(r, l))
      /\ SetsField(r.led, l, e)
  <2> HIDE DEF pre, e
  <2>1. AppendAccepts(r.led, e) => CallOK("done", WithLed(r, l))
    BY <1>1, <1>2, <1>3, ApprovalEvent
  <2>2. SetsField(r.led, l, e)
    BY <1>1, <1>2, <1>3, Applied
  <2> QED
    BY <2>1, <2>2
<1>5. /\ CallOK("done", w) /\ w \in CallRecords
      /\ w.budgeted = r.budgeted /\ w.res = r.res
      /\ w.pre = r.pre /\ w.post = r.post /\ w.at = r.at /\ w.done = r.done
      /\ w.io = r.io /\ w.verdict = r.verdict
      /\ w.led = IF Recorded(c, e, o) THEN l ELSE r.led
  <2>1. AppendAccepts(r.led, e) => CallOK("done", WithLed(r, Apply(r.led, e)))
    BY <1>4
  <2>2. "granted_event" # "parked"
    OBVIOUS
  <2> HIDE DEF e
  <2> QED
    BY <1>1, <2>1, <2>2, WithEventKeeps
<1>6. ~w.led.terminal
  BY <1>1, <1>4, <1>5 DEF Recorded, SetsField
<1>7. CASE pre
  <2>1. [w EXCEPT !.verdict = None] = w
    BY <1>2, <1>5 DEF CallRecords
  <2>2. w.io = 0 /\ w.pre = "approved"
    BY <1>2, <1>3, <1>5, <1>7
  <2>3. ASSUME o = "ok", Recorded(c, e, o)
        PROVE  CallOK("again", w)
    <3>1. w.led = l /\ e[1] = "pre_approval"
      BY <1>3, <1>5, <1>7, <2>3
    <3>2. WaitsBefore(r)
      BY <1>2, <1>3, <1>7 DEF Waits
    <3> HIDE DEF l, w, e
    <3>3. Judged(w, "require_approval", "approved") /\ Unsent(w, Stage(w, "reserved"))
      BY <1>1, <1>3, <1>4, <1>5, <1>6, <3>1, <3>2
      DEF SetsField, WaitsBefore, Judged, Unsent, Stage
    <3>4. Counted("again", w) /\ Backed("again", w) /\ Asked("again", w) /\ Mirrored("again", w)
      BY <1>5, <2>2 DEF CallOK, Counted, Backed, Asked, Mirrored, Before, Beyond, Asking
    <3>5. Recording("again", w)
      BY <3>3 DEF Recording, RecordingBefore, RecordingAfter, RecordingAsk
    <3> QED
      BY <1>1, <1>5, <1>6, <3>4, <3>5, Moves DEF Places, Before
  <2>4. Go(c, w, IF o = "ok" /\ Recorded(c, e, o) THEN "again" ELSE "deny")
    BY <1>7, <2>1
  <2> HIDE DEF w, e, pre
  <2>5. CallOK("deny", w)
    BY <1>1, <1>5, <1>6, <2>2, Plain
  <2> QED
    BY <1>1, <2>3, <2>4, <2>5, GoKeeps
<1>8. CASE ~pre
  <2> DEFINE u == [w EXCEPT !.verdict = "forwarded"]
  <2>1. Go(c, u, IF o = "ok" /\ Recorded(c, e, o) THEN "settle" ELSE "indeterminate_quiet")
    BY <1>8
  <2>2. w.io = 1
    BY <1>2, <1>3, <1>5, <1>8
  <2> HIDE DEF w, e, pre
  <2>3. CallOK("settle", w)
    BY <1>1, <1>5, <1>6, <2>2, PlainAfter
  <2>4. CallOK("settle", u) /\ CallOK("indeterminate_quiet", u)
    BY <2>2, <2>3, VerdictKeeps
  <2> HIDE DEF u
  <2> QED
    BY <1>1, <2>1, <2>4, GoKeeps
<1> QED
  BY <1>7, <1>8

\* An approved call is evaluated once more before it is sent.
LEMMA EvaluateAgainKeeps ==
    ASSUME GatewayInv, NEW c \in Calls, EvaluateAgain(c)
    PROVE  GatewayInv'
<1> DEFINE r == call[c]
<1>1. /\ pc[c] = "again" /\ CallOK("again", r) /\ r.at \notin {"cleanup", "shutdown"}
      /\ r.done = {} /\ ~r.led.terminal /\ CallOK("done", r)
  BY AtWork, Ends DEF EvaluateAgain
<1>2. /\ r.io = 0 /\ r.pre = "approved" /\ Judged(r, "require_approval", "approved")
      /\ Unsent(r, Stage(r, "reserved"))
  BY <1>1 DEF CallOK, Counted, Before, Asked, Recording, RecordingBefore
<1>3. CallOK("deny", r)
  BY <1>1, <1>2, Plain
<1>4. CallOK("mark", r)
  <2>1. Counted("mark", r) /\ Backed("mark", r) /\ Asked("mark", r) /\ Mirrored("mark", r)
    BY <1>1, <1>2 DEF CallOK, Counted, Backed, Cleared, Asked, Mirrored, Before, Beyond,
                      Asking, Judged
  <2>2. Recording("mark", r)
    BY <1>2 DEF Recording, RecordingBefore, RecordingAfter, RecordingAsk
  <2> QED
    BY <1>1, <2>1, <2>2, Moves DEF Places, Before
<1>5. Go(c, r, "mark") \/ Go(c, r, "deny")
  BY DEF EvaluateAgain, Step
<1> QED
  BY <1>1, <1>3, <1>4, <1>5, GoKeeps

\* A new call has nothing recorded anywhere.
LEMMA ArriveKeeps ==
    ASSUME GatewayInv, NEW c \in Calls, Arrive(c)
    PROVE  GatewayInv'
<1> DEFINE r == call[c]
<1> PICK budgeted \in BOOLEAN :
           Go(c, [r EXCEPT !.budgeted = budgeted],
              IF Held THEN "presweep" ELSE IF budgeted THEN "reserve" ELSE "accept")
  BY DEF Arrive
<1> DEFINE w == [r EXCEPT !.budgeted = budgeted]
<1>1. /\ pc[c] = "new" /\ CallOK("new", r) /\ r \in CallRecords
      /\ r.at \notin {"cleanup", "shutdown"} /\ r.done = {} /\ ~r.led.terminal
      /\ CallOK("done", r)
  BY AtWork, Ends DEF Arrive
<1>2. r.led = Fresh(FALSE) /\ r.pre = None /\ r.io = 0 /\ r.verdict = None /\ r.post = None
  BY <1>1 DEF CallOK, Recording, RecordingBefore, Counted, Before
<1>3. r.led.stage = None /\ r.led.pre = None /\ r.led.post = None /\ r.led.outcome = None
  BY <1>2 DEF Fresh
<1>4. /\ w \in CallRecords /\ w.led = r.led /\ w.pre = r.pre /\ w.post = r.post
      /\ w.at = r.at /\ w.done = r.done /\ w.io = r.io /\ w.verdict = r.verdict
  BY <1>1 DEF CallRecords
<1> HIDE DEF w
<1>5. ASSUME NEW q \in {"presweep", "reserve", "accept"}
      PROVE  CallOK(q, w)
  <2>1. Counted(q, w) /\ Backed(q, w)
    <3>1. w.io = 0 /\ w.led.outcome = None /\ w.verdict = None /\ w.post = None
      BY <1>2, <1>3, <1>4
    <3>2. q \in Before /\ q \notin Beyond /\ q \notin Asking
      BY DEF Before, Beyond, Asking
    <3> QED
      BY <3>1, <3>2 DEF Counted, Backed, Beyond
  <2>2. Asked(q, w) /\ Mirrored(q, w)
    BY <1>2, <1>3, <1>4, Words DEF Asked, Mirrored
  <2>4. Closed(q, w) /\ Retained(q, w)
    BY <1>1, <1>2, <1>4, Words DEF CallOK, Closed, Retained
  <2>3. Recording(q, w)
    BY <1>2, <1>4 DEF Recording, RecordingBefore, RecordingAfter, RecordingAsk
  <2> QED
    BY <1>4, <2>1, <2>2, <2>3, <2>4 DEF CallOK, Places, Before
<1>6. Go(c, w, IF Held THEN "presweep" ELSE IF budgeted THEN "reserve" ELSE "accept")
  BY DEF w
<1> QED
  BY <1>1, <1>5, <1>6, GoKeeps

--------------------------------------------------------------------------------
\* The call downstream and its result

\* Where a call that was sent is on its way to its last record.
LEMMA Concludes ==
    ASSUME NEW r, CallOK("done", r), r.done = {}, ~r.led.terminal, r.io = 1,
           NEW q \in {"unknown_ind", "unknown_event", "unknown_only", "unknown_failure",
                      "failed_event", "settle_event", "ind_event", "delivery"},
           q \in {"unknown_ind", "unknown_event", "unknown_only", "unknown_failure"} =>
              r.verdict = None,
           q = "unknown_event" => (r.budgeted => r.res = "indeterminate"),
           q = "failed_event" => (r.budgeted => r.res \in {"settled", "indeterminate"}),
           q = "settle_event" => r.res = "settled",
           q = "ind_event" => r.res = "indeterminate",
           q = "delivery" => (r.budgeted => r.res = "settled")
    PROVE  CallOK(q, r)
<1>1. Counted(q, r) /\ Backed(q, r) /\ Asked(q, r) /\ Mirrored(q, r)
  BY DEF CallOK, Counted, Backed, Asked, Mirrored, Before, Beyond, Asking
<1>2. Recording(q, r)
  BY DEF Recording, RecordingBefore, RecordingAfter, RecordingAsk
<1> QED
  BY <1>1, <1>2, Moves DEF Places, Beyond

\* The tool is called: what came back of it is no part of any record yet.
LEMMA CallToolKeeps ==
    ASSUME GatewayInv, NEW c \in Calls, CallTool(c)
    PROVE  GatewayInv'
<1> DEFINE r == call[c]
<1>1. /\ pc[c] = "io" /\ CallOK("io", r) /\ r \in CallRecords
      /\ r.at \notin {"cleanup", "shutdown"} /\ r.done = {} /\ ~r.led.terminal
      /\ CallOK("done", r)
  BY AtWork, Ends DEF CallTool
<1>2. r.io = 0 /\ r.verdict = None /\ Sent(r, None, None) /\ Uncharged(r)
  BY <1>1 DEF CallOK, Counted, Before, Recording, RecordingAfter
<1>3. /\ r.led.dispatched /\ Cleared(r) /\ (r.budgeted => r.res \in Committed)
      /\ r.led.outcome = None /\ r.pre # "pending"
  BY <1>1, <1>2 DEF CallOK, Backed, Sent, Asked, Asking
<1>4. ASSUME NEW w \in CallRecords, w.io = 1, w.verdict \in {None, "failed"},
             w.budgeted = r.budgeted, w.res = r.res, w.pre = r.pre, w.post = r.post,
             w.led = r.led, w.at = r.at, w.done = r.done
      PROVE  /\ CallOK("done", w)
             /\ w.verdict = "failed" => CallOK("settle", w)
             /\ w.verdict = None => CallOK("succeeded_event", w)
             /\ w.verdict = None /\ w.budgeted => CallOK("unknown_ind", w)
             /\ w.verdict = None /\ ~w.budgeted => CallOK("unknown_event", w)
  <2>1. CallOK("done", w)
    <3>1. Counted("done", w) /\ Backed("done", w) /\ Asked("done", w) /\ Mirrored("done", w)
      BY <1>1, <1>2, <1>3, <1>4
      DEF CallOK, Counted, Backed, Cleared, Asked, Mirrored, Before, Beyond, Asking
    <3>2. Closed("done", w) /\ Retained("done", w)
      BY <1>1, <1>4 DEF CallOK, Closed, Retained
    <3>3. Recording("done", w)
      BY DEF Recording, RecordingBefore, RecordingAfter, RecordingAsk
    <3> QED
      BY <3>1, <3>2, <3>3 DEF CallOK, Places, Ended
  <2>2. CallOK("settle", w)
    BY <1>1, <1>4, <2>1, PlainAfter
  <2>3. ASSUME w.verdict = None
        PROVE  CallOK("succeeded_event", w)
    <3>1. Counted("succeeded_event", w) /\ Backed("succeeded_event", w)
          /\ Asked("succeeded_event", w) /\ Mirrored("succeeded_event", w)
      BY <1>4, <2>1, <2>3 DEF CallOK, Counted, Backed, Asked, Mirrored, Before, Beyond, Asking
    <3>2. Sent(w, None, None) /\ Uncharged(w)
      BY <1>2, <1>4 DEF Sent, Uncharged, Stage
    <3>3. Recording("succeeded_event", w)
      BY <3>2 DEF Recording, RecordingBefore, RecordingAfter, RecordingAsk
    <3> QED
      BY <1>1, <1>4, <2>1, <3>1, <3>3, Moves DEF Places, Beyond
  <2>4. /\ w.verdict = None /\ w.budgeted => CallOK("unknown_ind", w)
        /\ w.verdict = None /\ ~w.budgeted => CallOK("unknown_event", w)
    BY <1>1, <1>4, <2>1, Concludes
  <2> QED
    BY <2>1, <2>2, <2>3, <2>4
<1>5. ASSUME NEW w, w = [r EXCEPT !.io = 1]
      PROVE  /\ w \in CallRecords /\ w.io = 1 /\ w.verdict = None
             /\ w.budgeted = r.budgeted /\ w.res = r.res /\ w.pre = r.pre /\ w.post = r.post
             /\ w.led = r.led /\ w.at = r.at /\ w.done = r.done
  BY <1>1, <1>2, <1>5 DEF CallRecords
<1>6. ASSUME NEW w, NEW oversize \in BOOLEAN,
             w = [r EXCEPT !.io = 1, !.oversize = oversize]
      PROVE  /\ w \in CallRecords /\ w.io = 1 /\ w.verdict = None
             /\ w.budgeted = r.budgeted /\ w.res = r.res /\ w.pre = r.pre /\ w.post = r.post
             /\ w.led = r.led /\ w.at = r.at /\ w.done = r.done
  <2> DEFINE x == [r EXCEPT !.io = 1]
  <2>1. /\ x \in CallRecords /\ x.io = 1 /\ x.verdict = None
        /\ x.budgeted = r.budgeted /\ x.res = r.res /\ x.pre = r.pre /\ x.post = r.post
        /\ x.led = r.led /\ x.at = r.at /\ x.done = r.done
    BY <1>5
  <2>2. w = [x EXCEPT !.oversize = oversize]
    BY <1>6
  <2> HIDE DEF x
  <2> QED
    BY <2>1, <2>2 DEF CallRecords
<1>7. ASSUME NEW w, NEW oversize \in BOOLEAN,
             w = [r EXCEPT !.io = 1, !.oversize = oversize, !.verdict = "failed"]
      PROVE  /\ w \in CallRecords /\ w.io = 1 /\ w.verdict = "failed"
             /\ w.budgeted = r.budgeted /\ w.res = r.res /\ w.pre = r.pre /\ w.post = r.post
             /\ w.led = r.led /\ w.at = r.at /\ w.done = r.done
  <2> DEFINE x == [r EXCEPT !.io = 1, !.oversize = oversize]
  <2>1. /\ x \in CallRecords /\ x.io = 1
        /\ x.budgeted = r.budgeted /\ x.res = r.res /\ x.pre = r.pre /\ x.post = r.post
        /\ x.led = r.led /\ x.at = r.at /\ x.done = r.done
    BY <1>6
  <2>2. w = [x EXCEPT !.verdict = "failed"]
    BY <1>7
  <2> HIDE DEF x
  <2> QED
    BY <2>1, <2>2 DEF CallRecords
<1>8. CASE Go(c, [r EXCEPT !.io = 1],
              IF r.budgeted THEN "unknown_ind" ELSE "unknown_event")
  <2> DEFINE w == [r EXCEPT !.io = 1]
  <2>1. /\ w \in CallRecords /\ w.io = 1 /\ w.verdict = None
        /\ w.budgeted = r.budgeted /\ w.res = r.res /\ w.pre = r.pre /\ w.post = r.post
        /\ w.led = r.led /\ w.at = r.at /\ w.done = r.done
    BY <1>5
  <2> HIDE DEF w
  <2>2. CallOK(IF r.budgeted THEN "unknown_ind" ELSE "unknown_event", w)
    BY <1>4, <2>1
  <2>3. Go(c, w, IF r.budgeted THEN "unknown_ind" ELSE "unknown_event")
    BY <1>8 DEF w
  <2> QED
    BY <1>1, <2>2, <2>3, GoKeeps
<1>9. ASSUME NEW oversize \in BOOLEAN,
             Go(c, [r EXCEPT !.io = 1, !.oversize = oversize, !.verdict = "failed"], "settle")
      PROVE  GatewayInv'
  <2> DEFINE w == [r EXCEPT !.io = 1, !.oversize = oversize, !.verdict = "failed"]
  <2>1. /\ w \in CallRecords /\ w.io = 1 /\ w.verdict = "failed"
        /\ w.budgeted = r.budgeted /\ w.res = r.res /\ w.pre = r.pre /\ w.post = r.post
        /\ w.led = r.led /\ w.at = r.at /\ w.done = r.done
    BY <1>7
  <2>2. Go(c, w, "settle")
    BY <1>9
  <2> HIDE DEF w
  <2>3. CallOK("settle", w)
    BY <1>4, <2>1
  <2> QED
    BY <1>1, <2>2, <2>3, GoKeeps
<1>10. ASSUME NEW oversize \in BOOLEAN,
             Go(c, [r EXCEPT !.io = 1, !.oversize = oversize], "succeeded_event")
      PROVE  GatewayInv'
  <2> DEFINE w == [r EXCEPT !.io = 1, !.oversize = oversize]
  <2>1. /\ w \in CallRecords /\ w.io = 1 /\ w.verdict = None
        /\ w.budgeted = r.budgeted /\ w.res = r.res /\ w.pre = r.pre /\ w.post = r.post
        /\ w.led = r.led /\ w.at = r.at /\ w.done = r.done
    BY <1>6
  <2>2. Go(c, w, "succeeded_event")
    BY <1>10
  <2> HIDE DEF w
  <2>3. CallOK("succeeded_event", w)
    BY <1>4, <2>1
  <2> QED
    BY <1>1, <2>2, <2>3, GoKeeps
<1>11. r.budgeted \in BOOLEAN /\ r.io + 1 = 1
  BY <1>1, <1>2 DEF CallRecords
<1>12. \/ Go(c, [r EXCEPT !.io = r.io + 1], IF r.budgeted THEN "unknown_ind" ELSE "unknown_event")
       \/ \E oversize \in {FALSE, r.budgeted} :
             \/ Go(c, [r EXCEPT !.io = r.io + 1, !.oversize = oversize, !.verdict = "failed"],
                   "settle")
             \/ Go(c, [r EXCEPT !.io = r.io + 1, !.oversize = oversize], "succeeded_event")
  BY DEF CallTool
<1> QED
  BY <1>8, <1>9, <1>10, <1>11, <1>12

\* An answer is recorded: the next step of the call knows what the state holds.
LEMMA OutcomeRecorded ==
    ASSUME NEW p \in Places \ {"parked"}, NEW r, CallOK(p, r), r.io = 1, r.done = {},
           ~r.led.terminal, NEW value \in {"succeeded", "failed", "unknown"},
           AppendAccepts(r.led, <<"downstream", value>>)
    PROVE  LET l == Apply(r.led, <<"downstream", value>>)
               w == WithLed(r, l)
           IN /\ CallOK("done", w) /\ w.done = {} /\ ~w.led.terminal /\ w.io = 1
              /\ w.budgeted = r.budgeted /\ w.res = r.res /\ w.verdict = r.verdict
              /\ w.led = l /\ SetsField(r.led, l, <<"downstream", value>>)
<1> DEFINE e == <<"downstream", value>>
           l == Apply(r.led, e)
           w == WithLed(r, l)
<1>1. r \in CallRecords /\ r.led \in LifecycleStates
  BY DEF CallOK, CallRecords
<1>2. CallOK("done", w)
  BY OutcomeEvent
<1>3. e[1] = "downstream" /\ e[2] = value
  OBVIOUS
<1> HIDE DEF e
<1>4. SetsField(r.led, l, e)
  BY <1>1, <1>3, Applied
<1>5. ~l.terminal
  BY <1>4 DEF SetsField
<1> HIDE DEF l
<1>6. /\ w.led = l /\ w.budgeted = r.budgeted /\ w.res = r.res /\ w.done = r.done
      /\ w.io = r.io /\ w.verdict = r.verdict
  BY <1>1, LedFields
<1> QED
  BY <1>2, <1>4, <1>5, <1>6 DEF w, l, e

\* failUnknownDownstream.
LEMMA FailUnknownKeeps ==
    ASSUME GatewayInv, NEW c \in Calls, FailUnknown(c)
    PROVE  GatewayInv'
<1> DEFINE r == call[c]
<1>1. pc[c] \in {"unknown_ind", "unknown_event", "unknown_only", "unknown_failure"}
  BY DEF FailUnknown
<1>2. /\ CallOK(pc[c], r) /\ r \in CallRecords /\ r.at \notin {"cleanup", "shutdown"}
      /\ r.done = {} /\ ~r.led.terminal /\ CallOK("done", r)
      /\ r.io = 1 /\ r.verdict = None
  BY <1>1, AtWork, Ends DEF CallOK, Counted, Beyond
<1>3. CASE pc[c] = "unknown_ind" /\ MarkIndeterminate(c, "unknown_event", "unknown_only")
  <2> DEFINE w == WithRes(r, "indeterminate")
  <2>1. CallOK("unknown_only", r)
    BY <1>2, Concludes
  <2>2. w.led = r.led /\ w.done = r.done /\ w.io = r.io /\ w.verdict = r.verdict
        /\ w.res = "indeterminate"
    BY <1>2, ResFields
  <2>3. CallOK("done", w) => CallOK("unknown_event", w) /\ CallOK("unknown_only", w)
    <3> HIDE DEF w
    <3> QED
      BY <1>2, <2>2, Concludes
  <2> QED
    BY <1>3, <2>1, <2>3, MarkIndeterminateKeeps
<1>4. CASE /\ pc[c] = "unknown_event"
           /\ Record(c, <<"downstream", "unknown">>,
                     IF r.budgeted THEN "ind_event" ELSE "unknown_failure", "done")
  <2> DEFINE q == IF r.budgeted THEN "ind_event" ELSE "unknown_failure"
             e == <<"downstream", "unknown">>
             w == WithLed(r, Apply(r.led, e))
  <2>1. r.budgeted => r.res = "indeterminate"
    BY <1>2, <1>4 DEF CallOK, Mirrored
  <2>2. ASSUME AppendAccepts(r.led, e)
        PROVE  CallOK("done", w) /\ CallOK(q, w)
    <3>1. /\ CallOK("done", w) /\ w.done = {} /\ ~w.led.terminal /\ w.io = 1
          /\ w.budgeted = r.budgeted /\ w.res = r.res /\ w.verdict = r.verdict
      <4>1. "unknown_event" \in Places \ {"parked"}
        BY DEF Places, Beyond
      <4>2. CallOK("unknown_event", r)
        BY <1>2, <1>4
      <4> QED
        BY <1>2, <2>2, <4>1, <4>2, OutcomeRecorded
    <3> HIDE DEF w
    <3> QED
      BY <1>2, <2>1, <3>1, Concludes
  <2> QED
    BY <1>2, <1>4, <2>2, RecordKeeps
<1>5. CASE pc[c] = "unknown_only" /\ Record(c, <<"downstream", "unknown">>, "done", "done")
  <2> DEFINE e == <<"downstream", "unknown">>
  <2>1. AppendAccepts(r.led, e) => CallOK("done", WithLed(r, Apply(r.led, e)))
    BY <1>2, <1>5, OutcomeEvent
  <2> QED
    BY <1>5, <2>1, LastRecordKeeps
<1>6. CASE /\ pc[c] = "unknown_failure"
           /\ Record(c, <<"failure", "dispatch_known">>, "done", "done")
  <2> DEFINE e == <<"failure", "dispatch_known">>
  <2>1. AppendAccepts(r.led, e) => CallOK("done", WithLed(r, Apply(r.led, e)))
    BY <1>2, <1>6, OutcomeEvent, Words
  <2> QED
    BY <1>6, <2>1, LastRecordKeeps
<1> QED
  BY <1>3, <1>4, <1>5, <1>6 DEF FailUnknown

\* The inspection is recorded of an answer the ledger knows of.
LEMMA Inspected ==
    ASSUME NEW r, CallOK("inspect", r), r.done = {},
           NEW d \in {"allow", "block", "require_approval"}
    PROVE  LET l == Apply(r.led, <<"inspection", d>>)
           IN /\ AppendAccepts(r.led, <<"inspection", d>>) => CallOK("done", WithLed(r, l))
              /\ SetsField(r.led, l, <<"inspection", d>>)
<1> DEFINE e == <<"inspection", d>>
<1>1. r.led \in LifecycleStates
  BY DEF CallOK, CallRecords
<1>2. e[1] = "inspection" /\ e[2] = d
  OBVIOUS
<1>3. "inspect" # "parked" /\ e[1] # "pre_decision"
  BY <1>2
<1> HIDE DEF e
<1>4. AppendAccepts(r.led, e) => CallOK("done", WithLed(r, Apply(r.led, e)))
  BY <1>2, <1>3, ProgressEvent
<1>5. SetsField(r.led, Apply(r.led, e), e)
  BY <1>1, <1>2, Applied
<1> QED
  BY <1>4, <1>5 DEF e

\* finishCall and inspectAndDeliver: the verdict follows the inspection.
LEMMA FinishCallKeeps ==
    ASSUME GatewayInv, NEW c \in Calls, FinishCall(c)
    PROVE  GatewayInv'
<1> DEFINE r == call[c]
<1>1. /\ pc[c] \in {"succeeded_event", "inspect"} /\ CallOK(pc[c], r) /\ r \in CallRecords
      /\ r.led \in LifecycleStates /\ r.at \notin {"cleanup", "shutdown"} /\ r.done = {}
      /\ ~r.led.terminal /\ CallOK("done", r)
  BY AtWork, Ends DEF FinishCall
<1>2. r.io = 1 /\ r.verdict = None
  BY <1>1 DEF CallOK, Counted, Beyond
<1>3. CASE /\ pc[c] = "succeeded_event"
           /\ Record(c, <<"downstream", "succeeded">>, "inspect", "done")
  <2> DEFINE e == <<"downstream", "succeeded">>
             l == Apply(r.led, e)
             w == WithLed(r, l)
  <2>1. Sent(r, None, None) /\ Uncharged(r)
    BY <1>1, <1>3 DEF CallOK, Recording, RecordingAfter
  <2>2. ASSUME AppendAccepts(r.led, e)
        PROVE  CallOK("inspect", w) /\ CallOK("done", w)
    <3>1. /\ CallOK("done", w) /\ w.done = {} /\ ~w.led.terminal /\ w.io = 1
          /\ w.budgeted = r.budgeted /\ w.res = r.res /\ w.verdict = r.verdict
          /\ w.led = l /\ SetsField(r.led, l, e)
      <4>1. "succeeded_event" \in Places \ {"parked"}
        BY DEF Places, Beyond
      <4>2. CallOK("succeeded_event", r)
        BY <1>1, <1>3
      <4> QED
        BY <1>1, <1>2, <2>2, <4>1, <4>2, OutcomeRecorded
    <3> HIDE DEF l
    <3>2. Sent(w, "succeeded", None) /\ Uncharged(w)
      BY <2>1, <3>1 DEF SetsField, Sent, Uncharged, Stage
    <3> HIDE DEF w, e
    <3>3. Counted("inspect", w) /\ Backed("inspect", w) /\ Asked("inspect", w)
          /\ Mirrored("inspect", w)
      BY <1>2, <3>1 DEF CallOK, Counted, Backed, Asked, Mirrored, Before, Beyond, Asking
    <3>4. Recording("inspect", w)
      BY <3>2 DEF Recording, RecordingBefore, RecordingAfter, RecordingAsk
    <3> QED
      BY <3>1, <3>3, <3>4, Moves DEF Places, Beyond
  <2> HIDE DEF w
  <2> QED
    BY <1>1, <1>3, <2>2, RecordKeeps DEF w
<1>4. ASSUME pc[c] = "inspect", NEW d \in {"allow", "block", "require_approval"},
             NEW o \in Outcomes, NEW q, NEW v,
             v = CASE d = "allow" -> "forwarded"
                   [] d = "block" -> "withheld"
                   [] OTHER -> None,
             q = IF o # "ok" \/ ~Recorded(c, <<"inspection", d>>, o) THEN "done"
                 ELSE IF d # "require_approval" THEN "settle"
                 ELSE IF Held THEN "postsweep" ELSE "post_issue",
             Go(c, [WithEvent(c, <<"inspection", d>>, o) EXCEPT !.verdict = v], q)
      PROVE  GatewayInv'
  <2> DEFINE e == <<"inspection", d>>
             l == Apply(r.led, e)
             w == WithEvent(c, e, o)
             u == [w EXCEPT !.verdict = v]
  <2>1. CallOK("inspect", r) /\ Sent(r, "succeeded", None) /\ Uncharged(r)
    BY <1>1, <1>4 DEF CallOK, Recording, RecordingAfter
  <2>2. /\ AppendAccepts(r.led, e) => CallOK("done", WithLed(r, l))
        /\ SetsField(r.led, l, e)
    BY <1>1, <2>1, Inspected
  <2>3. /\ CallOK("done", w) /\ w \in CallRecords
        /\ w.budgeted = r.budgeted /\ w.res = r.res
        /\ w.pre = r.pre /\ w.post = r.post /\ w.at = r.at /\ w.done = r.done
        /\ w.io = r.io /\ w.verdict = r.verdict
        /\ w.led = IF Recorded(c, e, o) THEN l ELSE r.led
    <3>1. "inspect" # "parked"
      OBVIOUS
    <3>2. AppendAccepts(r.led, e) => CallOK("done", WithLed(r, Apply(r.led, e)))
      BY <2>2
    <3> HIDE DEF e
    <3> QED
      BY <1>1, <2>1, <3>1, <3>2, WithEventKeeps
  <2>4. e[1] = "inspection" /\ e[2] = d
    OBVIOUS
  <2>5. Go(c, u, q)
    BY <1>4
  <2>6. q = "done" \/ (Recorded(c, e, o) /\ d # "require_approval" /\ q = "settle")
        \/ (Recorded(c, e, o) /\ d = "require_approval" /\ q \in {"postsweep", "post_issue"})
    BY <1>4
  <2> HIDE DEF e, l, w
  <2>7. ~w.led.terminal
    BY <1>1, <2>2, <2>3, <2>4 DEF SetsField
  <2>8. CallOK("settle", w)
    BY <1>1, <1>2, <2>3, <2>7, PlainAfter
  <2>9. CASE d # "require_approval"
    <3>1. v \in {"failed", "withheld", "forwarded"}
      BY <1>4, <2>9
    <3>2. CallOK("done", u) /\ CallOK("settle", u)
      BY <1>2, <2>3, <2>8, <3>1, VerdictKeeps
    <3> HIDE DEF u
    <3> QED
      BY <1>1, <2>5, <2>6, <2>9, <3>2, GoKeeps
  <2>10. CASE d = "require_approval"
    <3>1. u = w
      <4>1. v = None
        BY <1>4, <2>10
      <4> QED
        BY <1>2, <2>3, <4>1 DEF CallRecords
    <3>2. ASSUME Recorded(c, e, o), q \in {"postsweep", "post_issue"}
          PROVE  CallOK(q, w)
      <4>1. Sent(w, "succeeded", "require_approval") /\ Uncharged(w)
        <5>1. /\ w.led.accepted = r.led.accepted /\ w.led.decision = r.led.decision
              /\ w.led.pre = r.led.pre
              /\ w.led.dispatched = r.led.dispatched /\ w.led.outcome = r.led.outcome
              /\ w.led.stage = r.led.stage /\ w.led.postBudget = r.led.postBudget
              /\ w.led.post = r.led.post /\ w.led.inspection = "require_approval"
          BY <2>2, <2>3, <2>4, <2>10, <3>2 DEF SetsField
        <5>2. w.budgeted = r.budgeted
          BY <2>3
        <5> QED
          BY <2>1, <5>1, <5>2 DEF Sent, Uncharged, Stage
      <4>2. Counted(q, w) /\ Backed(q, w) /\ Asked(q, w) /\ Mirrored(q, w)
        BY <1>2, <2>3, <3>2 DEF CallOK, Counted, Backed, Asked, Mirrored, Before, Beyond, Asking
      <4>3. Recording(q, w)
        BY <3>2, <4>1 DEF Recording, RecordingBefore, RecordingAfter, RecordingAsk
      <4> QED
        BY <1>1, <2>3, <2>7, <3>2, <4>2, <4>3, Moves DEF Places, Beyond
    <3> HIDE DEF u
    <3> QED
      BY <1>1, <2>3, <2>5, <2>6, <2>10, <3>1, <3>2, GoKeeps
  <2> QED
    BY <2>9, <2>10
<1>5. CASE pc[c] = "inspect"
  BY <1>4, <1>5 DEF FinishCall
<1> QED
  BY <1>1, <1>3, <1>5 DEF FinishCall

\* What settles a call settles it whatever the client is answered.
LEMMA SettleKeeps ==
    ASSUME GatewayInv, NEW c \in Calls, Settle(c)
    PROVE  GatewayInv'
<1> DEFINE r == call[c]
<1>1. /\ pc[c] \in {"settle", "settle_failed"} /\ CallOK(pc[c], r) /\ r \in CallRecords
      /\ r.at \notin {"cleanup", "shutdown"} /\ r.done = {} /\ ~r.led.terminal
      /\ CallOK("done", r)
  BY AtWork, Ends DEF Settle
<1>2. r.io = 1
  BY <1>1 DEF CallOK, Counted, Beyond
<1>3. CASE /\ pc[c] = "settle" /\ ~r.budgeted
           /\ Step(c, IF r.verdict = "failed" THEN "failed_event" ELSE "delivery")
  <2>1. CallOK("failed_event", r) /\ CallOK("delivery", r)
    BY <1>1, <1>2, <1>3, Concludes
  <2> QED
    BY <1>1, <1>3, <2>1, GoKeeps DEF Step
<1>4. CASE /\ pc[c] = "settle" /\ r.budgeted
           /\ Durable(c, r.res = "dispatched" /\ NoPending(c), Settled(c),
                      AfterSettle(c), "settle_failed")
  <2> DEFINE w == Settled(c)
             status == IF r.oversize THEN "indeterminate" ELSE "settled"
             good == AfterSettle(c)
  <2>1. CallOK("settle_failed", r)
    BY <1>1, <1>2, PlainAfter
  <2>2. ASSUME r.res = "dispatched"
        PROVE  CallOK(good, w) /\ CallOK("settle_failed", w)
    <3>1. w = WithRes(r, status)
      BY DEF Settled, Becomes, WithRes
    <3>2. CallOK("done", w)
      BY <1>1, <1>4, <2>2, <3>1, Reservation
    <3>3. /\ w.res = status /\ w.led = r.led /\ w.done = r.done /\ w.io = r.io
          /\ w.verdict = r.verdict
      BY <1>1, <3>1, ResFields
    <3> HIDE DEF w
    <3>4. \/ good = "failed_event"
          \/ good = "ind_event" /\ r.oversize
          \/ good = "settle_event" /\ ~r.oversize
      BY DEF AfterSettle
    <3> HIDE DEF good
    <3>5. CallOK(good, w)
      BY <1>1, <1>2, <3>2, <3>3, <3>4, Concludes
    <3>6. CallOK("settle_failed", w)
      BY <1>1, <1>2, <3>2, <3>3, PlainAfter
    <3> QED
      BY <3>5, <3>6
  <2> HIDE DEF w, good
  <2> QED
    BY <1>1, <1>4, <2>1, <2>2, DurableKeeps DEF w, good
<1>5. ASSUME pc[c] = "settle_failed", NEW good \in {"failed_event", "ind_event"},
             NEW bad \in {"failed_only", "done"}, MarkIndeterminate(c, good, bad)
      PROVE  GatewayInv'
  <2> DEFINE w == WithRes(r, "indeterminate")
  <2>1. CallOK(bad, r)
    BY <1>1, <1>2, PlainAfter
  <2>2. w.led = r.led /\ w.done = r.done /\ w.io = r.io /\ w.verdict = r.verdict
        /\ w.res = "indeterminate"
    BY <1>1, ResFields
  <2>3. CallOK("done", w) => CallOK(good, w) /\ CallOK(bad, w)
    <3> HIDE DEF w
    <3>1. CallOK("done", w) => CallOK(good, w)
      BY <1>1, <1>2, <2>2, Concludes
    <3>2. CallOK("done", w) => CallOK(bad, w)
      BY <1>1, <1>2, <2>2, PlainAfter
    <3> QED
      BY <3>1, <3>2
  <2> QED
    BY <1>5, <2>1, <2>3, MarkIndeterminateKeeps
<1> QED
  BY <1>3, <1>4, <1>5 DEF Settle

\* The last records: each says what the action state was made to hold before.
LEMMA RecordResultKeeps ==
    ASSUME GatewayInv, NEW c \in Calls, RecordResult(c)
    PROVE  GatewayInv'
<1> DEFINE r == call[c]
<1>1. pc[c] \in {"failed_event", "failed_only", "settle_event", "ind_event", "delivery"}
  BY DEF RecordResult
<1>2. /\ CallOK(pc[c], r) /\ r \in CallRecords /\ r.led \in LifecycleStates
      /\ r.at \notin {"cleanup", "shutdown"} /\ r.done = {} /\ ~r.led.terminal
      /\ CallOK("done", r)
  BY <1>1, AtWork, Ends
<1>3. r.io = 1 /\ r.pre # "pending"
  BY <1>1, <1>2 DEF CallOK, Counted, Asked, Beyond
<1>4. CASE /\ pc[c] = "failed_event"
           /\ Record(c, <<"downstream", "failed">>,
                     CASE ~r.budgeted                           -> "done"
                       [] r.budgeted /\ r.res = "settled"       -> "settle_event"
                       [] OTHER                                 -> "ind_event", "done")
  <2> DEFINE q == CASE ~r.budgeted                           -> "done"
                    [] r.budgeted /\ r.res = "settled"       -> "settle_event"
                    [] OTHER                                 -> "ind_event"
             e == <<"downstream", "failed">>
             w == WithLed(r, Apply(r.led, e))
  <2>1. r.budgeted => r.res \in {"settled", "indeterminate"}
    BY <1>2, <1>4 DEF CallOK, Mirrored
  <2>2. \/ q = "done"
        \/ q = "settle_event" /\ r.res = "settled"
        \/ q = "ind_event" /\ r.res = "indeterminate"
    BY <2>1
  <2> HIDE DEF q
  <2>3. ASSUME AppendAccepts(r.led, e)
        PROVE  CallOK("done", w) /\ CallOK(q, w)
    <3>1. /\ CallOK("done", w) /\ w.done = {} /\ ~w.led.terminal /\ w.io = 1
          /\ w.budgeted = r.budgeted /\ w.res = r.res /\ w.verdict = r.verdict
      <4>1. "failed_event" \in Places \ {"parked"}
        BY DEF Places, Beyond
      <4>2. CallOK("failed_event", r)
        BY <1>2, <1>4
      <4> QED
        BY <1>2, <1>3, <2>3, <4>1, <4>2, OutcomeRecorded
    <3> HIDE DEF w
    <3> QED
      BY <2>2, <3>1, Concludes
  <2> QED
    BY <1>2, <1>4, <2>3, RecordKeeps DEF q
<1>5. CASE pc[c] = "failed_only" /\ Record(c, <<"downstream", "failed">>, "done", "done")
  <2> DEFINE e == <<"downstream", "failed">>
  <2>1. AppendAccepts(r.led, e) => CallOK("done", WithLed(r, Apply(r.led, e)))
    BY <1>2, <1>3, <1>5, OutcomeEvent
  <2> QED
    BY <1>5, <2>1, LastRecordKeeps
<1>6. CASE /\ pc[c] = "settle_event"
           /\ Record(c, <<"budget", Settlement(c)>>,
                     IF r.verdict = "failed" THEN "done" ELSE "delivery", "done")
  <2> DEFINE e == <<"budget", Settlement(c)>>
             l == Apply(r.led, e)
             w == WithLed(r, l)
  <2>1. r.res = "settled"
    BY <1>2, <1>6 DEF CallOK, Mirrored
  <2>2. e[1] = "budget" /\ e[2] \in {"settled", "settled_charged", "settled_returned"}
    BY DEF Settlement
  <2>3. "settle_event" # "parked"
    OBVIOUS
  <2>4. Record(c, e, IF r.verdict = "failed" THEN "done" ELSE "delivery", "done")
    BY <1>6
  <2> HIDE DEF e
  <2>5. ASSUME AppendAccepts(r.led, e)
        PROVE  CallOK("done", w) /\ CallOK("delivery", w)
    <3>1. CallOK("done", w)
      BY <1>2, <1>3, <1>6, <2>1, <2>2, <2>3, <2>5, BudgetEvent
    <3>2. SetsStage(r.led, l, e[2])
      BY <1>2, <2>2, BudgetApplied
    <3> HIDE DEF l
    <3>3. /\ w.led = l /\ w.budgeted = r.budgeted /\ w.res = r.res /\ w.done = r.done
          /\ w.io = r.io
      BY <1>2, LedFields
    <3> HIDE DEF w
    <3>4. ~w.led.terminal
      BY <1>2, <3>2, <3>3 DEF SetsStage
    <3> QED
      BY <1>2, <1>3, <2>1, <3>1, <3>3, <3>4, Concludes
  <2> QED
    BY <1>2, <1>6, <2>4, <2>5, RecordKeeps
<1>7. CASE pc[c] = "ind_event" /\ Record(c, <<"budget", "indeterminate">>, "done", "done")
  <2> DEFINE e == <<"budget", "indeterminate">>
  <2>1. r.res = "indeterminate"
    BY <1>2, <1>7 DEF CallOK, Mirrored
  <2>2. AppendAccepts(r.led, e) => CallOK("done", WithLed(r, Apply(r.led, e)))
    BY <1>2, <1>3, <1>7, <2>1, BudgetEvent
  <2> QED
    BY <1>7, <2>2, LastRecordKeeps
<1>8. CASE pc[c] = "delivery" /\ Record(c, <<"delivery", r.verdict>>, "done", "done")
  <2> DEFINE e == <<"delivery", r.verdict>>
  <2>1. r.budgeted => r.res = "settled"
    BY <1>2, <1>8 DEF CallOK, Mirrored
  <2>2. AppendAccepts(r.led, e) /\ r.verdict = "forwarded" => InspectionPermits(r.led)
    <3>1. e[1] = "delivery" /\ e[2] = r.verdict /\ ~r.led.missing
      BY <1>2 DEF CallOK, Closed
    <3> HIDE DEF e
    <3>2. AppendAccepts(r.led, e) => DeliveryAccepted(r.led, r.verdict)
      BY <3>1 DEF AppendAccepts, Accepts
    <3>3. r.verdict = "forwarded" /\ DeliveryAccepted(r.led, r.verdict) => InspectionPermits(r.led)
      BY <3>1 DEF DeliveryAccepted, InspectionPermits
    <3> QED
      BY <3>2, <3>3
  <2>3. InspectionPermits(r.led) =>
           /\ r.led.inspection # "block"
           /\ r.led.inspection = "require_approval" => r.post = "approved"
    BY <1>2 DEF InspectionPermits, CallOK, Mirrored
  <2>4. e[1] = "delivery"
    OBVIOUS
  <2>5. Record(c, e, "done", "done") /\ "delivery" # "parked"
    BY <1>8
  <2> HIDE DEF e
  <2>6. AppendAccepts(r.led, e) => CallOK("done", WithLed(r, Apply(r.led, e)))
    BY <1>2, <1>8, <2>1, <2>2, <2>3, <2>4, <2>5, OutcomeEvent DEF e
  <2> QED
    BY <1>8, <2>5, <2>6, LastRecordKeeps
<1> QED
  BY <1>4, <1>5, <1>6, <1>7, <1>8 DEF RecordResult

--------------------------------------------------------------------------------
\* transitionMu, expiry and the sweep

\* Nobody sweeps while transitionMu is free.
LEMMA Unlocked ==
    ASSUME GatewayInv, mu = Free
    PROVE  sweep.stage = "off" /\ \A c \in Calls : pc[c] # "sweeping"
<1>1. Free \notin Calls /\ Free # Worker /\ Free # Closer
  BY GatewayAssumption DEF Free, Worker, Closer
<1>2. sweep.stage = "off"
  BY <1>1 DEF GatewayInv, Wired
<1> QED
  BY <1>2 DEF GatewayInv, Wired

\* The resumed call is the one holder of transitionMu.
LEMMA TakeLockKeeps ==
    ASSUME GatewayInv, NEW c \in Calls, TakeLock(c)
    PROVE  GatewayInv'
<1> DEFINE r == call[c]
<1> PICK step \in {"finalize", "consume"} : pc' = [pc EXCEPT ![c] = step]
  BY DEF TakeLock
<1>1. /\ pc[c] = "taken" /\ mu = Free /\ mu' = c
      /\ call' = call /\ due' = due /\ sweep' = sweep
  BY DEF TakeLock
<1>2. sweep.stage = "off" /\ \A d \in Calls : pc[d] # "sweeping"
  BY <1>1, Unlocked
<1>3. /\ CallOK("taken", r) /\ r.done = {} /\ ~r.led.terminal /\ CallOK("done", r)
  BY <1>1, AtWork, Ends
<1>4. CallOK(step, r)
  <2>1. Waits(r) /\ Answer(r) \in {"pending", "refused"}
    BY <1>3 DEF CallOK, Recording, RecordingAsk, Asked
  <2>2. Counted(step, r) /\ Backed(step, r) /\ Asked(step, r) /\ Mirrored(step, r)
    BY <1>3, <2>1, Words DEF CallOK, Counted, Backed, Asked, Mirrored, Before, Beyond, Asking
  <2>3. Recording(step, r)
    BY <2>1 DEF Recording, RecordingBefore, RecordingAfter, RecordingAsk
  <2> QED
    BY <1>3, <2>2, <2>3, Moves DEF Places, Asking
<1>5. pc \in [Calls -> Places \cup {"sweeping"}] /\ step \in Places /\ step # "sweeping"
  BY DEF GatewayInv, Places, Asking
<1>6. \A d \in Calls : pc'[d] # "sweeping" /\ pc'[d] = IF d = c THEN step ELSE pc[d]
  BY <1>2, <1>5
<1>7. \A d \in Calls : CallOK(At(d)', call'[d])
  BY <1>1, <1>2, <1>4, <1>6 DEF GatewayInv, At
<1>8. Wired'
  BY <1>1, <1>2, <1>6 DEF GatewayInv, Wired
<1> QED
  BY <1>1, <1>5, <1>7, <1>8 DEF GatewayInv

\* A pass starts when nobody holds transitionMu, with items that are retained.
LEMMA SweepStarts ==
    ASSUME GatewayInv, WorkerSweep \/ \E c \in Calls : CallSweep(c)
    PROVE  GatewayInv'
<1> DEFINE items == Items({"cleanup"})
<1>1. mu = Free /\ call' = call /\ due' = due
  BY DEF WorkerSweep, CallSweep
<1>2. sweep.stage = "off" /\ \A d \in Calls : pc[d] # "sweeping"
  BY <1>1, Unlocked
<1>3. items \subseteq Calls /\ \A d \in items : call[d].at = "cleanup"
  BY DEF Items
<1> HIDE DEF items
<1>4. pc \in [Calls -> Places \cup {"sweeping"}]
  BY DEF GatewayInv
<1>5. CASE WorkerSweep
  <2>1. /\ mu' = Worker /\ pc' = pc
        /\ sweep' = [stage |-> "first", todo |-> items, failed |-> FALSE, back |-> None]
    BY <1>5 DEF WorkerSweep, Begin, items
  <2>2. Wired'
    BY <1>1, <1>2, <1>3, <2>1 DEF GatewayInv, Wired
  <2>3. \A d \in Calls : CallOK(At(d)', call'[d])
    BY <1>1, <1>2, <2>1 DEF GatewayInv, At
  <2> QED
    BY <1>1, <2>1, <2>2, <2>3 DEF GatewayInv
<1>6. ASSUME NEW c \in Calls, CallSweep(c)
      PROVE  GatewayInv'
  <2>1. /\ mu' = c /\ pc' = [pc EXCEPT ![c] = "sweeping"]
        /\ pc[c] \in {"presweep", "asksweep", "postsweep"}
        /\ sweep' = [stage |-> "first", todo |-> items, failed |-> FALSE, back |-> pc[c]]
    BY <1>6 DEF CallSweep, Begin, items
  <2>2. \A d \in Calls : pc'[d] = IF d = c THEN "sweeping" ELSE pc[d]
    BY <1>4, <2>1
  <2>3. Wired'
    <3>1. pc[c] # None
      BY <2>1, Words
    <3> QED
      BY <1>1, <1>2, <1>3, <2>1, <2>2, <3>1 DEF GatewayInv, Wired
  <2>4. \A d \in Calls : CallOK(At(d)', call'[d])
    BY <1>1, <1>2, <2>1, <2>2 DEF GatewayInv, At
  <2>5. pc' \in [Calls -> Places \cup {"sweeping"}]
    BY <1>4, <2>1
  <2> QED
    BY <1>1, <2>3, <2>4, <2>5 DEF GatewayInv
<1> QED
  BY <1>5, <1>6

\* Another process decides the approval: this call is told when it asks.
LEMMA ExpiryKeeps ==
    ASSUME GatewayInv, NEW c \in Calls, Expire(c) \/ ExpireElsewhere(c)
    PROVE  GatewayInv'
<1>1. CASE Expire(c)
  BY <1>1 DEF Expire, GatewayInv, Wired, At
<1>2. CASE ExpireElsewhere(c)
  <2> DEFINE x == Refused(c)
             w == [x EXCEPT !.elsewhere = TRUE]
  <2>1. /\ Approval(c) = "pending" /\ call' = [call EXCEPT ![c] = w]
        /\ pc' = pc /\ due' = due /\ mu' = mu /\ sweep' = sweep
    BY <1>2 DEF ExpireElsewhere
  <2>2. CallOK(At(c), call[c]) /\ call[c] \in CallRecords /\ call \in [Calls -> CallRecords]
    BY DEF GatewayInv
  <2>3. CallOK(At(c), x) /\ x \in CallRecords /\ x.at = call[c].at
    BY <2>1, <2>2, RefusedKeeps, RefusedFields
  <2> HIDE DEF x
  <2>4. /\ w \in CallRecords
        /\ w.budgeted = x.budgeted /\ w.oversize = x.oversize /\ w.res = x.res
        /\ w.pre = x.pre /\ w.post = x.post /\ w.led = x.led /\ w.at = x.at
        /\ w.done = x.done /\ w.io = x.io /\ w.verdict = x.verdict /\ (x.lost => w.lost)
    BY <2>3 DEF CallRecords
  <2> HIDE DEF w
  <2>5. CallOK(At(c), w) /\ w.at = call[c].at
    BY <2>3, <2>4, Unobserved
  <2>6. \A d \in Calls : call'[d] = IF d = c THEN w ELSE call[d]
    BY <2>1, <2>2
  <2>7. \A d \in Calls : CallOK(At(d)', call'[d])
    BY <2>1, <2>5, <2>6 DEF GatewayInv, At
  <2>8. Wired'
    BY <2>1, <2>5, <2>6 DEF GatewayInv, Wired
  <2>9. call' \in [Calls -> CallRecords]
    BY <2>1, <2>2, <2>4
  <2> QED
    BY <2>1, <2>7, <2>8, <2>9 DEF GatewayInv
<1> QED
  BY <1>1, <1>2

--------------------------------------------------------------------------------
\* What the gateway retains

\* A record that is retained no more has ended.
LEMMA Retires ==
    ASSUME NEW r, CallOK("parked", r)
    PROVE  LET x == [r EXCEPT !.at = None] IN
           /\ CallOK("done", x) /\ x \in CallRecords
           /\ x.budgeted = r.budgeted /\ x.oversize = r.oversize /\ x.res = r.res
           /\ x.pre = r.pre /\ x.post = r.post /\ x.led = r.led /\ x.done = r.done
           /\ x.io = r.io /\ x.verdict = r.verdict /\ x.lost = r.lost /\ x.at = None
<1> DEFINE x == [r EXCEPT !.at = None]
<1>1. /\ x \in CallRecords
      /\ x.budgeted = r.budgeted /\ x.oversize = r.oversize /\ x.res = r.res
      /\ x.pre = r.pre /\ x.post = r.post /\ x.led = r.led /\ x.done = r.done
      /\ x.io = r.io /\ x.verdict = r.verdict /\ x.lost = r.lost /\ x.at = None
  BY DEF CallOK, CallRecords
<1> HIDE DEF x
<1>2. Counted("done", x) /\ Backed("done", x) /\ Asked("done", x) /\ Mirrored("done", x)
  BY <1>1 DEF CallOK, Counted, Backed, Cleared, Asked, Mirrored, Before, Beyond, Asking
<1>3. Closed("done", x) /\ Retained("done", x)
  BY <1>1 DEF CallOK, Closed, Retained
<1>4. Recording("done", x)
  BY DEF Recording, RecordingBefore, RecordingAfter, RecordingAsk
<1> QED
  BY <1>1, <1>2, <1>3, <1>4 DEF CallOK, Places, Ended, x

\* What is left to show of a record that stays retained for its cleanup.
LEMMA Cleans ==
    ASSUME NEW x, CallOK("done", x), NEW w \in CallRecords,
           w.budgeted = x.budgeted, w.oversize = x.oversize, w.res = x.res,
           w.pre = x.pre, w.post = x.post, w.led = x.led, w.io = x.io,
           w.verdict = x.verdict, x.verdict = None, x.io = 1 <=> x.led.outcome # None,
           Answer(w) \in {"pending", "refused"},
           w.at \in {"cleanup", "shutdown"}, Retained("parked", w), RecordingAsk("parked", w)
    PROVE  CallOK("parked", w)
<1>1. Counted("parked", w) /\ Backed("parked", w) /\ Asked("parked", w) /\ Mirrored("parked", w)
  BY DEF CallOK, Counted, Backed, Cleared, Asked, Mirrored, Before, Beyond, Asking
<1>2. Closed("parked", w)
  BY DEF CallOK, Closed
<1>3. Recording("parked", w)
  BY DEF Recording, RecordingBefore, RecordingAfter
<1> QED
  BY <1>1, <1>2, <1>3 DEF CallOK, Places, Asking

\* What a sweep or a shutdown begins with of a record that waits for its client.
LEMMA Claims ==
    ASSUME NEW r, CallOK("parked", r), r.at = "pending", NEW w \in CallRecords,
           w.budgeted = r.budgeted, w.oversize = r.oversize, w.res = r.res,
           w.pre = r.pre, w.post = r.post, w.led = r.led, w.io = r.io, w.verdict = r.verdict,
           w.at \in {"cleanup", "shutdown"},
           w.done = {} \/ (w.done = {"finalized"} /\ Answer(r) = "refused")
    PROVE  CallOK("parked", w)
<1>1. /\ r.done = {} /\ Waits(r) /\ r.verdict = None /\ (r.io = 1 <=> r.led.outcome # None)
      /\ Answer(r) \in {"pending", "refused"}
  BY DEF CallOK, Retained, Recording, RecordingAsk, Counted, Asked, Asking
<1>2. Answer(w) = Answer(r)
  BY DEF Answer
<1>3. Waits(w)
  BY <1>1 DEF Waits, WaitsBefore, WaitsAfter, Judged, Unsent, Sent, Stage
<1>4. RecordingAsk("parked", w)
  BY <1>3 DEF RecordingAsk
<1>5. Retained("parked", w)
  BY <1>2, Words DEF Retained
<1> DEFINE x == [r EXCEPT !.at = None]
<1>6. /\ CallOK("done", x)
      /\ x.budgeted = r.budgeted /\ x.oversize = r.oversize /\ x.res = r.res
      /\ x.pre = r.pre /\ x.post = r.post /\ x.led = r.led
      /\ x.io = r.io /\ x.verdict = r.verdict
  BY Retires
<1> HIDE DEF x
<1> QED
  BY <1>1, <1>2, <1>4, <1>5, <1>6, Cleans

\* One operation on a retained record.
LEMMA ItemKeeps ==
    ASSUME GatewayInv, NEW c \in sweep.todo, NEW w, NEW good, Item(c, w, good),
           CallOK("parked", w), w.at = call[c].at
    PROVE  GatewayInv'
<1>1. /\ call' = [call EXCEPT ![c] = w] /\ pc' = pc /\ due' = due /\ mu' = mu
      /\ sweep' = IF good THEN sweep ELSE [sweep EXCEPT !.todo = @ \ {c}, !.failed = TRUE]
  BY DEF Item
<1>2. c \in Calls /\ call[c].at \in {"cleanup", "shutdown"}
  BY DEF GatewayInv, Wired
<1>3. At(c) = "parked"
  BY <1>2, Words DEF GatewayInv, CallOK, Retained
<1>4. w \in CallRecords
  BY DEF CallOK
<1>5. call \in [Calls -> CallRecords]
  BY DEF GatewayInv
<1>6. /\ call' \in [Calls -> CallRecords]
      /\ \A d \in Calls : call'[d] = IF d = c THEN w ELSE call[d]
  BY <1>1, <1>2, <1>4, <1>5
<1>7. /\ sweep'.stage = sweep.stage /\ sweep'.back = sweep.back /\ sweep'.todo \subseteq sweep.todo
      /\ sweep' \in [stage : {"off", "first", "second", "shutdown"}, todo : SUBSET Calls,
                     failed : BOOLEAN, back : {None, "presweep", "asksweep", "postsweep"}]
  <2>1. sweep \in [stage : {"off", "first", "second", "shutdown"}, todo : SUBSET Calls,
                   failed : BOOLEAN, back : {None, "presweep", "asksweep", "postsweep"}]
    BY DEF GatewayInv, Wired
  <2>2. CASE good
    BY <1>1, <2>1, <2>2
  <2>3. CASE ~good
    BY <1>1, <2>1, <2>3
  <2> QED
    BY <2>2, <2>3
<1>8. \A d \in Calls : CallOK(At(d)', call'[d])
  <2>1. \A d \in Calls : At(d)' = At(d)
    BY <1>1, <1>7 DEF At
  <2> QED
    BY <1>3, <1>6, <2>1 DEF GatewayInv
<1>9. Wired'
  <2>1. \A d \in sweep'.todo : call'[d].at \in {"cleanup", "shutdown"}
    BY <1>2, <1>6, <1>7 DEF GatewayInv, Wired
  <2> QED
    BY <1>1, <1>7, <2>1 DEF GatewayInv, Wired
<1> QED
  BY <1>1, <1>6, <1>8, <1>9 DEF GatewayInv

\* A record whose cleanup goes on.
LEMMA AtCleanup ==
    ASSUME GatewayInv, NEW c \in sweep.todo
    PROVE  /\ c \in Calls /\ pc[c] = "parked" /\ CallOK("parked", call[c])
           /\ call[c] \in CallRecords /\ call[c].led \in LifecycleStates
           /\ call[c].at \in {"cleanup", "shutdown"} /\ call[c].verdict = None
           /\ (call[c].io = 1 <=> call[c].led.outcome # None)
           /\ Answer(call[c]) \in {"pending", "refused"}
<1>1. c \in Calls /\ call[c].at \in {"cleanup", "shutdown"}
  BY DEF GatewayInv, Wired
<1>2. At(c) = "parked"
  BY <1>1, Words DEF GatewayInv, CallOK, Retained
<1>3. pc[c] = "parked"
  <2>1. pc[c] # "sweeping"
    <3> SUFFICES ASSUME pc[c] = "sweeping" PROVE FALSE
      OBVIOUS
    <3>1. sweep.back \in {"presweep", "asksweep", "postsweep"}
      BY <1>1 DEF GatewayInv, Wired
    <3> QED
      BY <1>2, <3>1 DEF At
  <2> QED
    BY <1>2, <2>1 DEF At
<1>4. CallOK("parked", call[c])
  BY <1>1, <1>2 DEF GatewayInv
<1> QED
  BY <1>1, <1>3, <1>4 DEF CallOK, CallRecords, Counted, Asked, Asking

\* The record of the item, its place marked or not.
Marked(r, mark) == [r EXCEPT !.done = @ \cup {mark}]

\* A finished part of the cleanup changes the list of those parts only.
LEMMA MarkedFields ==
    ASSUME NEW r \in CallRecords,
           NEW mark \in {"finalized", "approval", "settled", "budget", "delivery"}
    PROVE  LET w == Marked(r, mark) IN
           /\ w \in CallRecords /\ w.done = r.done \cup {mark}
           /\ w.budgeted = r.budgeted /\ w.oversize = r.oversize /\ w.res = r.res
           /\ w.pre = r.pre /\ w.post = r.post /\ w.led = r.led /\ w.at = r.at
           /\ w.io = r.io /\ w.verdict = r.verdict /\ w.lost = r.lost
  BY DEF Marked, CallRecords

\* That an operation was lost is noted and changes nothing else.
LEMMA LostFields ==
    ASSUME NEW p, NEW r, CallOK(p, r)
    PROVE  LET w == [r EXCEPT !.lost = TRUE] IN
           CallOK(p, w) /\ w.at = r.at
<1> DEFINE w == [r EXCEPT !.lost = TRUE]
<1>1. /\ r \in CallRecords /\ w \in CallRecords
      /\ w.budgeted = r.budgeted /\ w.oversize = r.oversize /\ w.res = r.res
      /\ w.pre = r.pre /\ w.post = r.post /\ w.led = r.led /\ w.at = r.at
      /\ w.done = r.done /\ w.io = r.io /\ w.verdict = r.verdict /\ (r.lost => w.lost)
  BY DEF CallOK, CallRecords
<1> HIDE DEF w
<1> QED
  BY <1>1, Unobserved DEF w

\* An operation of the cleanup on the action state, with its outcomes.
LEMMA ItemStateKeeps ==
    ASSUME GatewayInv, NEW c \in sweep.todo, NEW enabled, NEW r, NEW mark,
           ItemState(c, enabled, r, mark),
           enabled => /\ CallOK("parked", r) /\ r.at = call[c].at
                      /\ CallOK("parked", Marked(r, mark)) /\ Marked(r, mark).at = call[c].at
    PROVE  GatewayInv'
<1> PICK o \in Outcomes :
       Item(c, IF ~enabled \/ o = "fail" THEN call[c]
               ELSE IF o = "lost" THEN [r EXCEPT !.lost = TRUE]
               ELSE [r EXCEPT !.done = @ \cup {mark}],
            enabled /\ o = "ok")
  BY DEF ItemState
<1>1. CallOK("parked", call[c])
  BY AtCleanup
<1>2. CASE ~enabled \/ o = "fail"
  <2>1. Item(c, call[c], enabled /\ o = "ok")
    BY <1>2
  <2> QED
    BY <1>1, <2>1, ItemKeeps
<1>3. CASE enabled /\ o = "lost"
  <2>1. Item(c, [r EXCEPT !.lost = TRUE], enabled /\ o = "ok")
    BY <1>3
  <2>2. CallOK("parked", [r EXCEPT !.lost = TRUE]) /\ [r EXCEPT !.lost = TRUE].at = call[c].at
    BY <1>3, LostFields
  <2> QED
    BY <2>1, <2>2, ItemKeeps
<1>4. CASE enabled /\ o = "ok"
  <2>1. Item(c, Marked(r, mark), enabled /\ o = "ok")
    BY <1>4 DEF Marked
  <2> QED
    BY <1>4, <2>1, ItemKeeps
<1> QED
  BY <1>2, <1>3, <1>4 DEF Outcomes

\* finalizePending: the approval is no longer open, or the pass is told so.
LEMMA FinalizeItem ==
    ASSUME GatewayInv, NEW c \in sweep.todo, "finalized" \notin call[c].done,
           ItemState(c, TRUE, Finalized(c), "finalized")
    PROVE  GatewayInv'
<1> DEFINE r == call[c]
           x == Finalized(c)
           w == Marked(x, "finalized")
<1>1. /\ c \in Calls /\ CallOK("parked", r) /\ r \in CallRecords
      /\ Answer(r) \in {"pending", "refused"} /\ r.at \in {"cleanup", "shutdown"}
      /\ r.verdict = None /\ (r.io = 1 <=> r.led.outcome # None)
  BY AtCleanup
<1>2. CallOK("parked", x) /\ Answer(x) = "refused"
  <2>1. Answer(r) = Approval(c)
    BY DEF Answer, Approval, Phase
  <2> QED
    BY <1>1, <2>1, FinalizedKeeps
<1>3. /\ x \in CallRecords /\ x.at = r.at /\ x.led = r.led /\ x.io = r.io /\ x.done = r.done
      /\ x.verdict = r.verdict
  BY <1>1, RefusedFields DEF Finalized
<1> HIDE DEF x
<1>4. /\ w \in CallRecords /\ w.done = x.done \cup {"finalized"}
      /\ w.budgeted = x.budgeted /\ w.oversize = x.oversize /\ w.res = x.res
      /\ w.pre = x.pre /\ w.post = x.post /\ w.led = x.led /\ w.at = x.at
      /\ w.io = x.io /\ w.verdict = x.verdict /\ w.lost = x.lost
  BY <1>3, MarkedFields
<1> HIDE DEF w
<1>5. Answer(w) = "refused"
  BY <1>2, <1>4 DEF Answer
<1>6. Retained("parked", w)
  BY <1>1, <1>2, <1>3, <1>4, <1>5, Words DEF CallOK, Retained
<1>7. RecordingAsk("parked", w)
  <2>1. Waits(w) <=> Waits(x)
    BY <1>4 DEF Waits, WaitsBefore, WaitsAfter, Judged, Unsent, Sent, Stage
  <2> QED
    BY <1>2, <1>4, <2>1 DEF CallOK, Recording, RecordingAsk
<1> DEFINE y == [x EXCEPT !.at = None]
<1>8. /\ CallOK("done", y)
      /\ y.budgeted = x.budgeted /\ y.oversize = x.oversize /\ y.res = x.res
      /\ y.pre = x.pre /\ y.post = x.post /\ y.led = x.led
      /\ y.io = x.io /\ y.verdict = x.verdict
  BY <1>2, Retires
<1> HIDE DEF y
<1>9. CallOK("parked", w)
  BY <1>1, <1>3, <1>4, <1>5, <1>6, <1>7, <1>8, Cleans
<1> QED
  BY <1>2, <1>3, <1>4, <1>9, ItemStateKeeps DEF w, x

\* The settlement of a result that is withheld.
LEMMA SettleItem ==
    ASSUME GatewayInv, NEW c \in sweep.todo, "finalized" \in call[c].done, OwesSettlement(c),
           ItemState(c, call[c].res = "dispatched" /\ NoPending(c), Settled(c), "settled")
    PROVE  GatewayInv'
<1> DEFINE r == call[c]
           status == IF r.oversize THEN "indeterminate" ELSE "settled"
           x == WithRes(r, status)
           w == Marked(x, "settled")
<1>1. /\ c \in Calls /\ CallOK("parked", r) /\ r \in CallRecords
      /\ Answer(r) \in {"pending", "refused"} /\ r.at \in {"cleanup", "shutdown"}
      /\ r.verdict = None /\ (r.io = 1 <=> r.led.outcome # None)
  BY AtCleanup
<1>2. Settled(c) = x
  BY DEF Settled, Becomes, WithRes
<1>3. "approval" \in r.done /\ Answer(r) = "refused"
  BY <1>1 DEF OwesSettlement, CallOK, Retained
<1>4. ASSUME r.res = "dispatched"
      PROVE  /\ CallOK("parked", x) /\ x.at = r.at
             /\ CallOK("parked", w) /\ w.at = r.at
  <2>1. /\ x \in CallRecords /\ x.res = status
        /\ x.budgeted = r.budgeted /\ x.oversize = r.oversize /\ x.led = r.led
        /\ x.pre = r.pre /\ x.post = r.post /\ x.at = r.at /\ x.done = r.done
        /\ x.io = r.io /\ x.verdict = r.verdict /\ x.lost = r.lost
    BY <1>1, ResFields
  <2>2. status \in {"settled", "indeterminate"}
    OBVIOUS
  <2> HIDE DEF x
  <2>3. CallOK("parked", x)
    <3> HIDE DEF status
    <3>1. Counted("parked", x) /\ Backed("parked", x) /\ Asked("parked", x)
          /\ Mirrored("parked", x)
      BY <1>1, <1>4, <2>1, <2>2 DEF CallOK, Counted, Backed, Cleared, Asked, Answer, Mirrored,
                                    Before, Beyond, Asking, Committed
    <3>2. Closed("parked", x)
      BY <1>1, <2>1, Words DEF CallOK, Closed
    <3>3. Retained("parked", x)
      BY <1>1, <2>1 DEF CallOK, Retained, Answer, status
    <3>4. Waits(x) <=> Waits(r)
      BY <2>1 DEF Waits, WaitsBefore, WaitsAfter, Judged, Unsent, Sent, Stage
    <3>5. Recording("parked", x)
      BY <1>1, <2>1, <3>4 DEF CallOK, Recording, RecordingBefore, RecordingAfter, RecordingAsk
    <3> QED
      BY <2>1, <3>1, <3>2, <3>3, <3>5 DEF CallOK, Places, Asking
  <2>4. /\ w \in CallRecords /\ w.done = x.done \cup {"settled"}
        /\ w.budgeted = x.budgeted /\ w.oversize = x.oversize /\ w.res = x.res
        /\ w.pre = x.pre /\ w.post = x.post /\ w.led = x.led /\ w.at = x.at
        /\ w.io = x.io /\ w.verdict = x.verdict /\ w.lost = x.lost
    BY <2>1, MarkedFields
  <2> HIDE DEF w
  <2>5. Answer(w) = Answer(r)
    BY <2>1, <2>4 DEF Answer
  <2>6. Retained("parked", w)
    BY <1>1, <1>3, <2>1, <2>4, <2>5, Words DEF CallOK, Retained
  <2>7. RecordingAsk("parked", w)
    <3>1. Waits(w) <=> Waits(x)
      BY <2>4 DEF Waits, WaitsBefore, WaitsAfter, Judged, Unsent, Sent, Stage
    <3> QED
      BY <2>3, <2>4, <3>1 DEF CallOK, Recording, RecordingAsk
  <2> DEFINE y == [x EXCEPT !.at = None]
  <2>8. /\ CallOK("done", y)
        /\ y.budgeted = x.budgeted /\ y.oversize = x.oversize /\ y.res = x.res
        /\ y.pre = x.pre /\ y.post = x.post /\ y.led = x.led
        /\ y.io = x.io /\ y.verdict = x.verdict
    BY <2>3, Retires
  <2> HIDE DEF y
  <2>9. CallOK("parked", w)
    BY <1>1, <2>1, <2>4, <2>5, <2>6, <2>7, <2>8, Cleans
  <2> QED
    BY <2>1, <2>3, <2>4, <2>9
<1> HIDE DEF x
<1> QED
  BY <1>2, <1>4, ItemStateKeeps DEF w

\* The item is complete, and released.
LEMMA ReleaseItem ==
    ASSUME GatewayInv, NEW c \in sweep.todo,
           call' = [call EXCEPT ![c].at = None], pc' = [pc EXCEPT ![c] = "done"],
           sweep' = [sweep EXCEPT !.todo = @ \ {c}], UNCHANGED <<due, mu>>
    PROVE  GatewayInv'
<1> DEFINE w == [call[c] EXCEPT !.at = None]
<1>1. c \in Calls /\ pc[c] = "parked" /\ CallOK("parked", call[c])
  BY AtCleanup
<1>2. CallOK("done", w) /\ w \in CallRecords
  BY <1>1, Retires
<1>3. pc \in [Calls -> Places \cup {"sweeping"}] /\ call \in [Calls -> CallRecords]
  BY DEF GatewayInv
<1>4. /\ call' \in [Calls -> CallRecords]
      /\ \A d \in Calls : call'[d] = IF d = c THEN w ELSE call[d]
  BY <1>1, <1>2, <1>3
<1> HIDE DEF w
<1>5. /\ pc' \in [Calls -> Places \cup {"sweeping"}]
      /\ \A d \in Calls : pc'[d] = IF d = c THEN "done" ELSE pc[d]
  BY <1>1, <1>3 DEF Places, Ended
<1>6. /\ sweep'.stage = sweep.stage /\ sweep'.back = sweep.back /\ sweep'.todo = sweep.todo \ {c}
      /\ sweep' \in [stage : {"off", "first", "second", "shutdown"}, todo : SUBSET Calls,
                     failed : BOOLEAN, back : {None, "presweep", "asksweep", "postsweep"}]
  BY DEF GatewayInv, Wired
<1>7. \A d \in Calls : CallOK(At(d)', call'[d])
  BY <1>2, <1>4, <1>5, <1>6 DEF GatewayInv, At
<1>8. Wired'
  <2>1. mu # c \/ sweep.stage = "off"
    BY <1>1, GatewayAssumption DEF GatewayInv, Wired
  <2>2. sweep'.stage # "off" =>
           mu' \in {Worker, Closer} \/ (mu' \in Calls /\ pc'[mu'] = "sweeping")
    BY <1>5, <1>6, <2>1 DEF GatewayInv, Wired
  <2>3. \A d \in Calls : pc'[d] = "sweeping" =>
           mu' = d /\ sweep'.stage # "off" /\ sweep'.back # None
    BY <1>5, <1>6 DEF GatewayInv, Wired
  <2>4. \A d \in sweep'.todo : call'[d].at \in {"cleanup", "shutdown"}
    BY <1>4, <1>6 DEF GatewayInv, Wired
  <2> QED
    BY <1>6, <2>2, <2>3, <2>4 DEF GatewayInv, Wired
<1> QED
  BY <1>4, <1>5, <1>7, <1>8 DEF GatewayInv

\* What an item owes, and what the action state holds of it then: the decision
\* against the approval; the denial of its reservation; the settlement of a
\* result that is withheld; the record that it is.
OwesApproval(c, e) ==
    /\ call[c].done \cap {"approval", "settled", "budget", "delivery"} = {}
    /\ e[1] = Phase(c) /\ e[2] = "refused" /\ Mark(e) = "approval"

OwesDenial(c, e) ==
    /\ "approval" \in call[c].done /\ "budget" \notin call[c].done
    /\ call[c].led.outcome = None /\ call[c].budgeted
    /\ e[1] = "budget" /\ e[2] = "denied" /\ Mark(e) = "budget"
    /\ call[c].res = "denied"

OwesBudget(c, e) ==
    /\ "approval" \in call[c].done /\ "budget" \notin call[c].done
    /\ "delivery" \notin call[c].done
    /\ call[c].led.outcome # None /\ call[c].budgeted
    /\ e[1] = "budget" /\ Mark(e) = "budget"
    /\ IF call[c].oversize THEN e[2] = "indeterminate" /\ call[c].res = "indeterminate"
       ELSE /\ e[2] = IF call[c].led.postBudget THEN "settled_returned" ELSE "settled"
            /\ call[c].res = "settled"

OwesDelivery(c, e) ==
    /\ "approval" \in call[c].done /\ "delivery" \notin call[c].done
    /\ call[c].led.outcome # None
    /\ ~call[c].budgeted \/ "budget" \in call[c].done
    /\ e[1] = "delivery" /\ e[2] = "withheld" /\ Mark(e) = "delivery"

\* What an item owes is one of those four, and its approval is refused.
LEMMA OwedIs ==
    ASSUME NEW c \in Calls, CallOK("parked", call[c]), "finalized" \in call[c].done,
           ~OwesSettlement(c), ~ItemComplete(c)
    PROVE  LET e == Owed(c) IN
           /\ OwesApproval(c, e) \/ OwesDenial(c, e) \/ OwesBudget(c, e) \/ OwesDelivery(c, e)
           /\ Answer(call[c]) = "refused"
           /\ Mark(e) \in {"finalized", "approval", "settled", "budget", "delivery"}
<1> DEFINE r == call[c]
<1>1. /\ r \in CallRecords /\ r.verdict = None /\ Retained("parked", r) /\ Asked("parked", r)
      /\ r.led.missing = FALSE
  BY DEF CallOK, Counted, Asking, Closed, CallRecords, LifecycleStates
<1>2. Answer(r) = "refused" /\ Approval(c) = "refused"
  <2>1. Answer(r) = Approval(c)
    BY DEF Answer, Approval, Phase
  <2> QED
    BY <1>1, <2>1 DEF Retained
<1>3. CASE "approval" \notin r.done
  <2> DEFINE e == Owed(c)
  <2>1. e = <<Phase(c), "refused">>
    BY <1>2, <1>3 DEF Owed
  <2>2. r.done \cap {"approval", "settled", "budget", "delivery"} = {}
    BY <1>1, <1>3 DEF Retained
  <2> HIDE DEF e
  <2>3. e[1] = Phase(c) /\ e[2] = "refused" /\ Mark(e) = "approval"
    BY <2>1 DEF Mark, Phase
  <2> QED
    BY <1>2, <2>2, <2>3 DEF OwesApproval, e
<1>4. CASE "approval" \in r.done /\ r.led.outcome = None
  <2> DEFINE e == Owed(c)
  <2>1. Phase(c) = "pre_approval"
    BY <1>4 DEF Phase
  <2>2. e = <<"budget", "denied">>
    BY <1>4, <2>1 DEF Owed
  <2>3. r.budgeted /\ "budget" \notin r.done
    BY <1>4, <2>1 DEF ItemComplete
  <2>4. r.res = "denied"
    BY <1>1, <1>2, <1>4, <2>3 DEF Answer, Asked
  <2> HIDE DEF e
  <2>5. e[1] = "budget" /\ e[2] = "denied" /\ Mark(e) = "budget"
    BY <2>2 DEF Mark
  <2> QED
    BY <1>2, <1>4, <2>3, <2>4, <2>5 DEF OwesDenial, e
<1>5. CASE "approval" \in r.done /\ r.led.outcome # None
  <2> DEFINE e == Owed(c)
  <2>1. Phase(c) = "post_approval" /\ Phase(c) # "pre_approval" /\ "delivery" \notin r.done
    BY <1>5 DEF Phase, ItemComplete
  <2>2. CASE r.budgeted /\ "budget" \notin r.done
    <3>1. "settled" \in r.done
      BY <1>5, <2>1, <2>2 DEF OwesSettlement
    <3>2. r.res = IF r.oversize THEN "indeterminate" ELSE "settled"
      BY <1>1, <3>1 DEF Retained
    <3>3. e = <<"budget", IF r.oversize THEN "indeterminate" ELSE Settlement(c)>>
      BY <1>5, <2>1, <2>2 DEF Owed
    <3>4. Settlement(c) = IF r.led.postBudget THEN "settled_returned" ELSE "settled"
      BY <1>1, Words DEF Settlement
    <3> HIDE DEF e
    <3>5. e[1] = "budget" /\ Mark(e) = "budget"
          /\ e[2] = IF r.oversize THEN "indeterminate"
                    ELSE IF r.led.postBudget THEN "settled_returned" ELSE "settled"
      BY <3>3, <3>4 DEF Mark
    <3> QED
      BY <1>2, <1>5, <2>1, <2>2, <3>2, <3>5 DEF OwesBudget, e
  <2>3. CASE ~(r.budgeted /\ "budget" \notin r.done)
    <3>1. e = <<"delivery", "withheld">>
      BY <1>5, <2>1, <2>3 DEF Owed
    <3> HIDE DEF e
    <3>2. e[1] = "delivery" /\ e[2] = "withheld" /\ Mark(e) = "delivery"
      BY <3>1 DEF Mark
    <3> QED
      BY <1>2, <1>5, <2>1, <2>3, <3>2 DEF OwesDelivery, e
  <2> QED
    BY <2>2, <2>3
<1> QED
  BY <1>3, <1>4, <1>5

\* What is owed is true when it is recorded.
LEMMA OwedEvent ==
    ASSUME NEW c \in Calls, CallOK("parked", call[c]), NEW e,
           OwesApproval(c, e) \/ OwesDenial(c, e) \/ OwesBudget(c, e) \/ OwesDelivery(c, e),
           Answer(call[c]) = "refused",
           AppendAccepts(call[c].led, e)
    PROVE  LET r == call[c]
               l == Apply(r.led, e)
           IN /\ CallOK("done", WithLed([r EXCEPT !.at = None], l))
              /\ l.outcome = r.led.outcome
              /\ IF e[1] = "budget" THEN SetsStage(r.led, l, e[2])
                 ELSE e[1] # "delivery" => SetsField(r.led, l, e)
              /\ e[1] = "delivery" =>
                    /\ l.terminal /\ l.accepted = r.led.accepted
                    /\ l.dispatched = r.led.dispatched /\ l.decision = r.led.decision
                    /\ l.pre = r.led.pre /\ l.post = r.led.post
                    /\ l.inspection = r.led.inspection /\ l.stage = r.led.stage
                    /\ l.postBudget = r.led.postBudget
<1> DEFINE r == call[c]
           l == Apply(r.led, e)
           x == [r EXCEPT !.at = None]
<1>1. /\ CallOK("done", x) /\ x \in CallRecords
      /\ x.budgeted = r.budgeted /\ x.oversize = r.oversize /\ x.res = r.res
      /\ x.pre = r.pre /\ x.post = r.post /\ x.led = r.led /\ x.done = r.done
      /\ x.io = r.io /\ x.verdict = r.verdict
  BY Retires
<1>2. /\ r \in CallRecords /\ r.led \in LifecycleStates /\ r.verdict # "forwarded"
      /\ (r.pre = "pending" => r.io = 0) /\ (r.led.outcome # None => r.io = 1)
  BY Words DEF CallOK, CallRecords, Counted, Asked, Asking
<1> HIDE DEF x
<1>3. CASE OwesApproval(c, e)
  <2>1. /\ e[2] = "refused"
        /\ \/ e[1] = "pre_approval" /\ e[2] = x.pre
           \/ e[1] = "post_approval" /\ e[2] = x.post
    BY <1>1, <1>3 DEF OwesApproval, Phase, Answer
  <2>2. CallOK("done", WithLed(x, l))
    BY <1>1, <2>1, ApprovalEvent
  <2>3. SetsField(r.led, l, e)
    BY <1>2, <2>1, Applied
  <2> QED
    BY <2>1, <2>2, <2>3 DEF SetsField, x
<1>4. CASE OwesDenial(c, e) \/ OwesBudget(c, e)
  <2>1. /\ e[1] = "budget"
        /\ \/ e[2] \in {"denied", "indeterminate"} /\ x.res = e[2]
           \/ e[2] \in {"settled", "settled_returned"} /\ x.res = "settled"
    BY <1>1, <1>4 DEF OwesDenial, OwesBudget
  <2>2. x.pre # "pending"
    BY <1>1, <1>2, <1>4 DEF OwesDenial, OwesBudget, Answer
  <2>3. CallOK("done", WithLed(x, l))
    BY <1>1, <2>1, <2>2, BudgetEvent
  <2>4. SetsStage(r.led, l, e[2])
    BY <1>2, <2>1, BudgetApplied
  <2> QED
    BY <2>1, <2>3, <2>4 DEF SetsStage, x
<1>5. CASE OwesDelivery(c, e)
  <2>1. e[1] = "delivery"
    BY <1>5 DEF OwesDelivery
  <2>2. CallOK("done", WithLed(x, l))
    BY <1>1, <1>2, <2>1, OutcomeEvent
  <2>3. /\ l.terminal /\ l.accepted = r.led.accepted /\ l.outcome = r.led.outcome
        /\ l.dispatched = r.led.dispatched /\ l.decision = r.led.decision
        /\ l.pre = r.led.pre /\ l.post = r.led.post
        /\ l.inspection = r.led.inspection /\ l.stage = r.led.stage
        /\ l.postBudget = r.led.postBudget
    BY <1>2, <2>1 DEF Apply, LifecycleStates
  <2> QED
    BY <2>1, <2>2, <2>3 DEF x
<1> QED
  BY <1>3, <1>4, <1>5

\* The ledger of an item on which nothing was lost is as the cleanup left it.
LEMMA OwedWaits ==
    ASSUME NEW c \in Calls, CallOK("parked", call[c]), Waits(call[c]), ~call[c].oversize,
           NEW e, NEW w \in CallRecords,
           OwesApproval(c, e) \/ OwesDenial(c, e) \/ OwesBudget(c, e) \/ OwesDelivery(c, e),
           w.budgeted = call[c].budgeted, w.done = call[c].done \cup {Mark(e)},
           w.led.outcome = call[c].led.outcome,
           IF e[1] = "budget" THEN SetsStage(call[c].led, w.led, e[2])
           ELSE e[1] # "delivery" => SetsField(call[c].led, w.led, e),
           e[1] = "delivery" =>
              /\ w.led.terminal /\ w.led.accepted = call[c].led.accepted
              /\ w.led.dispatched = call[c].led.dispatched
              /\ w.led.decision = call[c].led.decision
              /\ w.led.pre = call[c].led.pre /\ w.led.post = call[c].led.post
              /\ w.led.inspection = call[c].led.inspection
              /\ w.led.stage = call[c].led.stage
              /\ w.led.postBudget = call[c].led.postBudget
    PROVE  Waits(w)
<1> DEFINE r == call[c]
           s == r.led
           l == w.led
<1>1. r \in CallRecords /\ s \in LifecycleStates /\ l \in LifecycleStates
  BY DEF CallOK, CallRecords
<1>2. CASE s.outcome = None
  <2>1. WaitsBefore(r)
    BY <1>2 DEF Waits
  <2>2. CASE OwesApproval(c, e)
    <3>1. /\ e[1] = "pre_approval" /\ e[2] = "refused" /\ Mark(e) = "approval"
          /\ r.done \cap {"approval", "budget"} = {}
      BY <1>2, <2>2 DEF OwesApproval, Phase
    <3>2. SetsField(s, l, e)
      BY <3>1
    <3>3. "approval" \in w.done /\ "budget" \notin w.done /\ "budget" \notin r.done
      BY <3>1
    <3> HIDE DEF l
    <3>4. /\ l.pre = "refused" /\ l.accepted = s.accepted /\ l.terminal = s.terminal
          /\ l.decision = s.decision /\ l.stage = s.stage /\ l.dispatched = s.dispatched
          /\ l.outcome = s.outcome /\ l.inspection = s.inspection
          /\ l.postBudget = s.postBudget /\ l.post = s.post
      BY <3>1, <3>2 DEF SetsField
    <3>5. WaitsBefore(w)
      BY <2>1, <3>3, <3>4 DEF WaitsBefore, Judged, Unsent, Stage, l
    <3> QED
      BY <1>2, <3>5 DEF Waits
  <2>3. CASE OwesDenial(c, e)
    <3>1. /\ e[1] = "budget" /\ e[2] = "denied" /\ "approval" \in w.done /\ "budget" \in w.done
          /\ "approval" \in r.done /\ r.budgeted
      BY <2>3 DEF OwesDenial
    <3>2. SetsStage(s, l, "denied")
      BY <3>1
    <3> HIDE DEF l
    <3>3. /\ l.stage = "denied" /\ l.accepted = s.accepted /\ l.terminal = s.terminal
          /\ l.decision = s.decision /\ l.pre = s.pre /\ l.dispatched = s.dispatched
          /\ l.outcome = s.outcome /\ l.inspection = s.inspection
          /\ l.postBudget = s.postBudget /\ l.post = s.post
      BY <1>1, <3>2 DEF SetsStage, LifecycleStates
    <3>4. WaitsBefore(w)
      BY <2>1, <3>1, <3>3 DEF WaitsBefore, Judged, Unsent, Stage, l
    <3> QED
      BY <1>2, <3>4 DEF Waits
  <2> QED
    BY <1>2, <2>2, <2>3 DEF OwesBudget, OwesDelivery
<1>3. CASE s.outcome # None
  <2>1. WaitsAfter(r)
    BY <1>3 DEF Waits
  <2>2. CASE OwesApproval(c, e)
    <3>1. /\ e[1] = "post_approval" /\ e[2] = "refused" /\ Mark(e) = "approval"
          /\ r.done \cap {"approval", "budget", "delivery"} = {}
      BY <1>3, <2>2 DEF OwesApproval, Phase
    <3>2. SetsField(s, l, e)
      BY <3>1
    <3>3. /\ "approval" \in w.done /\ "budget" \notin w.done /\ "budget" \notin r.done
          /\ ("delivery" \in w.done <=> "delivery" \in r.done)
      BY <3>1
    <3> HIDE DEF l
    <3>4. /\ l.post = "refused" /\ l.accepted = s.accepted /\ l.terminal = s.terminal
          /\ l.decision = s.decision /\ l.stage = s.stage /\ l.dispatched = s.dispatched
          /\ l.outcome = s.outcome /\ l.inspection = s.inspection
          /\ l.postBudget = s.postBudget /\ l.pre = s.pre
      BY <3>1, <3>2 DEF SetsField
    <3>5. WaitsAfter(w)
      BY <2>1, <3>3, <3>4 DEF WaitsAfter, Sent, Stage, l
    <3> QED
      BY <1>3, <3>5 DEF Waits
  <2>3. CASE OwesBudget(c, e)
    <3>1. /\ e[1] = "budget" /\ e[2] \in {"settled", "settled_returned"}
          /\ "approval" \in w.done /\ "budget" \in w.done /\ "approval" \in r.done
          /\ r.budgeted /\ ("delivery" \in w.done <=> "delivery" \in r.done)
      BY <2>3 DEF OwesBudget
    <3>2. SetsStage(s, l, e[2])
      BY <3>1
    <3> HIDE DEF l
    <3>3. /\ l.stage = "settled" /\ l.accepted = s.accepted /\ l.terminal = s.terminal
          /\ l.decision = s.decision /\ l.pre = s.pre /\ l.dispatched = s.dispatched
          /\ l.outcome = s.outcome /\ l.inspection = s.inspection
          /\ l.postBudget = s.postBudget /\ l.post = s.post
      BY <1>1, <3>1, <3>2 DEF SetsStage, LifecycleStates
    <3>4. WaitsAfter(w)
      BY <2>1, <3>1, <3>3 DEF WaitsAfter, Sent, Stage, l
    <3> QED
      BY <1>3, <3>4 DEF Waits
  <2>4. CASE OwesDelivery(c, e)
    <3>1. /\ e[1] = "delivery" /\ "delivery" \in w.done /\ "approval" \in w.done
          /\ "approval" \in r.done /\ ("budget" \in w.done <=> "budget" \in r.done)
      BY <2>4 DEF OwesDelivery
    <3>2. /\ l.terminal /\ l.accepted = s.accepted /\ l.dispatched = s.dispatched
          /\ l.decision = s.decision /\ l.pre = s.pre /\ l.post = s.post
          /\ l.inspection = s.inspection /\ l.stage = s.stage /\ l.postBudget = s.postBudget
          /\ l.outcome = s.outcome
      BY <3>1
    <3> HIDE DEF l
    <3>3. WaitsAfter(w)
      BY <2>1, <3>1, <3>2 DEF WaitsAfter, Sent, Stage, l
    <3> QED
      BY <1>3, <3>3 DEF Waits
  <2> QED
    BY <1>3, <2>2, <2>3, <2>4 DEF OwesDenial
<1> QED
  BY <1>2, <1>3

\* The ledger takes what the item owes, or the pass goes on to the next one.
LEMMA RecordItem ==
    ASSUME GatewayInv, NEW c \in sweep.todo, "finalized" \in call[c].done,
           ~OwesSettlement(c), ~ItemComplete(c), NEW o \in Outcomes,
           LET e == Owed(c)
               r == WithEvent(c, e, o)
               good == o = "ok" /\ Recorded(c, e, o)
           IN Item(c, IF good THEN [r EXCEPT !.done = @ \cup {Mark(e)}] ELSE r, good)
    PROVE  GatewayInv'
<1> DEFINE r == call[c]
           e == Owed(c)
           l == Apply(r.led, e)
           x == [r EXCEPT !.at = None]
           y == WithLed(x, l)
           v == WithEvent(c, e, o)
           w == Marked(v, Mark(e))
           good == o = "ok" /\ Recorded(c, e, o)
<1>1. /\ c \in Calls /\ CallOK("parked", r) /\ r \in CallRecords
      /\ r.at \in {"cleanup", "shutdown"} /\ r.verdict = None
      /\ (r.io = 1 <=> r.led.outcome # None)
  BY AtCleanup
<1>2. /\ OwesApproval(c, e) \/ OwesDenial(c, e) \/ OwesBudget(c, e) \/ OwesDelivery(c, e)
      /\ Answer(r) = "refused"
      /\ Mark(e) \in {"finalized", "approval", "settled", "budget", "delivery"}
  BY <1>1, OwedIs
<1>3. Item(c, IF good THEN w ELSE v, good)
  BY DEF Marked
<1> HIDE DEF e
<1>4. CASE ~Recorded(c, e, o)
  <2>1. Item(c, r, good) /\ CallOK("parked", r)
    BY <1>1, <1>3, <1>4 DEF WithEvent
  <2> QED
    BY <2>1, ItemKeeps
<1>5. CASE Recorded(c, e, o)
  <2>1. AppendAccepts(r.led, e)
    BY <1>5 DEF Recorded
  <2>2. /\ CallOK("done", y) /\ l.outcome = r.led.outcome
        /\ IF e[1] = "budget" THEN SetsStage(r.led, l, e[2])
           ELSE e[1] # "delivery" => SetsField(r.led, l, e)
        /\ e[1] = "delivery" =>
              /\ l.terminal /\ l.accepted = r.led.accepted
              /\ l.dispatched = r.led.dispatched /\ l.decision = r.led.decision
              /\ l.pre = r.led.pre /\ l.post = r.led.post
              /\ l.inspection = r.led.inspection /\ l.stage = r.led.stage
              /\ l.postBudget = r.led.postBudget
    BY <1>1, <1>2, <2>1, OwedEvent
  <2>3. l \in LifecycleStates /\ y.led = l
        /\ y.budgeted = r.budgeted /\ y.oversize = r.oversize /\ y.res = r.res
        /\ y.pre = r.pre /\ y.post = r.post /\ y.io = r.io /\ y.verdict = r.verdict
    <3>1. /\ x \in CallRecords
          /\ x.budgeted = r.budgeted /\ x.oversize = r.oversize /\ x.res = r.res
          /\ x.pre = r.pre /\ x.post = r.post /\ x.io = r.io /\ x.verdict = r.verdict
      BY <1>1, Retires
    <3> HIDE DEF x, l
    <3>2. /\ y.led = l
          /\ y.budgeted = x.budgeted /\ y.oversize = x.oversize /\ y.res = x.res
          /\ y.pre = x.pre /\ y.post = x.post /\ y.io = x.io /\ y.verdict = x.verdict
      BY <3>1, LedFields
    <3>3. y \in CallRecords
      BY <2>2 DEF CallOK
    <3>4. l \in LifecycleStates
      BY <3>2, <3>3 DEF CallRecords
    <3> QED
      BY <3>1, <3>2, <3>4
  <2> HIDE DEF l, y
  <2>4. /\ v \in CallRecords /\ v.led = l
        /\ v.budgeted = r.budgeted /\ v.oversize = r.oversize /\ v.res = r.res
        /\ v.pre = r.pre /\ v.post = r.post /\ v.at = r.at /\ v.done = r.done
        /\ v.io = r.io /\ v.verdict = r.verdict
        /\ (o = "lost" => v.lost) /\ (r.lost => v.lost)
    <3>1. v = [r EXCEPT !.led = l, !.lost = @ \/ o = "lost"]
      BY <1>5 DEF WithEvent, l
    <3>2. (o = "lost") \in BOOLEAN
      OBVIOUS
    <3> DEFINE u == WithLed(r, l)
    <3>3. /\ u \in CallRecords /\ u.led = l
          /\ u.budgeted = r.budgeted /\ u.oversize = r.oversize /\ u.res = r.res
          /\ u.pre = r.pre /\ u.post = r.post /\ u.at = r.at /\ u.done = r.done
          /\ u.io = r.io /\ u.verdict = r.verdict /\ u.lost = r.lost
      BY <1>1, <2>3, LedFields
    <3>4. v = [u EXCEPT !.lost = @ \/ o = "lost"]
      BY <1>1, <3>1 DEF WithLed, CallRecords
    <3> HIDE DEF u, v
    <3> QED
      BY <3>2, <3>3, <3>4 DEF CallRecords
  <2> HIDE DEF v
  <2>5. Answer(v) = "refused"
    BY <1>2, <2>2, <2>4 DEF Answer
  <2>6. CASE ~good
    <3>1. o = "lost"
      BY <1>5, <2>6 DEF Outcomes, Recorded
    <3>2. Retained("parked", v)
      BY <1>1, <1>2, <2>4, <2>5 DEF CallOK, Retained
    <3>3. RecordingAsk("parked", v)
      <4>1. v.lost /\ v.at # "pending"
        BY <1>1, <2>4, <3>1
      <4> QED
        BY <4>1 DEF RecordingAsk
    <3>4. CallOK("parked", v)
      BY <1>1, <2>2, <2>3, <2>4, <2>5, <3>2, <3>3, Cleans
    <3>5. Item(c, v, good)
      BY <1>3, <2>6
    <3> QED
      BY <2>4, <3>4, <3>5, ItemKeeps
  <2>7. CASE good
    <3>1. /\ w \in CallRecords /\ w.done = v.done \cup {Mark(e)}
          /\ w.budgeted = v.budgeted /\ w.oversize = v.oversize /\ w.res = v.res
          /\ w.pre = v.pre /\ w.post = v.post /\ w.led = v.led /\ w.at = v.at
          /\ w.io = v.io /\ w.verdict = v.verdict /\ w.lost = v.lost
      BY <1>2, <2>4, MarkedFields
    <3> HIDE DEF w
    <3>2. Answer(w) = "refused"
      BY <2>5, <3>1 DEF Answer
    <3>3. Retained("parked", w)
      <4>1. Retained("parked", r)
        BY <1>1 DEF CallOK
      <4>2. /\ "finalized" \in w.done /\ "approval" \in w.done
            /\ "settled" \in w.done => "settled" \in r.done
            /\ "delivery" \in w.done => ~w.budgeted \/ "budget" \in w.done
        BY <1>2, <2>4, <3>1, <4>1
        DEF OwesApproval, OwesDenial, OwesBudget, OwesDelivery, Retained
      <4> QED
        BY <1>1, <2>4, <3>1, <3>2, <4>1, <4>2, Words DEF Retained
    <3>4. RecordingAsk("parked", w)
      <4>1. ASSUME ~(w.lost \/ w.oversize)
            PROVE  Waits(w)
        <5>1. ~r.lost /\ ~r.oversize
          BY <2>4, <3>1, <4>1
        <5>2. Waits(r)
          BY <1>1, <5>1 DEF CallOK, Recording, RecordingAsk
        <5>3. /\ w.budgeted = r.budgeted /\ w.done = r.done \cup {Mark(e)} /\ w.led = l
          BY <2>4, <3>1
        <5> QED
          BY <1>1, <1>2, <2>2, <3>1, <5>1, <5>2, <5>3, OwedWaits
      <4>2. w.at # "pending"
        BY <1>1, <2>4, <3>1
      <4> QED
        BY <4>1, <4>2 DEF RecordingAsk
    <3>5. CallOK("parked", w)
      BY <1>1, <2>2, <2>3, <2>4, <3>1, <3>2, <3>3, <3>4, Cleans
    <3>6. Item(c, w, good)
      BY <1>3, <2>7
    <3> QED
      BY <2>4, <3>1, <3>5, <3>6, ItemKeeps
  <2> QED
    BY <2>6, <2>7
<1> QED
  BY <1>4, <1>5

\* One step of the cleanup of one item.
LEMMA FinishItemKeeps ==
    ASSUME GatewayInv, NEW c \in Calls, FinishItem(c)
    PROVE  GatewayInv'
<1>1. c \in sweep.todo
  BY DEF FinishItem
<1>2. CASE "finalized" \notin call[c].done /\ ItemState(c, TRUE, Finalized(c), "finalized")
  BY <1>1, <1>2, FinalizeItem
<1>3. CASE /\ "finalized" \in call[c].done /\ OwesSettlement(c)
           /\ ItemState(c, call[c].res = "dispatched" /\ NoPending(c), Settled(c), "settled")
  BY <1>1, <1>3, SettleItem
<1>4. CASE /\ "finalized" \in call[c].done /\ ~OwesSettlement(c) /\ ~ItemComplete(c)
           /\ \E o \in Outcomes :
                LET e == Owed(c)
                    r == WithEvent(c, e, o)
                    good == o = "ok" /\ Recorded(c, e, o)
                IN /\ Spend(o)
                   /\ Item(c, IF good THEN [r EXCEPT !.done = @ \cup {Mark(e)}] ELSE r, good)
  BY <1>1, <1>4, RecordItem
<1>5. CASE /\ "finalized" \in call[c].done /\ ItemComplete(c)
           /\ call' = [call EXCEPT ![c].at = None]
           /\ pc' = [pc EXCEPT ![c] = "done"]
           /\ sweep' = [sweep EXCEPT !.todo = @ \ {c}]
           /\ UNCHANGED <<due, mu, closing, leased, faults>>
  BY <1>1, <1>5, ReleaseItem
<1> QED
  BY <1>2, <1>3, <1>4, <1>5 DEF FinishItem

\* The expired approvals are decided, those still retained claimed.
LEMMA ReconcileExpiredKeeps ==
    ASSUME GatewayInv, ReconcileExpired
    PROVE  GatewayInv'
<1> DEFINE expired == {c \in due : Approval(c) = "pending"}
<1> PICK o \in Outcomes :
       /\ call' = [c \in Calls |->
                     IF o = "fail" \/ c \notin expired THEN call[c]
                     ELSE IF o = "lost" THEN [Refused(c) EXCEPT !.lost = TRUE]
                     ELSE IF c \in Claimed(expired)
                          THEN [Refused(c) EXCEPT !.at = "cleanup", !.done = {"finalized"}]
                          ELSE Refused(c)]
       /\ sweep' = [sweep EXCEPT !.stage = "second",
                                 !.todo = {c \in Calls : call'[c].at = "cleanup"},
                                 !.failed = @ \/ o # "ok"]
  BY DEF ReconcileExpired
<1>1. /\ sweep.todo = {} /\ sweep.stage = "first" /\ pc' = pc /\ due' = due /\ mu' = mu
  BY DEF ReconcileExpired
<1>2. \A c \in Calls : CallOK(At(c), call[c]) /\ call[c] \in CallRecords
  BY DEF GatewayInv
<1>3. ASSUME NEW c \in Calls
      PROVE  CallOK(At(c), call'[c])
  <2> DEFINE r == call[c]
             x == Refused(c)
  <2>1. CASE o = "fail" \/ c \notin expired
    BY <1>2, <2>1
  <2>2. CASE o # "fail" /\ c \in expired
    <3>1. CallOK(At(c), x) /\ Answer(x) = "refused" /\ r \in CallRecords
      BY <1>2, <2>2, RefusedKeeps
    <3>2. /\ x \in CallRecords /\ x.at = r.at /\ x.done = r.done
      BY <3>1, RefusedFields
    <3>3. call'[c] = IF o = "lost" THEN [x EXCEPT !.lost = TRUE]
                     ELSE IF c \in Claimed(expired)
                          THEN [x EXCEPT !.at = "cleanup", !.done = {"finalized"}] ELSE x
      BY <2>2
    <3>4. c \in Claimed(expired) <=> r.at = "pending"
      BY <2>2 DEF Claimed
    <3> HIDE DEF x, expired
    <3>5. CallOK(At(c), [x EXCEPT !.lost = TRUE])
      BY <3>1, LostFields
    <3>6. ASSUME r.at = "pending"
          PROVE  CallOK(At(c), [x EXCEPT !.at = "cleanup", !.done = {"finalized"}])
      <4> DEFINE w == [x EXCEPT !.at = "cleanup", !.done = {"finalized"}]
      <4>1. At(c) = "parked"
        BY <1>2, <3>6, Words DEF CallOK, Retained
      <4>2. /\ w \in CallRecords
            /\ w.budgeted = x.budgeted /\ w.oversize = x.oversize /\ w.res = x.res
            /\ w.pre = x.pre /\ w.post = x.post /\ w.led = x.led
            /\ w.io = x.io /\ w.verdict = x.verdict
            /\ w.at = "cleanup" /\ w.done = {"finalized"}
        BY <3>2 DEF CallRecords
      <4> HIDE DEF w
      <4>3. CallOK("parked", w)
        BY <3>1, <3>2, <3>6, <4>1, <4>2, Claims
      <4> QED
        BY <4>1, <4>3 DEF w
    <3> QED
      BY <3>1, <3>3, <3>4, <3>5, <3>6
  <2> QED
    BY <2>1, <2>2
<1>4. call' \in [Calls -> CallRecords]
  <2>1. \A c \in Calls : call'[c] \in CallRecords
    BY <1>3 DEF CallOK
  <2>2. call' = [c \in Calls |-> call'[c]]
    OBVIOUS
  <2> QED
    BY <2>1, <2>2
<1> DEFINE items == {c \in Calls : call'[c].at = "cleanup"}
<1>5. items \subseteq Calls /\ \A c \in items : call'[c].at \in {"cleanup", "shutdown"}
  OBVIOUS
<1>6. sweep' = [sweep EXCEPT !.stage = "second", !.todo = items, !.failed = @ \/ o # "ok"]
  OBVIOUS
<1> HIDE DEF items
<1>7. /\ sweep' \in [stage : {"off", "first", "second", "shutdown"}, todo : SUBSET Calls,
                     failed : BOOLEAN, back : {None, "presweep", "asksweep", "postsweep"}]
      /\ sweep'.stage = "second" /\ sweep'.back = sweep.back /\ sweep'.todo = items
  <2>1. sweep \in [stage : {"off", "first", "second", "shutdown"}, todo : SUBSET Calls,
                   failed : BOOLEAN, back : {None, "presweep", "asksweep", "postsweep"}]
    BY DEF GatewayInv, Wired
  <2> QED
    BY <1>5, <1>6, <2>1
<1>8. Wired'
  <2>1. Wired
    BY DEF GatewayInv
  <2>2. mu' \in {Worker, Closer} \/ (mu' \in Calls /\ pc'[mu'] = "sweeping")
    BY <1>1, <2>1 DEF Wired
  <2>3. \A c \in Calls : pc'[c] = "sweeping" =>
           mu' = c /\ sweep'.stage # "off" /\ sweep'.back # None
    BY <1>1, <1>7, <2>1 DEF Wired
  <2>4. \A c \in sweep'.todo : call'[c].at \in {"cleanup", "shutdown"}
    BY <1>5, <1>7
  <2>5. due' \subseteq Calls
    BY <1>1, <2>1 DEF Wired
  <2> QED
    BY <1>7, <2>2, <2>3, <2>4, <2>5 DEF Wired
<1>9. \A c \in Calls : CallOK(At(c)', call'[c])
  <2>1. \A c \in Calls : At(c)' = At(c)
    BY <1>1, <1>7 DEF At
  <2> QED
    BY <1>3, <2>1
<1> QED
  BY <1>1, <1>4, <1>8, <1>9 DEF GatewayInv

\* A call goes on after its sweep, with what the sweep has left of the others.
LEMMA Sweeps ==
    ASSUME NEW r, NEW p \in {"presweep", "asksweep", "postsweep"}, CallOK(p, r)
    PROVE  /\ CallOK("done", r)
           /\ p = "presweep" => CallOK("reserve", r) /\ CallOK("accept", r)
           /\ p = "asksweep" => CallOK("issue", r) /\ CallOK("deny", r)
           /\ p = "postsweep" =>
                 CallOK("post_issue", r) /\ CallOK("settle", [r EXCEPT !.verdict = "withheld"])
<1>1. CallOK("done", r) /\ r.done = {} /\ ~r.led.terminal
  <2>1. r.at = None
    BY DEF CallOK, Retained
  <2> QED
    BY <2>1, Ends DEF CallOK, Retained, Closed
<1>2. ASSUME p = "presweep", NEW q \in {"reserve", "accept"}
      PROVE  CallOK(q, r)
  <2>1. Counted(q, r) /\ Backed(q, r) /\ Asked(q, r) /\ Mirrored(q, r)
    BY <1>2 DEF CallOK, Counted, Backed, Asked, Mirrored, Before, Beyond, Asking
  <2>2. Recording(q, r)
    BY <1>2 DEF CallOK, Recording, RecordingBefore, RecordingAfter, RecordingAsk
  <2> QED
    BY <1>1, <2>1, <2>2, Moves DEF Places, Before
<1>3. ASSUME p = "asksweep"
      PROVE  CallOK("issue", r) /\ CallOK("deny", r)
  <2>1. Counted("issue", r) /\ Backed("issue", r) /\ Asked("issue", r) /\ Mirrored("issue", r)
    BY <1>3 DEF CallOK, Counted, Backed, Asked, Mirrored, Before, Beyond, Asking
  <2>2. Recording("issue", r)
    BY <1>3 DEF CallOK, Recording, RecordingBefore, RecordingAfter, RecordingAsk
  <2>3. r.io = 0
    BY <1>3 DEF CallOK, Counted, Before
  <2>4. CallOK("issue", r)
    BY <1>1, <2>1, <2>2, Moves DEF Places, Before
  <2>5. CallOK("deny", r)
    BY <1>1, <2>3, Plain
  <2> QED
    BY <2>4, <2>5
<1>4. ASSUME p = "postsweep"
      PROVE  CallOK("post_issue", r) /\ CallOK("settle", [r EXCEPT !.verdict = "withheld"])
  <2>1. Counted("post_issue", r) /\ Backed("post_issue", r) /\ Asked("post_issue", r)
        /\ Mirrored("post_issue", r)
    BY <1>4 DEF CallOK, Counted, Backed, Asked, Mirrored, Before, Beyond, Asking
  <2>2. Recording("post_issue", r)
    BY <1>4 DEF CallOK, Recording, RecordingBefore, RecordingAfter, RecordingAsk
  <2>3. r.io = 1
    BY <1>4 DEF CallOK, Counted, Beyond
  <2>4. CallOK("post_issue", r)
    BY <1>1, <2>1, <2>2, Moves DEF Places, Beyond
  <2>5. CallOK("settle", [r EXCEPT !.verdict = "withheld"])
    BY <1>4, <2>3, VerdictKeeps
  <2> QED
    BY <2>4, <2>5
<1> QED
  BY <1>1, <1>2, <1>3, <1>4

\* The pass ends: its call goes on from where it waited.
LEMMA EndSweepKeeps ==
    ASSUME GatewayInv, EndSweep
    PROVE  GatewayInv'
<1>1. /\ sweep.stage \in {"second", "shutdown"} /\ sweep' = Idle /\ mu' = Free /\ due' = due
  BY DEF EndSweep, Unlock
<1>2. /\ sweep'.stage = "off" /\ sweep'.todo = {}
      /\ sweep' \in [stage : {"off", "first", "second", "shutdown"}, todo : SUBSET Calls,
                     failed : BOOLEAN, back : {None, "presweep", "asksweep", "postsweep"}]
  BY <1>1 DEF Idle
<1>3. pc \in [Calls -> Places \cup {"sweeping"}] /\ call \in [Calls -> CallRecords]
  BY DEF GatewayInv
<1>4. CASE mu \notin Calls
  <2>1. pc' = pc /\ call' = call
    BY <1>4 DEF EndSweep
  <2>2. \A c \in Calls : pc[c] # "sweeping"
    BY <1>4 DEF GatewayInv, Wired
  <2>3. \A c \in Calls : CallOK(At(c)', call'[c])
    BY <2>1, <2>2 DEF GatewayInv, At
  <2>4. Wired'
    BY <1>1, <1>2, <2>1, <2>2 DEF GatewayInv, Wired
  <2> QED
    BY <1>3, <2>1, <2>3, <2>4 DEF GatewayInv
<1>5. CASE mu \in Calls
  <2> DEFINE r == call[mu]
             q == AfterSweep(mu)
             w == [r EXCEPT !.verdict = IF q = "settle" THEN "withheld" ELSE @]
  <2>1. pc' = [pc EXCEPT ![mu] = q] /\ call' = [call EXCEPT ![mu] = w]
    BY <1>5 DEF EndSweep
  <2>2. pc[mu] = "sweeping" /\ sweep.back # None /\ \A c \in Calls : pc[c] = "sweeping" => c = mu
    <3>1. pc[mu] = "sweeping"
      BY <1>1, <1>5, GatewayAssumption DEF GatewayInv, Wired
    <3> QED
      BY <1>5, <3>1 DEF GatewayInv, Wired
  <2>3. sweep.back \in {"presweep", "asksweep", "postsweep"}
    BY <2>2 DEF GatewayInv, Wired
  <2>4. CallOK(sweep.back, r) /\ r \in CallRecords
    BY <1>5, <2>2 DEF GatewayInv, At
  <2>5. CallOK(q, w)
    <3>1. \/ sweep.back = "presweep" /\ q \in {"done", "reserve", "accept"}
          \/ sweep.back = "asksweep" /\ q \in {"deny", "issue"}
          \/ sweep.back = "postsweep" /\ q \in {"settle", "post_issue"}
      BY <2>3 DEF AfterSweep
    <3> HIDE DEF q
    <3>2. q # "settle" => w = r
      BY <2>4 DEF CallRecords
    <3>3. q = "settle" => w = [r EXCEPT !.verdict = "withheld"]
      OBVIOUS
    <3> HIDE DEF w
    <3> QED
      BY <2>3, <2>4, <3>1, <3>2, <3>3, Sweeps
  <2>6. q \in Places /\ q # "sweeping" /\ w \in CallRecords
    BY <2>5 DEF CallOK, Places, Before, Beyond, Asking, Ended
  <2> HIDE DEF q, w
  <2>7. /\ pc' \in [Calls -> Places \cup {"sweeping"}] /\ call' \in [Calls -> CallRecords]
        /\ \A c \in Calls : pc'[c] = IF c = mu THEN q ELSE pc[c]
        /\ \A c \in Calls : call'[c] = IF c = mu THEN w ELSE call[c]
    BY <1>3, <1>5, <2>1, <2>6
  <2>8. \A c \in Calls : pc'[c] # "sweeping"
    BY <2>2, <2>6, <2>7
  <2>9. \A c \in Calls : CallOK(At(c)', call'[c])
    BY <2>2, <2>5, <2>7, <2>8 DEF GatewayInv, At
  <2>10. Wired'
    BY <1>1, <1>2, <2>8 DEF GatewayInv, Wired
  <2> QED
    BY <2>7, <2>9, <2>10 DEF GatewayInv
<1> QED
  BY <1>4, <1>5

\* Close claims what waits for a client.
LEMMA ShutdownKeeps ==
    ASSUME GatewayInv, ShutdownPending
    PROVE  GatewayInv'
<1> DEFINE items == ShutdownItems
<1>1. /\ mu = Free /\ mu' = Closer /\ pc' = pc /\ due' = due
      /\ call' = [c \in Calls |-> IF call[c].at = "pending"
                                  THEN [call[c] EXCEPT !.at = "shutdown"] ELSE call[c]]
      /\ sweep' = [stage |-> "shutdown", todo |-> items, failed |-> FALSE, back |-> None]
  BY DEF ShutdownPending, Begin
<1>2. sweep.stage = "off" /\ \A c \in Calls : pc[c] # "sweeping"
  BY <1>1, Unlocked
<1>3. ASSUME NEW c \in Calls
      PROVE  CallOK(At(c), call'[c])
  <2>1. CallOK(At(c), call[c]) /\ call[c] \in CallRecords
    BY DEF GatewayInv
  <2>2. CASE call[c].at = "pending"
    <3> DEFINE w == [call[c] EXCEPT !.at = "shutdown"]
    <3>1. call'[c] = w
      BY <1>1, <2>2
    <3>2. At(c) = "parked" /\ call[c].done = {}
      BY <2>1, <2>2, Words DEF CallOK, Retained
    <3>3. /\ w \in CallRecords
          /\ w.budgeted = call[c].budgeted /\ w.oversize = call[c].oversize
          /\ w.res = call[c].res /\ w.pre = call[c].pre /\ w.post = call[c].post
          /\ w.led = call[c].led /\ w.io = call[c].io /\ w.verdict = call[c].verdict
          /\ w.at = "shutdown" /\ w.done = {}
      BY <2>1, <3>2 DEF CallRecords
    <3> HIDE DEF w
    <3>4. CallOK("parked", w)
      BY <2>1, <2>2, <3>2, <3>3, Claims
    <3> QED
      BY <3>1, <3>2, <3>4
  <2>3. CASE call[c].at # "pending"
    BY <1>1, <2>1, <2>3
  <2> QED
    BY <2>2, <2>3
<1>4. call' \in [Calls -> CallRecords]
  <2>1. \A c \in Calls : call'[c] \in CallRecords
    BY <1>3 DEF CallOK
  <2>2. call' = [c \in Calls |-> call'[c]]
    BY <1>1
  <2> QED
    BY <2>1, <2>2
<1>5. items \subseteq Calls /\ \A c \in items : call'[c].at \in {"cleanup", "shutdown"}
  <2> SUFFICES ASSUME NEW c \in items
               PROVE  c \in Calls /\ call'[c].at \in {"cleanup", "shutdown"}
    OBVIOUS
  <2>1. c \in Calls /\ call[c].at \in {"pending", "cleanup", "shutdown"} /\ call[c] \in CallRecords
    BY DEF ShutdownItems, Items, GatewayInv
  <2>2. CASE call[c].at = "pending"
    BY <1>1, <2>1, <2>2 DEF CallRecords
  <2>3. CASE call[c].at # "pending"
    BY <1>1, <2>1, <2>3
  <2> QED
    BY <2>1, <2>2, <2>3
<1> HIDE DEF items
<1>6. Wired'
  <2>1. /\ sweep' \in [stage : {"off", "first", "second", "shutdown"}, todo : SUBSET Calls,
                       failed : BOOLEAN, back : {None, "presweep", "asksweep", "postsweep"}]
        /\ sweep'.todo = items /\ sweep'.stage = "shutdown"
    BY <1>1, <1>5
  <2> QED
    BY <1>1, <1>2, <1>5, <2>1 DEF GatewayInv, Wired
<1>7. \A c \in Calls : CallOK(At(c)', call'[c])
  <2>1. \A c \in Calls : At(c)' = At(c)
    BY <1>1, <1>2 DEF At
  <2> QED
    BY <1>3, <2>1
<1> QED
  BY <1>1, <1>4, <1>6, <1>7 DEF GatewayInv

--------------------------------------------------------------------------------
\* Every step keeps the invariant

\* Every step of a call on its own.
LEMMA WorkKeeps ==
    ASSUME GatewayInv, NEW c \in Calls, Work(c)
    PROVE  GatewayInv'
<1>1. ASSUME \/ Reserve(c) \/ AcceptRequest(c) \/ Decide(c) \/ RecordReserved(c)
             \/ ReleaseQuietly(c) \/ ReleaseCall(c) \/ DenyCall(c) \/ CommitDispatch(c)
             \/ MarkQuietly(c)
      PROVE  GatewayInv'
  BY <1>1, ReserveKeeps, AcceptRequestKeeps, DecideKeeps, RecordReservedKeeps, ReleaseCallKeeps,
     DenyCallKeeps, CommitDispatchKeeps, MarkQuietlyKeeps
<1>2. ASSUME \/ IssueApproval(c) \/ RecordRequest(c) \/ FinalizeQuietly(c) \/ Consume(c)
             \/ Finalize(c) \/ RecordDecided(c) \/ RecordGranted(c) \/ EvaluateAgain(c)
      PROVE  GatewayInv'
  BY <1>2, IssueApprovalKeeps, RecordRequestKeeps, FinalizeQuietlyKeeps, ConsumeKeeps,
     FinalizeKeeps, RecordDecidedKeeps, RecordGrantedKeeps, EvaluateAgainKeeps
<1>3. ASSUME CallTool(c) \/ FailUnknown(c) \/ FinishCall(c) \/ Settle(c) \/ RecordResult(c)
      PROVE  GatewayInv'
  BY <1>3, CallToolKeeps, FailUnknownKeeps, FinishCallKeeps, SettleKeeps, RecordResultKeeps
<1> QED
  BY <1>1, <1>2, <1>3 DEF Work

\* Every step of the gateway: the inductive step.
LEMMA NextKeeps ==
    ASSUME GatewayInv, [Next]_vars
    PROVE  GatewayInv'
<1>1. ASSUME NEW c \in Calls,
             \/ Arrive(c) \/ Work(c) \/ Park(c) \/ Resume(c) \/ TakeLock(c) \/ CallSweep(c)
             \/ Expire(c) \/ ExpireElsewhere(c)
      PROVE  GatewayInv'
  BY <1>1, ArriveKeeps, WorkKeeps, ParkKeeps, TakeLockKeeps, SweepStarts, ExpiryKeeps
<1>2. CASE WorkerSweep
  BY <1>2, SweepStarts
<1>3. CASE Sweeping
  BY <1>3, ReconcileExpiredKeeps, EndSweepKeeps, FinishItemKeeps DEF Sweeping
<1>4. CASE Close \/ CloseLease
  BY <1>4 DEF Close, CloseLease, GatewayInv, Wired, At
<1>5. CASE ShutdownPending
  BY <1>5, ShutdownKeeps
<1>6. CASE UNCHANGED vars
  BY <1>6 DEF vars, GatewayInv, Wired, At
<1> QED
  BY <1>1, <1>2, <1>3, <1>4, <1>5, <1>6 DEF Next

\* No call has begun.
LEMMA InitInv ==
    ASSUME Init
    PROVE  GatewayInv
<1> DEFINE r == [budgeted |-> FALSE, oversize |-> FALSE, res |-> None,
                 pre |-> None, post |-> None, led |-> Fresh(FALSE), at |-> None,
                 done |-> {}, io |-> 0, verdict |-> None,
                 lost |-> FALSE, elsewhere |-> FALSE]
<1>1. pc = [c \in Calls |-> "new"] /\ call = [c \in Calls |-> r]
      /\ due = {} /\ mu = Free /\ sweep = Idle
  BY DEF Init
<1>2. Fresh(FALSE) \in LifecycleStates
  BY DEF Fresh, LifecycleStates
<1>3. r \in CallRecords
  BY <1>2 DEF CallRecords
<1>4. /\ r.led = Fresh(FALSE) /\ r.pre = None /\ r.post = None /\ r.io = 0 /\ r.verdict = None
      /\ r.at = None /\ r.done = {}
  OBVIOUS
<1>5. \A c \in Calls : pc[c] = "new" /\ call[c] = r
  BY <1>1
<1> HIDE DEF r
<1>6. /\ r.led.outcome = None /\ r.led.stage = None /\ r.led.pre = None /\ r.led.post = None
      /\ ~r.led.missing /\ ~r.led.terminal
  BY <1>4 DEF Fresh
<1>7. CallOK("new", r)
  <2>1. Counted("new", r) /\ Backed("new", r)
    <3>1. "new" \notin Beyond /\ "new" \notin Asking
      BY DEF Beyond, Asking
    <3>2. r.io = 0 /\ r.io # 1
      BY <1>4
    <3>3. Counted("new", r)
      BY <1>4, <1>6, <3>1, <3>2 DEF Counted
    <3> QED
      BY <3>2, <3>3 DEF Backed
  <2>2. Asked("new", r) /\ Mirrored("new", r)
    BY <1>4, <1>6, Words DEF Asked, Mirrored
  <2>3. Closed("new", r) /\ Retained("new", r)
    BY <1>4, <1>6 DEF Closed, Retained
  <2>4. Recording("new", r)
    BY <1>4 DEF Recording, RecordingBefore, RecordingAfter, RecordingAsk
  <2> QED
    BY <1>3, <2>1, <2>2, <2>3, <2>4 DEF CallOK, Places, Before
<1>8. Wired
  BY <1>1, <1>5 DEF Wired, Idle
<1>9. pc \in [Calls -> Places \cup {"sweeping"}] /\ call \in [Calls -> CallRecords]
  <2>1. "new" \in Places
    BY DEF Places, Before
  <2> QED
    BY <1>1, <1>3, <2>1
<1> QED
  BY <1>5, <1>7, <1>8, <1>9 DEF GatewayInv, At

\* The steps of the gateway, of its sweeps, of other gateways and of Close keep
\* what each place of a call requires of its records: GatewayInv holds in every
\* reachable state.
THEOREM GatewayAlwaysConsistent == Spec => []GatewayInv
<1>1. Init => GatewayInv
  BY InitInv
<1>2. GatewayInv /\ [Next]_vars => GatewayInv'
  BY NextKeeps
<1> QED
  BY <1>1, <1>2, PTL DEF Spec

\* executeCall and commitDispatch: for any number of calls, faults and retained
\* approvals the tool is called at most once per call, and never before the
\* dispatch is recorded, the reservation committed and the approval granted.
THEOREM SentOnce == Spec => []SentOnceAndBacked
<1>1. GatewayInv => SentOnceAndBacked
  <2> SUFFICES ASSUME GatewayInv, NEW c \in Calls, call[c].io > 0
               PROVE  /\ call[c].io = 1
                      /\ call[c].led.dispatched
                      /\ call[c].budgeted =>
                            call[c].res \in {"dispatched", "indeterminate", "settled"}
                      /\ call[c].led.decision # "block"
                      /\ call[c].led.decision = "require_approval" => call[c].pre = "approved"
    BY DEF SentOnceAndBacked
  <2>1. CallOK(At(c), call[c])
    BY DEF GatewayInv
  <2>2. call[c].io = 1
    BY <2>1 DEF CallOK, CallRecords
  <2> QED
    BY <2>1, <2>2 DEF CallOK, Backed, Cleared, Committed
<1> QED
  BY <1>1, GatewayAlwaysConsistent, PTL

\* forwardResult: whatever failed or was lost, a result that reached the client
\* was permitted by its inspection, approved where that asked for it, and
\* settled in the action state.
THEOREM ForwardedOnlyWhenDone == Spec => []ForwardedIsApprovedAndSettled
<1>1. GatewayInv => ForwardedIsApprovedAndSettled
  <2> SUFFICES ASSUME GatewayInv
               PROVE  \A c \in Calls : CallOK(At(c), call[c])
    BY DEF ForwardedIsApprovedAndSettled, CallOK, Closed
  <2> QED
    BY DEF GatewayInv
<1> QED
  BY <1>1, GatewayAlwaysConsistent, PTL

\* docs/documentation.md:3855, the budget transitions in the ledger mirror the
\* persisted ones: proved of every interleaving of the calls with the sweep.
THEOREM LedgerMirrors == Spec => []LedgerMirrorsState
<1>1. GatewayInv => LedgerMirrorsState
  <2> SUFFICES ASSUME GatewayInv
               PROVE  \A c \in Calls : CallOK(At(c), call[c])
    BY DEF LedgerMirrorsState, CallOK, Mirrored, Committed
  <2> QED
    BY DEF GatewayInv
<1> QED
  BY <1>1, GatewayAlwaysConsistent, PTL

\* What the ledger takes of an item: the decision while it is pending, the
\* denial of what was reserved, the settlement of what was sent, the delivery
\* after all of them.
LEMMA DecisionAccepted ==
    ASSUME NEW r \in CallRecords, Waits(r), "approval" \notin r.done,
           r.done \cap {"settled", "budget", "delivery"} = {}, NEW e,
           e[1] = IF r.led.outcome = None THEN "pre_approval" ELSE "post_approval",
           e[2] = "refused"
    PROVE  AppendAccepts(r.led, e)
<1> DEFINE s == r.led
<1>1. CASE s.outcome = None
  <2>1. /\ s.accepted /\ ~s.terminal /\ s.decision = "require_approval" /\ s.pre = "pending"
        /\ s.stage \in {None, "reserved"} /\ ~s.dispatched /\ s.outcome = None
        /\ s.post = None
    BY <1>1 DEF Waits, WaitsBefore, Judged, Unsent, Stage
  <2>2. e[1] = "pre_approval"
    BY <1>1
  <2> HIDE DEF s
  <2>3. ~BudgetStops(s) /\ s.post \notin {"pending", "refused"}
        /\ s.outcome \notin {"failed", "unknown"}
    BY <2>1, Words DEF BudgetStops
  <2>4. Open(s, "pre_approval")
    BY <2>1, <2>3 DEF Open
  <2>5. PreApprovalAccepted(s, "refused")
    BY <2>1, Words DEF PreApprovalAccepted
  <2>6. Accepts(s, e)
    BY <2>1, <2>2, <2>4, <2>5 DEF Accepts
  <2>7. ~TerminalComplete(s)
    BY <2>1, <2>3 DEF TerminalComplete
  <2> QED
    BY <2>6, <2>7 DEF AppendAccepts, s
<1>2. CASE s.outcome # None
  <2>1. /\ s.accepted /\ ~s.terminal /\ s.decision \in {"allow", "require_approval"}
        /\ s.pre \in {None, "approved"} /\ s.outcome = "succeeded"
        /\ s.inspection = "require_approval" /\ s.post = "pending"
        /\ s.stage \in {None, "dispatched"}
    BY <1>2 DEF Waits, WaitsAfter, Sent, Stage
  <2>2. e[1] = "post_approval"
    BY <1>2
  <2> HIDE DEF s
  <2>3. ~BudgetStops(s) /\ s.pre \notin {"pending", "refused"}
    BY <2>1, Words DEF BudgetStops
  <2>4. Open(s, "post_approval")
    BY <2>1, <2>3 DEF Open
  <2>5. PostApprovalAccepted(s, "refused")
    BY <2>1, Words DEF PostApprovalAccepted
  <2>6. Accepts(s, e)
    BY <2>1, <2>2, <2>4, <2>5 DEF Accepts
  <2>7. ~TerminalComplete(s)
    BY <2>1, <2>3 DEF TerminalComplete
  <2> QED
    BY <2>6, <2>7 DEF AppendAccepts, s
<1> QED
  BY <1>1, <1>2

\* The denial of the reservation that its refused approval leaves.
LEMMA DenialAccepted ==
    ASSUME NEW r \in CallRecords, Waits(r), r.budgeted, r.led.outcome = None,
           "approval" \in r.done, "budget" \notin r.done, NEW e, e[1] = "budget", e[2] = "denied"
    PROVE  AppendAccepts(r.led, e)
<1> DEFINE s == r.led
<1>1. /\ s.accepted /\ ~s.terminal /\ s.decision = "require_approval" /\ s.pre = "refused"
      /\ s.stage = "reserved" /\ ~s.dispatched /\ s.post = None
  BY DEF Waits, WaitsBefore, Judged, Unsent, Stage
<1> HIDE DEF s
<1>2. /\ BudgetSeen(s) /\ ~BudgetTerminal(s) /\ ~BudgetStops(s)
      /\ s.post \notin {"pending", "refused"} /\ s.decision # None
  BY <1>1, Words DEF BudgetSeen, BudgetTerminal, BudgetStops
<1>3. Open(s, "budget")
  BY <1>1, <1>2 DEF Open
<1>4. BudgetAccepted(s, "denied")
  BY <1>1, <1>2 DEF BudgetAccepted
<1>5. Accepts(s, e)
  BY <1>1, <1>3, <1>4 DEF Accepts
<1>6. ~TerminalComplete(s)
  BY <1>2 DEF TerminalComplete
<1> QED
  BY <1>5, <1>6 DEF AppendAccepts, s

\* The settlement names the approval that the ledger knows of.
LEMMA SettlementAccepted ==
    ASSUME NEW r \in CallRecords, Waits(r), r.budgeted, r.led.outcome # None,
           "approval" \in r.done, "budget" \notin r.done, "delivery" \notin r.done,
           NEW e, e[1] = "budget",
           e[2] = IF r.led.postBudget THEN "settled_returned" ELSE "settled"
    PROVE  AppendAccepts(r.led, e)
<1> DEFINE s == r.led
<1>1. /\ s.accepted /\ ~s.terminal /\ s.decision \in {"allow", "require_approval"}
      /\ s.pre \in {None, "approved"} /\ s.outcome = "succeeded" /\ s.post = "refused"
      /\ s.stage = "dispatched" /\ s.postBudget /\ e[2] = "settled_returned"
  BY DEF Waits, WaitsAfter, Sent, Stage
<1> HIDE DEF s
<1>2. /\ BudgetSeen(s) /\ ~BudgetTerminal(s) /\ ~BudgetStops(s)
      /\ s.pre \notin {"pending", "refused"}
      /\ s.decision # None /\ s.outcome # None
  BY <1>1, Words DEF BudgetSeen, BudgetTerminal, BudgetStops
<1>3. Open(s, "budget")
  BY <1>1, <1>2 DEF Open
<1>4. BudgetAccepted(s, "settled_returned")
  <2>1. SettlementOf(s) = "settled_returned"
    BY <1>1 DEF SettlementOf
  <2> QED
    BY <1>1, <1>2, <2>1 DEF BudgetAccepted
<1>5. Accepts(s, e)
  BY <1>1, <1>3, <1>4 DEF Accepts
<1>6. ~TerminalComplete(s)
  BY <1>2 DEF TerminalComplete
<1> QED
  BY <1>5, <1>6 DEF AppendAccepts, s

\* The delivery of a withheld result closes the call.
LEMMA WithheldAccepted ==
    ASSUME NEW r \in CallRecords, Waits(r), r.led.outcome # None, "approval" \in r.done,
           "delivery" \notin r.done, ~r.budgeted \/ "budget" \in r.done,
           NEW e, e[1] = "delivery", e[2] = "withheld"
    PROVE  AppendAccepts(r.led, e)
<1> DEFINE s == r.led
<1>1. /\ s.accepted /\ ~s.terminal /\ s.decision \in {"allow", "require_approval"}
      /\ s.pre \in {None, "approved"} /\ s.outcome = "succeeded" /\ s.post = "refused"
      /\ s.stage \in {None, "settled"} /\ s.inspection = "require_approval"
  BY DEF Waits, WaitsAfter, Sent, Stage
<1> HIDE DEF s
<1>2. /\ ~BudgetStops(s) /\ (BudgetSeen(s) => BudgetTerminal(s))
      /\ s.pre \notin {"pending", "refused"} /\ s.inspection # None
  BY <1>1, Words DEF BudgetSeen, BudgetTerminal, BudgetStops
<1>3. Open(s, "delivery")
  BY <1>1, <1>2 DEF Open
<1>4. DeliveryAccepted(s, "withheld")
  <2>1. InspectionPermits(s) = FALSE
    BY <1>1 DEF InspectionPermits
  <2>2. ("withheld" = "forwarded") = FALSE
    OBVIOUS
  <2> QED
    BY <1>2, <2>1, <2>2 DEF DeliveryAccepted
<1>5. Accepts(s, e)
  BY <1>1, <1>3, <1>4 DEF Accepts
<1>6. ~TerminalComplete(s)
  BY <1>1, <1>2 DEF TerminalComplete
<1> QED
  BY <1>5, <1>6 DEF AppendAccepts, s

\* finishTerminalizedApproval and finishTerminalizedPostApproval: as long as no
\* operation of a call was lost, and its result was not too large, the ledger
\* takes whatever the cleanup of its approval still owes; no sweep repeats a
\* record for ever.
THEOREM CleanupAccepted == Spec => []CleanupNeverRefused
<1>1. GatewayInv => CleanupNeverRefused
  <2> SUFFICES ASSUME GatewayInv, NEW c \in Calls, Owing(c), ~call[c].lost, ~call[c].oversize
               PROVE  AppendAccepts(call[c].led, Owed(c))
    BY DEF CleanupNeverRefused
  <2> DEFINE r == call[c]
             e == Owed(c)
  <2>1. /\ r.at \in {"cleanup", "shutdown"} /\ "finalized" \in r.done
        /\ ~OwesSettlement(c) /\ ~ItemComplete(c)
    BY DEF Owing, Cleaning
  <2>2. CallOK(At(c), r) /\ r \in CallRecords
    BY DEF GatewayInv, CallOK
  <2>3. At(c) = "parked"
    BY <2>1, <2>2, Words DEF CallOK, Retained
  <2>4. CallOK("parked", r)
    BY <2>2, <2>3
  <2>5. Waits(r)
    BY <2>4 DEF CallOK, Recording, RecordingAsk
  <2>6. OwesApproval(c, e) \/ OwesDenial(c, e) \/ OwesBudget(c, e) \/ OwesDelivery(c, e)
    BY <2>1, <2>4, OwedIs
  <2> HIDE DEF e
  <2>7. CASE OwesApproval(c, e)
    <3>1. /\ "approval" \notin r.done /\ r.done \cap {"settled", "budget", "delivery"} = {}
          /\ e[1] = (IF r.led.outcome = None THEN "pre_approval" ELSE "post_approval")
          /\ e[2] = "refused"
      BY <2>7 DEF OwesApproval, Phase
    <3> QED
      BY <2>2, <2>5, <3>1, DecisionAccepted DEF e
  <2>8. CASE OwesDenial(c, e)
    BY <2>2, <2>5, <2>8, DenialAccepted DEF OwesDenial, e
  <2>9. CASE OwesBudget(c, e)
    BY <2>2, <2>5, <2>9, SettlementAccepted DEF OwesBudget, e
  <2>10. CASE OwesDelivery(c, e)
    BY <2>2, <2>5, <2>10, WithheldAccepted DEF OwesDelivery, e
  <2> QED
    BY <2>6, <2>7, <2>8, <2>9, <2>10
<1> QED
  BY <1>1, GatewayAlwaysConsistent, PTL

--------------------------------------------------------------------------------
\* What the ledger's lifecycle guarantees of every call it reads from its
\* acceptance: the dispatch has its grounds, what the tool answered has a
\* dispatch, what was inspected is an answer, and a call recorded as released or
\* denied was never recorded as sent.
Lawful(s) ==
    /\ s.dispatched => DispatchEligible(s)
    /\ s.outcome # None => s.dispatched
    /\ s.inspection # None => s.outcome = "succeeded"
    /\ s.stage \in {"released", "denied"} => ~s.dispatched
    /\ s.stage = "settled" => s.dispatched /\ s.outcome # None
    /\ s.postBudget => s.inspection = "require_approval"

Appended(s, t) == \E e : AppendAccepts(s, e) /\ t = Apply(s, e)

\* BuildCallStatuses: an event that is accepted after s, whatever it is, keeps
\* the laws, unless the reader has not seen the call's first records.
THEOREM AcceptedStaysLawful ==
    ASSUME NEW s \in LifecycleStates, ~s.missing, Lawful(s), NEW e, Accepts(s, e)
    PROVE  Lawful(Apply(s, e))
<1> DEFINE t == Apply(s, e)
<1>1. None # "succeeded" /\ None # "require_approval"
  BY LedgerAssumption
<1>2. Open(s, e[1]) /\ ~HistoryStart(s)
  BY DEF Accepts, HistoryStart
<1>3. CASE e[1] \notin {"pre_decision", "pre_approval", "post_approval", "budget", "dispatch",
                        "downstream", "inspection"}
  <2>1. /\ t.dispatched = s.dispatched /\ t.decision = s.decision
        /\ t.pre = s.pre /\ t.outcome = s.outcome
        /\ t.inspection = s.inspection /\ t.stage = s.stage
        /\ t.postBudget = s.postBudget
    BY <1>3 DEF Apply, LifecycleStates
  <2> HIDE DEF t
  <2>2. Lawful(t)
    BY <2>1 DEF Lawful, DispatchEligible
  <2> QED
    BY <2>2 DEF t
<1>4. CASE e[1] \in {"pre_decision", "pre_approval"}
  <2>1. ~s.dispatched
    BY <1>4 DEF Accepts, PreApprovalAccepted
  <2>2. /\ t.dispatched = s.dispatched /\ t.outcome = s.outcome
        /\ t.inspection = s.inspection /\ t.stage = s.stage
        /\ t.postBudget = s.postBudget
    BY <1>4 DEF Apply, LifecycleStates
  <2> HIDE DEF t
  <2>3. Lawful(t)
    BY <2>1, <2>2 DEF Lawful
  <2> QED
    BY <2>3 DEF t
<1>6. CASE e[1] = "post_approval"
  <2>1. /\ t.dispatched = s.dispatched /\ t.decision = s.decision
        /\ t.pre = s.pre /\ t.outcome = s.outcome
        /\ t.inspection = s.inspection /\ t.stage = s.stage
        /\ t.postBudget = s.postBudget
    BY <1>6 DEF Apply, LifecycleStates
  <2> HIDE DEF t
  <2>2. Lawful(t)
    BY <2>1 DEF Lawful, DispatchEligible
  <2> QED
    BY <2>2 DEF t
<1>7. CASE e[1] = "budget"
  <2>1. /\ t.dispatched = s.dispatched /\ t.decision = s.decision
        /\ t.pre = s.pre /\ t.outcome = s.outcome
        /\ t.inspection = s.inspection
        /\ e[2] # "post_reserved" => t.postBudget = s.postBudget
        /\ e[2] = "post_reserved" => t.stage = s.stage
        /\ e[2] \in {"settled", "settled_charged", "settled_returned"} => t.stage = "settled"
        /\ e[2] \in {"reserved", "dispatched", "released", "denied", "indeterminate"} =>
              t.stage = e[2]
    BY <1>7 DEF Apply, LifecycleStates
  <2> HIDE DEF t
  <2>2. BudgetAccepted(s, e[2])
    BY <1>7 DEF Accepts
  <2>3. CASE e[2] = "post_reserved"
    <3>1. s.inspection = "require_approval"
      BY <2>2, <2>3 DEF BudgetAccepted
    <3>2. Lawful(t)
      BY <2>1, <2>3, <3>1 DEF Lawful, DispatchEligible
    <3> QED
      BY <3>2 DEF t
  <2>4. CASE e[2] \in {"released", "denied"}
    <3>1. ~s.dispatched
      BY <2>2, <2>4 DEF BudgetAccepted
    <3>2. Lawful(t)
      BY <2>1, <2>4, <3>1 DEF Lawful, DispatchEligible
    <3> QED
      BY <3>2 DEF t
  <2>5. CASE e[2] \in {"reserved", "dispatched", "indeterminate"}
    <3>1. Lawful(t)
      BY <2>1, <2>5 DEF Lawful, DispatchEligible
    <3> QED
      BY <3>1 DEF t
  <2>6. CASE e[2] \notin {"post_reserved", "released", "denied", "reserved", "dispatched",
                          "indeterminate"}
    <3>1. s.stage = "dispatched" /\ s.outcome # None /\ e[2] = SettlementOf(s)
      BY <1>2, <2>2, <2>6 DEF BudgetAccepted
    <3>2. e[2] \in {"settled", "settled_charged", "settled_returned"}
      BY <3>1 DEF SettlementOf, LifecycleStates
    <3>3. Lawful(t)
      BY <2>1, <3>1, <3>2 DEF Lawful, DispatchEligible
    <3> QED
      BY <3>3 DEF t
  <2> QED
    BY <2>3, <2>4, <2>5, <2>6 DEF t
<1>8. CASE e[1] = "dispatch"
  <2>1. DispatchAccepted(s)
    BY <1>8 DEF Accepts
  <2>2. DispatchEligible(s) /\ s.stage \notin {"released", "denied"}
    BY <1>2, <2>1 DEF DispatchAccepted, Open, BudgetStops
  <2>3. /\ t.dispatched /\ t.decision = s.decision
        /\ t.pre = s.pre /\ t.outcome = s.outcome
        /\ t.inspection = s.inspection /\ t.stage = s.stage
        /\ t.postBudget = s.postBudget
    BY <1>8 DEF Apply, LifecycleStates
  <2> HIDE DEF t
  <2>4. Lawful(t)
    BY <2>2, <2>3 DEF Lawful, DispatchEligible
  <2> QED
    BY <2>4 DEF t
<1>9. CASE e[1] = "downstream"
  <2>1. s.dispatched /\ s.outcome = None
    BY <1>9 DEF Accepts
  <2>3. /\ t.dispatched = s.dispatched /\ t.decision = s.decision
        /\ t.pre = s.pre /\ t.inspection = s.inspection
        /\ t.stage = s.stage /\ t.postBudget = s.postBudget
    BY <1>9 DEF Apply, LifecycleStates
  <2>4. s.inspection = None /\ s.stage # "settled"
    BY <1>1, <2>1 DEF Lawful
  <2> HIDE DEF t
  <2>5. Lawful(t)
    BY <2>1, <2>3, <2>4 DEF Lawful, DispatchEligible
  <2> QED
    BY <2>5 DEF t
<1>10. CASE e[1] = "inspection"
  <2>1. s.outcome = "succeeded" /\ s.inspection = None
    BY <1>10 DEF Accepts
  <2>2. /\ t.dispatched = s.dispatched /\ t.decision = s.decision
        /\ t.pre = s.pre /\ t.outcome = s.outcome
        /\ t.stage = s.stage /\ t.postBudget = s.postBudget
    BY <1>10 DEF Apply, LifecycleStates
  <2>3. ~s.postBudget
    BY <1>1, <2>1 DEF Lawful, LifecycleStates
  <2> HIDE DEF t
  <2>4. Lawful(t)
    BY <2>1, <2>2, <2>3 DEF Lawful, DispatchEligible
  <2> QED
    BY <2>4 DEF t
<1> QED
  BY <1>3, <1>4, <1>6, <1>7, <1>8, <1>9, <1>10

--------------------------------------------------------------------------------
\* The ledger of every call changes by events it accepts.
LedStep == \A d \in Calls : \/ call'[d].led = call[d].led
                            \/ Appended(call[d].led, call'[d].led)

\* A step of one call.
LEMMA GoLed ==
    ASSUME call \in [Calls -> CallRecords], NEW c \in Calls, NEW r, NEW step,
           Go(c, r, step), r.led = call[c].led \/ Appended(call[c].led, r.led)
    PROVE  LedStep
<1>1. call' = [call EXCEPT ![c] = r]
  BY DEF Go
<1>2. SUFFICES ASSUME NEW d \in Calls
               PROVE  call'[d].led = call[d].led \/ Appended(call[d].led, call'[d].led)
  BY DEF LedStep
<1> QED
  BY <1>1, <1>2

Told(c, q) == q.led = call[c].led \/ Appended(call[c].led, q.led)

\* An append, recorded or not, and what the call goes on with.
LEMMA WithEventTold ==
    ASSUME call \in [Calls -> CallRecords], NEW c \in Calls, NEW e, NEW o, NEW v, NEW d
    PROVE  /\ Told(c, WithEvent(c, e, o))
           /\ Told(c, [WithEvent(c, e, o) EXCEPT !.verdict = v])
           /\ Told(c, [WithEvent(c, e, o) EXCEPT !.done = @ \cup d])
<1> DEFINE q == WithEvent(c, e, o)
           r == call[c]
<1>1. r \in CallRecords
  OBVIOUS
<1>2. CASE ~Recorded(c, e, o)
  <2>1. q = r
    BY <1>2 DEF WithEvent
  <2> HIDE DEF q, r
  <2>2. q.led = r.led /\ [q EXCEPT !.verdict = v].led = q.led /\ [q EXCEPT !.done = @ \cup d].led = q.led
    BY <1>1, <2>1 DEF CallRecords
  <2> QED
    BY <2>2 DEF Told, q, r
<1>3. CASE Recorded(c, e, o)
  <2>1. q = [r EXCEPT !.led = Apply(@, e), !.lost = @ \/ o = "lost"]
    BY <1>3 DEF WithEvent
  <2>2. AppendAccepts(r.led, e)
    BY <1>3 DEF Recorded
  <2> HIDE DEF q, r
  <2>3. /\ q.led = Apply(r.led, e) /\ [q EXCEPT !.verdict = v].led = q.led
        /\ [q EXCEPT !.done = @ \cup d].led = q.led
    BY <1>1, <2>1 DEF CallRecords
  <2>4. Appended(r.led, q.led)
    BY <2>2, <2>3 DEF Appended
  <2> QED
    BY <2>3, <2>4 DEF Told, q, r
<1> QED
  BY <1>2, <1>3

\* A record.
LEMMA RecordLed ==
    ASSUME call \in [Calls -> CallRecords], NEW c \in Calls, NEW e, NEW good, NEW bad,
           Record(c, e, good, bad)
    PROVE  LedStep
<1>1. PICK o \in Outcomes :
         Go(c, WithEvent(c, e, o), IF o = "ok" /\ Recorded(c, e, o) THEN good ELSE bad)
  BY DEF Record
<1>2. Told(c, WithEvent(c, e, o))
  BY WithEventTold
<1> QED
  BY <1>1, <1>2, GoLed DEF Told

Same(c, q) == "led" \in DOMAIN q /\ q.led = call[c].led

\* An operation on the action state leaves the ledger alone.
LEMMA DurableLed ==
    ASSUME call \in [Calls -> CallRecords], NEW c \in Calls, NEW enabled, NEW r, NEW good, NEW bad,
           Durable(c, enabled, r, good, bad), Same(c, r)
    PROVE  LedStep
<1>1. PICK o \in Outcomes :
         Go(c, IF enabled /\ o # "fail" THEN [r EXCEPT !.lost = @ \/ o = "lost"] ELSE call[c],
            IF enabled /\ o = "ok" THEN good ELSE bad)
  BY DEF Durable
<1>2. (IF enabled /\ o # "fail" THEN [r EXCEPT !.lost = @ \/ o = "lost"] ELSE call[c]).led = call[c].led
  BY DEF Same
<1> QED
  BY <1>1, <1>2, GoLed

\* What the operations make of a record, apart from the ledger.
LEMMA SameLed ==
    ASSUME call \in [Calls -> CallRecords], NEW c \in Calls, NEW status
    PROVE  /\ Same(c, call[c]) /\ Same(c, Becomes(c, status)) /\ Same(c, Ask(c, status))
           /\ Same(c, Refused(c)) /\ Same(c, Finalized(c)) /\ Same(c, Settled(c))
  BY DEF Same, Becomes, Ask, Refused, Finalized, Settled, CallRecords

\* The steps of a call at work, apart from those that only record or only
\* operate on the action state.
LEMMA WorkLed ==
    ASSUME call \in [Calls -> CallRecords], NEW c \in Calls, Work(c)
    PROVE  LedStep
<1> USE SameLed, DurableLed, RecordLed, GoLed DEF Step
<1>1. CASE Reserve(c) \/ AcceptRequest(c) \/ RecordReserved(c)
  BY <1>1 DEF Reserve, AcceptRequest, RecordReserved
<1>2. CASE Decide(c)
  BY <1>2 DEF Decide
<1>3. ASSUME NEW next, ReleaseReservation(c, next) PROVE LedStep
  BY <1>3 DEF ReleaseReservation, Same
<1>4. ASSUME NEW good, NEW bad, MarkIndeterminate(c, good, bad) PROVE LedStep
  BY <1>4 DEF MarkIndeterminate
<1>5. CASE ReleaseQuietly(c) \/ ReleaseCall(c)
  BY <1>3, <1>5 DEF ReleaseQuietly, ReleaseCall
<1>6. CASE DenyCall(c)
  BY <1>6 DEF DenyCall, Same
<1>7. CASE CommitDispatch(c)
  BY <1>7 DEF CommitDispatch, Same
<1>8. CASE MarkQuietly(c)
  BY <1>4, <1>8 DEF MarkQuietly, Same
<1>9. CASE IssueApproval(c)
  BY <1>9 DEF IssueApproval, Unasked, Same
<1>10. CASE RecordRequest(c)
  BY <1>10 DEF RecordRequest
<1>11. CASE FinalizeQuietly(c) \/ Finalize(c)
  BY <1>11 DEF FinalizeQuietly, Finalize
<1>12. CASE Consume(c)
  BY <1>12 DEF Consume, Same
<1>13. CASE RecordDecided(c)
  BY <1>13, WithEventTold DEF RecordDecided, Told
<1>14. CASE RecordGranted(c)
  BY <1>14, WithEventTold DEF RecordGranted, Told
<1>15. CASE EvaluateAgain(c)
  BY <1>15 DEF EvaluateAgain, Same
<1>16. CASE CallTool(c)
  <2> DEFINE r == call[c]
  <2>1. r \in CallRecords
    OBVIOUS
  <2>2. \A oversize :
           /\ [r EXCEPT !.io = @ + 1].led = r.led
           /\ [r EXCEPT !.io = @ + 1, !.oversize = oversize].led = r.led
           /\ [r EXCEPT !.io = @ + 1, !.oversize = oversize, !.verdict = "failed"].led = r.led
    BY <2>1 DEF CallRecords
  <2>3. PICK q, step : Go(c, q, step) /\ q.led = r.led
    BY <1>16, <2>2 DEF CallTool
  <2> QED
    BY <2>3, GoLed
<1>17. CASE FailUnknown(c)
  BY <1>4, <1>17 DEF FailUnknown
<1>18. CASE FinishCall(c)
  BY <1>18, WithEventTold DEF FinishCall, Told
<1>19. CASE Settle(c)
  BY <1>4, <1>19 DEF Settle, Same
<1>20. CASE RecordResult(c)
  BY <1>20 DEF RecordResult
<1> QED
  BY <1>1, <1>2, <1>5, <1>6, <1>7, <1>8, <1>9, <1>10, <1>11, <1>12, <1>13, <1>14, <1>15,
     <1>16, <1>17, <1>18, <1>19, <1>20 DEF Work

\* The steps of the sweep, of the expiry and of Close.
LEMMA SweepingLed ==
    ASSUME call \in [Calls -> CallRecords], Sweeping
    PROVE  LedStep
<1>1. CASE ReconcileExpired
  <2>1. ASSUME NEW d \in Calls
        PROVE  call'[d].led = call[d].led
    <3> DEFINE q == Refused(d)
    <3>1. "led" \in DOMAIN q /\ q.led = call[d].led
      BY <2>1, SameLed DEF Same
    <3>2. \/ call'[d] \in {call[d], q, [q EXCEPT !.lost = TRUE]}
          \/ call'[d] = [q EXCEPT !.at = "cleanup", !.done = {"finalized"}]
      <4> HIDE DEF q
      <4> QED
        BY <1>1, <2>1 DEF ReconcileExpired, q
    <3> HIDE DEF q
    <3> QED
      BY <3>1, <3>2
  <2> QED
    BY <2>1 DEF LedStep
<1>2. CASE EndSweep
  BY <1>2 DEF EndSweep, LedStep, CallRecords
<1>3. ASSUME NEW c \in Calls, FinishItem(c)
      PROVE  LedStep
  <2>1. ASSUME NEW r, NEW good, Item(c, r, good), Told(c, r)
        PROVE  LedStep
    BY <2>1 DEF Item, LedStep, Told
  <2>2. ASSUME NEW enabled, NEW r, NEW mark, ItemState(c, enabled, r, mark), Same(c, r)
        PROVE  LedStep
    <3>1. PICK o \in Outcomes :
             Item(c, IF ~enabled \/ o = "fail" THEN call[c]
                     ELSE IF o = "lost" THEN [r EXCEPT !.lost = TRUE]
                     ELSE [r EXCEPT !.done = @ \cup {mark}], enabled /\ o = "ok")
      BY <2>2 DEF ItemState
    <3>2. Told(c, IF ~enabled \/ o = "fail" THEN call[c]
                  ELSE IF o = "lost" THEN [r EXCEPT !.lost = TRUE]
                  ELSE [r EXCEPT !.done = @ \cup {mark}])
      BY <2>2 DEF Same, Told
    <3> QED
      BY <2>1, <3>1, <3>2
  <2>3. CASE \E e, o : LET r == WithEvent(c, e, o)
                           good == o = "ok" /\ Recorded(c, e, o)
                       IN Item(c, IF good THEN [r EXCEPT !.done = @ \cup {Mark(e)}] ELSE r, good)
    BY <2>1, <2>3, WithEventTold
  <2>4. CASE call' = [call EXCEPT ![c].at = None]
    BY <2>4 DEF LedStep, CallRecords
  <2> QED
    BY <1>3, <2>2, <2>3, <2>4, SameLed DEF FinishItem
<1> QED
  BY <1>1, <1>2, <1>3 DEF Sweeping

\* Every step.
LEMMA NextLed ==
    ASSUME call \in [Calls -> CallRecords], [Next]_vars
    PROVE  LedStep
<1>1. ASSUME UNCHANGED call PROVE LedStep
  BY <1>1 DEF LedStep
<1>2. ASSUME NEW c \in Calls, Arrive(c) \/ Park(c) \/ Resume(c)
      PROVE  LedStep
  BY <1>2, GoLed DEF Arrive, Park, Resume, CallRecords
<1>3. ASSUME NEW c \in Calls, TakeLock(c) \/ CallSweep(c) \/ Expire(c)
      PROVE  LedStep
  BY <1>1, <1>3 DEF TakeLock, CallSweep, Expire
<1>4. ASSUME NEW c \in Calls, ExpireElsewhere(c)
      PROVE  LedStep
  BY <1>4 DEF ExpireElsewhere, Refused, LedStep, CallRecords
<1>5. CASE WorkerSweep \/ Close \/ CloseLease \/ UNCHANGED vars
  BY <1>1, <1>5 DEF WorkerSweep, Close, CloseLease, vars
<1>6. CASE ShutdownPending
  <2>1. ASSUME NEW d \in Calls
        PROVE  call'[d].led = call[d].led
    BY <1>6, <2>1 DEF ShutdownPending, CallRecords
  <2> QED
    BY <2>1 DEF LedStep
<1> QED
  BY <1>2, <1>3, <1>4, <1>5, <1>6, WorkLed, SweepingLed DEF Next

AllLawful == \A c \in Calls : Lawful(call[c].led)

\* BuildCallStatuses and AppendAccepts: whatever order the gateway's calls, its
\* sweep and its shutdown record things in, and whatever fails, the ledger never
\* holds a dispatch without grounds, an answer without a dispatch, or a release
\* or a denial of what was sent.
THEOREM LedgerLawful == Spec => []AllLawful
<1>1. Init => AllLawful
  BY LedgerAssumption DEF Init, AllLawful, Lawful, Fresh
<1>2. GatewayInv /\ AllLawful /\ [Next]_vars /\ GatewayInv' => AllLawful'
  <2> SUFFICES ASSUME GatewayInv, AllLawful, [Next]_vars, NEW c \in Calls
               PROVE  Lawful(call'[c].led)
    BY DEF AllLawful
  <2> DEFINE s == call[c].led
             t == call'[c].led
  <2>1. call \in [Calls -> CallRecords] /\ CallOK(At(c), call[c])
    BY DEF GatewayInv
  <2>2. s \in LifecycleStates /\ ~s.missing /\ Lawful(s)
    BY <2>1 DEF CallRecords, CallOK, Closed, AllLawful
  <2>3. t = s \/ Appended(s, t)
    BY <2>1, NextLed DEF LedStep
  <2> HIDE DEF s, t
  <2>4. ASSUME NEW e, AppendAccepts(s, e), t = Apply(s, e)
        PROVE  Lawful(t)
    BY <2>2, <2>4, AcceptedStaysLawful DEF AppendAccepts
  <2>5. Lawful(t)
    BY <2>2, <2>3, <2>4 DEF Appended
  <2> QED
    BY <2>5 DEF t
<1> QED
  BY <1>1, <1>2, GatewayAlwaysConsistent, PTL DEF Spec
--------------------------------------------------------------------------------
(* The reservation of a call moves as CallLifecycle says.                  *)

\* What CallLifecycle calls the state of a reservation.
ReservationPhase(res) ==
    CASE res = None                     -> "new"
      [] res = "reserved"               -> "held"
      [] res = "dispatched"             -> "sent"
      [] res = "indeterminate"          -> "unknown"
      [] res = "settled"                -> "closed_sent"
      [] res \in {"released", "denied"} -> "closed_unsent"

PhaseMap == [c \in Calls |-> ReservationPhase(call[c].res)]

Lifecycle == INSTANCE CallLifecycle WITH phase <- PhaseMap

\* Before its reservation a call has none; until its first question it holds one, and as
\* long as a question before its dispatch is open.
Unheld  == {"new", "presweep", "reserve"}
Holding == {"accept", "decide", "reserved", "asksweep", "issue"}

Charged(p, r) == /\ p \in Unheld => r.res = None
                 /\ r.budgeted /\ (p \in Holding \/ r.pre = "pending") => r.res = "reserved"

ChargedInv == \A c \in Calls : Charged(At(c), call[c])

\* What one operation does to a reservation.
Moved(x, y) == \/ y = x
               \/ x = None /\ y = "reserved"
               \/ x = "reserved" /\ y \in {"dispatched", "released", "denied", "indeterminate"}
               \/ x = "dispatched" /\ y \in {"indeterminate", "settled"}

\* A step of one call leaves the reservations of the others alone.
Alone(c) == /\ Moved(call[c].res, call'[c].res)
            /\ \A d \in Calls \ {c} : call'[d].res = call[d].res

\* Most places rely on nothing that the state alone must keep.
Late == Places \ (Unheld \cup Holding)

LEMMA ChargedLater ==
    ASSUME NEW p, NEW q \in Late, NEW r, Charged(p, r)
    PROVE  Charged(q, r)
  BY DEF Charged, Late

LEMMA PlacesApart ==
    /\ "sweeping" \notin Places
    /\ {"release_quiet", "release", "release_event", "deny", "deny_event", "deny_failure", "mark",
        "commit_event", "dispatch_event", "issue_reserved", "issue_event", "again", "io",
        "done", "indeterminate_quiet", "parked"} \subseteq Late
    /\ Beyond \subseteq Late /\ Asking \subseteq Late
    /\ Holding \subseteq Places /\ Holding \cap Unheld = {}
  BY DEF Late, Places, Before, Beyond, Asking, Ended, Unheld, Holding

\* A call at work: what its record says, and the invariant at its place.
LEMMA AtPlace ==
    ASSUME GatewayInv, ChargedInv, NEW c \in Calls, pc[c] # "sweeping"
    PROVE  /\ call \in [Calls -> CallRecords] /\ call[c] \in CallRecords
           /\ CallOK(pc[c], call[c]) /\ Charged(pc[c], call[c])
           /\ \A q \in Late : Charged(q, call[c])
<1>1. CallOK(pc[c], call[c]) /\ Charged(pc[c], call[c]) /\ call \in [Calls -> CallRecords]
  BY DEF GatewayInv, ChargedInv, At
<1> QED
  BY <1>1, ChargedLater

\* One call moves.
LEMMA GoMoves ==
    ASSUME GatewayInv, ChargedInv, NEW c \in Calls, NEW r, NEW step, Go(c, r, step),
           pc[c] # "sweeping", step # "sweeping", Charged(step, r), Moved(call[c].res, r.res)
    PROVE  ChargedInv' /\ Alone(c)
<1>1. pc' = [pc EXCEPT ![c] = step] /\ call' = [call EXCEPT ![c] = r] /\ sweep' = sweep
  BY DEF Go
<1>2. pc \in [Calls -> Places \cup {"sweeping"}] /\ call \in [Calls -> CallRecords]
  BY DEF GatewayInv
<1>3. \A d \in Calls : /\ pc'[d] = IF d = c THEN step ELSE pc[d]
                       /\ call'[d] = IF d = c THEN r ELSE call[d]
  BY <1>1, <1>2
<1>4. \A d \in Calls : Charged(At(d)', call'[d])
  <2> TAKE d \in Calls
  <2>1. CASE d = c
    BY <1>3, <2>1 DEF At
  <2>2. CASE d # c
    BY <1>1, <1>3, <2>2 DEF At, ChargedInv
  <2> QED
    BY <2>1, <2>2
<1> QED
  BY <1>3, <1>4 DEF ChargedInv, Alone

\* A record that differs in what neither the invariant nor the lifecycle reads.
Alike(r, w) == w.res = r.res /\ w.pre = r.pre /\ (w.budgeted <=> r.budgeted)

LEMMA ChargedAlike ==
    ASSUME NEW p, NEW r, NEW w, Alike(r, w), Charged(p, r)
    PROVE  Charged(p, w) /\ Moved(r.res, w.res)
  BY DEF Alike, Charged, Moved

LEMMA DurableMoves ==
    ASSUME GatewayInv, ChargedInv, NEW c \in Calls, NEW enabled, NEW r, NEW good, NEW bad,
           Durable(c, enabled, r, good, bad),
           pc[c] # "sweeping", good # "sweeping", bad # "sweeping",
           enabled => /\ r \in CallRecords /\ Charged(good, r) /\ Charged(bad, r)
                      /\ Moved(call[c].res, r.res),
           Charged(bad, call[c])
    PROVE  ChargedInv' /\ Alone(c)
<1>1. PICK o \in Outcomes :
         Go(c, IF enabled /\ o # "fail" THEN [r EXCEPT !.lost = @ \/ o = "lost"] ELSE call[c],
            IF enabled /\ o = "ok" THEN good ELSE bad)
  BY DEF Durable
<1>2. CASE enabled /\ o # "fail"
  <2> DEFINE w == [r EXCEPT !.lost = @ \/ o = "lost"]
             q == IF o = "ok" THEN good ELSE bad
  <2>1. Alike(r, w)
    BY <1>2 DEF Alike, CallRecords
  <2>2. Go(c, w, q) /\ q # "sweeping" /\ Charged(q, r)
    BY <1>1, <1>2
  <2> HIDE DEF w, q
  <2>3. Charged(q, w)
    BY <2>1, <2>2, ChargedAlike
  <2>4. Moved(call[c].res, w.res)
    BY <1>2, <2>1 DEF Alike
  <2> QED
    BY <2>2, <2>3, <2>4, GoMoves
<1>3. CASE ~(enabled /\ o # "fail")
  <2>1. Go(c, call[c], bad)
    BY <1>1, <1>3
  <2>2. Moved(call[c].res, call[c].res)
    BY DEF Moved
  <2> QED
    BY <2>1, <2>2, GoMoves
<1> QED
  BY <1>2, <1>3

LEMMA WithEventAlike ==
    ASSUME GatewayInv, NEW c \in Calls, NEW e, NEW o, NEW v
    PROVE  /\ Alike(call[c], WithEvent(c, e, o))
           /\ Alike(call[c], [WithEvent(c, e, o) EXCEPT !.verdict = v])
<1>1. call[c] \in CallRecords
  BY DEF GatewayInv
<1>2. CASE Recorded(c, e, o)
  BY <1>1, <1>2 DEF WithEvent, Alike, CallRecords
<1>3. CASE ~Recorded(c, e, o)
  BY <1>1, <1>3 DEF WithEvent, Alike, CallRecords
<1> QED
  BY <1>2, <1>3

LEMMA RecordMoves ==
    ASSUME GatewayInv, ChargedInv, NEW c \in Calls, NEW e, NEW good, NEW bad,
           Record(c, e, good, bad),
           pc[c] # "sweeping", good # "sweeping", bad # "sweeping",
           Charged(good, call[c]), Charged(bad, call[c])
    PROVE  ChargedInv' /\ Alone(c)
<1>1. PICK o \in Outcomes :
         Go(c, WithEvent(c, e, o), IF o = "ok" /\ Recorded(c, e, o) THEN good ELSE bad)
  BY DEF Record
<1> DEFINE q == IF o = "ok" /\ Recorded(c, e, o) THEN good ELSE bad
<1>2. Go(c, WithEvent(c, e, o), q) /\ q # "sweeping" /\ Charged(q, call[c])
  BY <1>1
<1> HIDE DEF q
<1>3. Charged(q, WithEvent(c, e, o)) /\ Moved(call[c].res, WithEvent(c, e, o).res)
  BY <1>2, WithEventAlike, ChargedAlike
<1> QED
  BY <1>2, <1>3, GoMoves

\* The operations of a call on its reservation.
LEMMA ReleaseMoves ==
    ASSUME GatewayInv, ChargedInv, NEW c \in Calls, NEW next \in Late, pc[c] # "sweeping",
           ReleaseReservation(c, next)
    PROVE  ChargedInv' /\ Alone(c)
<1>1. call[c] \in CallRecords /\ Charged(next, call[c]) /\ next # "sweeping"
  BY AtPlace, PlacesApart DEF Late
<1>2. CASE call[c].budgeted
  <2> DEFINE w == Becomes(c, "released")
  <2>1. /\ w \in CallRecords /\ w.res = "released" /\ w.pre = call[c].pre
        /\ w.budgeted <=> call[c].budgeted
    BY <1>1 DEF Becomes, CallRecords
  <2>2. Durable(c, call[c].res = "reserved" /\ NoPending(c), w, next, next)
    BY <1>2 DEF ReleaseReservation
  <2> HIDE DEF w
  <2>3. call[c].res = "reserved" /\ NoPending(c) =>
           /\ w \in CallRecords /\ Charged(next, w) /\ Charged(next, w)
           /\ Moved(call[c].res, w.res)
    BY <2>1 DEF NoPending, Charged, Moved, Late
  <2> QED
    BY <1>1, <2>2, <2>3, DurableMoves
<1>3. CASE ~call[c].budgeted
  <2>1. Go(c, call[c], next)
    BY <1>3 DEF ReleaseReservation, Step
  <2> QED
    BY <1>1, <2>1, GoMoves DEF Moved
<1> QED
  BY <1>2, <1>3

LEMMA IndeterminateMoves ==
    ASSUME GatewayInv, ChargedInv, NEW c \in Calls, NEW good \in Late, NEW bad \in Late,
           pc[c] # "sweeping", MarkIndeterminate(c, good, bad)
    PROVE  ChargedInv' /\ Alone(c)
<1> DEFINE w == Becomes(c, "indeterminate")
<1>1. /\ call[c] \in CallRecords /\ Charged(good, call[c]) /\ Charged(bad, call[c])
      /\ good # "sweeping" /\ bad # "sweeping"
  BY AtPlace, PlacesApart DEF Late
<1>2. /\ w \in CallRecords /\ w.res = "indeterminate" /\ w.pre = call[c].pre
      /\ w.budgeted <=> call[c].budgeted
  BY <1>1 DEF Becomes, CallRecords
<1>3. Durable(c, call[c].res \in {"reserved", "dispatched", "indeterminate"} /\ NoPending(c), w,
              good, bad)
  BY DEF MarkIndeterminate
<1> HIDE DEF w
<1>4. call[c].res \in {"reserved", "dispatched", "indeterminate"} /\ NoPending(c) =>
         /\ w \in CallRecords /\ Charged(good, w) /\ Charged(bad, w) /\ Moved(call[c].res, w.res)
  BY <1>2 DEF NoPending, Charged, Moved, Late
<1> QED
  BY <1>1, <1>3, <1>4, DurableMoves

\* An approval that ends ungranted.
LEMMA RefusedMoves ==
    ASSUME NEW c \in Calls, call[c] \in CallRecords, NEW p, Charged(p, call[c]), p \notin Holding,
           p \notin Unheld, Approval(c) = "pending"
    PROVE  /\ Charged(p, Refused(c))
           /\ \/ Refused(c).res = call[c].res
              \/ call[c].res = "reserved" /\ Refused(c).res = "denied"
           /\ Moved(call[c].res, Refused(c).res)
<1> DEFINE r == call[c]
           w == Refused(c)
<1>1. /\ w.budgeted = r.budgeted
      /\ IF r.led.outcome = None
         THEN w.pre = "refused" /\ w.res = IF r.budgeted THEN "denied" ELSE r.res
         ELSE w.pre = r.pre /\ w.res = r.res
  BY RefusedFields
<1>2. r.led.outcome = None => r.pre = "pending"
  BY DEF Approval, Phase
<1> HIDE DEF w
<1>3. w.res = r.res \/ (r.res = "reserved" /\ w.res = "denied")
  BY <1>1, <1>2 DEF Charged
<1>4. Charged(p, w)
  BY <1>1 DEF Charged
<1> QED
  BY <1>3, <1>4 DEF Moved, w

LEMMA FinalizedMoves ==
    ASSUME NEW c \in Calls, call[c] \in CallRecords, NEW p, Charged(p, call[c]), p \notin Holding,
           p \notin Unheld
    PROVE  /\ Charged(p, Finalized(c)) /\ Moved(call[c].res, Finalized(c).res)
           /\ Finalized(c) \in CallRecords
  BY RefusedMoves, RefusedFields DEF Finalized, Moved

\* A call up to its dispatch.
LEMMA BeforeMoves ==
    ASSUME GatewayInv, ChargedInv, NEW c \in Calls,
           \/ Reserve(c) \/ AcceptRequest(c) \/ Decide(c) \/ RecordReserved(c)
           \/ ReleaseQuietly(c) \/ ReleaseCall(c) \/ DenyCall(c) \/ CommitDispatch(c)
           \/ MarkQuietly(c)
    PROVE  ChargedInv' /\ Alone(c)
<1> DEFINE r == call[c]
<1>1. pc[c] # "sweeping"
  BY DEF Reserve, AcceptRequest, Decide, RecordReserved, ReleaseQuietly, ReleaseCall, DenyCall,
     CommitDispatch, MarkQuietly
<1>2. /\ r \in CallRecords /\ CallOK(pc[c], r) /\ Charged(pc[c], r)
      /\ \A q \in Late : Charged(q, r) /\ q # "sweeping"
  BY <1>1, AtPlace, PlacesApart DEF Late
<1>3. \A q \in {"release_quiet", "release", "release_event", "deny", "deny_event", "deny_failure",
                "mark", "commit_event", "dispatch_event", "io", "done", "indeterminate_quiet"} :
         q \in Late
  BY PlacesApart
<1>4. \A p \in Holding, q \in Holding : Charged(p, r) => Charged(q, r) /\ q # "sweeping"
  BY PlacesApart DEF Charged
<1>5. \A q : Step(c, q) /\ q \in Late => ChargedInv' /\ Alone(c)
  BY <1>1, <1>2, GoMoves DEF Step, Moved
<1>6. \A s : /\ Becomes(c, s).res = s /\ Becomes(c, s).pre = r.pre
             /\ Becomes(c, s).budgeted <=> r.budgeted
  BY <1>2 DEF Becomes, CallRecords
<1>7. \A s \in {"reserved", "dispatched", "denied"} : Becomes(c, s) \in CallRecords
  BY <1>2 DEF Becomes, CallRecords
<1>8. CASE Reserve(c)
  <2> DEFINE w == Becomes(c, "reserved")
  <2>1. Durable(c, TRUE, w, "accept", "done") /\ r.res = None
    BY <1>2, <1>8 DEF Reserve, Charged, Unheld
  <2>2. Charged("accept", w) /\ Charged("done", w) /\ Moved(r.res, w.res) /\ w \in CallRecords
    BY <1>6, <1>7, <2>1 DEF Charged, Unheld, Moved
  <2> HIDE DEF w
  <2> QED
    BY <1>1, <1>2, <1>3, <2>1, <2>2, DurableMoves
<1>9. CASE AcceptRequest(c)
  <2>1. Record(c, <<"accepted", None>>, "decide", "release_quiet") /\ pc[c] = "accept"
    BY <1>9 DEF AcceptRequest
  <2>2. Charged("decide", r) /\ Charged("release_quiet", r)
    BY <1>2, <1>3, <1>4, <2>1 DEF Holding
  <2> QED
    BY <1>1, <2>1, <2>2, RecordMoves
<1>10. CASE Decide(c)
  <2>1. PICK d \in {"allow", "block", "require_approval"} :
           Record(c, <<"pre_decision", d>>, AfterDecision(c, d), "release_quiet")
    BY <1>10 DEF Decide
  <2>2. AfterDecision(c, d) \in {"asksweep", "issue", "reserved", "mark", "done"}
    BY DEF AfterDecision
  <2>3. Charged("asksweep", r) /\ Charged("issue", r) /\ Charged("reserved", r)
    BY <1>2, <1>4, <1>10 DEF Decide, Holding
  <2>4. Charged(AfterDecision(c, d), r) /\ AfterDecision(c, d) # "sweeping"
    BY <1>2, <1>3, <2>2, <2>3
  <2> QED
    BY <1>1, <1>2, <1>3, <2>1, <2>4, RecordMoves
<1>11. CASE RecordReserved(c)
  <2> DEFINE q == IF r.led.decision = "block" THEN "deny" ELSE "mark"
  <2>1. Record(c, <<"budget", "reserved">>, q, "release_quiet") /\ q \in Late
    BY <1>3, <1>11 DEF RecordReserved
  <2> HIDE DEF q
  <2> QED
    BY <1>1, <1>2, <1>3, <2>1, RecordMoves
<1>12. CASE ReleaseQuietly(c)
  BY <1>1, <1>3, <1>12, ReleaseMoves DEF ReleaseQuietly
<1>13. CASE ReleaseCall(c)
  <2>1. ASSUME NEW e, Record(c, e, "done", "done") PROVE ChargedInv' /\ Alone(c)
    BY <1>1, <1>2, <1>3, <2>1, RecordMoves
  <2> QED
    BY <1>1, <1>3, <1>13, <2>1, ReleaseMoves DEF ReleaseCall
<1>14. CASE DenyCall(c)
  <2>1. ASSUME NEW e, Record(c, e, "done", "done") PROVE ChargedInv' /\ Alone(c)
    BY <1>1, <1>2, <1>3, <2>1, RecordMoves
  <2>2. ASSUME Durable(c, r.res = "reserved" /\ NoPending(c), Becomes(c, "denied"), "deny_event",
                       "deny_failure")
        PROVE  ChargedInv' /\ Alone(c)
    <3> DEFINE w == Becomes(c, "denied")
    <3>1. r.res = "reserved" /\ NoPending(c) =>
             /\ w \in CallRecords /\ Charged("deny_event", w) /\ Charged("deny_failure", w)
             /\ Moved(r.res, w.res)
      BY <1>6, <1>7 DEF NoPending, Charged, Moved, Unheld, Holding
    <3> HIDE DEF w
    <3> QED
      BY <1>1, <1>2, <1>3, <2>2, <3>1, DurableMoves DEF w
  <2> QED
    BY <1>3, <1>5, <1>14, <2>1, <2>2 DEF DenyCall
<1>15. CASE CommitDispatch(c)
  <2>1. ASSUME NEW e, NEW good \in Late, NEW bad \in Late, Record(c, e, good, bad)
        PROVE  ChargedInv' /\ Alone(c)
    BY <1>1, <1>2, <2>1, RecordMoves
  <2>2. ASSUME pc[c] = "mark",
               Durable(c, r.res = "reserved", Becomes(c, "dispatched"), "commit_event", "release")
        PROVE  ChargedInv' /\ Alone(c)
    <3> DEFINE w == Becomes(c, "dispatched")
    <3>1. r.pre # "pending"
      BY <1>2, <2>2 DEF CallOK, Asked, Asking
    <3>2. r.res = "reserved" =>
             /\ w \in CallRecords /\ Charged("commit_event", w) /\ Charged("release", w)
             /\ Moved(r.res, w.res)
      BY <1>6, <1>7, <3>1 DEF Charged, Moved, Unheld, Holding
    <3> HIDE DEF w
    <3> QED
      BY <1>1, <1>2, <1>3, <2>2, <3>2, DurableMoves DEF w
  <2>3. CASE pc[c] = "mark"
    BY <1>3, <1>5, <1>15, <2>2, <2>3 DEF CommitDispatch
  <2>4. CASE pc[c] = "commit_event"
    <3>1. Record(c, <<"budget", "dispatched">>, "dispatch_event", "indeterminate_quiet")
      BY <1>15, <2>4 DEF CommitDispatch
    <3> QED
      BY <1>3, <2>1, <3>1
  <2>5. CASE pc[c] = "dispatch_event"
    <3> DEFINE q == IF call[c].budgeted THEN "indeterminate_quiet" ELSE "done"
    <3>1. Record(c, <<"dispatch", None>>, "io", q) /\ q \in Late
      BY <1>3, <1>15, <2>5 DEF CommitDispatch
    <3> HIDE DEF q
    <3> QED
      BY <1>3, <2>1, <3>1
  <2> QED
    BY <1>15, <2>3, <2>4, <2>5 DEF CommitDispatch
<1>16. CASE MarkQuietly(c)
  BY <1>1, <1>3, <1>5, <1>16, IndeterminateMoves DEF MarkQuietly
<1> QED
  BY <1>8, <1>9, <1>10, <1>11, <1>12, <1>13, <1>14, <1>15, <1>16

\* The approvals of a call.
LEMMA QuestionMoves ==
    ASSUME GatewayInv, ChargedInv, NEW c \in Calls,
           \/ IssueApproval(c) \/ RecordRequest(c) \/ FinalizeQuietly(c) \/ Consume(c)
           \/ Finalize(c) \/ RecordDecided(c) \/ RecordGranted(c) \/ EvaluateAgain(c)
    PROVE  ChargedInv' /\ Alone(c)
<1> DEFINE r == call[c]
<1>1. pc[c] # "sweeping"
  BY DEF IssueApproval, RecordRequest, FinalizeQuietly, Consume, Finalize, RecordDecided,
     RecordGranted, EvaluateAgain
<1>2. /\ r \in CallRecords /\ CallOK(pc[c], r) /\ Charged(pc[c], r)
      /\ \A q \in Late : Charged(q, r) /\ q # "sweeping"
  BY <1>1, AtPlace, PlacesApart DEF Late
<1>3. \A q \in {"deny", "deny_event", "deny_failure", "issue_reserved", "issue_event", "mark",
                "again", "indeterminate_quiet", "done", "settle", "post_reserved", "post_event",
                "finalize_quiet", "park", "finalize", "decided_event", "granted_event"} :
         q \in Late
  BY PlacesApart DEF Asking, Beyond
<1>4. ASSUME NEW w, NEW q \in Late, Go(c, w, q), Alike(r, w)
      PROVE  ChargedInv' /\ Alone(c)
  <2>1. Charged(q, w) /\ Moved(r.res, w.res)
    BY <1>2, <1>4, ChargedAlike
  <2> QED
    BY <1>1, <1>2, <1>4, <2>1, GoMoves
<1>5. ASSUME NEW q \in Late, Step(c, q)
      PROVE  ChargedInv' /\ Alone(c)
  <2>1. Alike(r, r) /\ Go(c, r, q)
    BY <1>5 DEF Alike, Step
  <2> QED
    BY <1>4, <2>1
<1>6. ASSUME NEW w, NEW good \in Late, NEW bad \in Late, Durable(c, TRUE, w, good, bad),
             w \in CallRecords, \A q \in Late : Charged(q, w), Moved(r.res, w.res)
      PROVE  ChargedInv' /\ Alone(c)
  BY <1>1, <1>2, <1>6, DurableMoves
<1>7. ASSUME NEW e, NEW good \in Late, NEW bad \in Late, Record(c, e, good, bad)
      PROVE  ChargedInv' /\ Alone(c)
  BY <1>1, <1>2, <1>7, RecordMoves
<1>8. /\ Finalized(c) \in CallRecords /\ \A q \in Late : Charged(q, Finalized(c))
      /\ Moved(r.res, Finalized(c).res)
  BY <1>2, FinalizedMoves, PlacesApart DEF Late
<1>9. CASE IssueApproval(c)
  <2> DEFINE pre == pc[c] = "issue"
             refused == IF pre THEN "deny" ELSE "settle"
             issued == CASE ~r.budgeted -> IF pre THEN "issue_event" ELSE "post_event"
                         [] r.budgeted  -> IF pre THEN "issue_reserved" ELSE "post_reserved"
             w == Ask(c, "pending")
             x == [w EXCEPT !.lost = TRUE, !.verdict = IF pre THEN None ELSE "withheld"]
  <2>1. refused \in Late /\ issued \in Late
    <3>1. r.budgeted \in BOOLEAN
      BY <1>2 DEF CallRecords
    <3> QED
      BY <1>3, <3>1
  <2>2. pc[c] \in {"issue", "post_issue"} /\ (pc[c] = "post_issue" => r.led.outcome # None)
    BY <1>2, <1>9, Words DEF IssueApproval, CallOK, Recording, RecordingAfter, Sent
  <2>3. /\ w.res = r.res /\ (w.budgeted <=> r.budgeted)
        /\ pc[c] = "post_issue" => w.pre = r.pre
        /\ x.res = w.res /\ x.pre = w.pre /\ (x.budgeted <=> w.budgeted)
    BY <1>2, <2>2 DEF Ask, Phase, CallRecords
  <2>4. \/ Unasked(c, refused) \/ Go(c, w, issued) \/ Go(c, x, refused)
    BY <1>9 DEF IssueApproval
  <2> HIDE DEF w, x, refused, issued
  <2>5. ASSUME NEW q \in Late
        PROVE  /\ Charged(q, w) /\ Moved(r.res, w.res)
               /\ Charged(q, x) /\ Moved(r.res, x.res)
    <3>1. Charged(q, r)
      BY <1>2, <2>5
    <3>2. pc[c] = "issue" /\ r.budgeted => r.res = "reserved"
      BY <1>2 DEF Charged, Holding
    <3>3. q \notin Unheld /\ q \notin Holding
      BY <2>5 DEF Late
    <3>4. Charged(q, w)
      BY <2>2, <2>3, <3>1, <3>2, <3>3 DEF Charged
    <3>5. Charged(q, x)
      BY <2>3, <3>3, <3>4 DEF Charged
    <3> QED
      BY <2>3, <3>4, <3>5 DEF Moved
  <2>6. CASE Unasked(c, refused)
    <3> DEFINE y == [r EXCEPT !.verdict = "withheld"]
    <3>1. Alike(r, y) /\ Alike(r, r)
      BY <1>2 DEF Alike, CallRecords
    <3>2. Go(c, y, refused) \/ Go(c, r, refused)
      BY <2>6 DEF Unasked
    <3> HIDE DEF y
    <3> QED
      BY <1>4, <2>1, <3>1, <3>2
  <2>7. CASE Go(c, w, issued)
    BY <1>1, <1>2, <2>1, <2>5, <2>7, GoMoves
  <2>8. CASE Go(c, x, refused)
    BY <1>1, <1>2, <2>1, <2>5, <2>8, GoMoves
  <2> QED
    BY <2>4, <2>6, <2>7, <2>8
<1>10. CASE RecordRequest(c)
  BY <1>3, <1>7, <1>10, PlacesApart DEF RecordRequest
<1>11. CASE FinalizeQuietly(c)
  <2> DEFINE next == IF Phase(c) = "post_approval" THEN "indeterminate_quiet" ELSE "done"
  <2>1. next \in Late /\ Durable(c, TRUE, Finalized(c), next, next)
    BY <1>3, <1>11 DEF FinalizeQuietly
  <2> HIDE DEF next
  <2> QED
    BY <1>6, <1>8, <2>1
<1>12. CASE Consume(c)
  <2>1. Approval(c) = "pending" => /\ Refused(c) \in CallRecords /\ Moved(r.res, Refused(c).res)
                                   /\ \A q \in Late : Charged(q, Refused(c))
    <3> SUFFICES ASSUME Approval(c) = "pending", NEW q \in Late
                 PROVE  /\ Refused(c) \in CallRecords /\ Moved(r.res, Refused(c).res)
                        /\ Charged(q, Refused(c))
      BY <1>3
    <3>1. q \notin Unheld /\ q \notin Holding /\ Charged(q, r)
      BY <1>2 DEF Late
    <3> QED
      BY <1>2, <3>1, RefusedMoves, RefusedFields
  <2> DEFINE w == Ask(c, "approved")
  <2>2. /\ w \in CallRecords /\ w.res = r.res /\ (w.budgeted <=> r.budgeted)
        /\ w.pre = r.pre \/ w.pre = "approved"
    BY <1>2 DEF Ask, CallRecords
  <2>3. \/ Step(c, "finalize") \/ Step(c, "decided_event")
        \/ Approval(c) = "pending" /\ Durable(c, TRUE, Refused(c), "decided_event", "finalize")
        \/ Durable(c, TRUE, w, "granted_event", "finalize")
    BY <1>12 DEF Consume
  <2> HIDE DEF w
  <2>4. Moved(r.res, w.res) /\ \A q \in Late : Charged(q, w)
    BY <1>2, <2>2 DEF Moved, Charged, Late
  <2> QED
    BY <1>3, <1>5, <1>6, <2>1, <2>2, <2>3, <2>4
<1>13. CASE Finalize(c)
  <2> DEFINE bad == IF Phase(c) = "pre_approval" THEN "deny_failure" ELSE "done"
  <2>1. bad \in Late /\ Durable(c, TRUE, Finalized(c), "decided_event", bad)
    BY <1>3, <1>13 DEF Finalize
  <2> HIDE DEF bad
  <2> QED
    BY <1>3, <1>6, <1>8, <2>1
<1>14. CASE RecordDecided(c)
  <2>1. PICK e, o, v, q : q \in Late /\ Go(c, [WithEvent(c, e, o) EXCEPT !.verdict = v], q)
    <3> DEFINE e == <<Phase(c), Approval(c)>>
               pre == Phase(c) = "pre_approval"
               next == CASE pre /\ call[c].budgeted  -> "deny_event"
                         [] pre /\ ~call[c].budgeted -> "done"
                         [] OTHER                    -> "settle"
    <3>1. PICK o \in Outcomes :
             Go(c, [WithEvent(c, e, o) EXCEPT !.verdict = IF pre THEN None ELSE "withheld"],
                IF o = "ok" /\ Recorded(c, e, o) THEN next ELSE "done")
      BY <1>14 DEF RecordDecided
    <3>2. next \in Late
      BY <1>3
    <3> HIDE DEF next
    <3>3. (IF o = "ok" /\ Recorded(c, e, o) THEN next ELSE "done") \in Late
      BY <1>3, <3>2
    <3> QED
      BY <3>1, <3>3
  <2> QED
    BY <1>4, <2>1, WithEventAlike
<1>15. CASE RecordGranted(c)
  <2>1. PICK e, o, v, q : q \in Late /\ Go(c, [WithEvent(c, e, o) EXCEPT !.verdict = v], q)
    <3> DEFINE e == <<Phase(c), "approved">>
               pre == Phase(c) = "pre_approval"
               next(o) == IF o = "ok" /\ Recorded(c, e, o)
                          THEN IF pre THEN "again" ELSE "settle"
                          ELSE IF pre THEN "deny" ELSE "indeterminate_quiet"
    <3>1. PICK o \in Outcomes :
             Go(c, [WithEvent(c, e, o) EXCEPT !.verdict = IF pre THEN None ELSE "forwarded"],
                next(o))
      BY <1>15 DEF RecordGranted
    <3>2. next(o) \in Late
      BY <1>3
    <3> HIDE DEF next
    <3> QED
      BY <3>1, <3>2
  <2> QED
    BY <1>4, <2>1, WithEventAlike
<1>16. CASE EvaluateAgain(c)
  BY <1>3, <1>5, <1>16 DEF EvaluateAgain
<1> QED
  BY <1>9, <1>10, <1>11, <1>12, <1>13, <1>14, <1>15, <1>16

\* The call downstream and its result.
LEMMA BeyondMoves ==
    ASSUME GatewayInv, ChargedInv, NEW c \in Calls,
           CallTool(c) \/ FailUnknown(c) \/ FinishCall(c) \/ Settle(c) \/ RecordResult(c)
    PROVE  ChargedInv' /\ Alone(c)
<1> DEFINE r == call[c]
<1>1. pc[c] # "sweeping"
  BY DEF CallTool, FailUnknown, FinishCall, Settle, RecordResult
<1>2. /\ r \in CallRecords /\ \A q \in Late : Charged(q, r) /\ q # "sweeping"
  BY <1>1, AtPlace, PlacesApart DEF Late
<1>3. \A q \in Beyond \cup {"done"} : q \in Late
  BY PlacesApart
<1>4. ASSUME NEW w, NEW q \in Beyond \cup {"done"}, Go(c, w, q), Alike(r, w)
      PROVE  ChargedInv' /\ Alone(c)
  <2>1. Charged(q, w) /\ Moved(r.res, w.res) /\ q # "sweeping"
    BY <1>2, <1>3, <1>4, ChargedAlike
  <2> QED
    BY <1>1, <1>4, <2>1, GoMoves
<1>5. ASSUME NEW e, NEW good \in Beyond \cup {"done"}, NEW bad \in Beyond \cup {"done"},
             Record(c, e, good, bad)
      PROVE  ChargedInv' /\ Alone(c)
  BY <1>1, <1>2, <1>3, <1>5, RecordMoves
<1>6. ASSUME NEW good \in Beyond \cup {"done"}, NEW bad \in Beyond \cup {"done"},
             MarkIndeterminate(c, good, bad)
      PROVE  ChargedInv' /\ Alone(c)
  BY <1>1, <1>3, <1>6, IndeterminateMoves
<1>7. CASE CallTool(c)
  <2>1. \A b : /\ Alike(r, [r EXCEPT !.io = @ + 1])
               /\ Alike(r, [r EXCEPT !.io = @ + 1, !.oversize = b, !.verdict = "failed"])
               /\ Alike(r, [r EXCEPT !.io = @ + 1, !.oversize = b])
    BY <1>2 DEF Alike, CallRecords
  <2> QED
    BY <1>4, <1>7, <2>1 DEF CallTool, Beyond
<1>8. CASE FailUnknown(c)
  BY <1>5, <1>6, <1>8 DEF FailUnknown, Beyond
<1>9. CASE FinishCall(c)
  <2>1. CASE pc[c] = "succeeded_event"
    BY <1>5, <1>9, <2>1 DEF FinishCall, Beyond
  <2>2. CASE pc[c] = "inspect"
    <3>1. PICK d \in {"allow", "block", "require_approval"}, o \in Outcomes :
             Go(c, [WithEvent(c, <<"inspection", d>>, o) EXCEPT
                       !.verdict = CASE d = "allow" -> "forwarded"
                                     [] d = "block" -> "withheld"
                                     [] OTHER -> None],
                IF o # "ok" \/ ~Recorded(c, <<"inspection", d>>, o) THEN "done"
                ELSE IF d # "require_approval" THEN "settle"
                ELSE IF Held THEN "postsweep" ELSE "post_issue")
      BY <1>9, <2>2 DEF FinishCall
    <3> DEFINE q == IF o # "ok" \/ ~Recorded(c, <<"inspection", d>>, o) THEN "done"
                    ELSE IF d # "require_approval" THEN "settle"
                    ELSE IF Held THEN "postsweep" ELSE "post_issue"
               v == CASE d = "allow" -> "forwarded" [] d = "block" -> "withheld" [] OTHER -> None
    <3>2. q \in Beyond \cup {"done"}
      BY DEF Beyond
    <3>3. Go(c, [WithEvent(c, <<"inspection", d>>, o) EXCEPT !.verdict = v], q)
      BY <3>1
    <3> HIDE DEF q, v
    <3> QED
      BY <1>4, <3>2, <3>3, WithEventAlike
  <2> QED
    BY <1>9, <2>1, <2>2 DEF FinishCall
<1>10. CASE Settle(c)
  <2> DEFINE q == IF r.verdict = "failed" THEN "failed_event" ELSE "delivery"
             w == Settled(c)
  <2>1. CASE ~r.budgeted /\ pc[c] = "settle"
    <3>1. Go(c, r, q) /\ q \in Beyond
      BY <1>10, <2>1 DEF Settle, Step, Beyond
    <3> HIDE DEF q
    <3> QED
      BY <1>4, <3>1 DEF Alike
  <2>2. CASE r.budgeted /\ pc[c] = "settle"
    <3>1. Durable(c, r.res = "dispatched" /\ NoPending(c), w, AfterSettle(c), "settle_failed")
      BY <1>10, <2>2 DEF Settle
    <3>2. AfterSettle(c) \in Late /\ "settle_failed" \in Late
      BY <1>3 DEF AfterSettle, Beyond
    <3>3. /\ w \in CallRecords /\ w.res \in {"indeterminate", "settled"}
          /\ w.pre = r.pre
      BY <1>2 DEF Settled, Becomes, CallRecords
    <3> HIDE DEF w
    <3>4. r.res = "dispatched" /\ NoPending(c) =>
             /\ w \in CallRecords /\ Charged(AfterSettle(c), w) /\ Charged("settle_failed", w)
             /\ Moved(r.res, w.res)
      BY <3>2, <3>3 DEF Charged, Moved, NoPending, Late
    <3> QED
      BY <1>1, <1>2, <3>1, <3>2, <3>4, DurableMoves
  <2>3. CASE pc[c] = "settle_failed"
    BY <1>6, <1>10, <2>3 DEF Settle, Beyond
  <2> QED
    BY <1>10, <2>1, <2>2, <2>3 DEF Settle
<1>11. CASE RecordResult(c)
  <2>1. ASSUME NEW e, NEW good, NEW bad, Record(c, e, good, bad),
               good \in {"done", "settle_event", "ind_event", "delivery"}, bad = "done"
        PROVE  ChargedInv' /\ Alone(c)
    BY <1>5, <2>1 DEF Beyond
  <2> QED
    BY <1>11, <2>1 DEF RecordResult
<1> QED
  BY <1>7, <1>8, <1>9, <1>10, <1>11

LEMMA WorkMoves ==
    ASSUME GatewayInv, ChargedInv, NEW c \in Calls, Work(c)
    PROVE  ChargedInv' /\ Alone(c)
  BY BeforeMoves, QuestionMoves, BeyondMoves DEF Work

\* A step after which no reservation and no place of a call is another one.
LEMMA StillMoves ==
    ASSUME ChargedInv, \A d \in Calls : Alike(call[d], call'[d]),
           \A d \in Calls : At(d)' = At(d) \/ At(d)' \in Late
    PROVE  ChargedInv'
<1> SUFFICES ASSUME NEW d \in Calls PROVE Charged(At(d)', call'[d])
  BY DEF ChargedInv
<1>1. PICK p : p = At(d)'
  OBVIOUS
<1>2. Charged(At(d), call[d])
  BY DEF ChargedInv
<1>3. Charged(p, call[d])
  BY <1>1, <1>2, ChargedLater
<1>4. Charged(p, call'[d])
  BY <1>3, ChargedAlike
<1> QED
  BY <1>1, <1>4

\* A question is open at late places only.
LEMMA PendingLate ==
    ASSUME NEW c \in Calls, NEW p, CallOK(p, call[c]), Approval(c) = "pending"
    PROVE  p \in Late /\ p \notin Unheld /\ p \notin Holding
<1> DEFINE r == call[c]
<1>1. p \in Places /\ Counted(p, r) /\ Asked(p, r) /\ r \in CallRecords
  BY DEF CallOK
<1>2. r.pre = "pending" \/ r.post = "pending"
  BY DEF Approval
<1>3. CASE r.pre = "pending"
  BY <1>1, <1>3, PlacesApart DEF Asked, Late
<1>4. CASE r.post = "pending"
  <2>1. r.io = 1
    BY <1>1, <1>4, Words DEF Counted, CallRecords
  <2>2. p \notin Before
    BY <1>1, <2>1 DEF Counted
  <2> QED
    BY <1>1, <2>2 DEF Late, Before, Unheld, Holding
<1> QED
  BY <1>2, <1>3, <1>4

\* One step does this to all reservations.
ReservationsMove == \/ \E c \in Calls : Alone(c)
                    \/ \A d \in Calls : \/ call'[d].res = call[d].res
                                        \/ call[d].res = "reserved" /\ call'[d].res = "denied"

\* The steps that neither work on the state nor record.
LEMMA OtherMoves ==
    ASSUME GatewayInv, ChargedInv,
           \/ \E c \in Calls : \/ Arrive(c) \/ Park(c) \/ Resume(c) \/ TakeLock(c) \/ CallSweep(c)
                               \/ Expire(c)
           \/ WorkerSweep \/ Close \/ ShutdownPending \/ CloseLease \/ UNCHANGED vars
    PROVE  ChargedInv' /\ ReservationsMove
<1>1. pc \in [Calls -> Places \cup {"sweeping"}] /\ call \in [Calls -> CallRecords]
  BY DEF GatewayInv
<1>2. \A d \in Calls : Alike(call[d], call[d])
  BY DEF Alike
<1>3. ASSUME call' = call, \A d \in Calls : At(d)' = At(d) \/ At(d)' \in Late
      PROVE  ChargedInv' /\ ReservationsMove
  <2>1. \A d \in Calls : Alike(call[d], call'[d])
    BY <1>2, <1>3
  <2> QED
    BY <1>3, <2>1, StillMoves DEF ReservationsMove
<1>4. ASSUME NEW c \in Calls, Arrive(c)
      PROVE  ChargedInv' /\ ReservationsMove
  <2>1. PICK b \in BOOLEAN :
           Go(c, [call[c] EXCEPT !.budgeted = b],
              IF Held THEN "presweep" ELSE IF b THEN "reserve" ELSE "accept")
    BY <1>4 DEF Arrive
  <2> DEFINE w == [call[c] EXCEPT !.budgeted = b]
             q == IF Held THEN "presweep" ELSE IF b THEN "reserve" ELSE "accept"
  <2>2. pc[c] = "new" /\ call[c].res = None /\ call[c].pre = None
    <3>1. pc[c] = "new"
      BY <1>4 DEF Arrive
    <3> QED
      BY <3>1, AtPlace DEF Charged, Unheld, CallOK, Recording, RecordingBefore
  <2>3. w.res = None /\ w.pre = None /\ w.budgeted = b
    BY <1>1, <2>2 DEF CallRecords
  <2>4. Charged(q, w) /\ Moved(call[c].res, w.res) /\ q # "sweeping"
    <3>1. q \in {"presweep", "reserve"} \/ (q = "accept" /\ ~b)
      OBVIOUS
    <3> HIDE DEF q, w
    <3> QED
      BY <2>2, <2>3, <3>1, Words DEF Charged, Moved, Unheld, Holding
  <2>5. Go(c, w, q)
    BY <2>1
  <2> HIDE DEF q, w
  <2> QED
    BY <2>2, <2>4, <2>5, GoMoves DEF ReservationsMove
<1>5. ASSUME NEW c \in Calls, Park(c) \/ Resume(c)
      PROVE  ChargedInv' /\ ReservationsMove
  <2>1. PICK a \in {None, "pending"}, q \in {"parked", "finalize", "taken"} :
           pc[c] # "sweeping" /\ (Go(c, [call[c] EXCEPT !.at = a], q) \/ Go(c, call[c], q))
    <3>1. CASE Park(c)
      <4>1. Go(c, [call[c] EXCEPT !.at = "pending"], "parked") \/ Go(c, call[c], "finalize")
        BY <3>1 DEF Park
      <4>2. pc[c] = "park"
        BY <3>1 DEF Park
      <4> QED
        BY <4>1, <4>2
    <3>2. CASE Resume(c)
      BY <3>2 DEF Resume
    <3> QED
      BY <1>5, <3>1, <3>2
  <2> DEFINE w == [call[c] EXCEPT !.at = a]
  <2>2. Alike(call[c], w) /\ Alike(call[c], call[c])
    BY <1>1 DEF Alike, CallRecords
  <2>3. q \in Late /\ q # "sweeping" /\ Charged(q, call[c])
    BY <2>1, AtPlace, PlacesApart DEF Late, Asking
  <2> HIDE DEF w
  <2>4. /\ Charged(q, w) /\ Moved(call[c].res, w.res)
        /\ Charged(q, call[c]) /\ Moved(call[c].res, call[c].res)
    BY <2>2, <2>3, ChargedAlike
  <2>5. Go(c, w, q) \/ Go(c, call[c], q)
    BY <2>1 DEF w
  <2> QED
    BY <2>1, <2>3, <2>4, <2>5, GoMoves DEF ReservationsMove
<1>6. ASSUME NEW c \in Calls, TakeLock(c)
      PROVE  ChargedInv' /\ ReservationsMove
  <2>1. PICK q \in {"finalize", "consume"} : pc' = [pc EXCEPT ![c] = q]
    BY <1>6 DEF TakeLock
  <2>2. call' = call /\ sweep' = sweep /\ q \in Late /\ q # "sweeping"
    BY <1>6, PlacesApart DEF TakeLock, Asking
  <2>3. \A d \in Calls : At(d)' = At(d) \/ At(d)' \in Late
    BY <1>1, <2>1, <2>2 DEF At
  <2> QED
    BY <1>3, <2>2, <2>3
<1>7. ASSUME NEW c \in Calls, CallSweep(c)
      PROVE  ChargedInv' /\ ReservationsMove
  <2>1. /\ call' = call /\ pc' = [pc EXCEPT ![c] = "sweeping"] /\ sweep'.back = pc[c]
        /\ mu = Free /\ pc[c] # "sweeping"
    BY <1>7 DEF CallSweep, Begin
  <2>2. \A d \in Calls : pc[d] # "sweeping"
    BY <2>1, Unlocked
  <2>3. \A d \in Calls : At(d)' = At(d)
    BY <1>1, <2>1, <2>2 DEF At
  <2> QED
    BY <1>3, <2>1, <2>3
<1>8. ASSUME WorkerSweep \/ ShutdownPending
      PROVE  ChargedInv' /\ ReservationsMove
  <2>1. mu = Free /\ pc' = pc
    BY <1>8 DEF WorkerSweep, ShutdownPending
  <2>2. \A d \in Calls : pc[d] # "sweeping"
    BY <2>1, Unlocked
  <2>3. \A d \in Calls : At(d)' = At(d)
    BY <2>1, <2>2 DEF At
  <2>4. \A d \in Calls : Alike(call[d], call'[d])
    BY <1>1, <1>2, <1>8 DEF WorkerSweep, ShutdownPending, Alike, CallRecords
  <2> QED
    BY <2>3, <2>4, StillMoves DEF ReservationsMove, Alike
<1>9. ASSUME (\E c \in Calls : Expire(c)) \/ Close \/ CloseLease \/ UNCHANGED vars
      PROVE  ChargedInv' /\ ReservationsMove
  <2>1. call' = call /\ pc' = pc /\ sweep' = sweep
    BY <1>9 DEF Expire, Close, CloseLease, vars
  <2>2. \A d \in Calls : At(d)' = At(d)
    BY <2>1 DEF At
  <2> QED
    BY <1>3, <2>1, <2>2
<1> QED
  BY <1>4, <1>5, <1>6, <1>7, <1>8, <1>9

\* The sweep of another gateway refuses what is due.
LEMMA ElsewhereMoves ==
    ASSUME GatewayInv, ChargedInv, NEW c \in Calls, ExpireElsewhere(c)
    PROVE  ChargedInv' /\ Alone(c)
<1> DEFINE x == Refused(c)
           w == [x EXCEPT !.elsewhere = TRUE]
<1>1. /\ Approval(c) = "pending" /\ call' = [call EXCEPT ![c] = w] /\ pc' = pc /\ sweep' = sweep
  BY DEF ExpireElsewhere
<1>2. /\ call \in [Calls -> CallRecords] /\ CallOK(At(c), call[c]) /\ Charged(At(c), call[c])
  BY DEF GatewayInv, ChargedInv
<1>3. Charged(At(c), x) /\ Moved(call[c].res, x.res) /\ x \in CallRecords
  BY <1>1, <1>2, PendingLate, RefusedMoves, RefusedFields
<1> HIDE DEF x
<1>4. Alike(x, w)
  BY <1>3 DEF Alike, CallRecords
<1> HIDE DEF w
<1>5. Charged(At(c), w) /\ Moved(call[c].res, w.res)
  BY <1>3, <1>4, ChargedAlike DEF Alike
<1>6. \A d \in Calls : At(d)' = At(d) /\ call'[d] = IF d = c THEN w ELSE call[d]
  BY <1>1, <1>2 DEF At
<1>7. \A d \in Calls : Charged(At(d), call'[d])
  BY <1>5, <1>6 DEF ChargedInv
<1> QED
  BY <1>5, <1>6, <1>7 DEF ChargedInv, Alone

\* The sweep refuses what is due, several questions at once.
LEMMA ReconcileMoves ==
    ASSUME GatewayInv, ChargedInv, ReconcileExpired
    PROVE  ChargedInv' /\ ReservationsMove
<1>1. pc' = pc /\ sweep'.back = sweep.back
  <2>1. sweep \in [stage : {"off", "first", "second", "shutdown"}, todo : SUBSET Calls,
                   failed : BOOLEAN, back : {None, "presweep", "asksweep", "postsweep"}]
    BY DEF GatewayInv, Wired
  <2>2. PICK T, F : sweep' = [sweep EXCEPT !.stage = "second", !.todo = T, !.failed = F]
    BY DEF ReconcileExpired
  <2> QED
    BY <2>1, <2>2 DEF ReconcileExpired
<1>2. \A d \in Calls : At(d)' = At(d)
  BY <1>1 DEF At
<1>3. ASSUME NEW d \in Calls
      PROVE  /\ Charged(At(d), call'[d])
             /\ \/ call'[d].res = call[d].res
                \/ call[d].res = "reserved" /\ call'[d].res = "denied"
  <2> DEFINE x == Refused(d)
  <2>1. \/ call'[d] = call[d]
        \/ /\ Approval(d) = "pending"
           /\ \/ call'[d] \in {x, [x EXCEPT !.lost = TRUE]}
              \/ call'[d] = [x EXCEPT !.at = "cleanup", !.done = {"finalized"}]
    <3> HIDE DEF x
    <3> QED
      BY <1>3 DEF ReconcileExpired, x
  <2>2. call[d] \in CallRecords /\ CallOK(At(d), call[d]) /\ Charged(At(d), call[d])
    BY DEF GatewayInv, ChargedInv
  <2>3. CASE call'[d] = call[d]
    BY <2>2, <2>3
  <2>4. CASE call'[d] # call[d]
    <3>1. Approval(d) = "pending"
      BY <2>1, <2>4
    <3>2. /\ Charged(At(d), x) /\ x \in CallRecords
          /\ x.res = call[d].res \/ (call[d].res = "reserved" /\ x.res = "denied")
      BY <2>2, <3>1, PendingLate, RefusedMoves, RefusedFields
    <3> HIDE DEF x
    <3>3. Alike(x, call'[d])
      BY <2>1, <2>4, <3>2 DEF Alike, CallRecords
    <3> QED
      BY <3>2, <3>3, ChargedAlike DEF Alike
  <2> QED
    BY <2>3, <2>4
<1> QED
  BY <1>2, <1>3 DEF ChargedInv, ReservationsMove

\* The end of a sweep lets the call that made it go on.
LEMMA EndSweepMoves ==
    ASSUME GatewayInv, ChargedInv, EndSweep
    PROVE  ChargedInv' /\ ReservationsMove
<1>1. sweep.stage \in {"second", "shutdown"}
  BY DEF EndSweep
<1>2. pc \in [Calls -> Places \cup {"sweeping"}] /\ call \in [Calls -> CallRecords]
  BY DEF GatewayInv
<1>3. CASE mu \notin Calls
  <2>1. pc' = pc /\ call' = call
    BY <1>3 DEF EndSweep
  <2>2. \A d \in Calls : At(d)' = At(d) /\ Alike(call[d], call'[d])
    BY <1>3, <2>1 DEF GatewayInv, Wired, At, Alike
  <2> QED
    BY <2>2, StillMoves DEF ReservationsMove, Alike
<1>4. CASE mu \in Calls
  <2> DEFINE r == call[mu]
             q == AfterSweep(mu)
             w == [r EXCEPT !.verdict = IF q = "settle" THEN "withheld" ELSE @]
  <2>1. pc' = [pc EXCEPT ![mu] = q] /\ call' = [call EXCEPT ![mu] = w]
    BY <1>4 DEF EndSweep
  <2>2. /\ pc[mu] = "sweeping" /\ \A c \in Calls : pc[c] = "sweeping" => c = mu
        /\ sweep.back \in {"presweep", "asksweep", "postsweep"}
    <3>1. pc[mu] = "sweeping"
      BY <1>1, <1>4, GatewayAssumption DEF GatewayInv, Wired
    <3> QED
      BY <1>4, <3>1 DEF GatewayInv, Wired
  <2>3. Charged(sweep.back, r) /\ r \in CallRecords /\ Alike(r, w)
    BY <1>2, <1>4, <2>2 DEF ChargedInv, At, CallRecords, Alike
  <2>4. Charged(q, r) /\ q # "sweeping"
    <3>1. \/ sweep.back = "presweep" /\ \/ q \in {"done", "reserve"}
                                        \/ q = "accept" /\ ~r.budgeted
          \/ sweep.back = "asksweep" /\ q \in {"deny", "issue"}
          \/ sweep.back = "postsweep" /\ q \in {"settle", "post_issue"}
      BY <2>2 DEF AfterSweep
    <3> HIDE DEF q
    <3> QED
      BY <2>3, <3>1 DEF Charged, Unheld, Holding
  <2> HIDE DEF q, w
  <2>5. Charged(q, w) /\ w.res = r.res
    BY <2>3, <2>4, ChargedAlike DEF Alike
  <2>6. \A d \in Calls : /\ pc'[d] = IF d = mu THEN q ELSE pc[d]
                         /\ call'[d] = IF d = mu THEN w ELSE call[d]
    BY <1>2, <2>1
  <2>7. \A d \in Calls : Charged(At(d)', call'[d])
    <3> TAKE d \in Calls
    <3>1. CASE d = mu
      BY <2>4, <2>5, <2>6, <3>1 DEF At
    <3>2. CASE d # mu
      BY <2>2, <2>6, <3>2 DEF At, ChargedInv
    <3> QED
      BY <3>1, <3>2
  <2> QED
    BY <2>5, <2>6, <2>7 DEF ChargedInv, ReservationsMove
<1> QED
  BY <1>3, <1>4

\* An operation of a sweep on what the gateway retains.
LEMMA ItemMoves ==
    ASSUME GatewayInv, ChargedInv, NEW c \in sweep.todo, NEW w, NEW good, Item(c, w, good),
           Charged("parked", w), Moved(call[c].res, w.res)
    PROVE  ChargedInv' /\ Alone(c)
<1>1. c \in Calls /\ pc[c] = "parked" /\ call \in [Calls -> CallRecords]
  BY AtCleanup DEF GatewayInv
<1>2. call' = [call EXCEPT ![c] = w] /\ pc' = pc
  BY DEF Item
<1>3. sweep'.back = sweep.back
  BY DEF Item, GatewayInv, Wired
<1>4. \A d \in Calls : At(d)' = At(d) /\ call'[d] = IF d = c THEN w ELSE call[d]
  BY <1>1, <1>2, <1>3 DEF At
<1>5. \A d \in Calls : Charged(At(d), call'[d])
  <2> TAKE d \in Calls
  <2>1. CASE d = c
    <3>1. At(d) = "parked" /\ call'[d] = w
      BY <1>1, <1>4, <2>1 DEF At
    <3> QED
      BY <3>1
  <2>2. CASE d # c
    BY <1>4, <2>2 DEF ChargedInv
  <2> QED
    BY <2>1, <2>2
<1>6. ChargedInv'
  BY <1>4, <1>5 DEF ChargedInv
<1>7. Alone(c)
  BY <1>1, <1>4 DEF Alone
<1> QED
  BY <1>6, <1>7

LEMMA ItemStateMoves ==
    ASSUME GatewayInv, ChargedInv, NEW c \in sweep.todo, NEW enabled, NEW r, NEW mark,
           ItemState(c, enabled, r, mark),
           enabled => r \in CallRecords /\ Charged("parked", r) /\ Moved(call[c].res, r.res)
    PROVE  ChargedInv' /\ Alone(c)
<1>1. PICK o \in Outcomes :
         Item(c, IF ~enabled \/ o = "fail" THEN call[c]
                 ELSE IF o = "lost" THEN [r EXCEPT !.lost = TRUE]
                 ELSE [r EXCEPT !.done = @ \cup {mark}], enabled /\ o = "ok")
  BY DEF ItemState
<1>2. c \in Calls /\ pc[c] = "parked" /\ Charged("parked", call[c])
  BY AtCleanup DEF ChargedInv, At
<1>3. CASE ~enabled \/ o = "fail"
  <2>1. Item(c, call[c], enabled /\ o = "ok")
    BY <1>1, <1>3
  <2> QED
    BY <1>2, <2>1, ItemMoves DEF Moved
<1>4. CASE enabled /\ o # "fail"
  <2> DEFINE w == IF o = "lost" THEN [r EXCEPT !.lost = TRUE] ELSE [r EXCEPT !.done = @ \cup {mark}]
  <2>1. Item(c, w, enabled /\ o = "ok")
    BY <1>1, <1>4
  <2>2. Alike(r, w)
    BY <1>4 DEF Alike, CallRecords
  <2> HIDE DEF w
  <2>3. Charged("parked", w) /\ Moved(call[c].res, w.res)
    BY <1>4, <2>2, ChargedAlike DEF Alike
  <2> QED
    BY <2>1, <2>3, ItemMoves
<1> QED
  BY <1>3, <1>4

LEMMA FinishMoves ==
    ASSUME GatewayInv, ChargedInv, NEW c \in Calls, FinishItem(c)
    PROVE  ChargedInv' /\ Alone(c)
<1> DEFINE r == call[c]
<1>1. /\ c \in sweep.todo /\ pc[c] = "parked" /\ r \in CallRecords /\ Charged("parked", r)
      /\ call \in [Calls -> CallRecords] /\ pc \in [Calls -> Places \cup {"sweeping"}]
  BY AtCleanup DEF FinishItem, ChargedInv, At, GatewayInv
<1>2. "parked" \notin Unheld /\ "parked" \notin Holding
  BY DEF Unheld, Holding
<1>3. ASSUME ItemState(c, TRUE, Finalized(c), "finalized")
      PROVE  ChargedInv' /\ Alone(c)
  BY <1>1, <1>2, <1>3, FinalizedMoves, ItemStateMoves
<1>4. ASSUME ItemState(c, r.res = "dispatched" /\ NoPending(c), Settled(c), "settled")
      PROVE  ChargedInv' /\ Alone(c)
  <2> DEFINE w == Settled(c)
  <2>1. /\ w \in CallRecords /\ w.res \in {"indeterminate", "settled"}
        /\ w.pre = r.pre
    BY <1>1 DEF Settled, Becomes, CallRecords
  <2> HIDE DEF w
  <2>2. r.res = "dispatched" /\ NoPending(c) =>
           w \in CallRecords /\ Charged("parked", w) /\ Moved(r.res, w.res)
    BY <1>2, <2>1 DEF Charged, Moved, NoPending
  <2> QED
    BY <1>1, <1>4, <2>2, ItemStateMoves DEF w
<1>5. ASSUME NEW e, NEW o,
             Item(c, IF o = "ok" /\ Recorded(c, e, o)
                     THEN [WithEvent(c, e, o) EXCEPT !.done = @ \cup {Mark(e)}]
                     ELSE WithEvent(c, e, o), o = "ok" /\ Recorded(c, e, o))
      PROVE  ChargedInv' /\ Alone(c)
  <2> DEFINE x == WithEvent(c, e, o)
             w == IF o = "ok" /\ Recorded(c, e, o) THEN [x EXCEPT !.done = @ \cup {Mark(e)}] ELSE x
  <2>1. Alike(r, x) /\ "res" \in DOMAIN x /\ "pre" \in DOMAIN x /\ "budgeted" \in DOMAIN x
    BY <1>1, WithEventAlike DEF WithEvent, CallRecords
  <2>2. Item(c, w, o = "ok" /\ Recorded(c, e, o))
    BY <1>5
  <2> HIDE DEF x
  <2>3. Alike(r, w)
    BY <2>1 DEF Alike
  <2> HIDE DEF w
  <2> QED
    BY <1>1, <2>2, <2>3, ChargedAlike, ItemMoves
<1>6. ASSUME call' = [call EXCEPT ![c].at = None], pc' = [pc EXCEPT ![c] = "done"],
             sweep' = [sweep EXCEPT !.todo = @ \ {c}]
      PROVE  ChargedInv' /\ Alone(c)
  <2>1. "done" \in Late /\ "done" # "sweeping"
    BY PlacesApart
  <2>2. sweep'.back = sweep.back
    BY <1>6 DEF GatewayInv, Wired
  <2>3. \A d \in Calls : At(d)' = At(d) \/ At(d)' \in Late
    BY <1>1, <1>6, <2>1, <2>2 DEF At
  <2>4. \A d \in Calls : Alike(call[d], call'[d])
    BY <1>1, <1>6 DEF Alike, CallRecords
  <2> QED
    BY <2>3, <2>4, StillMoves DEF Alone, Moved, Alike
<1> QED
  BY <1>3, <1>4, <1>5, <1>6 DEF FinishItem

LEMMA NextMoves ==
    ASSUME GatewayInv, ChargedInv, [Next]_vars
    PROVE  ChargedInv' /\ ReservationsMove
<1>1. ASSUME NEW c \in Calls, Work(c) \/ ExpireElsewhere(c) \/ FinishItem(c)
      PROVE  ChargedInv' /\ ReservationsMove
  BY <1>1, WorkMoves, ElsewhereMoves, FinishMoves DEF ReservationsMove
<1> QED
  BY <1>1, OtherMoves, ReconcileMoves, EndSweepMoves DEF Next, Sweeping

LEMMA InitCharged == Init => ChargedInv
<1> SUFFICES ASSUME Init, NEW c \in Calls PROVE Charged(At(c), call[c])
  BY DEF ChargedInv
<1>1. pc[c] = "new" /\ call[c].res = None /\ ~call[c].budgeted
  BY DEF Init
<1> QED
  BY <1>1 DEF At, Charged

\* The names of the phases.
LEMMA Phases ==
    /\ ReservationPhase(None) = "new" /\ ReservationPhase("reserved") = "held"
    /\ ReservationPhase("dispatched") = "sent" /\ ReservationPhase("indeterminate") = "unknown"
    /\ ReservationPhase("settled") = "closed_sent"
    /\ ReservationPhase("released") = "closed_unsent"
    /\ ReservationPhase("denied") = "closed_unsent"
  BY Words DEF ReservationPhase

LEMMA MovesRefine ==
    ASSUME call \in [Calls -> CallRecords], ReservationsMove
    PROVE  [Lifecycle!Next]_PhaseMap
<1> SUFFICES Lifecycle!Next \/ PhaseMap' = PhaseMap
  OBVIOUS
<1>1. \A d \in Calls : /\ PhaseMap[d] = ReservationPhase(call[d].res)
                       /\ PhaseMap'[d] = ReservationPhase(call'[d].res)
  BY DEF PhaseMap
<1>2. ASSUME NEW c \in Calls, Alone(c)
      PROVE  Lifecycle!Next \/ PhaseMap' = PhaseMap
  <2>1. \A d \in Calls \ {c} : PhaseMap'[d] = PhaseMap[d]
    BY <1>1, <1>2 DEF Alone
  <2>2. ASSUME NEW from, NEW to, PhaseMap[c] \in from, PhaseMap'[c] = to
        PROVE  Lifecycle!Move({c}, from, to)
    <3>1. PhaseMap' = [d \in Calls |-> IF d \in {c} THEN to ELSE PhaseMap[d]]
      BY <2>1, <2>2 DEF PhaseMap
    <3> QED
      BY <2>2, <3>1 DEF Lifecycle!Move
  <2>3. CASE call'[c].res = call[c].res
    <3>1. \A d \in Calls : call'[d].res = call[d].res
      BY <1>2, <2>3 DEF Alone
    <3> QED
      BY <3>1 DEF PhaseMap
  <2>4. CASE call[c].res = None /\ call'[c].res = "reserved"
    <3>1. PhaseMap[c] \in {"new"} /\ PhaseMap'[c] = "held"
      BY <1>1, <2>4, Phases
    <3>2. Lifecycle!Admit(c)
      BY <2>2, <3>1 DEF Lifecycle!Admit
    <3> QED
      BY <3>2 DEF Lifecycle!Next
  <2>5. CASE call[c].res = "reserved" /\ call'[c].res = "dispatched"
    <3>1. PhaseMap[c] \in {"held"} /\ PhaseMap'[c] = "sent"
      BY <1>1, <2>5, Phases
    <3>2. Lifecycle!Send(c)
      BY <2>2, <3>1 DEF Lifecycle!Send
    <3> QED
      BY <3>2 DEF Lifecycle!Next
  <2>6. CASE call[c].res = "reserved" /\ call'[c].res \in {"released", "denied"}
    <3>1. PhaseMap[c] \in {"held"} /\ PhaseMap'[c] = "closed_unsent"
      BY <1>1, <2>6, Phases
    <3>2. Lifecycle!Refuse({c})
      BY <2>2, <3>1 DEF Lifecycle!Refuse
    <3> QED
      BY <3>2 DEF Lifecycle!Next
  <2>7. CASE call[c].res \in {"reserved", "dispatched"} /\ call'[c].res = "indeterminate"
    <3>1. PhaseMap[c] \in {"held", "sent"} /\ PhaseMap'[c] = "unknown"
      BY <1>1, <2>7, Phases
    <3>2. Lifecycle!Lose({c})
      BY <2>2, <3>1 DEF Lifecycle!Lose
    <3> QED
      BY <3>2 DEF Lifecycle!Next
  <2>8. CASE call[c].res = "dispatched" /\ call'[c].res = "settled"
    <3>1. PhaseMap[c] \in {"sent", "unknown"} /\ PhaseMap'[c] = "closed_sent"
      BY <1>1, <2>8, Phases
    <3>2. Lifecycle!Answer(c)
      BY <2>2, <3>1 DEF Lifecycle!Answer
    <3> QED
      BY <3>2 DEF Lifecycle!Next
  <2> QED
    BY <1>2, <2>3, <2>4, <2>5, <2>6, <2>7, <2>8 DEF Alone, Moved
<1>3. ASSUME \A d \in Calls : \/ call'[d].res = call[d].res
                              \/ call[d].res = "reserved" /\ call'[d].res = "denied"
      PROVE  Lifecycle!Next \/ PhaseMap' = PhaseMap
  <2> DEFINE C == {d \in Calls : call'[d].res # call[d].res}
  <2>1. \A d \in C : PhaseMap[d] \in {"held"} /\ PhaseMap'[d] = "closed_unsent"
    BY <1>1, <1>3, Phases
  <2>2. PhaseMap' = [d \in Calls |-> IF d \in C THEN "closed_unsent" ELSE PhaseMap[d]]
    BY <1>1, <2>1 DEF PhaseMap
  <2>3. Lifecycle!Refuse(C)
    BY <2>1, <2>2 DEF Lifecycle!Refuse, Lifecycle!Move
  <2> QED
    BY <2>3 DEF Lifecycle!Next
<1> QED
  BY <1>2, <1>3 DEF ReservationsMove

\* The reservations as the gateway moves them are what the action state promises of a call:
\* whatever fails, is lost, is swept or is shut down, a call is admitted once, sent once and
\* then answered or unknown, and never moves again once it is closed (call.go:95, 398, 514, 536;
\* result.go:246, 303). ActionState implements the same CallLifecycle.
THEOREM GatewayImplementsLifecycle == Spec => Lifecycle!Spec
<1>1. Init => Lifecycle!Init
  <2> SUFFICES ASSUME Init PROVE PhaseMap = [c \in Calls |-> "new"]
    BY DEF Lifecycle!Init
  <2>1. \A c \in Calls : call[c].res = None
    BY DEF Init
  <2> QED
    BY <2>1, Phases DEF PhaseMap
<1>2. GatewayInv /\ ChargedInv /\ [Next]_vars => ChargedInv' /\ [Lifecycle!Next]_PhaseMap
  BY NextMoves, MovesRefine DEF GatewayInv
<1> QED
  BY <1>1, <1>2, InitCharged, GatewayAlwaysConsistent, PTL DEF Spec, Lifecycle!Spec
=============================================================================
