----------------------------- MODULE ActionState -----------------------------
(***************************************************************************)
(* The private action state of internal/actionstate: budget records, call  *)
(* reservations, terminal call records and approval records, which every   *)
(* gateway process of a repository shares through one state file.          *)
(*                                                                         *)
(* A public operation of Store runs under the cross-process lock, decodes  *)
(* the file, changes a clone of it and publishes the clone.  Here that is  *)
(* one action: `state` is the file, Commit is writeState, and an operation *)
(* that returns an error without a write is a step that is not taken.      *)
(* Publication itself (journal, crash, recovery, compare-and-swap of the   *)
(* version) is the subject of module StateStore; in this one an operation  *)
(* is attempted on the stored version, since a stale caller is refused     *)
(* before it changes anything (budget_transition.go, transitionState).     *)
(*                                                                         *)
(* Data that no property tells apart is dropped: `call` stands for the     *)
(* dimensions that dispatchUsage commits together (call count, argument    *)
(* bytes, cost units, rate window), `refused` for the failure statuses     *)
(* cancelled, malformed and replayed, `settled` for the outcomes succeeded *)
(* and failed, a reservation is named by its call, and the budget contract *)
(* (limits and reset) is fixed while its governing generation may change.  *)
(***************************************************************************)
EXTENDS Integers, FiniteSets, FiniteSetsExt, Functions

CONSTANTS
    Calls,                  \* call identities
    Owners,                 \* store instances (one random owner id per OpenStore)
    NoOwner,                \* the owner of a reservation that does not exist
    Budgets,                \* declared budgets
    Generations,            \* governing generations of the compiled policy
    Receipts,               \* receipt identities an authority may use
    BudgetsOf,              \* BudgetsOf[c]: budgets whose selector matches call c
    Limits,                 \* Limits[b][d]: limit of dimension d, 0 when undeclared
    WindowLength,           \* WindowLength[b]: fixed window length, 0 without one
    MaxResult,              \* MaxResult[c]: declared result ceiling of c's tool
    ResultSizes,            \* sizes a downstream result may have
    AdmissionWindow,        \* CallIdentityAdmissionWindow
    ClockSkew,              \* CallIdentityClockSkew
    ApprovalTTL,            \* lifetime of an approval request
    MaxBudgetRecords, MaxReservations, MaxTerminalCallRecords,
    MaxApprovalRecords, MaxPendingApprovals,
    Rollback,               \* TRUE when the wall clock may be set back
    MaxTime                 \* bound of the model: the last instant

Dims   == {"call", "denied", "approval", "result", "concurrent"}
Phases == {"pre_call", "post_result"}
Time   == 0 .. MaxTime
Usage  == [Dims -> Nat]

ASSUME CallsAssumption    == IsFiniteSet(Calls)
ASSUME BudgetsAssumption  == BudgetsOf \in [Calls -> SUBSET Budgets]
ASSUME LimitsAssumption   == Limits \in [Budgets -> Usage]
ASSUME WindowAssumption   == WindowLength \in [Budgets -> Nat]
ASSUME ResultAssumption   == MaxResult \in [Calls -> Nat] /\ ResultSizes \subseteq Nat
\* A budget that limits result bytes only selects tools that declare a ceiling
\* (action/plan.go:411, action/budget_eval.go:294).
ASSUME CeilingAssumption ==
    \A c \in Calls : \A b \in BudgetsOf[c] : Limits[b]["result"] # 0 => MaxResult[c] # 0
ASSUME TimeAssumption     == /\ AdmissionWindow \in Nat /\ ClockSkew \in Nat
                             /\ ApprovalTTL \in Nat \ {0} /\ MaxTime \in Nat \ {0}
ASSUME CapacityAssumption == /\ MaxBudgetRecords \in Nat /\ MaxReservations \in Nat
                             /\ MaxTerminalCallRecords \in Nat
                             /\ MaxApprovalRecords \in Nat /\ MaxPendingApprovals \in Nat
ASSUME NamesAssumption    == /\ Generations \subseteq Nat \ {0} /\ Generations # {}
                             /\ Receipts \subseteq Nat \ {0} /\ NoOwner \notin Owners
                             /\ Rollback \in BOOLEAN

VARIABLES
    state,      \* the decoded state file
    now,        \* the wall clock every process reads
    policy,     \* generation of the repository's current compiled policy
    issued,     \* issued[c]: the second NewCallID sealed into c, 0 before
    history     \* auxiliary: what ever happened to each call (never read)

vars == <<state, now, policy, issued, history>>

Lineages == Budgets \X Time
Keys     == Calls \X Phases         \* an approval record is unique per call and phase

ReservationStatuses == {"absent", "reserved", "dispatched", "indeterminate"}
Outcomes == {"released", "blocked", "settled", "indeterminate_committed"}
FailureStatuses  == {"rejected", "expired", "unavailable", "refused"}
ApprovalStatuses == {"absent", "pending", "approved"} \cup FailureStatuses

ZeroUsage == [d \in Dims |-> 0]
NoCharge  == [reserved |-> ZeroUsage, approvals |-> 0]
NoReservation ==
    [status |-> "absent", owner |-> NoOwner, created |-> 0,
     generation |-> 0, charges |-> [b \in Budgets |-> NoCharge]]
NoApproval == [status |-> "absent", expires |-> 0, plan |-> 0, receipt |-> 0]
NoRecord   == [generation |-> 0, consumed |-> ZeroUsage]

InitialState ==
    [observed     |-> 0,
     records      |-> [l \in Lineages |-> NoRecord],
     reservations |-> [c \in Calls |-> NoReservation],
     terminals    |-> [c \in Calls |-> "absent"],
     approvals    |-> [k \in Keys |-> NoApproval]]

NoHistory == [admitted |-> 0, lineages |-> {}, sent |-> FALSE, blocked |-> FALSE,
              approved |-> 0, returned |-> 0, asked |-> [p \in Phases |-> 0]]

-----------------------------------------------------------------------------
(* Reading a state.                                                        *)

Status(S, c) == S.reservations[c].status
Active(S)    == {c \in Calls : Status(S, c) # "absent"}
Finished(S)  == {c \in Calls : S.terminals[c] # "absent"}
Pending(S)   == {k \in Keys : S.approvals[k].status = "pending"}
Approvals(S) == {k \in Keys : S.approvals[k].status # "absent"}

\* A budget with a fixed window has one lineage per aligned window; every other
\* reset has one for all time.
Window(b, t) == IF WindowLength[b] = 0 THEN 0
                ELSE (t \div WindowLength[b]) * WindowLength[b]
Lineage(b, t) == <<b, Window(b, t)>>

\* The lineage that the charge of call c to budget b names.
ChargedLineage(S, c, b) == Lineage(b, S.reservations[c].created)
ChargedLineages(S, c)   == {ChargedLineage(S, c, b) : b \in BudgetsOf[c]}
Charging(S, l) == {c \in Active(S) : l \in ChargedLineages(S, c)}

\* What each call holds reserved of dimension d of the budget of lineage l.
Held(S, l, d) == [c \in Calls |-> S.reservations[c].charges[l[1]].reserved[d]]

ReservedUsage(S, l) ==
    [d \in Dims |-> SumFunctionOnSet(Held(S, l, d), Charging(S, l))]

RequiredUsage(b, c) ==
    [d \in Dims |-> IF Limits[b][d] = 0 \/ d \in {"denied", "approval"} THEN 0
                    ELSE IF d = "result" THEN MaxResult[c] ELSE 1]

CapacityIgnoringReserved(limits, consumed, reserved, required) ==
    \A d \in Dims :
        IF limits[d] = 0 THEN required[d] = 0
        ELSE consumed[d] + required[d] <= limits[d]
CapacityAvailable(limits, consumed, reserved, required) ==
    \A d \in Dims :
        IF limits[d] = 0 THEN required[d] = 0
        ELSE consumed[d] + reserved[d] + required[d] <= limits[d]

Available(S, l, required) ==
    CapacityAvailable(Limits[l[1]], S.records[l].consumed, ReservedUsage(S, l), required)

-----------------------------------------------------------------------------
(* Call identities and retention.                                          *)

AdmissibleAtAnyAge(c, t) == issued[c] # 0 /\ issued[c] <= t + ClockSkew
Admissible(c, t) == /\ issued[c] # 0
                    /\ issued[c] + AdmissionWindow >= t
                    /\ issued[c] <= t + ClockSkew

ExpiredAtTheEdge(c, t) == issued[c] + AdmissionWindow <= t
CallIdentityExpired(c, t) == issued[c] + AdmissionWindow + ClockSkew < t

FinishedOutsideWindow(S, k, t) ==
    /\ S.approvals[k].status \notin {"absent", "pending"}
    /\ BudgetsOf[k[1]] = {} \/ Status(S, k[1]) = "absent"
    /\ S.approvals[k].expires + AdmissionWindow < t

\* pruneRetainedHistory: approvals first, then the terminal records that no
\* retained approval references.
PruneRetainedHistory(S, t) ==
    LET approvals == [k \in Keys |->
            IF FinishedOutsideWindow(S, k, t) /\ CallIdentityExpired(k[1], t)
            THEN NoApproval ELSE S.approvals[k]]
        Referenced(c) == BudgetsOf[c] # {}
                         /\ \E p \in Phases : approvals[<<c, p>>].status # "absent"
    IN  [S EXCEPT
            !.approvals = approvals,
            !.terminals = [c \in Calls |->
                IF ~Referenced(c) /\ CallIdentityExpired(c, t)
                THEN "absent" ELSE S.terminals[c]]]

-----------------------------------------------------------------------------
(* The contract every published state must meet (validateStateContract).   *)

FinishedBelowBound(S) ==
    /\ Cardinality({l \in Lineages : S.records[l].generation # 0}) <= MaxBudgetRecords
    /\ Cardinality(Active(S)) <= MaxReservations
    /\ Cardinality(Finished(S)) < MaxTerminalCallRecords
    /\ Cardinality(Approvals(S)) <= MaxApprovalRecords
CollectionsBounded(S) ==
    /\ Cardinality({l \in Lineages : S.records[l].generation # 0}) <= MaxBudgetRecords
    /\ Cardinality(Active(S)) <= MaxReservations
    /\ Cardinality(Finished(S)) <= MaxTerminalCallRecords
    /\ Cardinality(Approvals(S)) <= MaxApprovalRecords

ChargeValid(S, c, b) ==
    LET charge == S.reservations[c].charges[b]
        record == S.records[ChargedLineage(S, c, b)]
    IN  /\ record.generation # 0
        /\ charge.reserved["denied"] = 0
        /\ \A d \in {"call", "approval", "concurrent"} : charge.reserved[d] <= 1
        /\ \A d \in Dims : charge.reserved[d] <= Limits[b][d]
        /\ charge.approvals # 0 => /\ Limits[b]["approval"] # 0
                                   /\ charge.approvals <= record.consumed["approval"]
        /\ Status(S, c) # "reserved" => charge.reserved["call"] = 0

ReservationsValid(S) == \A c \in Active(S) : \A b \in BudgetsOf[c] : ChargeValid(S, c, b)

TerminalCallsValid(S) == Active(S) \cap Finished(S) = {}

Decided(S, s) == {k \in Keys : S.approvals[k].status = s}

ReceiptsValid(S) ==
    /\ \A k \in Keys : S.approvals[k].receipt # 0
                       <=> S.approvals[k].status \in {"approved", "rejected"}
    /\ \A j, k \in Decided(S, "approved") \cup Decided(S, "rejected") :
          S.approvals[j].receipt = S.approvals[k].receipt => j = k

WantStatus(p) == IF p = "pre_call" THEN "reserved" ELSE "dispatched"

PendingTransitionUnchecked(S, k) ==
    S.approvals[k].status = "approved" =>
        (Status(S, k[1]) # "absent") # (S.terminals[k[1]] # "absent")
ApprovalTransitionValid(S, k) ==
    LET c == k[1]
        s == S.approvals[k].status
        active    == Status(S, c) # "absent"
        completed == S.terminals[c] # "absent"
        refused   == s \notin {"pending", "approved"}
    IN  /\ s = "pending"  => Status(S, c) = WantStatus(k[2]) /\ ~completed
        /\ s = "approved" => /\ active # completed
                             /\ k[2] = "post_result" => Status(S, c) # "reserved"
        /\ refused /\ k[2] = "pre_call" =>
              \/ s = "unavailable" /\ Status(S, c) = "indeterminate" /\ ~completed
              \/ ~active /\ S.terminals[c] = "blocked"
        /\ refused /\ k[2] = "post_result" =>
              /\ active # completed
              /\ Status(S, c) # "reserved"
              /\ S.terminals[c] \notin {"released", "blocked"}

ApprovalChargesValid(S, c) ==
    LET Count(s) == Cardinality({p \in Phases : S.approvals[<<c, p>>].status = s})
    IN  /\ Count("pending") <= 1
        /\ \A b \in BudgetsOf[c] : Limits[b]["approval"] # 0 =>
              /\ S.reservations[c].charges[b].approvals = Count("approved")
              /\ S.reservations[c].charges[b].reserved["approval"] = Count("pending")

ApprovalRecordsValid(S) ==
    /\ ReceiptsValid(S)
    /\ \A k \in Approvals(S) : BudgetsOf[k[1]] # {} => ApprovalTransitionValid(S, k)
    /\ Cardinality(Pending(S)) <= MaxPendingApprovals
    /\ \A c \in Active(S) : ApprovalChargesValid(S, c)

StateContract(S) == /\ CollectionsBounded(S)
                    /\ ReservationsValid(S)
                    /\ TerminalCallsValid(S)
                    /\ ApprovalRecordsValid(S)

-----------------------------------------------------------------------------
(* The two ends of every operation.                                        *)

AnyClock   == TRUE
TrustedNow == now >= state.observed

\* writeState: apply the observed clock, prune, validate, publish.
Written(S) == PruneRetainedHistory([S EXCEPT !.observed = now], now)
Commit(S)  == /\ TrustedNow
              /\ StateContract(Written(S))
              /\ state' = Written(S)

\* persistClockObservationOnFailure: a refused operation still advances the
\* persisted high-water mark.
PersistClockObservation == /\ now > state.observed
                           /\ Commit(state)
                           /\ UNCHANGED history

ContractCurrent(c) ==
    \A b \in BudgetsOf[c] :
        /\ state.records[ChargedLineage(state, c, b)].generation
              = state.reservations[c].generation
        /\ Window(b, now) = Window(b, state.reservations[c].created)

-----------------------------------------------------------------------------
(* Transitions of a state, shared by the operations below.                 *)

\* Charge amount[b] of dimension d to every lineage of call c.
Consume(S, c, d, amount) ==
    [S EXCEPT !.records = [l \in Lineages |->
        IF l \in ChargedLineages(S, c)
        THEN [S.records[l] EXCEPT !.consumed[d] = @ + amount[l[1]]]
        ELSE S.records[l]]]

\* Set the reserved amount of dimension d in every charge of the calls of C.
SetReserved(S, C, d, amount) ==
    [S EXCEPT !.reservations = [c \in Calls |->
        IF c \in C
        THEN [S.reservations[c] EXCEPT !.charges = [b \in Budgets |->
                IF b \in BudgetsOf[c] /\ Limits[b][d] # 0
                THEN [S.reservations[c].charges[b] EXCEPT !.reserved[d] = amount]
                ELSE S.reservations[c].charges[b]]]
        ELSE S.reservations[c]]]

SetStatus(S, C, s) ==
    [S EXCEPT !.reservations = [c \in Calls |->
        IF c \in C THEN [S.reservations[c] EXCEPT !.status = s]
        ELSE S.reservations[c]]]

\* commitDispatch for the calls of C: what was reserved for dispatch becomes
\* consumed; the result ceiling and the concurrency slot stay reserved.
ApprovalUncommitted(S, c) ==
    \E b \in BudgetsOf[c] : S.reservations[c].charges[b].reserved["approval"] # 0
CommitDispatch(S, C) ==
    SetReserved(
        [S EXCEPT !.records = [l \in Lineages |->
            [S.records[l] EXCEPT !.consumed["call"] =
                @ + SumFunctionOnSet(Held(S, l, "call"), Charging(S, l) \cap C)]]],
        C, "call", 0)

\* commitResult and commitReservedResults: amount[b] result bytes where a
\* ceiling was reserved.
CommitResult(S, c, amount) ==
    Consume(S, c, "result",
            [b \in Budgets |->
                IF S.reservations[c].charges[b].reserved["result"] = 0 THEN 0 ELSE amount[b]])
ExceedsReservedResult(S, c, actual) ==
    \E b \in BudgetsOf[c] :
        /\ S.reservations[c].charges[b].reserved["result"] # 0
        /\ actual > S.reservations[c].charges[b].reserved["result"]

\* removeReservationAndRecord for the calls of C.
TerminalRoom(S, C) == Cardinality(Finished(S)) + Cardinality(C) <= MaxTerminalCallRecords
RecordStatus(S, C, outcome) ==
    [S EXCEPT
        !.reservations = [c \in Calls |-> IF c \in C THEN NoReservation ELSE S.reservations[c]],
        !.terminals    = [c \in Calls |-> IF c \in C THEN Status(S, c) ELSE S.terminals[c]]]
RecordTerminal(S, C, outcome) ==
    [S EXCEPT
        !.reservations = [c \in Calls |-> IF c \in C THEN NoReservation ELSE S.reservations[c]],
        !.terminals    = [c \in Calls |-> IF c \in C THEN outcome ELSE S.terminals[c]]]

\* recordDenialCharges for the calls of C: as many denials as the lineage has
\* capacity for; a denial beyond it is reported, never refused.
AdmittedDenials(S, l, n) ==
    Cardinality({j \in 1 .. n : Available(S, l, [ZeroUsage EXCEPT !["denied"] = j])})
RecordDenialCharges(S, C) ==
    [S EXCEPT !.records = [l \in Lineages |->
        [S.records[l] EXCEPT !.consumed["denied"] =
            @ + AdmittedDenials(S, l, Cardinality(Charging(S, l) \cap C))]]]

ApprovalBudgets(c) == {b \in BudgetsOf[c] : Limits[b]["approval"] # 0}
ApprovalReserved(S, c) ==
    \A b \in ApprovalBudgets(c) : S.reservations[c].charges[b].reserved["approval"] = 1

\* commitApprovalCharges: the reserved approval becomes consumed.
CommitApprovalCharges(S, c) ==
    LET T == SetReserved(Consume(S, c, "approval",
                             [b \in Budgets |-> IF Limits[b]["approval"] = 0 THEN 0 ELSE 1]),
                         {c}, "approval", 0)
    IN  [T EXCEPT !.reservations[c].charges = [b \in Budgets |->
            IF b \in ApprovalBudgets(c)
            THEN [T.reservations[c].charges[b] EXCEPT !.approvals = @ + 1]
            ELSE T.reservations[c].charges[b]]]

\* finishPendingApproval, and the loop of reconcileExpiredApprovals, for the
\* pending records K: a pre-call record blocks its call and closes it, a
\* post-result record only gives its reserved approval back.
CallsOf(K, p) == {c \in Calls : <<c, p>> \in K /\ BudgetsOf[c] # {}}
Finishable(S, K) ==
    /\ \A c \in CallsOf(K, "pre_call")    : Status(S, c) = "reserved"
    /\ \A c \in CallsOf(K, "post_result") : Status(S, c) = "dispatched" /\ ApprovalReserved(S, c)
    /\ TerminalRoom(S, CallsOf(K, "pre_call"))
FinishConsumingApproval(S, K, s, receipt) ==
    LET decided == [S EXCEPT !.approvals = [k \in Keys |->
                        IF k \in K
                        THEN [S.approvals[k] EXCEPT !.status = s, !.receipt = receipt]
                        ELSE S.approvals[k]]]
        spent   == [decided EXCEPT !.records = [l \in Lineages |->
                        [S.records[l] EXCEPT !.consumed["approval"] =
                            @ + Cardinality(Charging(S, l) \cap CallsOf(K, "post_result"))]]]
        freed   == SetReserved(spent, CallsOf(K, "post_result"), "approval", 0)
        charged == RecordDenialCharges(freed, CallsOf(K, "pre_call"))
    IN  RecordTerminal(charged, CallsOf(K, "pre_call"), "blocked")
FinishPending(S, K, s, receipt) ==
    LET decided == [S EXCEPT !.approvals = [k \in Keys |->
                        IF k \in K
                        THEN [S.approvals[k] EXCEPT !.status = s, !.receipt = receipt]
                        ELSE S.approvals[k]]]
        freed   == SetReserved(decided, CallsOf(K, "post_result"), "approval", 0)
        charged == RecordDenialCharges(freed, CallsOf(K, "pre_call"))
    IN  RecordTerminal(charged, CallsOf(K, "pre_call"), "blocked")

\* Auxiliary: the calls that the decision on K blocked.
NoteBlocked(C) == history' = [c \in Calls |->
    IF c \in C THEN [history[c] EXCEPT !.blocked = TRUE] ELSE history[c]]
NoteSent(C) == history' = [c \in Calls |->
    IF c \in C THEN [history[c] EXCEPT !.sent = TRUE] ELSE history[c]]

-----------------------------------------------------------------------------
(* Reserve.                                                                *)

\* pruneExpiredFixedWindowRecords: of the elapsed, inactive windows of a budget
\* only the newest record is kept.
ElapsedWindow(S, l) == /\ S.records[l].generation # 0
                       /\ WindowLength[l[1]] # 0
                       /\ Window(l[1], now) > l[2]
                       /\ Charging(S, l) = {}
PruneWindows(S) ==
    [S EXCEPT !.records = [l \in Lineages |->
        IF ElapsedWindow(S, l) /\ \E t \in Time : t > l[2] /\ ElapsedWindow(S, <<l[1], t>>)
        THEN NoRecord ELSE S.records[l]]]

\* upsertBudgetRecord for every matching budget: a lineage seen before keeps
\* what it consumed, whatever generation governs it now.
UpsertFreshRecords(S, c) ==
    [S EXCEPT !.records = [l \in Lineages |->
        IF /\ \E b \in BudgetsOf[c] : l = Lineage(b, now)
           /\ S.records[l].generation # policy
        THEN [generation |-> policy, consumed |-> ZeroUsage]
        ELSE S.records[l]]]
UpsertRecords(S, c) ==
    [S EXCEPT !.records = [l \in Lineages |->
        IF \E b \in BudgetsOf[c] : l = Lineage(b, now)
        THEN [S.records[l] EXCEPT !.generation = policy]
        ELSE S.records[l]]]

NewReservation(o, c) ==
    [status |-> "reserved", owner |-> o, created |-> now, generation |-> policy,
     charges |-> [b \in Budgets |->
        IF b \in BudgetsOf[c]
        THEN [reserved |-> RequiredUsage(b, c), approvals |-> 0] ELSE NoCharge]]

\* Every live reservation keeps one terminal record in hand.
RoomToReserve(S) ==
    /\ Cardinality(Active(S)) < MaxReservations
    /\ Cardinality(Active(S)) + Cardinality(Finished(S)) < MaxTerminalCallRecords

Exhausted(S, c) ==
    \E b \in BudgetsOf[c] : ~Available(S, Lineage(b, now), RequiredUsage(b, c))

Reserve(o, c) ==
    LET declared == UpsertRecords(PruneWindows(state), c)
        kept     == PruneRetainedHistory(declared, now)
    IN  /\ BudgetsOf[c] # {}
        /\ TrustedNow
        /\ c \notin Active(state) \cup Finished(state)
        /\ Admissible(c, now)
        /\ IF Exhausted(declared, c)
           THEN /\ declared.records # state.records
                /\ Commit(declared)
                /\ UNCHANGED history
           ELSE /\ RoomToReserve(kept)
                /\ Commit([kept EXCEPT !.reservations[c] = NewReservation(o, c)])
                /\ history' = [history EXCEPT ![c] =
                        [history[c] EXCEPT
                            !.admitted = @ + 1,
                            !.lineages = {Lineage(b, now) : b \in BudgetsOf[c]}]]
        /\ UNCHANGED <<now, policy, issued>>

\* A repeated Reserve, a dispatch, a denial or an approval request finds its
\* reservation's governing generation or window gone: it fails and persists
\* only the clock.
RefuseStaleContract(c) ==
    /\ Status(state, c) \in {"reserved", "dispatched"}
    /\ ~ContractCurrent(c)
    /\ PersistClockObservation
    /\ UNCHANGED <<now, policy, issued>>

-----------------------------------------------------------------------------
(* Transitions of a reservation.                                           *)

MarkDispatched(c) ==
    /\ Status(state, c) = "reserved"
    /\ ContractCurrent(c)
    /\ ~ApprovalUncommitted(state, c)
    /\ Commit(SetStatus(CommitDispatch(state, {c}), {c}, "dispatched"))
    /\ NoteSent({c})
    /\ UNCHANGED <<now, policy, issued>>

ReleaseWhatever(c) ==
    /\ Status(state, c) # "absent"
    /\ TerminalRoom(state, {c})
    /\ Commit(RecordTerminal(state, {c}, "released"))
    /\ UNCHANGED <<now, policy, issued, history>>

Release(c) ==
    /\ Status(state, c) = "reserved"
    /\ TerminalRoom(state, {c})
    /\ Commit(RecordTerminal(state, {c}, "released"))
    /\ UNCHANGED <<now, policy, issued, history>>

RecordDenied(c) ==
    /\ Status(state, c) = "reserved"
    /\ ContractCurrent(c)
    /\ TerminalRoom(state, {c})
    /\ Commit(RecordTerminal(RecordDenialCharges(state, {c}), {c}, "blocked"))
    /\ NoteBlocked({c})
    /\ UNCHANGED <<now, policy, issued>>

MarkIndeterminate(c) ==
    \/ /\ Status(state, c) = "reserved"
       /\ ~ApprovalUncommitted(state, c)
       /\ Commit(SetStatus(CommitDispatch(state, {c}), {c}, "indeterminate"))
       /\ NoteSent({c})
       /\ UNCHANGED <<now, policy, issued>>
    \/ /\ Status(state, c) = "dispatched"
       /\ Commit(SetStatus(state, {c}, "indeterminate"))
       /\ UNCHANGED <<now, policy, issued, history>>

\* A result above the reserved ceiling is withheld: the call stays charged and
\* becomes indeterminate.
Settle(c, actual) ==
    /\ Status(state, c) = "dispatched"
    /\ IF ExceedsReservedResult(state, c, actual)
       THEN /\ Commit(SetStatus(state, {c}, "indeterminate"))
            /\ UNCHANGED history
       ELSE /\ TerminalRoom(state, {c})
            /\ Commit(RecordTerminal(CommitResult(state, c, [b \in Budgets |-> actual]),
                                     {c}, "settled"))
            /\ history' = [history EXCEPT ![c].returned = actual]
    /\ UNCHANGED <<now, policy, issued>>

Reconciled(S, c, outcome, actual) ==
    RecordTerminal(
        CommitResult(S, c, [b \in Budgets |->
            IF outcome = "settled" THEN actual
            ELSE S.reservations[c].charges[b].reserved["result"]]),
        {c}, outcome)

\* The operator decides what became of a call nobody can answer for.
ReconcileIndeterminate(c, outcome, actual) ==
    /\ Status(state, c) = "indeterminate"
    /\ outcome = "indeterminate_committed" => actual = 0
    /\ outcome = "settled" => ~ExceedsReservedResult(state, c, actual)
    /\ TerminalRoom(state, {c})
    /\ Commit(Reconciled(state, c, outcome, actual))
    /\ history' = [history EXCEPT ![c].returned =
            IF outcome = "settled" THEN actual ELSE MaxResult[c]]
    /\ UNCHANGED <<now, policy, issued>>

\* The operator declares a store instance dead: its pending approvals become
\* unavailable and its reservations indeterminate, in one write.
MarkOwnerAbandoned(o) ==
    LET owned    == {c \in Active(state) : /\ state.reservations[c].owner = o
                                           /\ Status(state, c) # "indeterminate"}
        waiting  == {k \in Pending(state) : k[1] \in owned}
        unsent   == {c \in owned : Status(state, c) = "reserved"}
        released == SetReserved(
                        [state EXCEPT !.approvals = [k \in Keys |->
                            IF k \in waiting
                            THEN [state.approvals[k] EXCEPT !.status = "unavailable"]
                            ELSE state.approvals[k]]],
                        {k[1] : k \in waiting}, "approval", 0)
    IN  /\ owned # {}
        /\ \A k \in waiting : ApprovalReserved(state, k[1])
        /\ \A c \in unsent : ~ApprovalUncommitted(released, c)
        /\ Commit(SetStatus(CommitDispatch(released, unsent), owned, "indeterminate"))
        /\ NoteSent(unsent)
        /\ UNCHANGED <<now, policy, issued>>

-----------------------------------------------------------------------------
(* Approvals.                                                              *)

\* What an approval request and its consumption demand of the reservation; a
\* call that no budget matches has none.
ApprovalBound(o, k) ==
    BudgetsOf[k[1]] # {} =>
        /\ Status(state, k[1]) = WantStatus(k[2])
        /\ state.reservations[k[1]].owner = o
        /\ ContractCurrent(k[1])

IssueApproval(o, k) ==
    LET c == k[1]
        charged == IF ApprovalReserved(state, c) THEN state
                   ELSE SetReserved(state, {c}, "approval", 1)
    IN  /\ ApprovalBound(o, k)
        /\ BudgetsOf[c] # {} /\ k[2] = "pre_call" => policy = state.reservations[c].generation
        /\ Cardinality(Approvals(state)) < MaxApprovalRecords
        /\ Cardinality(Pending(state)) < MaxPendingApprovals
        /\ state.approvals[k].status = "absent"
        /\ Admissible(c, now)
        /\ ~ApprovalReserved(state, c) =>
               /\ ~ApprovalUncommitted(state, c)
               /\ \A b \in ApprovalBudgets(c) :
                     Available(state, ChargedLineage(state, c, b),
                               [ZeroUsage EXCEPT !["approval"] = 1])
        /\ now + ApprovalTTL <= MaxTime
        /\ Commit([charged EXCEPT !.approvals[k] =
                [status |-> "pending", expires |-> now + ApprovalTTL,
                 plan |-> policy, receipt |-> 0]])
        /\ history' = [history EXCEPT ![c].asked[k[2]] = @ + 1]
        /\ UNCHANGED <<now, policy, issued>>

Finish(K, s, receipt) ==
    /\ K # {}
    /\ Finishable(state, K)
    /\ Commit(FinishPending(state, K, s, receipt))
    /\ NoteBlocked(CallsOf(K, "pre_call"))
    /\ UNCHANGED <<now, policy, issued>>

ReceiptKnown(r, k) == \E j \in Keys \ {k} : state.approvals[j].receipt = r

\* consumeApprovalLocked, up to the verification of the receipt.
Consumable(o, k) == /\ state.approvals[k].status = "pending"
                    /\ state.approvals[k].plan = policy
                    /\ ApprovalBound(o, k)

\* Verification fails: no authority, a receipt that does not bind the request,
\* or the trusted expiry.
ConsumeUnverified(o, k, s) ==
    /\ Consumable(o, k)
    /\ s # "rejected"
    /\ s = "expired" => now >= state.approvals[k].expires
    /\ Finish({k}, s, 0)

ConsumeRejected(o, k, r) ==
    /\ Consumable(o, k)
    /\ now < state.approvals[k].expires
    /\ Finish({k}, "rejected", r)

ConsumeApproved(o, k, r) ==
    /\ Consumable(o, k)
    /\ now < state.approvals[k].expires
    /\ IF ReceiptKnown(r, k)
       THEN Finish({k}, "refused", 0)
       ELSE /\ ApprovalReserved(state, k[1])
            /\ LET charged == IF BudgetsOf[k[1]] = {} THEN state
                              ELSE CommitApprovalCharges(state, k[1])
               IN  Commit([charged EXCEPT !.approvals[k].status  = "approved",
                                          !.approvals[k].receipt = r])
            /\ history' = [history EXCEPT ![k[1]].approved = @ + 1]
            /\ UNCHANGED <<now, policy, issued>>

\* The gateway gives a request up: timeout, cancellation, malformed response.
FinalizeDecided(k, s) ==
    /\ state.approvals[k].status # "absent"
    /\ s = "expired" => now >= state.approvals[k].expires
    /\ Finish({k}, s, 0)
FinalizeApproval(k, s) ==
    /\ state.approvals[k].status = "pending"
    /\ s = "expired" => now >= state.approvals[k].expires
    /\ Finish({k}, s, 0)

Expired == {k \in Pending(state) : now >= state.approvals[k].expires}

ReconcileExpiredApprovals == Finish(Expired, "expired", 0)

-----------------------------------------------------------------------------
(* The environment.                                                        *)

NewCallID(c) == /\ issued[c] = 0
                /\ issued' = [issued EXCEPT ![c] = now]
                /\ UNCHANGED <<state, now, policy, history>>

Tick == /\ now < MaxTime
        /\ now' = now + 1
        /\ UNCHANGED <<state, policy, issued, history>>

SetClockBack == /\ Rollback
                /\ now' \in 1 .. now - 1
                /\ UNCHANGED <<state, policy, issued, history>>

PolicyChange == /\ policy' \in Generations \ {policy}
                /\ UNCHANGED <<state, now, issued, history>>

Init == /\ state = InitialState
        /\ now = 1
        /\ policy \in Generations
        /\ issued = [c \in Calls |-> 0]
        /\ history = [c \in Calls |-> NoHistory]

ReservationStep(c) ==
    \/ \E o \in Owners : Reserve(o, c)
    \/ RefuseStaleContract(c)
    \/ MarkDispatched(c) \/ Release(c) \/ RecordDenied(c) \/ MarkIndeterminate(c)
    \/ \E n \in ResultSizes :
          \/ Settle(c, n)
          \/ \E outcome \in {"settled", "indeterminate_committed"} :
                ReconcileIndeterminate(c, outcome, n)

ApprovalStep(k) ==
    \/ \E o \in Owners :
          \/ IssueApproval(o, k)
          \/ \E s \in FailureStatuses : ConsumeUnverified(o, k, s)
          \/ \E r \in Receipts : ConsumeRejected(o, k, r) \/ ConsumeApproved(o, k, r)
    \/ \E s \in FailureStatuses \ {"rejected"} : FinalizeApproval(k, s)

Next == \/ \E c \in Calls : NewCallID(c) \/ ReservationStep(c)
        \/ \E k \in Keys : ApprovalStep(k)
        \/ \E o \in Owners : MarkOwnerAbandoned(o)
        \/ ReconcileExpiredApprovals
        \/ Tick \/ SetClockBack \/ PolicyChange

\* The clock advances, and a gateway calls ReconcileExpiredApprovals when it
\* starts, before it accepts work and every 30 seconds while it runs.
Fairness == WF_vars(Tick) /\ WF_vars(ReconcileExpiredApprovals)

Spec     == Init /\ [][Next]_vars
LiveSpec == Spec /\ Fairness

-----------------------------------------------------------------------------
(* Correctness.                                                            *)

Charge == [reserved : Usage, approvals : Nat]
Reservation ==
    [status : ReservationStatuses, owner : Owners \cup {NoOwner}, created : Time,
     generation : Generations \cup {0}, charges : [Budgets -> Charge]]
BudgetRecord   == [generation : Generations \cup {0}, consumed : Usage]
ApprovalRecord == [status : ApprovalStatuses, expires : Time,
                   plan : Generations \cup {0}, receipt : Receipts \cup {0}]
State == [observed     : Time,
          records      : [Lineages -> BudgetRecord],
          reservations : [Calls -> Reservation],
          terminals    : [Calls -> Outcomes \cup {"absent"}],
          approvals    : [Keys -> ApprovalRecord]]
History == [admitted : Nat, lineages : SUBSET Lineages, sent : BOOLEAN, blocked : BOOLEAN,
            approved : Nat, returned : Nat, asked : [Phases -> Nat]]

\* Every variable keeps its type; in particular no counter goes below zero.
TypeOK == /\ state \in State
          /\ now \in Time
          /\ policy \in Generations
          /\ issued \in [Calls -> Time]
          /\ history \in [Calls -> History]

\* What a lineage has consumed and what live reservations hold of it never
\* exceed its limit together, in any dimension, whatever processes reserve,
\* dispatch, fail, approve and deny in whatever order (reserveLocked,
\* reserveApprovalCharges and recordDenialCharges check capacity apart).
CapacityNeverOversubscribed ==
    \A l \in Lineages : state.records[l].generation # 0 =>
        \A d \in Dims : Limits[l[1]][d] # 0 =>
            state.records[l].consumed[d] + ReservedUsage(state, l)[d] <= Limits[l[1]][d]

Touching(l) == {c \in Calls : l \in history[c].lineages}

\* Call capacity consumed from a lineage is exactly the number of calls whose
\* dispatch was committed against it: no retry, abandonment or crash
\* reconciliation charges twice, and none hands committed capacity back.
DispatchCharged(l) ==
    Limits[l[1]]["call"] # 0 =>
        state.records[l].consumed["call"] = Cardinality({c \in Touching(l) : history[c].sent})

\* Approval capacity is consumed exactly once per consumed receipt; a request
\* that is rejected, expires or is abandoned gives its reserved unit back.
ApprovalCharged(l) ==
    Limits[l[1]]["approval"] # 0 =>
        state.records[l].consumed["approval"]
            = SumFunctionOnSet([c \in Calls |-> history[c].approved], Touching(l))

\* Result capacity is consumed once per call: the actual size when the call
\* settles, the whole reserved ceiling when the operator cannot know it.
ResultCharged(l) ==
    Limits[l[1]]["result"] # 0 =>
        state.records[l].consumed["result"]
            = SumFunctionOnSet([c \in Calls |-> history[c].returned], Touching(l))

\* Every blocked call is counted against the denial budget until that budget
\* is full, whether a rule, a rejected approval or an expiry blocked it.
DenialCharged(l) ==
    Limits[l[1]]["denied"] # 0 =>
        state.records[l].consumed["denied"]
            = Min({Limits[l[1]]["denied"],
                   Cardinality({c \in Touching(l) : history[c].blocked})})

\* Whatever is retried, swept, abandoned or reconciled, by whichever process,
\* each thing that happened to a call is charged once in its dimension
\* (budget_transition.go:29, approval.go:718, budget_events.go:186).
ChargedOnce ==
    \A l \in Lineages : state.records[l].generation # 0 =>
        DispatchCharged(l) /\ ApprovalCharged(l) /\ ResultCharged(l) /\ DenialCharged(l)

\* A call identity is admitted at most once, although its terminal record is
\* pruned: by then its identity has left the admission window of a clock whose
\* persisted high-water mark never goes back (call_identity.go:128).
CallAdmittedOnce == \A c \in Calls : history[c].admitted <= 1

\* Each phase of a call asks for approval at most once, although finished
\* approvals are pruned and a budget-free call has no reservation to show that
\* it still runs (approval.go:391).
ApprovalAskedOnce == \A c \in Calls : \A p \in Phases : history[c].asked[p] <= 1

\* A call that was blocked, by a rule, a rejected or an expired approval, is
\* never dispatched, neither before nor after its records are pruned.
BlockedNeverDispatched == \A c \in Calls : ~(history[c].blocked /\ history[c].sent)

\* A live reservation always finds room for its terminal record, so that no
\* call is stuck active because history filled up (budget_store.go:94).
TerminalRoomKept ==
    Cardinality(Active(state)) + Cardinality(Finished(state)) <= MaxTerminalCallRecords

\* A decided approval stays decided as it is until its record is pruned: a
\* racing receipt, cancellation or expiry sweep never decides it again.
DecisionsAreFinal ==
    [][\A k \in Keys : state.approvals[k].status \notin {"absent", "pending"} =>
          state'.approvals[k].status \in {"absent", state.approvals[k].status}]_vars

\* No approval stays pending for ever, even when its gateway died: the sweep
\* finds it expired and decides it together with every other expired one, none
\* of which makes it fail (approval.go:732: reconcileExpiredApprovalsLocked
\* gives up on the first error and then writes nothing).
PendingIsDecided == \A k \in Keys : []<>(state.approvals[k].status # "pending")

\* An operator can settle every indeterminate reservation: the state that
\* ReconcileIndeterminate builds meets the contract the write demands. The one
\* exception is the call of an owner that was abandoned while it asked for
\* approval: state_validate.go:429 wants it blocked.
AbandonedAsking(c) == state.approvals[<<c, "pre_call">>].status = "unavailable"
IndeterminateCanBeReconciled ==
    \A c \in Calls : Status(state, c) = "indeterminate" /\ TrustedNow /\ ~AbandonedAsking(c) =>
        StateContract(Written(Reconciled(state, c, "indeterminate_committed", 0)))

-----------------------------------------------------------------------------
(* Why a call identity is good for one life: once its last record is pruned *)
(* the identity is older than any instant the trusted clock may still show. *)

CallHistory(c) ==
    LET s == Status(state, c)
        o == state.terminals[c]
        h == history[c]
    IN  /\ s = "absent" \/ o = "absent"
        /\ h.admitted \in {0, 1}
        /\ h.admitted = 0 => s = "absent" /\ o = "absent" /\ ~h.sent /\ ~h.blocked
        /\ h.admitted = 1 =>
              /\ issued[c] # 0
              /\ s # "absent" \/ o # "absent" \/ CallIdentityExpired(c, state.observed)
        /\ s = "reserved" => ~h.sent /\ ~h.blocked
        /\ s \in {"dispatched", "indeterminate"} => h.sent
        /\ o \in {"settled", "indeterminate_committed"} => h.sent
        /\ o \in {"released", "blocked"} => ~h.sent
        /\ ~(h.sent /\ h.blocked)

\* The inductive invariant behind CallAdmittedOnce, BlockedNeverDispatched and
\* ImplementsLifecycle: a retained record, or an identity that the persisted
\* clock has already left behind, remembers every admission.
CallHistoryInv == \A c \in Calls : CallHistory(c)

-----------------------------------------------------------------------------
(* Refinement: every call follows the abstract lifecycle.  A call that no  *)
(* budget matches holds no reservation and stays `new`.                    *)

Phase(c) ==
    CASE Status(state, c) = "reserved"      -> "held"
      [] Status(state, c) = "dispatched"    -> "sent"
      [] Status(state, c) = "indeterminate" -> "unknown"
      [] Status(state, c) = "absent" ->
            CASE state.terminals[c] \in {"released", "blocked"} -> "closed_unsent"
              [] state.terminals[c] \in {"settled", "indeterminate_committed"} -> "closed_sent"
              [] state.terminals[c] = "absent" ->
                    IF history[c].admitted = 0 THEN "new"
                    ELSE IF history[c].sent THEN "closed_sent" ELSE "closed_unsent"

Lifecycle == INSTANCE CallLifecycle WITH phase <- [c \in Calls |-> Phase(c)]

\* No interleaving of gateway processes, owner abandonment, operator
\* reconciliation, expiry sweep, pruning or clock rollback takes a call off
\* its lifecycle: not admitted again after its terminal record was pruned, not
\* released or blocked after dispatch, not answered before it was sent.
ImplementsLifecycle == Lifecycle!Spec

=============================================================================
