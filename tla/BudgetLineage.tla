---------------------------- MODULE BudgetLineage ----------------------------
(***************************************************************************)
(* What a budget has consumed, across changes of its contract: the records *)
(* that reserveLocked of internal/actionstate creates, adopts, carries     *)
(* forward and prunes when the governing generation (policy, executable,   *)
(* tool contract or key) declares another limit or another reset.          *)
(*                                                                         *)
(* One budget of one principal, server, tool and credential set, so that   *)
(* every record is carry compatible with every other; one weighted         *)
(* dimension that a dispatch commits (argument bytes).  A generation is a  *)
(* number and stands for its contract.  operator_session differs from      *)
(* operator_run in the name only and is left out, as is the bound of 256   *)
(* generations per record.  Publication is module StateStore, the clock,   *)
(* approvals and retention are module ActionState.                         *)
(***************************************************************************)
EXTENDS Integers, FiniteSets, FiniteSetsExt

CONSTANTS
    Calls,              \* call identities
    Cost,               \* Cost[c]: what call c consumes
    Runs, NoRun,        \* operator-bound run identities, and their absence
    Contract,           \* Contract[g]: reset, window length and limit of generation g
    Reverts,            \* TRUE when an earlier generation may govern again
    MaxBudgetRecords,
    Period,             \* the time that one NoFreshBudget account spans
    MaxTime             \* bound of the model: the last instant

Generations == DOMAIN Contract
Resets   == {"never", "operator_run", "fixed_window"}
Time     == 0 .. MaxTime
NoWindow == -1
Lineages == [run : Runs \cup {NoRun}, window : Time \cup {NoWindow}]
Contracts == [reset : Resets, seconds : Nat, limit : Nat \ {0}]

ASSUME GenerationsAssumption ==
    /\ IsFiniteSet(Generations) /\ Generations \subseteq Nat \ {0}
    /\ \E first \in Generations : \A g \in Generations : first <= g
ASSUME ContractAssumption ==
    \A g \in Generations : /\ Contract[g] \in Contracts
                           /\ Contract[g].reset = "fixed_window" <=> Contract[g].seconds > 0
ASSUME CallsAssumption == IsFiniteSet(Calls) /\ Cost \in [Calls -> Nat \ {0}] /\ NoRun \notin Runs
ASSUME BoundAssumption == /\ MaxBudgetRecords \in Nat /\ Period \in Nat \ {0}
                          /\ MaxTime \in Nat /\ Reverts \in BOOLEAN

VARIABLES
    records,        \* the budget records, by lineage
    reservations,   \* the live reservations, by call
    now, policy,    \* the trusted clock and the governing generation
    history         \* auxiliary: what became of each call, in which run and when

vars == <<records, reservations, now, policy, history>>

NoRecord == [generation |-> 0, reset |-> "never", seconds |-> 0, limit |-> 0, consumed |-> 0]
NoReservation ==
    [status |-> "absent", generation |-> 0, lineage |-> [run |-> NoRun, window |-> NoWindow]]
NoHistory == [admitted |-> FALSE, sent |-> FALSE, run |-> NoRun, at |-> 0]

Start(seconds, t) == (t \div seconds) * seconds

\* budgetScope: the reset decides which parts of the scope name the lineage.
Lineage(k, r) == [run    |-> IF k.reset = "operator_run" THEN r ELSE NoRun,
                  window |-> IF k.reset = "fixed_window" THEN Start(k.seconds, now) ELSE NoWindow]

Recorded(R) == {l \in Lineages : R[l].generation # 0}
Active      == {c \in Calls : reservations[c].status # "absent"}
Charging(l) == {c \in Active : reservations[c].lineage = l}

\* Only what was not yet dispatched is still reserved.
Reserved(l) ==
    SumFunctionOnSet(Cost, {c \in Charging(l) : reservations[c].status = "reserved"})

-----------------------------------------------------------------------------
(* prepareCandidates: prune, then create or adopt the record.              *)

\* pruneExpiredFixedWindowRecords: of the elapsed windows of one length that no
\* reservation charges, the newest stays.
ElapsedCharged(R, l) ==
    /\ l \in Recorded(R) /\ R[l].reset = "fixed_window"
    /\ Start(R[l].seconds, now) > Start(R[l].seconds, l.window)
Elapsed(R, l) == ElapsedCharged(R, l) /\ Charging(l) = {}
Pruned(R) ==
    [l \in Lineages |->
        IF Elapsed(R, l) /\ \E m \in Lineages : /\ Elapsed(R, m)
                                                /\ R[m].seconds = R[l].seconds
                                                /\ m.window > l.window
        THEN NoRecord ELSE R[l]]

SameReset(record, k) == record.reset = k.reset /\ record.seconds = k.seconds

BlocksResetChange(R, k) ==
    \E c \in Active : /\ reservations[c].lineage \in Recorded(R)
                      /\ ~SameReset(R[reservations[c].lineage], k)
BlocksLimitChange(l, k) ==
    \E c \in Charging(l) : reservations[c].status = "reserved" /\ Cost[c] > k.limit

\* carryForwardChangedReset: the first lineage of a generation inherits what the
\* budget consumed under every other reset; the next ones start at zero.
CarryNothing(R, g) == 0
CarriedForward(R, g) ==
    IF \E l \in Recorded(R) : SameReset(R[l], Contract[g]) /\ R[l].generation = g
    THEN 0
    ELSE SumFunctionOnSet([l \in Lineages |-> R[l].consumed],
                          {l \in Recorded(R) : ~SameReset(R[l], Contract[g])})

\* upsertBudgetRecord: a lineage seen before keeps what it consumed itself.
Upsertable(R, l, g) ==
    IF l \notin Recorded(R)
    THEN Cardinality(Recorded(R)) < MaxBudgetRecords /\ ~BlocksResetChange(R, Contract[g])
    ELSE R[l].limit # Contract[g].limit => ~BlocksLimitChange(l, Contract[g])
UpsertFresh(R, l, g) ==
    [R EXCEPT ![l] =
        [generation |-> g, reset |-> Contract[g].reset, seconds |-> Contract[g].seconds,
         limit |-> Contract[g].limit,
         consumed |-> IF R[l].generation # g THEN CarriedForward(R, g) ELSE R[l].consumed]]
Upsert(R, l, g) ==
    [R EXCEPT ![l] =
        [generation |-> g, reset |-> Contract[g].reset, seconds |-> Contract[g].seconds,
         limit |-> Contract[g].limit,
         consumed |-> IF l \notin Recorded(R) THEN CarriedForward(R, g) ELSE R[l].consumed]]

-----------------------------------------------------------------------------
(* Operations.                                                             *)

\* reserveLocked: an exhausted call is not admitted, but the contract change
\* that its evaluation recorded is kept.
Reserve(c, r) ==
    LET l == Lineage(Contract[policy], r)
        declared == Upsert(Pruned(records), l, policy)
    IN  /\ ~history[c].admitted
        /\ Upsertable(Pruned(records), l, policy)
        /\ records' = declared
        /\ IF declared[l].consumed + Reserved(l) + Cost[c] > declared[l].limit
           THEN /\ declared # records
                /\ UNCHANGED <<reservations, history>>
           ELSE /\ reservations' = [reservations EXCEPT ![c] =
                      [status |-> "reserved", generation |-> policy, lineage |-> l]]
                /\ history' = [history EXCEPT ![c] =
                      [admitted |-> TRUE, sent |-> FALSE, run |-> r, at |-> now]]
        /\ UNCHANGED <<now, policy>>

\* requireCurrentReservationContract, against the record and not the policy.
ContractCurrent(c) ==
    LET l == reservations[c].lineage
    IN  /\ records[l].generation = reservations[c].generation
        /\ records[l].reset = "fixed_window" => Start(records[l].seconds, now) = l.window

MarkDispatched(c) ==
    /\ reservations[c].status = "reserved"
    /\ ContractCurrent(c)
    /\ records' = [records EXCEPT ![reservations[c].lineage].consumed = @ + Cost[c]]
    /\ reservations' = [reservations EXCEPT ![c].status = "dispatched"]
    /\ history' = [history EXCEPT ![c].sent = TRUE]
    /\ UNCHANGED <<now, policy>>

\* Release before the dispatch, Settle after it.
Close(c) == /\ c \in Active
            /\ reservations' = [reservations EXCEPT ![c] = NoReservation]
            /\ UNCHANGED <<records, now, policy, history>>

PolicyChange == /\ policy' \in Generations \ {policy}
                /\ Reverts \/ policy' > policy
                /\ UNCHANGED <<records, reservations, now, history>>

Tick == /\ now < MaxTime
        /\ now' = now + 1
        /\ UNCHANGED <<records, reservations, policy, history>>

Init == /\ records = [l \in Lineages |-> NoRecord]
        /\ reservations = [c \in Calls |-> NoReservation]
        /\ now = 0
        /\ policy = Min(Generations)
        /\ history = [c \in Calls |-> NoHistory]

Next == \/ \E c \in Calls : \/ MarkDispatched(c) \/ Close(c)
                            \/ \E r \in Runs : Reserve(c, r)
        \/ PolicyChange \/ Tick

Spec == Init /\ [][Next]_vars

-----------------------------------------------------------------------------
(* Correctness.                                                            *)

\* A live reservation is always backed by the record it charges, whatever
\* window elapsed and whatever was pruned since it was made: a settled or
\* dispatched call never finds its account gone (budget_store.go:240).
ChargesBacked == \A c \in Active : reservations[c].lineage \in Recorded(records)

LargestLimit == Max({Contract[g].limit : g \in Generations})
Account(r, p) == {c \in Calls : /\ history[c].sent /\ history[c].run = r
                                /\ history[c].at \div Period = p}

\* The changes that add no capacity: none is taken back, no reset returns after
\* another one, all windows have one length, of whole periods, and a budget per
\* run is one from the first generation on, or there is one run.
Orderly ==
    /\ ~Reverts
    /\ \A f, g, h \in Generations :
          f < g /\ g < h /\ Contract[f].reset = Contract[h].reset =>
             Contract[g].reset = Contract[f].reset
    /\ \A g, h \in Generations :
          /\ Contract[g].reset = "fixed_window" => Contract[g].seconds % Period = 0
          /\ Contract[g].reset = "fixed_window" /\ Contract[h].reset = "fixed_window" =>
                Contract[g].seconds = Contract[h].seconds
    /\ \/ \A r, s \in Runs : r = s
       \/ \A g, h \in Generations :
             g < h /\ Contract[h].reset = "operator_run" => Contract[g].reset = "operator_run"

\* An orderly change of the governing generation never creates fresh capacity:
\* within one run and one period no sequence of changes lets more be dispatched
\* than the largest limit that was ever declared (RECONC-0008:742 and 754). It
\* need not hold for changes that are not Orderly.
NoFreshBudget ==
    \A r \in Runs, p \in Time : SumFunctionOnSet(Cost, Account(r, p)) <= LargestLimit

\* What a record has consumed is given back with an elapsed window that nobody
\* charges only, and then a newer elapsed window of the same length stays on
\* record: a contract that opens the window again starts from what that one and
\* the other resets have consumed.
ConsumptionKept ==
    [][\A l \in Recorded(records) :
          \/ records'[l].generation # 0 /\ records'[l].consumed >= records[l].consumed
          \/ /\ Elapsed(records, l)
             /\ \E m \in Recorded(records') :
                   /\ Elapsed(records, m) /\ records[m].seconds = records[l].seconds
                   /\ m.window > l.window]_vars

=============================================================================
