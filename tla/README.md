# TLA+ specifications of Reconc

Reconc compiles a repository's policy into a lock, observes what an agent reads,
writes and runs, and decides whether its work may be called complete. Its *action
plane* is an MCP gateway that puts the same policy in front of tool calls: budgets,
signed approvals, reservations and a ledger. These modules follow a tool call through
it, from the state file that all gateways of a repository share
(`src/internal/actionstate`) over the gateway process (`mcpgateway`) to the ledger and
its journal (`actionledger`, `jsonl`). Two more parts stand beside it: the transaction of
the TASK board (`tasklifecycle`), the other place where the program changes several files
as one, and the Stop hook that keeps agents at that board while `reconc run` is on
(`runtime/agentsession`), with the file that holds its switch.

Contents: [inventory](#1-inventory) · [modules](#2-modules-and-their-code) ·
[runs](#3-what-is-checked) · [proofs](#4-what-is-proved) ·
[results](#5-what-was-found) · [not modelled](#6-what-is-not-modelled) ·
[plan](#7-plan).

## 1. Inventory

| Part | State | Operations | Hard behaviour | What makes it correct | Here |
|---|---|---|---|---|---|
| Budgets and reservations (`actionstate/budget_*.go`) | budget records by lineage, reservations by call, terminal records | reserve, mark dispatched, release, mark indeterminate, settle, deny, reconcile, abandon an owner | several processes, retries of ambiguous writes, owners that die, windows that elapse, policy changes | consumed plus reserved never exceeds a limit; every charge is made exactly once; a call is sent at most once and never after it was blocked | ActionState |
| Approvals (`actionstate/approval.go`) | approval record per call and phase | issue, consume a receipt, finalize, sweep the expired | receipts that race with expiry and cancellation, replayed receipts, one sweep for many records | a decision is final; a receipt decides one request; every request is decided in the end | ActionState |
| Retained history and call identities (`retained_history.go`, `call_identity.go`) | issue second sealed in the identity; persisted clock | issue, admit, prune | pruning that meets clock rollback, off-by-one at the window | no identity is admitted twice although its records are forgotten | ActionState |
| State file (`store.go`, `atomicfile`) | state file, transaction file, lock file | read, write, recover | death, error or power failure at every step; lock upgrade by readers | the files are one versioned log; acknowledged writes survive | StateStore |
| Budget contract (`budget_store.go`) | limit, reset, generation of each record | declare another limit or reset | changes with calls in flight, changes that are reverted | no change creates fresh capacity; no live charge loses its record | BudgetLineage |
| Gateway (`mcpgateway`) | pending approvals, cleanup map, `transitionMu`, calls in flight, key lease | call, approval response, expiry worker, sweep, shut down | order of state, ledger and downstream effects; operations that fail or whose answer is lost; retries | a tool is called at most once and only on grounds; the ledger mirrors the state; what is retained is released, Close finishes | GatewayCall |
| Action ledger (`actionledger`) | lifecycle of each call, hash chain, detached head | append, rotate, verify | records of many calls in any order; a history whose beginning was rotated away | no order of records makes an unlawful call acceptable; a lawful call stays readable | LedgerLifecycle, LedgerSuffix |
| JSONL journal (`jsonl`) | files, backups, journal in five states | append with commit, rotate, recover | death, power loss and errors in each journal state | the append is atomic and, once acknowledged, durable | AppendJournal, AppendRing |
| Task lifecycle (`tasklifecycle`) | overview, details, archive, journal with before images | claim, block, resume, split, new, archive, promote, recover, inspect | death between files and in the rollback, edits from outside, readers without the lock | all or nothing; no foreign edit overwritten; answers stay true | TaskTransaction |
| Run switch (`runtime/agentsession/repository_run*.go`) | one file of two slots | on, off, reset, transition of a Stop | short writes, deaths, failed syncs, power loss, a reset in between | what a caller was told is what is read afterwards | RunSlots |
| Stop hook (`runtime/agentsession/stop_*.go`) | the run state, nudges and material events of each session | open, capture, judge, checkpoint, continue, release | Stops of several sessions, the switch, tools and edits interleave; every Stop reads at several times | a Stop never switches the run on; it holds no longer than its guard and lets go for a reason only | RunStop |
| Causal evidence (`runtime/agentsession/state*.go`) | evidence segments and epochs, claims, Stop cache | observe, claim, invalidate | concurrent hooks, stale caches | a Stop uses current evidence only | – |
| Completion (`completiongate`, `commandproof`) | proofs bound to a candidate | capture, evaluate, persist | the repository changes under the evaluation | a decision is bound to the candidate it was made on | – |
| Repository sync (`bootstrap`) | journal, images | apply, roll back, recover | as the task lifecycle | all or nothing | – |
| Compiler, evaluators, hooks, command line | none that is shared | pure functions and rendering | – | determinism | – |

How they interact: a gateway call obtains an identity (`NewCallID`), evaluates the
policy, reserves, may issue an approval and wait for its receipt, marks the call
dispatched, runs the downstream tool and settles; each arrow into the action state
is one operation of `Store`, in its own lock and its own write, and presents the
digest of the state version it was decided on. Each is followed by its ledger record,
one transactional append of the journal. Gateways of one repository interact only
through the state file and the ledger; within a gateway, calls, the expiry worker and
Close share the pending map under `transitionMu`. A Stop hook reads the run switch, the
TASK board that task commands change, and its session's state, each under a lock of its
own or none, and writes the session's state and the switch at its end. `PROJECT.json` lists the hazards of
this code at their lines.

## 2. Modules and their code

```
CallLifecycle <= refined by = ActionState   --- MCActionState, ActionStateProofs
VersionedLog  <= refined by = StateStore    --- StateStoreProofs
                              BudgetLineage --- MCBudgetLineage, BudgetLineageProofs
LedgerLifecycle <--extends--  GatewayCall   --- MCGatewayCall, GatewayProofs
CallLifecycle <= refined by = GatewayCall   --- GatewayProofs
LedgerLifecycle <--extends--  LedgerSuffix
AppendRing    <= refined by = AppendJournal --- AppendJournalProofs
                              TaskTransaction --- TaskTransactionProofs
                              RunSlots        --- RunSlotsProofs
                              RunStop         --- RunStopProofs
```

**ActionState** is what the operations do to the state. `state` is the decoded
file; one action is one public operation of `Store`, from the lock to the write.
`Commit` is `writeState`: the clock check of `trustedNow`, the pruning of
`pruneRetainedHistory`, and `StateContract`, the conjunction of the validations in
`state_validate.go` that can fail. An operation that fails without a write is a step
that is not taken; `RefuseStaleContract` is the one failure that writes (the clock's
high-water mark). A record per lineage, a reservation per call and an approval per
call and phase are functions, which the code's uniqueness checks justify.

- Operations: `Reserve`, `MarkDispatched`, `Release`, `RecordDenied`,
  `MarkIndeterminate`, `Settle`, `ReconcileIndeterminate`, `MarkOwnerAbandoned`,
  `IssueApproval`, `ConsumeUnverified` / `ConsumeRejected` / `ConsumeApproved` (the
  verdicts of `ConsumeApproval`), `FinalizeApproval`, `ReconcileExpiredApprovals`,
  `NewCallID`; environment: `Tick`, `SetClockBack`, `PolicyChange`.
- Abstractions: `call` is every dimension that `dispatchUsage` commits together;
  `refused` is cancelled, malformed and replayed; `settled` is succeeded and failed.
  Signatures are their verdicts. The gateway's order of operations is left free,
  which is more than the real gateway does.
- `history` is auxiliary: it counts what ever happened to a call and nothing reads it
  but the properties.

**CallLifecycle** is what the state promises of one call: new, held, sent, unknown,
closed unsent or closed sent, and which moves exist. `ActionState!Phase` maps a call
to it, also after its records are pruned.

**StateStore** is how a state is published: `withReadLock` (`BeginRead`,
`AcquireShared`, `CheckRecovery`, `Load`) with its hand-over to the exclusive lock,
`withLock` and `recoverTransaction` (`BeginWrite`, `Acquire`, `Recover`, `Restate`),
and `writeState` (`Journal`, `Publish`, `RemoveTransaction`, each followed by the
directory `Sync`; the last one is `Acknowledge`). A process is one operation in
flight. `Interrupt` is an error, a lock timeout or the death of a process at any
step; `PowerLoss` takes back any suffix of the directory changes since the last
sync. A state is the sequence of the operations it contains, which stands for its
digest and revision.

**VersionedLog** is what the file promises: reads observe the whole log, a write
extends exactly the version its caller saw, a power failure loses a suffix that was
never acknowledged. The write may reach the log long after its caller died, through
another process's recovery; it may not reach it twice.

**BudgetLineage** is what ActionState holds fixed: the contract of a budget. The
records of one budget across changes of limit and reset, with the creation, adoption,
carry-forward and blocking of `upsertBudgetRecord`, the pruning of elapsed windows,
and calls in flight throughout.

**LedgerLifecycle** has no state: it is `lifecycle.go` as operators. An event is a
type and a value; `Accepts(s, e)` is everything `applyLifecycleEvent` and the
budget, approval, downstream, inspection and delivery checks demand of the record of
event `e` in state `s`, `Apply` what it changes, `AppendAccepts` what the writer
demands besides. `missing` is `historyMissing`: the beginning of the call is no longer
retained, and the excuses the code makes for that are in the operators.

**GatewayCall** is one gateway process in ledger mode `required`. A step is one
operation on the action state (with its one retry after a version conflict), one
ledger append or one change of the gateway's maps; the program counter of a call names
the next one. Each state operation and each append may succeed, fail, or be lost (it
took effect, the caller is told otherwise). The calls run concurrently with the expiry
worker, a sweep of another gateway on the same state (`ExpireElsewhere`), the client's
approval responses (`Resume`) and Close; `transitionMu` is the variable `mu`, and a
sweep runs on the stack of whoever holds it, one owed operation at a time
(`FinishItem`). The action state is abstracted to the reservation and the two approvals
of each call, and the ledger to the `LedgerLifecycle` state of each call.

**LedgerSuffix** reads one call twice: as its writer, from the acceptance on, and as
whoever verifies the ledger after rotation removed the archive that ended within it.

**AppendJournal** is the transactional append with the ledger's commit: what
`BeginJournal`, `Backup`, `Prepared`, `Rotate`, `WriteRecord`, `Publish`, `Commit`,
`Resolve` and `RemoveJournal` change on the disk, the journal's states `preparing`,
`prepared`, `published`, `committing` and `resolved` between them, and the recovery
each state prescribes (`RecoveryStep`). `images` is the sequence of disk contents a
power loss may leave: a change that is only ordered adds one (`Ordered`), a full sync
leaves the last (`Full`). A death, an error with or without effect, or a power loss may
come at every step. That includes the writes of the journal: a rename that happened and
reports an error is answered by the abort or the rollback of an append whose journal says
that it is prepared, or published. `Stranded` is the disk which that answer leaves when it
is cut short itself, and `Refuse` the recovery that gives it up.

**AppendRing** is what the append promises: a bounded sequence of records that grows at
its end, loses whole files at its beginning, and keeps an acknowledged record. What was
published and not acknowledged may be taken back (`TakeBack`), with what it displaced: by a
power loss, or by the rollback of an append that failed after its publication.

**TaskTransaction** is `applyTransactionWithLease` with everything it calls, the
rollback, `RecoverIfNeeded` and the read of `inspectResolvedOnce`, one action per
change of the disk. A file holds the set of the transactions and edits that went into
it, which stands for its bytes, hash and identity; a move is a link and an unlink, and
`linked` says that both names are one file. The commands are the four patterns the code
builds: replace the overview and a detail, create a detail, move one, edit and move
one. `Change` lets a step succeed, fail with or without its effect, or be the last of
its process. Each change is synced before the next, so that a power loss leaves what a
death leaves. Edits are split into those made while no command held the lock (`quiet`)
and those in the middle of one (`raced`), which the code cannot protect: it validates
an image and then replaces the file.

**RunSlots** is `state.bin`: which slot is read (`Newest`), which one is written next
(`Target`), and the write and the sync of a transition (`Write`, `Sync`), each of which
may fail or be its process's last step (`ShortWrite`, `Abandon`), also in a reset. `slot`
is what every process reads, `ondisk` the set of contents of each slot that a power loss
may leave until the next sync. A record carries the number of its write, which the file
does not hold: after a reset sequences begin anew. `told` is the newest write that a
caller was told of, by its own sync or because its retry found nothing to change
(`ConfirmUnchanged`); `abandoned` says that a whole record was left without a sync.

**RunStop** is `runStopResolvedWithEvaluatorCacheAndClose` from the payload to the answer.
`stop[s]` is where the Stop of session `s` is and what it has read; each read of the run
state, the board or the session's state is an action of its own (`Open`, `Capture`,
`Weigh`, `Load`, `Clean`, `Finalize`, `Enter`, `Guard`), and so is each write (`Mark`,
`Guard`, `Commit`). Between any two of them other sessions, the operator's switch (`On`,
`SwitchOff`), the agent's tools and edits of the board may take steps.

- `Executable` and `Terminal` are the dispositions of the board. What the policy finds is
  free: `Clean`, `Violates`, `Overflow`. `Moved` is every Stop whose inputs did not hold
  still: those of the policy in each of its evaluations, or the board and what Git shows of
  the work tree between the policy and `Finalize`. The record of a decision may fail after
  the run state was written (`EndLogged`). So are the host's flag that it is already
  continuing and whether the same violations were reported before; for a strict host they
  do not matter. `late` in `Due` is a failed command or an interval that is over.
- `again` marks the second way into the continuation, after a clean policy; when the
  continuation finds the run off, the first way goes back to the policy (`NotHandled`).
- The counters that the run state keeps for its log are left out, a write of the run state
  is atomic here (RunSlots is about that), and pauses of a host are interrupts.
- `excused` and `held` are auxiliary: whether the run was off, or nothing executable, at
  any time during the Stop, and how often in a row a session was held for the same board,
  material events and epoch.

Every Init is what the code finds in a repository without a state file, ledger, journal
or run state; for the task lifecycle it is a board with one queued task, with or without an
archive directory. Definitions with a plausible mistake (`CapacityIgnoringReserved`,
`Unsynced`, `MoveWhole`, ...) stand beside the definition they corrupt; no
specification uses them, and substituting one makes the property it is listed with
fail, so that each property is known to depend on the code it is about.

## 3. What is checked

States are distinct states, under symmetry where there is any (calls in `gateway`);
runs with liveness properties use none.

| Run | Instance | Shows | States |
|---|---|---|---|
| `budgets` | 2 calls on a budget without reset and on a window of 2 instants; results 0 or 2 above a ceiling of 1; 2 generations; 3 instants | capacity, each kind of charge exactly once, indeterminate reservations can be reconciled, decisions final, pending approvals decided | 129,670 |
| `retention` | a budgeted and a free call, window 1, skew 1, 6 instants, clock rollback | an identity admitted once, never dispatched after a block, one question per phase, lifecycle refinement | 1,059,860 |
| `store` | 2 operations in flight, 2 changes, 4 faults | no divergence, durability, refinement of the log, recovery completes | 192,908 |
| `lineage` | 3 calls of cost 1 or 2; limits 2, 1, 2 in windows, between `never` and `operator_run` | charges keep their record, no fresh budget under contracts that are `Orderly`, consumption kept | 356,617 |
| `gateway` | 2 calls, 1 fault, room for 1 pending approval | sent once and on grounds, forwarded only if approved and settled, ledger mirrors state, no cleanup refused | 3,039,894 |
| `gateway_live` | 1 call, 2 faults, fair | retained approvals released, lease closed, every call answered | 23,585 |
| `gateway_stuck` | 1 call, no fault | *violated*: section 5 | – |
| `ledger_suffix` | 1 call, a boundary anywhere | *violated*: section 5 | – |
| `journal` | 8 appends, 3 files of 2 records, 3 faults | recovery refuses only what is stranded (5.9), no orphan, verifying snapshots, refinement of the ring, journal resolved | 147,778 |
| `run_slots` | 6 writes or resets, 3 faults, sequences up to 4 | what was told is read, and left by a power loss unless a record was abandoned | 34,576 |
| `run_stop` | 2 sessions, one of a strict host; 1 TASK, 1 nudge, 1 material event, the run on once | no Stop switches on, none is held beyond its nudges, none is just allowed | 3,529,257 |
| `tasks` | 2 commands and `task recover`, 1 edit, any 2 deaths, failures or edits | all or nothing, answers stay true, edits kept, refusals have a cause, reads committed, pending transaction resolved | 2,083,960 |

**Bounds and why they suffice.**
- `budgets`: two calls are enough for oversubscription and for a second charge. Both may
  wait for an approval at once, of either phase, and one sweep then decides both records in
  one write, also where the denials it charges are more than their budget has left. The
  limits on approvals, denials and results are below what two calls may ask: exhaustion,
  denial at a full budget and results above their ceiling all occur, and a window ends
  between a reservation and its dispatch. The limits on calls and on calls in flight leave
  room for both, since either would keep the second call from asking; that these hold too
  is proved (`CapacityKept`), not exercised here.
- `retention`: six instants leave room for admission, for pruning (window plus skew
  plus one) and for every rollback after it. One terminal record is room for one call.
- `store`: four faults are a write that dies, a recovery that dies, a second recovery
  that dies and a power failure. Two operations in flight are a reader that hands its
  lock over and a writer in the gap.
- `lineage`: one contract per kind of change and one period on each side of it;
  more calls only repeat what three of unequal cost do.
- `gateway`: two calls compete for `transitionMu`, for the one retained approval and
  in one sweep; with one fault the operation that fails or is lost may be any. The
  second fault, that of a retry, is in `gateway_live`.
- `journal`: eight appends go around the ring of six records, so that an append
  rotates, removes the oldest file, and dies in each step of it; the second and third
  fault may hit the recovery and the recovery of the recovery.
- `run_slots`: six writes alternate the slots, reset them and go around again; a sequence
  reaches its last value. One process at a time holds the lock, so that one name for it is
  enough.
- `run_stop`: two Stops in flight are what one may do to the other: a checkpoint, a
  disabled run. With one nudge a session is held, released, and held anew, in a row that
  the other session and the operator may break. More nudges, TASKs and epochs multiply the
  states; the three properties are proved for all of them (section 4).
- `tasks`: the second transaction finds what the first, its rollback or its recovery
  left; of two faults one may hit the recovery.

`MaxTime`, `MaxFaults`, `MaxAttempts`, `MaxWrites`, `MaxMaterial`, `MaxEpochs` and the
number of edits and transactions bound the models only. The other numbers are the code's own limits, made small.

**Deadlock.** `ActionState` and `BudgetLineage` stop when the clock has reached
`MaxTime` and every call is closed, a closed gateway stops, `LedgerSuffix` ends
with the call, the file of `RunSlots` stays as it is when its writes are used up or no
slot is valid, and in `RunStop` the rest is the environment's; their configurations turn
the deadlock check off. `StateStore`,
`AppendJournal` and `TaskTransaction` keep it on.

**Fairness.**
- `PendingIsDecided` assumes that time advances and that
  `ReconcileExpiredApprovals` is called: a gateway calls it when it starts
  (`mcpgateway/gateway.go:313`), every 30 seconds while it runs (`runApprovalExpiry`,
  `gateway.go:614`) and, when approvals are pending, before it accepts a call or asks
  for an approval (`call.go:159`, `call.go:290`, `approval.go:183`). Nothing is
  assumed of authorities, owners or operators.
- `RecoveryCompletes` assumes that an operation under way is scheduled and that
  gateways go on starting operations; writers need not come, since a reader recovers too.
- `gateway_live` assumes that a goroutine that can proceed does (weakly), that
  `transitionMu` is handed to each waiter in the end (strongly: Go's mutex has a
  starvation mode), that approvals expire, that the worker's ticker fires and that the
  process which shuts down calls Close again while it returns an error
  (`gateway.go:1053`). Faults are bounded, so that a retried operation succeeds.
- `JournalResolved` assumes that an operation on the ledger under way proceeds and
  that somebody opens the ledger again. A stranded journal (5.9) is refused each time
  instead.
- `PendingIsResolved` assumes that a command that holds the lock proceeds and that
  somebody runs `task recover`, as the refused commands tell their user to.

## 4. What is proved

All of this holds for any finite set of calls, any budgets, limits, windows and
bounds, under the named `ASSUME`s of the modules, which TLC also evaluates.

**ActionStateProofs.** `TypeCorrect` rests on one lemma per operator and operation.
The history theorems rest on the inductive `CallHistoryInv` (checked by `retention` as
an invariant too). Why it is needed: that a call is admitted once cannot be seen from
the stored state after its records were pruned. The invariant says that every
admission is remembered either by a record or by the *persisted clock*: a call
without records was never admitted, or its identity is expired at `state.observed`.
`trustedNow` keeps that clock from going back and `requireAdmissibleCallID` refuses
what is expired by it, which closes the induction; it needs no assumption that the
wall clock is monotonic. The proof shows that every operation is one publication that
moves its calls along one edge of the lifecycle (`NextIsStoreOrEnvironment`), that
each such move keeps the invariant, and derives `AdmittedOnce`, `BlockedNotDispatched`
and the refinement `StoreImplementsLifecycle` from the same moves. `RoomForTerminals`
is inductive by itself; it shows that the check in `reserveLocked` leaves room for
every later closing, and pruning only helps. No run states it: on an instance of TLC's
size another limit is always reached first. `DecisionsFinal` is an action property,
with one lemma per operation. `AskedOnce` extends the argument of admission to requests:
what was asked is remembered by an approval record or by the persisted clock.
`IndeterminateReconcilable` rests on `TerminalRoomKept` and on the contract that every
published state meets (`ValidTransition`): reconciling one call changes nobody else's, so
that the check of the next state passes. Its one exception, the call of an owner that was
abandoned while it asked, is a call the code cannot close (section 5, 3).

The numbers of the budgets take two more invariants. Sums over sets of calls are handled
with least counterexamples (`LeastNumber`), since induction theorems with an operator
parameter are out of reach.
- `CapacityKept` is inductive in the form `Within`: for each lineage and dimension, what is
  consumed and what its live reservations hold stay within the limit together. Each operator
  that changes charges has a lemma for what it moves from one side to the other; a record is
  pruned only where nobody charges it.
- `ChargedExactlyOnce` needs `Books` (TLC checked it first on both instances, 79,886 and
  1,059,860 states). One part is per call (`Accounted`): a live call charges the lineages it
  was admitted to and has returned nothing; of each it holds one call until it is sent, its
  whole result ceiling, and never a denial. The other is per lineage: its record balances in
  the four dimensions (`Booked`), or is gone for good because the trusted clock has left its
  window (`Elapsed`, by `WindowMonotone`). Without it a record deleted and opened again would
  start at zero while calls of its period are still counted. Each operation is shown to move
  every dimension by nothing or by one entry for each call it is about (`Balanced`) and to
  keep the rest (`Frame`); `Reserve`, which opens the books of a call, has its own lemma.
  `CeilingAssumption`, that a budget of result bytes selects only tools that declare a
  ceiling, is what the plan's validation (`action/plan.go:411`) and the selection
  (`action/budget_eval.go:294`) refuse otherwise.

**StateStoreProofs.** The inductive invariant `StoreInv` has four parts: types, the
exclusion of the lock (`LockInv`), what each label may rely on (`LabelInv`: for
example that at `publish` the transaction is exactly this write's), and what is true
of *every* disk a power failure may leave (`SurvivorInv`: it is recoverable, contains
the acknowledged log and is a prefix of the visible one). The last part is why the
order journal, sync, state, sync, remove, sync matters. From it follow
`StoreNeverDiverges`, `AcknowledgedIsDurable` and, with the log of a disk defined as
the end of its pending transaction, the refinement `StoreImplementsLog`: the linearization
point of a write is its `Journal` step, and every later completion is invisible.

**BudgetLineageProofs.** Four theorems for any number of calls, runs, costs and contracts;
the sums over calls are `SumFunctionOnSet`, whose laws (`SumSplits` and its like) are
lemmas here.
- `ChargesAreBacked`: every live reservation charges a record that exists. The two cases
  that matter are pruning, which spares a lineage that a reservation names, and a change of
  contract, which gives a record a new generation and never another lineage. The assumption
  that the generations have a first one is what `upsertBudgetRecord` gets from the policy's
  own sequence.
- `ConsumedIsKept` (`ConsumptionKept`) is an action property over the invariant of the first
  (`Inv`): among the elapsed records of one length that pruning looks at, the newest is
  never its victim (`NewestStays`), for any number of windows, and a record that is adopted or
  created inherits no less than it had.
- `DispatchesFit`: a dispatch leaves its record within the limit, as long as no earlier
  generation governs again (`~Reverts`); no other condition on the contracts is needed. The
  invariant `ContractInv` says that each record has the contract of its generation
  (`Declares`), that each reservation charges the lineage its generation gave it at its
  admission (`Issued`), and that what is reserved under the generation of a record has room
  (`Room`). A reservation of an older generation may have none, and is refused at its
  dispatch. No run states this property.
- `OrderlyChangesAddNothing` (`NoFreshBudget`): no period of a run dispatches more than the
  largest limit. `FreshInv`, beside `ContractInv`, says that live reservations belong to the
  reset of the newest generation on record (`InForce`), and that an account which can still
  grow (`Open`: its period is the present one, or a call admitted in it is still reserved) is
  in what *one* record has consumed (`Covered`), the one that the newest generation charges
  for it. A change of reset moves that cover to another record, which is why it has to inherit
  what all the others of its budget consumed (`ChangeInherits`), and pruning may never remove
  it. The hypothesis is `Orderly`, which is a condition on the policy's history and not
  something the code enforces: no return of a generation or of a reset after another one, one
  window length of whole periods, and one run or a budget per run from the start on. Each part
  is needed: without it TLC finds `NoFreshBudget` violated, with the contracts of section 5.

TLC checked both invariants first: on the instance of `lineage` (356,617 states; its model
evaluates `Orderly` as an `ASSUME`) and on four others (`never`, two windows, `operator_run`;
two runs with `operator_run` from the start; windows that grow in limit; up to 3.4 million
states), and `DispatchWithinLimit` on six instances that do not revert, orderly or not.

**AppendJournalProofs.** `NeverRefused`, `NeverOrphans`, `SnapshotsVerify` and the refinement
`JournalImplementsRing`, from one invariant, `JournalInv` (`JournalInvariant`), for any number
of archives, file size, appends and faults. None of the three safety properties is inductive:
what recovery finds after a power loss is a disk of some steps ago. The invariant therefore
says two things.
- `Image`, of *every* disk a power loss may leave, the visible one included: what recovery
  makes of it (`Recovered`) is a log that ends at its head (`Sealed`), or, from the publication
  on, one whose head may be a record behind and is brought up (`Open`). A journal that calls
  itself `prepared` has every backup it will be rolled back from, or the size to cut the live
  file to, or nothing to roll back. A stranded disk, of which recovery makes nothing, counts as
  the one its journal says it was before.
- `Fits`, of the visible disk and the operation: at each label, the state of the journal and
  how much of its loop over the slots is done (`Backed`, `Moving`, `Withdrawn` for a rollback
  of a published record, and their like in the other rollbacks and in recovery).

`Recovered` also gives the abstract `log`, and so the refinement: most steps leave what
recovery makes of the disk as it is (`Quietly`), which is a stutter of the ring or a flush. The
others are the publication, the acknowledgement, the power loss, and the rollback of a
publication that reported an error, whose first change of the disk takes the record back
(`Backward`). The ring allows that as long as a power loss could still have done the same,
which `Revocable` says: no full sync has come between. On the ring
itself, `RingKeepsAcknowledged` says with `RingInv` (the records retained are contiguous and
end at the last one appended) that an acknowledged record is missing only if its file was
rotated away; `AcknowledgedRecordsKept` is both together, about the journal. The chain of the
files is `FlattenSeq`, a recursive fold; what the rotation and the cutting of a record do to it
is proved by induction over the slots in the form of the least number principle (`Least`,
`Induct`), since an induction theorem with an operator parameter is out of reach. Assumed is
only `JournalAssumption`: the bounds are naturals, a file holds at least a record, and `None`
is neither a file's content nor a journal. TLC checked `JournalInv` and `Revocable` first, on
six instances of `<<MaxArchives, RecordsPerFile, MaxAttempts, MaxFaults>>`: 2 2 8 3 (the run's,
147,778 states), 2 2 5 2, 0 1 4 3, 1 1 5 3, 0 2 5 3 and 3 1 6 2.

**GatewayProofs.** `GatewayAlwaysConsistent`: the inductive `GatewayInv`, from which the
four safety properties of the gateway follow. None of them is inductive, since the three
stores change at different steps of a call and each step may fail, or take effect and have
its answer lost. The invariant says, for each position in the code, what the stores may then
hold, call by call in seven parts: the downstream sends (`Counted`), the grounds of what was
sent (`Backed`), the question that is open (`Asked`), what the ledger has of the state
(`Mirrored`), what a closed call keeps (`Closed`), what is retained (`Retained`), and what a
transition still has to record (`Recording`). `Wired` ties the sweep and the calls to
`transitionMu`: whoever is between a change of the state and its record holds it. From it
follow `SentOnce`, `ForwardedOnlyWhenDone`, `LedgerMirrors` and `CleanupAccepted`, for any
number of calls, retained approvals and faults. Assumed is only that the names are apart:
`None` is none of the recorded words, and no call is named like another holder of the
mutex. TLC checked `GatewayInv` first (one call and two faults, 23,585 states; two calls
and one fault, 3,038,038 states).

Of the ledger itself, `AcceptedStaysLawful` says what its rules come to, whoever writes: an
event that is accepted after a call which was read from its acceptance never makes it sent
without its grounds, answered without a dispatch, inspected without an answer, or both sent
and released or denied. With `NextLed` (every step of the gateway changes the ledger of a
call by an accepted event, or not at all) and with `Closed`, by which nothing of a call is
missing, it gives `LedgerLawful`. For a call whose beginning was rotated away the laws are
false, and `ledger_suffix` shows what happens instead.

`GatewayImplementsLifecycle` ties the gateway to the store: the reservations as
`GatewayCall` moves them implement `CallLifecycle`, which `ActionState` implements in full
(`StoreImplementsLifecycle`). What the gateway's model abstracts of the action state is
therefore one of the behaviours that the state promises. `ChargedInv` says what each
operation relies on: a call has no reservation before it makes one, and holds one until its
first question and while a question before its dispatch is open, so that refusing the
question denies a reservation that is held. A sweep that expires several questions is one
`Refuse` of several calls. TLC checked refinement and invariant first (two calls and one
fault without symmetry, 6,071,928 states); no run states them.

**TaskTransactionProofs.** `AllOrNothingAlways`, `OutcomesHoldAlways` and `EditsKeptAlways`,
for any commands, bodies and edits and any number of faults. None of the three is inductive:
they speak of the board without a journal, and what it then holds was settled while one was
there. `TaskInv` compares the disk with the two images of the journal, file by file: a file
is `Like` an image if it carries the same transactions and has lost no quiet edit. From it
each place of a command says how far it has come (`Progress`: all old, the first files new,
two names for one file, all new), and a dead command leaves its disk somewhere `Between`,
which is all a recovery may rely on. `ImagesSound` says that the images themselves are whole
boards, the second being the first with the transaction in the files its command changes;
`Control` and `Owned` say whose the journal, the link, the marker and the outcome are; `Kept`
where the quiet edits are, so that a rollback never writes over one: it has looked
(`FileRecognised`) and found the image it published. The invariant is stated of a file
system, a command and histories given as values, so that one lemma says of each change of the
disk what it does to every part. Assumed is only that the names of transactions, edits and
phases are apart. TLC checked `TaskInv` first, on the 2,083,960 states of `tasks`.

Two more follow with an invariant of their own beside `TaskInv`, checked on the same states
before. `ReadsAreCommittedAlways` is about the reader, who takes no lock. `ReadInv` says that
what its first look at the overview showed is on the board as long as nothing is taken back
(no publication removes a transaction, since each overview is built from the one it
replaces), and that what it returned belongs to no journal. The second look at the journal
is what the latter rests on: a transaction that was on the board while there was no journal
is one that `TaskInv` calls sound, and its journal never comes back, because a journal
belongs to the command that prepared it and that command's transaction was on no file then
(`Built`). `WholeInv` is about the details. A command writes the overview first, so a detail
is ahead of it in no state (`Ahead`, `AheadKept`). What a read has of a detail is compared
with the board of before the journal, if there is one (`Board`, `BoardOnDisk`): a transaction
which that board has, and a detail that it changed has too, is missing in neither, since the
second look found the detail as it was read (`SecondLook`). Only the transaction of the
journal at that moment can be torn, and there is one journal at most. `Stuck` says of a name
in the archive that an edit from outside took that it is archived no more.
`RefusedForCauseAlways` is about `Recognised`, which has no tolerance: a file must
*be* one of its images. Without edits `Like` becomes equality (`LikeExact`), and what is left
is what the stages of `TaskInv` do not tell apart: `Exact` says that a file which is being
created is gone, not filled or complete, and that of a moved file one name is gone or both
are links of the new content. `Relies` gives the label of a step what that needs: a link is
still a link when it is verified, and nothing is archived while a file is written or
restored.

**RunSlotsProofs.** `SwitchSurvives`: the two slots keep what a caller was told. The
inductive invariant says which record the readers see, that it is the newest one written
since the reset, and, as long as no record is abandoned, that it is durable and beats
every leftover which a power loss may put into the other slot, since a leftover was written
before it and carries a smaller sequence. That is why a transition writes the slot it did
not read. A reset is the hard case: it begins at sequence one while older leftovers may
return, and holds only because a reset gives up what was told before.

**RunStopProofs.** `HoldsAreBounded`: the row of holds of a session is what its state
counts, or belongs to an epoch that is over; a session that has passed its guard and not
yet written its continuation is counted already. `StopsNeverEnable`: each write of a Stop
keeps the epoch that is on, or switches off. `NeverJustAllowed`: while a Stop is not
excused the switch it read, the TASK it captured and the epoch it observed are still those
that hold, a policy check is due or background work keeps the session whenever it is at
the policy, and a clean report of the cache is used only with background work.

**Only model-checked.** The liveness properties, since fairness and ENABLED are outside
the proof system. Every safety invariant, action property and refinement of a passing run
is a theorem.

## 5. What was found

Two disagreements between the code and what is said of it have a run, whose
counterexample is the schedule:

1. *What rotation leaves of a complete call may not verify* (`ledger_suffix`). A call is
   blocked: accepted, `pre_decision` (block), reserved, denied. The archive that ended
   between `pre_decision` and `reserved` is removed once its calls are complete; of the
   rest, only the first budget transition, the reservation, is excused for what it no
   longer sees (`lifecycle.go:352`), and the denial is refused for want of a decision that
   ended the call (`lifecycle.go:424`). From then on every append, read and recovery of
   that ledger fails. An allowed call that is cut at the same place goes the same way, at
   its dispatch commitment (`lifecycle.go:385`).
2. *The cleanup of an oversized result never finishes* (`gateway_stuck`). Its post-call
   approval expires, the settlement leaves the reservation indeterminate, and the
   withheld delivery it then owes comes after a terminal budget transition, which the
   lifecycle refuses at each retry (`gateway.go:803`). The approval is retained for
   good and no Close gives up the key lease.

Eight more are steps of the models, which the properties name as their exceptions or leave
unsaid; each is a short schedule:

3. *An abandoned approval cannot be reconciled* (`ActionState`, the exception
   `AbandonedAsking`). `MarkOwnerAbandoned` turns the pending pre-call approval of a
   reserved call `unavailable` and its reservation indeterminate. `ReconcileIndeterminate`
   would then close the call with an outcome other than `blocked`, which
   `validateApprovalRecordTransition` (`state_validate.go:429`) refuses for a failed
   pre-call approval, so the write fails until the approval record ages out.
   docs/documentation.md:3771 describes the operation without that exception. At this
   commit both operations are called by the package's tests only.
4. *A reverted reset gives fresh capacity* (`BudgetLineage`, `Reverts`). A budget changes
   from `never` to `operator_run` and back: the first record is found again with what it
   consumed itself (`budget_store.go:410`), and what was consumed meanwhile under the
   other reset is not carried back. RECONC-0008:745 and 755 say that no change of
   policy does that. The same happens in three other sequences: with two runs, only the
   first new lineage of a generation inherits, and the second run starts at zero, even for
   what it consumed itself before; a window that grows from 2 to 4 instants finds the older
   record of the same start, which is adopted as it is (`budget_store.go:410`); and when
   `never` comes back after another reset. `OrderlyChangesAddNothing` proves the promise for
   all other sequences (`Orderly`), of which `lineage` checks one. That windows are of whole
   periods is a condition of the property: a period is what the author of the budget counts in.
5. *A retry confirms what no sync made durable* (`RunSlots`, `abandoned`). The sync of a
   slot fails, or its process dies before it: the command fails and the file shows the new
   state. The retry finds nothing to change (`repository_run.go:353`) and succeeds without
   a write or a sync; a power loss restores the state of before.
   docs/documentation.md:5779-5781: "Write, sync, unlock, and close failures remain joined so
   an acknowledged transition never masks a durability failure".
6. *A Stop disables a run that was switched on after it looked* (`RunStop`). It captures a
   complete board (`stop_handler.go:107`) and its gates pass; the operator switches the run
   off, edits the board and switches it on for a new TASK; `Enter` reads the new epoch
   (`stop_handler.go:463`) as the observed one, and `Commit` disables that epoch for the old
   board. The check in `repositoryRunTerminalTransition` (`stop_handler.go:564`), which
   `repository_run_hotpath_test.go:702` tests as "stale terminal observation overwrote a newer run
   epoch", covers the last step only. In the same way `Mark` may write its checkpoint into a
   newer epoch.
7. *A run is disabled without terminal gates* (`RunStop`). The policy evaluation is repeated
   because its inputs moved and captures a board that has a TASK again
   (`stop_cache_core.go:424`); `Finalize` compares with that one, so that the gate of a
   complete board does not apply, and the continuation still uses the capture of before
   (`stop_handler.go:251`). docs/documentation.md:5747: "complete or absent TASK state disables it
   automatically after terminal gates".
8. *A checkpoint of one session starves another* (`RunStop`, `Due`). The checkpoint is one
   number per repository, material events are counted per session from zero. After a
   session with many events, the next one is not due before it has more than those, whatever
   it does (`stop_handler.go:397`); docs/documentation.md:5824: "Checkpoints occur after 64
   material events, after 30 minutes with new material progress, or after a failed command".
9. *A journal write that took effect and reported an error may leave a journal for good*
   (`AppendJournal`, the exception `Stranded`). The error comes from the sync or the check of
   the directory after the rename (`atomicfile/write.go:361`). Two cases. `prepared` is in
   force and the abort (`journal.go:627`) removes the backups it names; the process dies before
   the journal is removed, and recovery misses them (`BackupsGone`). `published` is in force
   and the rollback restores the files one by one; it is cut short, and recovery, which would
   complete the append, finds no contiguous chain (`PartlyUndone`). Every later
   operation on the ledger is refused. docs/documentation.md:3055-3057: "Recovery rolls a
   prepared append, or a version-2 publication whose commit callback provably never began,
   back to the complete pre-rotation snapshot". In every other case the properties hold.
10. *A board read without any fault may be torn* (`TaskTransaction`, the exception
   `TornRead`). A command has written the overview when the reader takes it, and the detail
   after the reader has taken that and looked at both again (`parse.go:296`); it commits and
   removes its journal before the reader looks for one the last time (`parse.go:306`). The
   read returns the overview with the transaction and the detail without it.
   docs/documentation.md:1947-1953: the reader binds "the overview, every detail they
   read, every component identity, and the absent transaction journal to one
   before/after snapshot. Changed bytes, [...] or an appearing transaction fails with
   `task/read/concurrent-mutation`". `ReadsAreCommitted` bounds what remains: at most one
   transaction is torn in a read, no detail is ahead of the overview, and what the overview
   shows is committed. Nothing is promised of a read during which a transaction was taken
   back.

Observations that contradict no document, and that the models contain or exclude as
said:

- *How far durability goes* (`StateStore`). Acknowledged writes survive. A version
  returned by a read, or by an idempotent retry, may still be lost: one process dies
  between a rename and the sync of the directory, another dies in the recovery between
  the removal and its sync, a third reads, and power fails. This is why
  `VersionedLog!PowerLoss` truncates to any prefix that contains the acknowledged log.
- *A foreign sweep* (`GatewayCall!ExpireElsewhere`). When another gateway's sweep has
  decided an expired approval, this gateway's sweep does not get it back, and the
  approval stays in its pending map until the client answers or Close cancels
  (`gateway.go:661`). `RetainedIsReleased` and `LeaseIsClosed` therefore except it, as
  they except a lost append (below) and an oversized result (2).
- *A lost append* is retried with a new timestamp and refused as a different event
  with the same identity (`actionledger/store.go:340`); the call fails closed, and the
  ledger is behind the state for good. `LedgerMirrorsState` speaks of the records that
  exist. For the same reason a release may be recorded although it failed, a denial of
  the state may be missing from the ledger, and `failUnknownDownstream` may append its
  failure after a completion was stored.
- *A dispatch above the limit in force* (`BudgetLineage`, `Reverts`). A call is reserved
  under a limit of 2; under a later generation with a limit of 4 more is reserved and
  dispatched; then the first generation governs again. What blocks a change of limit looks at
  one reservation at a time (`budget_store.go:440`), and the dispatch asks for the generation
  of its reservation only (`budget_transition.go:402`), which is in force again. The dispatch
  takes the record above 2. `DispatchesFit` therefore has `~Reverts` as its hypothesis.
- *Close* waits for the calls in flight for a bounded time only; the models wait.
- *Recovery of the TASK board refused for good* (`tasklifecycle`). After a death between
  the exclusive creation of a detail file and its content (`create.go:22` speaks of
  "the same recoverable transaction"), between mkdir and the marker of the archive
  directory, or between the removal of the marker and of the directory, the recovery
  finds something it can neither attribute nor remove. `RefusedForCause` names these.
- *The run state after a first write that was torn*: no slot is valid, and every hook and
  command fails until `reconc run reset`. Two faults may also lose a state that was told:
  a record is abandoned, and the power fails; `ToldSurvives` excepts it.
- *A sync that failed* is taken to be repeated by the next one, with everything since; an
  operating system that drops what it could not write is outside `RunSlots`.
- *A release whose write fails* has used up the nudges of the session in its guard, and the
  session is held for as many Stops again; `HeldAtMost` begins a new row there.
- *A clean report from the cache*, for a host that is already continuing, allows a Stop on a
  terminal board and leaves the run enabled.
- *Edits between the load of the board and the capture of its images* are overwritten,
  and after a rollback that could not remove its journal a later edit makes the
  recovery refuse.

## 6. What is not modelled

- *In the modelled parts of the action state*: the migration of format-1 history, the
  256 generations a record remembers, size limits of the encoded state, 64-bit
  saturation (counters are bounded by limits far below it), `operator_session` (it
  differs from `operator_run` in name), checks that a file on disk was not replaced by
  another, key rotation.
- *Gateway*: catalog refresh, framing and progress messages, the drain timeout of Close,
  ledger mode other than `required`. A request that cannot be sent after it was stored is one
  step in `Park`; in the code it is in the pending map between `storePending` and
  `removePending`, where a sweep or Close may take it first (`call.go:360-386`,
  `approval.go:256-274`). The second normalization of a result that its inspection has
  parsed is taken to succeed (`withholdUnnormalizedPostFailure`, `result.go:504-513`).
- *Ledger and journal*: the repair of a torn tail in non-transactional appends, the
  quarantine of orphans by hand, the checkpoint (a cache of verification), the hash
  chain itself (a record is its position).
- *Tasks*: the grammar of the board, file modes, path guards, the lease of the lock
  file, the verifying read of Create.
- *Agent session*: evidence segments and their epochs, claims, what the Stop cache keys its
  reports by, the host adapters, the identity of the repository root in the run state, and
  the file locks of a session's state (each of its updates is one step).
- *Power failure*: directory changes persist in order, as on a journalling file system,
  and a sync makes all of them durable. The sync of a file also keeps the name under which it
  was created: `RunSlots!Sync` relies on that for a new `state.bin`, whose directory is never
  synced (`repository_run.go:299`), and on a file system that does not do it the first
  transition may be lost. Windows, where the directory is not synced, is
  outside these models.
- *The rest of the system*: `PROJECT.json` lists every component with the reason. By
  far the most of the repository's lines are parsers, compilers, rule evaluators,
  templates, quality harness, command line and renderers: functions of their input
  without state of their own. Their correctness is a matter of what text means; a
  model of them would restate them. They would be candidates for operators with a
  reference definition, one algorithm at a time. This is why the models map only a
  small share of the lines.

## 7. Plan

1. **CompletionGate**: a decision is bound to the candidate it was made on, with retries
   while the repository changes, over the stored proofs of `commandproof`; what a `done` may
   clear of a block that a concurrent `check` has just stored (`gate.go:287`, `proof.go:84`).
2. **Causal evidence** of `runtime/agentsession`: epochs and segments under concurrent
   hooks, and the keys of the Stop cache, which `CleanCached` takes for granted.
3. **Repository sync** of `bootstrap` as a second transaction of the kind of
   TaskTransaction; then what both promise as one abstract module.
4. **Decision precedence** of the action evaluator as operators checked against a
   reference definition over bounded inputs.
