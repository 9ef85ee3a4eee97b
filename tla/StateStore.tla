----------------------------- MODULE StateStore -----------------------------
(***************************************************************************)
(* How Store of internal/actionstate publishes a state: a cross-process    *)
(* file lock, a transaction file that names the state before and after, an *)
(* atomic replacement of the state file, and the removal of the            *)
(* transaction file, with the recovery that every later operation runs     *)
(* before it reads anything.  Any step may fail or be the last of its      *)
(* process, and a power failure takes back what was not yet synced.        *)
(*                                                                         *)
(* What an operation does to the state is module ActionState; here it is   *)
(* its name, and a state is the sequence of the operations it contains,    *)
(* which is also its digest (the real digest is keyed over the content and *)
(* the revision) and whose length is its revision.  The empty sequence is  *)
(* the state that was never persisted.  A `process` is one operation in    *)
(* flight of any goroutine of any process: each opens the lock file anew.  *)
(***************************************************************************)
EXTENDS Naturals, Sequences, SequencesExt

CONSTANTS Procs,    \* operations that may be in flight at once
          Ops,      \* what they may want to do
          Nothing,  \* no version known, no transaction, no operation
          MaxFaults \* bound of the model: interruptions and power failures

ASSUME NothingAssumption ==
    /\ Nothing \notin Ops
    /\ Nothing \notin Seq(Ops)
    /\ Nothing \notin [before : Seq(Ops), after : Seq(Ops)]
ASSUME BoundAssumption == MaxFaults \in Nat

VARIABLES
    disk,       \* the two files: [state, transaction]
    survivors,  \* the disks a power failure may leave
    pc,         \* where each operation is
    want,       \* the change it wants, Nothing for a reader
    seen,       \* the state version its caller presents
    acked,      \* auxiliary: the last state a write was acknowledged with
    faults      \* auxiliary: interruptions and power failures so far

vars == <<disk, survivors, pc, want, seen, acked, faults>>

-----------------------------------------------------------------------------
(* The lock and the file system.  Giving a file its name or removing it is *)
(* atomic and visible at once; a power failure takes back a suffix of the  *)
(* changes made since the directory was last synced.  What gets a name was *)
(* synced before (atomicfile, durabilityFull).                             *)

LockedLabels == {"recover", "restate", "restated", "clean", "cleaned", "operate",
                 "journal", "journaled", "publish", "published", "finish", "finished"}
Exclusive == {p \in Procs : pc[p] \in LockedLabels}
Shared == {p \in Procs : pc[p] \in {"check", "load"}}

Change(d) == disk' = d /\ survivors' = survivors \cup {d}
Transacting == disk.transaction # Nothing

\* p goes from one label to another.
From(p, label) == pc[p] = label
To(p, label)   == pc' = [pc EXCEPT ![p] = label]

-----------------------------------------------------------------------------
(* Readers: withReadLock.                                                  *)

BeginRead(p) == /\ From(p, "idle") /\ To(p, "share")
                /\ want' = [want EXCEPT ![p] = Nothing]
                /\ UNCHANGED <<disk, survivors, seen, acked, faults>>

AcquireShared(p) == /\ From(p, "share") /\ To(p, "check")
                    /\ Exclusive = {}
                    /\ UNCHANGED <<disk, survivors, want, seen, acked, faults>>

\* A transaction file sends the reader to the exclusive lock; others may run
\* between the release of the one lock and the acquisition of the other.
NoRecoveryPending(p) == /\ From(p, "check") /\ To(p, "load")
                        /\ UNCHANGED <<disk, survivors, want, seen, acked, faults>>
CheckRecovery(p) == /\ From(p, "check")
                    /\ To(p, IF Transacting THEN "lock" ELSE "load")
                    /\ UNCHANGED <<disk, survivors, want, seen, acked, faults>>

Load(p) == /\ From(p, "load") /\ To(p, "idle")
           /\ seen' = [seen EXCEPT ![p] = disk.state]
           /\ UNCHANGED <<disk, survivors, want, acked, faults>>

-----------------------------------------------------------------------------
(* Writers: withLock, recoverTransaction, the operation, writeState.       *)

\* A caller presents the version it was last given.
BeginWrite(p, op) == /\ From(p, "idle") /\ To(p, "lock")
                     /\ seen[p] # Nothing
                     /\ want' = [want EXCEPT ![p] = op]
                     /\ UNCHANGED <<disk, survivors, seen, acked, faults>>

Acquire(p) == /\ From(p, "lock") /\ To(p, "recover")
              /\ Exclusive = {} /\ Shared = {}
              /\ UNCHANGED <<disk, survivors, want, seen, acked, faults>>

\* The state file must be one of the two ends of the transaction; anything
\* else is the error "diverged".
Diverged == /\ Transacting
            /\ disk.state \notin {disk.transaction.before, disk.transaction.after}
Recover(p) ==
    /\ From(p, "recover")
    /\ To(p, CASE ~Transacting -> "operate"
               [] Diverged     -> "idle"
               [] OTHER -> IF disk.state = disk.transaction.after
                           THEN "clean" ELSE "restate")
    /\ UNCHANGED <<disk, survivors, want, seen, acked, faults>>

Restate(p) == /\ From(p, "restate") /\ To(p, "restated")
              /\ Change([disk EXCEPT !.state = disk.transaction.after])
              /\ UNCHANGED <<want, seen, acked, faults>>

\* The operation: a reader that had to recover reads, a stale version is
\* refused, a change already made is confirmed without a write.
Applied(p) == want[p] \in Range(disk.state)
OperateUnversioned(p) ==
    /\ From(p, "operate")
    /\ IF want[p] # Nothing /\ ~Applied(p)
       THEN To(p, "journal") /\ UNCHANGED seen
       ELSE /\ To(p, "idle")
            /\ seen' = IF want[p] = Nothing THEN [seen EXCEPT ![p] = disk.state] ELSE seen
    /\ UNCHANGED <<disk, survivors, want, acked, faults>>
Operate(p) ==
    /\ From(p, "operate")
    /\ IF want[p] # Nothing /\ seen[p] = disk.state /\ ~Applied(p)
       THEN To(p, "journal") /\ UNCHANGED seen
       ELSE /\ To(p, "idle")
            /\ seen' = IF want[p] = Nothing THEN [seen EXCEPT ![p] = disk.state] ELSE seen
    /\ UNCHANGED <<disk, survivors, want, acked, faults>>

\* writeState: the state that was loaded is the one the caller saw.
Journal(p) == /\ From(p, "journal") /\ To(p, "journaled")
              /\ Change([disk EXCEPT !.transaction =
                    [before |-> seen[p], after |-> Append(seen[p], want[p])]])
              /\ UNCHANGED <<want, seen, acked, faults>>

Publish(p) == /\ From(p, "publish") /\ To(p, "published")
              /\ Change([disk EXCEPT !.state = Append(seen[p], want[p])])
              /\ UNCHANGED <<want, seen, acked, faults>>

\* removeAndSync, after a recovery and at the end of a write.
RemoveTransaction(p) ==
    /\ \/ From(p, "clean") /\ To(p, "cleaned")
       \/ From(p, "finish") /\ To(p, "finished")
    /\ Change([disk EXCEPT !.transaction = Nothing])
    /\ UNCHANGED <<want, seen, acked, faults>>

\* The sync of the directory that ends every publication and removal.
Unsynced == UNCHANGED survivors
Synced   == survivors' = {disk}
Sync(p) == /\ \/ From(p, "restated")  /\ To(p, "clean")
              \/ From(p, "cleaned")   /\ To(p, "operate")
              \/ From(p, "journaled") /\ To(p, "publish")
              \/ From(p, "published") /\ To(p, "finish")
           /\ Synced
           /\ UNCHANGED <<disk, want, seen, acked, faults>>

\* The last sync: the write returns the new version to its caller.
Acknowledge(p) == /\ From(p, "finished") /\ To(p, "idle")
                  /\ Synced
                  /\ seen' = [seen EXCEPT ![p] = disk.state]
                  /\ acked' = disk.state
                  /\ UNCHANGED <<disk, want, faults>>

-----------------------------------------------------------------------------
(* Faults.                                                                 *)

\* An error at any step, a timeout while waiting for the lock, or the death of
\* the process: the lock is released, the files stay as they are.  The caller
\* may try again with the version it had, or with a new one.
Interrupt(p) == /\ pc[p] # "idle" /\ To(p, "idle")
                /\ faults < MaxFaults
                /\ faults' = faults + 1
                /\ UNCHANGED <<disk, survivors, want, seen, acked>>

PowerLoss == /\ faults < MaxFaults
             /\ faults' = faults + 1
             /\ disk' \in survivors
             /\ survivors' = {disk'}
             /\ pc' = [p \in Procs |-> "idle"]
             /\ seen' = [p \in Procs |-> Nothing]
             /\ UNCHANGED <<want, acked>>

Init == /\ disk = [state |-> <<>>, transaction |-> Nothing]
        /\ survivors = {disk}
        /\ pc = [p \in Procs |-> "idle"]
        /\ want = [p \in Procs |-> Nothing]
        /\ seen = [p \in Procs |-> Nothing]
        /\ acked = <<>>
        /\ faults = 0

\* The steps of an operation that is under way.
Advance(p) == \/ AcquireShared(p) \/ CheckRecovery(p) \/ Load(p)
              \/ Acquire(p) \/ Recover(p) \/ Restate(p) \/ Operate(p)
              \/ Journal(p) \/ Publish(p) \/ RemoveTransaction(p) \/ Sync(p) \/ Acknowledge(p)

Next == \/ \E p \in Procs : \/ BeginRead(p) \/ Advance(p) \/ Interrupt(p)
                            \/ \E op \in Ops : BeginWrite(p, op)
        \/ PowerLoss

Spec == Init /\ [][Next]_vars

\* An operation under way is scheduled, and every gateway keeps starting
\* operations (it sweeps expired approvals every 30 seconds).
Fairness == \A p \in Procs : WF_vars(Advance(p)) /\ WF_vars(BeginRead(p))
LiveSpec == Spec /\ Fairness

-----------------------------------------------------------------------------
(* Correctness.                                                            *)

Versions == Seq(Ops)
Transactions == [before : Versions, after : Versions]
Disks == [state : Versions, transaction : Transactions \cup {Nothing}]
Labels == {"idle", "share", "check", "load", "lock"} \cup LockedLabels

\* Every variable keeps its type, and every transaction names two consecutive
\* revisions, which is what decodeTransaction demands.
TypeOK == /\ survivors \subseteq Disks
          /\ disk \in survivors
          /\ \A d \in survivors : d.transaction # Nothing =>
                Len(d.transaction.after) = Len(d.transaction.before) + 1
          /\ pc \in [Procs -> Labels]
          /\ want \in [Procs -> Ops \cup {Nothing}]
          /\ seen \in [Procs -> Versions \cup {Nothing}]
          /\ acked \in Versions
          /\ faults \in 0 .. MaxFaults

\* The log that a disk stands for: a published transaction is as good as done.
LogOf(d) == IF d.transaction = Nothing THEN d.state ELSE d.transaction.after

\* No order of writes, errors, process deaths and power failures leaves the
\* two files in a state that recovery calls diverged, which would lock every
\* process out of the store for good (store.go:491).
NeverDiverges == ~Diverged

\* A write that returned its new version survives every power failure, and so
\* does everything before it (removeAndSync syncs before writeState returns).
AcknowledgedSurvives == \A d \in survivors : IsPrefix(acked, LogOf(d))

\* The store is one atomic log, whoever dies where: a write takes effect only
\* on the version its caller saw and only once, although an error is returned
\* for a write that recovery completes later; readers see a log that was.
Log == INSTANCE VersionedLog WITH log <- LogOf(disk)
ImplementsVersionedLog == Log!Spec

\* A transaction that was left behind is completed by whichever operation
\* comes next, reader or writer.
RecoveryCompletes == Transacting ~> ~Transacting

=============================================================================
