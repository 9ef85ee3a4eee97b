----------------------------- MODULE AppendJournal -----------------------------
(***************************************************************************)
(* The transactional append of src/internal/jsonl (append.go, journal.go)  *)
(* with the commit of the action ledger (actionledger/store.go): one       *)
(* record is appended and its detached head published, or neither, through *)
(* rotation, process death, power loss and failing operations. A step is   *)
(* one change of the disk.                                                 *)
(*                                                                         *)
(* All operations run under one exclusive lock. Removals, renames, links,  *)
(* restores and truncations are followed by a full sync; journal, record   *)
(* and head are only ordered, so a power loss may undo them from the last  *)
(* full sync on, in order. A file is full at RecordsPerFile records. The   *)
(* checkpoint beside the head is rebuilt from the chain and left out; the  *)
(* quarantine of orphan backups is left out because NoOrphans holds. A     *)
(* write that reports an error may have had its effect, since              *)
(* atomicfile/write.go syncs the directory after the rename.               *)
(***************************************************************************)
EXTENDS Naturals, Sequences, SequencesExt

CONSTANTS None, MaxArchives, RecordsPerFile,
          MaxAttempts,  \* appends begun
          MaxFaults     \* deaths, power losses and errors

VARIABLES
    images,    \* disk contents a power loss may leave; the last is what processes see
    op,        \* the operation that holds the lock
    attempts,  \* records built; numbers them
    acked,     \* records whose append has returned without error
    faults

vars == <<images, op, attempts, acked, faults>>

disk == Last(images)

Slots   == 0 .. MaxArchives
Records == [seq : 0 .. MaxAttempts, id : 0 .. MaxAttempts, prev : 0 .. MaxAttempts]
Torn    == [seq |-> 0, id |-> 0, prev |-> 0]
NoHead  == Torn

Some(X) == Seq(X) \cup {None}

Journals == [state : {"preparing", "prepared", "published", "committing", "resolved"},
             rotated : BOOLEAN, liveExisted : BOOLEAN, liveSize : Nat, backups : Seq(Some(Records))]

ASSUME JournalAssumption == /\ MaxArchives \in Nat
                            /\ RecordsPerFile \in Nat \ {0}
                            /\ MaxAttempts \in Nat /\ MaxFaults \in Nat
                            /\ None \notin Seq(Records) \cup Journals

Empty == [i \in Slots |-> None]

Idle == [pc |-> "idle", then |-> "idle", i |-> 0, bad |-> FALSE, record |-> Torn]

Init == /\ images = <<[files |-> Empty, backups |-> Empty, journal |-> None, head |-> NoHead]>>
        /\ op = Idle /\ attempts = 0 /\ acked = {} /\ faults = 0

\* Slot 0 is the live file, slot MaxArchives the oldest archive.
Chain(files) == FlattenSeq([k \in 1 .. MaxArchives + 1 |->
                    IF files[MaxArchives + 1 - k] = None THEN <<>> ELSE files[MaxArchives + 1 - k]])

\* loadVerifiedLocked: the retained records are contiguous and end at the head.
Continuous(chain) ==
    \A k \in 1 .. Len(chain) - 1 :
        chain[k + 1].seq = chain[k].seq + 1 /\ chain[k + 1].prev = chain[k].id

Verified(d) ==
    LET chain == Chain(d.files) IN
    /\ Continuous(chain)
    /\ d.head = IF chain = <<>> THEN NoHead ELSE Last(chain)

--------------------------------------------------------------------------------
\* One change of the disk. It succeeds, or it fails and the operation goes on
\* at `otherwise`, or the process dies; a change that is made may not be synced.

Faulty == faults < MaxFaults /\ faults' = faults + 1

Full(new, next, otherwise) ==
    \/ /\ images' = IF new = disk THEN images ELSE <<new>>
       /\ op' = next /\ UNCHANGED faults
    \/ /\ Faulty
       /\ op' \in {otherwise, Idle}
       /\ images' \in {images} \cup (IF new = disk THEN {} ELSE {Append(images, new)})

Ordered(new, next, otherwise) ==
    \/ /\ images' = Append(images, new)
       /\ op' = next /\ UNCHANGED faults
    \/ /\ Faulty
       /\ op' \in {otherwise, Idle}
       /\ images' \in {images, Append(images, new)}

Journal(state) == [disk EXCEPT !.journal.state = state]

WriteJournal(state, next, otherwise) == Ordered(Journal(state), next, otherwise)

At(pc) == [op EXCEPT !.pc = pc, !.i = 0]

PublishedIsDone ==
    CASE disk.journal = None -> op.then
      [] disk.journal # None /\ disk.journal.state = "preparing"  -> "abort"
      [] disk.journal # None /\ disk.journal.state = "prepared"   -> "rollback"
      [] disk.journal # None /\ disk.journal.state = "committing" -> "recover_commit"
      [] OTHER -> "finish"

ResolvedIsDone ==
    CASE disk.journal = None -> op.then
      [] disk.journal # None /\ disk.journal.state = "preparing"  -> "abort"
      [] disk.journal # None /\ disk.journal.state = "prepared"   -> "rollback"
      [] disk.journal # None /\ disk.journal.state = "published"  -> "mark"
      [] disk.journal # None /\ disk.journal.state = "committing" -> "recover_commit"
      [] OTHER -> op.then

\* recoverAppendLockedWithLayout, by the state of the journal found.
RecoveryStep ==
    CASE disk.journal = None -> op.then
      [] disk.journal # None /\ disk.journal.state = "preparing"  -> "abort"
      [] disk.journal # None /\ disk.journal.state = "prepared"   -> "rollback"
      [] disk.journal # None /\ disk.journal.state = "published"  -> "mark"
      [] disk.journal # None /\ disk.journal.state = "committing" -> "recover_commit"
      [] disk.journal # None /\ disk.journal.state = "resolved"   -> "finish"

Begin(then) ==
    /\ op = Idle
    /\ op' = [Idle EXCEPT !.pc = "recover", !.then = then]
    /\ UNCHANGED <<images, attempts, acked, faults>>

\* AppendTransactionContextWithLayout and ReadSnapshotContextWithLayout.
StartAppend == attempts < MaxAttempts /\ Begin("prepare")
StartRead   == Begin("read")

Recover == /\ op.pc = "recover"
           /\ op' = At(RecoveryStep)
           /\ UNCHANGED <<images, attempts, acked, faults>>

Read == /\ op.pc = "read"
        /\ op' = Idle
        /\ UNCHANGED <<images, attempts, acked, faults>>

--------------------------------------------------------------------------------
\* The transaction

\* Append's prepare: the next record of a chain that verifies.
Prepare ==
    /\ op.pc = "prepare"
    /\ IF ~Verified(disk) THEN op' = At("refused") /\ UNCHANGED attempts
       ELSE /\ attempts' = attempts + 1
            /\ op' = [op EXCEPT !.pc = "begin", !.then = "idle",
                         !.record = [seq |-> disk.head.seq + 1, id |-> attempts + 1,
                                     prev |-> disk.head.id]]
    /\ UNCHANGED <<images, acked, faults>>

Live == disk.files[0]
Rotates == Live # None /\ Len(Live) = RecordsPerFile

\* beginAppendJournalWithLayout.
BeginJournal ==
    /\ op.pc = "begin"
    /\ LET journal == [state |-> IF Rotates THEN "preparing" ELSE "prepared",
                       rotated |-> Rotates, liveExisted |-> Live # None,
                       liveSize |-> IF Live = None THEN 0 ELSE Len(Live), backups |-> <<>>]
       IN Ordered([disk EXCEPT !.journal = journal],
                  At(IF Rotates THEN "backup" ELSE "write"),
                  IF Rotates THEN Idle ELSE At("abort"))
    /\ UNCHANGED <<attempts, acked>>

\* createAppendBackupWithLayout, then the journal that names the backup.
Backup ==
    /\ op.pc = "backup"
    /\ Full([disk EXCEPT !.backups[op.i] = disk.files[op.i]],
            [op EXCEPT !.pc = "backup_journal"], At("abort"))
    /\ UNCHANGED <<attempts, acked>>

BackupJournal ==
    /\ op.pc = "backup_journal"
    /\ Ordered([disk EXCEPT !.journal.backups = Append(@, disk.files[op.i])],
               IF op.i < MaxArchives THEN [op EXCEPT !.pc = "backup", !.i = @ + 1]
               ELSE At("prepared"),
               At("abort"))
    /\ UNCHANGED <<attempts, acked>>

Prepared ==
    /\ op.pc = "prepared"
    /\ WriteJournal("prepared", [At("rotate") EXCEPT !.i = MaxArchives], At("abort"))
    /\ UNCHANGED <<attempts, acked>>

\* rotateWithLayoutHooks: the oldest archive goes, the others move up by one.
Rotate ==
    /\ op.pc = "rotate"
    /\ LET i == op.i
           moved == [disk.files EXCEPT ![i] = None]
       IN Full([disk EXCEPT !.files = IF i = MaxArchives \/ disk.files[i] = None THEN moved
                                      ELSE [moved EXCEPT ![i + 1] = disk.files[i]]],
               IF i > 0 THEN [op EXCEPT !.i = i - 1] ELSE At("write"),
               At("rollback"))
    /\ UNCHANGED <<attempts, acked>>

\* appendRecordWithLayoutHooks: a write that fails is cut off again, one that
\* is interrupted may leave a part of the record.
WriteRecord ==
    /\ op.pc = "write"
    /\ LET with(s) == [disk EXCEPT !.files[0] = (IF Live = None THEN <<>> ELSE Live) \o s]
           torn == Append(images, with(<<Torn>>))
           done == Append(torn, with(<<op.record>>))
       IN \/ /\ images' = done
             /\ op' = At("publish") /\ UNCHANGED faults
          \/ /\ Faulty
             /\ \/ op' = Idle /\ images' \in {images, Append(images, with(<<>>)), torn}
                \/ op' = At("rollback") /\ images' \in {images, <<with(<<>>)>>}
    /\ UNCHANGED <<attempts, acked>>

AbortedPublish ==
    /\ op.pc = "publish"
    /\ WriteJournal("published", At("committing"), At("abort"))
    /\ UNCHANGED <<attempts, acked>>

Publish ==
    /\ op.pc = "publish"
    /\ WriteJournal("published", At("committing"), At("rollback"))
    /\ UNCHANGED <<attempts, acked>>

Committing ==
    /\ op.pc = "committing"
    /\ WriteJournal("committing", At("commit"), Idle)
    /\ UNCHANGED <<attempts, acked>>

\* commitCheckpointLocked: the head of the record just appended.
Commit ==
    /\ op.pc = "commit"
    /\ Ordered([disk EXCEPT !.head = op.record], At("resolve"), Idle)
    /\ UNCHANGED <<attempts, acked>>

Resolve ==
    /\ op.pc = "resolve"
    /\ WriteJournal("resolved",
                    [At("finish") EXCEPT !.then = IF op.record = Torn THEN @ ELSE "ack"], Idle)
    /\ UNCHANGED <<attempts, acked>>

--------------------------------------------------------------------------------
\* The ends of a transaction

Backups == IF disk.journal.rotated THEN MaxArchives + 1 ELSE 0

\* cleanupAppendBackupsWithLayout and abortPreparingAppendWithLayout go on
\* with the other backups after an error.
RemoveWhatGoes ==
    /\ op.pc \in {"finish", "abort"}
    /\ op.i < IF op.pc = "abort" THEN MaxArchives + 1 ELSE Backups
    /\ Full([disk EXCEPT !.backups[op.i] = None], [op EXCEPT !.i = @ + 1], [op EXCEPT !.i = @ + 1])
    /\ UNCHANGED <<attempts, acked>>

RemoveBackup ==
    /\ op.pc \in {"finish", "abort"}
    /\ op.i < IF op.pc = "abort" THEN MaxArchives + 1 ELSE Backups
    /\ Full([disk EXCEPT !.backups[op.i] = None],
            [op EXCEPT !.i = @ + 1], [op EXCEPT !.i = @ + 1, !.bad = TRUE])
    /\ UNCHANGED <<attempts, acked>>

\* The removal of the journal is the durability point of the transaction.
RemoveJournalOrdered ==
    /\ op.pc \in {"finish", "abort"}
    /\ op.i >= IF op.pc = "abort" THEN MaxArchives + 1 ELSE Backups
    /\ IF op.bad THEN op' = Idle /\ UNCHANGED <<images, faults>>
       ELSE Ordered([disk EXCEPT !.journal = None],
                    IF op.then \in {"ack", "idle"} THEN Idle ELSE At(op.then), Idle)
    /\ acked' = IF op.then = "ack" /\ ~op.bad /\ faults' = faults
                THEN acked \cup {op.record} ELSE acked
    /\ UNCHANGED attempts

RemoveJournal ==
    /\ op.pc \in {"finish", "abort"}
    /\ op.i >= IF op.pc = "abort" THEN MaxArchives + 1 ELSE Backups
    /\ IF op.bad THEN op' = Idle /\ UNCHANGED <<images, faults>>
       ELSE Full([disk EXCEPT !.journal = None],
                 IF op.then \in {"ack", "idle"} THEN Idle ELSE At(op.then), Idle)
    /\ acked' = IF op.then = "ack" /\ ~op.bad /\ faults' = faults
                THEN acked \cup {op.record} ELSE acked
    /\ UNCHANGED attempts

\* rollbackAppendJournalWithLayout, one file at a time.
RestoreFile ==
    /\ op.pc = "rollback" /\ disk.journal.rotated /\ op.i <= MaxArchives
    /\ LET i == op.i
           before == disk.journal.backups[i + 1]
       IN IF before # None /\ disk.backups[i] # before
          THEN op' = At("refused") /\ UNCHANGED <<images, faults>>
          ELSE Full([disk EXCEPT !.files[i] = before], [op EXCEPT !.i = i + 1], Idle)
    /\ UNCHANGED <<attempts, acked>>

CutRecord ==
    /\ op.pc = "rollback" /\ ~disk.journal.rotated /\ op.i = 0
    /\ LET j == disk.journal
           size == IF Live = None THEN 0 ELSE Len(Live)
       IN IF j.liveExisted /\ (Live = None \/ size < j.liveSize)
          THEN op' = At("refused") /\ UNCHANGED <<images, faults>>
          ELSE Full([disk EXCEPT !.files[0] = IF j.liveExisted THEN SubSeq(@, 1, j.liveSize)
                                              ELSE None],
                    [op EXCEPT !.i = MaxArchives + 1], Idle)
    /\ UNCHANGED <<attempts, acked>>

RolledBack ==
    /\ op.pc = "rollback" /\ op.i = MaxArchives + 1
    /\ WriteJournal("resolved", At("finish"), Idle)
    /\ UNCHANGED <<attempts, acked>>

\* Recovery of a published record: the commit may start, and is made again.
Mark ==
    /\ op.pc = "mark"
    /\ WriteJournal("committing", At("recover_commit"), Idle)
    /\ UNCHANGED <<attempts, acked>>

\* commitHeadLocked.
Advances(head, chain) ==
    IF head = NoHead THEN Len(chain) = 1 /\ Last(chain).seq = 1
    ELSE Last(chain).seq = head.seq + 1 /\ Last(chain).prev = head.id

RecoverCommit ==
    /\ op.pc = "recover_commit"
    /\ LET chain == Chain(disk.files)
           next == [disk EXCEPT !.head = Last(chain)]
       IN IF chain = <<>> \/ ~Continuous(chain)
             \/ (Last(chain) # disk.head /\ ~Advances(disk.head, chain))
          THEN op' = At("refused") /\ UNCHANGED <<images, faults>>
          ELSE IF Last(chain) = disk.head
               THEN op' = At("resolve") /\ UNCHANGED <<images, faults>>
               ELSE Ordered(next, At("resolve"), Idle)
    /\ UNCHANGED <<attempts, acked>>

\* Recovery gives up; the journal stays for the next operation to find.
Refuse == /\ op.pc = "refused"
          /\ op' = Idle
          /\ UNCHANGED <<images, attempts, acked, faults>>

PowerLoss ==
    /\ Faulty
    /\ \E k \in 1 .. Len(images) : images' = <<images[k]>>
    /\ op' = Idle
    /\ UNCHANGED <<attempts, acked>>

Next == \/ StartAppend \/ StartRead \/ Recover \/ Read \/ Prepare
        \/ BeginJournal \/ Backup \/ BackupJournal \/ Prepared \/ Rotate
        \/ WriteRecord \/ Publish \/ Committing \/ Commit \/ Resolve
        \/ RemoveBackup \/ RemoveJournal \/ RestoreFile \/ CutRecord \/ RolledBack
        \/ Mark \/ RecoverCommit \/ Refuse \/ PowerLoss

Spec == Init /\ [][Next]_vars

\* Operations go on; somebody opens the ledger again.
Working == \/ Recover \/ Read \/ Prepare \/ BeginJournal \/ Backup \/ BackupJournal
           \/ Prepared \/ Rotate \/ WriteRecord \/ Publish \/ Committing \/ Commit
           \/ Resolve \/ RemoveBackup \/ RemoveJournal \/ RestoreFile \/ CutRecord
           \/ RolledBack \/ Mark \/ RecoverCommit \/ Refuse

LiveSpec == Spec /\ WF_vars(Working) /\ WF_vars(StartRead)

--------------------------------------------------------------------------------
\* The files a rollback restores.
Undone(d) ==
    IF d.journal.rotated THEN [i \in Slots |-> d.journal.backups[i + 1]]
    ELSE [d.files EXCEPT ![0] = IF d.journal.liveExisted THEN SubSeq(@, 1, d.journal.liveSize)
                                ELSE None]

\* What is left when a journal write took effect, reported an error, and the
\* answer to the error was itself cut short: a prepared rotation whose backups
\* the abort removed, or a published record that the rollback took back in part.
BackupsGone(d) ==
    /\ d.journal.state = "prepared" /\ d.journal.rotated /\ d.files = Undone(d)
    /\ \E i \in Slots : d.journal.backups[i + 1] \notin {None, d.backups[i]}

PartlyUndone(d) ==
    /\ d.journal.state \in {"published", "committing"}
    /\ IF d.journal.rotated
       THEN \E k \in 1 .. MaxArchives :
               /\ d.journal.backups[k] # None
               /\ \A i \in Slots : d.files[i] = d.journal.backups[IF i < k THEN i + 1 ELSE i]
       ELSE ~d.journal.liveExisted /\ d.files = Empty

Stranded(d) == d.journal # None /\ (BackupsGone(d) \/ PartlyUndone(d))

\* The files recovery makes of what is on the disk.
Recovered(d) ==
    IF d.journal = None \/ (d.journal.state # "prepared" /\ ~Stranded(d)) THEN d.files
    ELSE Undone(d)

\* docs/documentation.md:3059, validateAppendJournal, rollbackAppendJournalWithLayout,
\* commitHeadLocked and loadVerifiedLocked: whatever died, failed or was lost, an
\* operation finds a disk that recovery can explain, unless a journal write took
\* effect and reported an error, and its undoing was cut short.
RecoveryNeverRefused == op.pc = "refused" => Stranded(disk)

\* journal.go:111: a backup is never found without the journal that owns it,
\* now or after a power loss.
NoOrphans ==
    \A k \in 1 .. Len(images) : images[k].journal = None => images[k].backups = Empty

\* ReadSnapshotContextWithLayout: what a reader or the next append sees is a
\* contiguous chain that ends at the detached head.
SnapshotVerifies == op.pc \in {"read", "begin"} => Verified(disk)

\* The append as its callers see it.
Ring == INSTANCE AppendRing WITH log <- Chain(Recovered(disk)),
                                 fallbacks <- {Chain(Recovered(images[k])) : k \in DOMAIN images}

RingSpec == Ring!Spec

\* recoverAppendLockedWithLayout: an interrupted append is resolved, unless
\* recovery refuses what is left of it.
JournalResolved ==
    disk.journal # None ~> (disk.journal = None \/ (op.pc = "refused" /\ Stranded(disk)))
=============================================================================
