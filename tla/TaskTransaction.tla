---------------------------- MODULE TaskTransaction ----------------------------
(***************************************************************************)
(* The transaction of the TASK lifecycle (src/internal/tasklifecycle): a   *)
(* command replaces the overview, replaces, creates or archives a detail   *)
(* file and creates the archive's directory, or nothing of it. The journal *)
(* holds the images from before. A command dies or fails at any step,      *)
(* `task recover` finishes or undoes it, an editor changes the same files  *)
(* at any time, and a reader looks at them without the lock.               *)
(*                                                                         *)
(* All commands run under one lock: `op` is the one that holds it. What a  *)
(* file holds is the set of the transactions and edits that went into it,  *)
(* which stands for its bytes, hash and identity; modes, path guards and   *)
(* the lease of the lock are left out. Each change is synced before the    *)
(* next, so that a power loss leaves what the death of a process leaves.   *)
(***************************************************************************)
EXTENDS Naturals, Sequences

CONSTANTS Txns,      \* transactions that may be begun
          Edits,     \* edits from outside
          MaxFaults, \* deaths, failing changes and edits together
          None, Absent, Torn

VARIABLES
    fs,      \* the files, the archive's directory and the journal
    op,      \* the command that holds the lock
    reader,  \* one read of the board
    kind,    \* the command of each transaction begun
    told,    \* what its command was told: done, rolled back or neither
    quiet,   \* edits made while no command held the lock
    raced,   \* edits made while one did
    faults

vars == <<fs, op, reader, kind, told, quiet, raced, faults>>

Paths   == {"overview", "detail", "new", "done"}
Bodies  == SUBSET (Txns \cup Edits)
NoFiles == [f \in Paths |-> Absent]

\* claim, block, resume and split replace the overview and a detail; new
\* creates a detail; archive and promote move it, after an edit (logbook) or
\* as it is (archive).
Kinds     == {"claim", "new", "archive", "logbook"}
Writes(k) == CASE k = "new"     -> <<"overview", "new">>
               [] k = "archive" -> <<"overview">>
               [] OTHER         -> <<"overview", "detail">>
Moves(k)  == k \in {"archive", "logbook"}
\* The files with an image in the journal, in its order.
Files(k)  == IF k = "archive" THEN <<"overview", "detail">> ELSE Writes(k)

\* What a journal holds: the images of the files before and after.
Disks    == [Paths -> Bodies \cup {Absent, Torn}]
Journals == [txn : Txns, phase : {"prepared", "committed"},
             before : Disks, after : Disks, owns : BOOLEAN]

\* The names stand for different things.
ASSUME NamesAssumption ==
    /\ Txns \cap Edits = {}
    /\ {None, Absent, Torn} \cap Txns = {}
    /\ Absent # Torn /\ Absent # None
    /\ \A body \in Bodies : body \notin {Absent, Torn}
    /\ None \notin Kinds \cup Journals
                   \cup {"done", "rolled back", "publish", "commit", "recover"}

Holds(f) == fs.disk[f] \notin {Absent, Torn}

Command(at, txn, after, cause) ==
    [at |-> at, txn |-> txn, after |-> after, i |-> 1, cause |-> cause]

Idle       == Command("idle", None, NoFiles, None)
NotReading == [at |-> "idle", seen |-> NoFiles, undone |-> FALSE]

\* A board with one queued detail. linked: detail and archived file are one.
\* dir: the archive's directory, with the marker of a transaction or None.
Init == /\ \E d \in {Absent, None} :
              fs = [disk    |-> [f \in Paths |-> IF f \in {"overview", "detail"} THEN {} ELSE Absent],
                    linked  |-> FALSE,
                    dir     |-> d,
                    journal |-> None]
        /\ op = Idle /\ reader = NotReading
        /\ kind = [t \in Txns |-> None] /\ told = [t \in Txns |-> None]
        /\ quiet = {} /\ raced = {} /\ faults = 0

--------------------------------------------------------------------------------
\* One change of the disk. It succeeds; or it fails, with its effect or without,
\* and the command goes on at `otherwise`; or the process dies around it.

At(label)    == [op EXCEPT !.at = label, !.i = 1]
RollBack(by) == [At("roll_back") EXCEPT !.cause = by]

Faulty == faults < MaxFaults /\ faults' = faults + 1

Change(new, next, otherwise) ==
    /\ \/ fs' = new /\ op' = next /\ UNCHANGED faults
       \/ Faulty /\ fs' \in {fs, new} /\ op' \in {otherwise, Idle}
    /\ UNCHANGED <<reader, kind, told, quiet, raced>>

\* A decision without a change of the disk.
Goto(next) == op' = next /\ UNCHANGED <<fs, reader, kind, told, quiet, raced, faults>>

Put(f, body) == [fs EXCEPT !.disk[f] = body]

\* A file gets a second name, or loses one.
Link(f, body) == [Put(f, body) EXCEPT !.linked = TRUE]
Unlink(f)     == [Put(f, Absent) EXCEPT !.linked = FALSE]

J     == fs.journal
Kind  == kind[J.txn]

--------------------------------------------------------------------------------
\* applyTransactionWithLease and publishTransactionWithLease.

\* Load and build: the new contents come from the board that was loaded.
Contents(t, k) ==
    [f \in Paths |-> IF \E i \in DOMAIN Writes(k) : Writes(k)[i] = f
                     THEN {t} \cup (IF Holds(f) THEN fs.disk[f] ELSE {})
                     ELSE Absent]

Start(t, k) ==
    /\ op = Idle /\ kind[t] = None /\ J = None
    /\ Holds("overview")
    /\ k # "new" => Holds("detail")
    /\ op' = Command("prepare", t, Contents(t, k), None)
    /\ kind' = [kind EXCEPT ![t] = k]
    /\ UNCHANGED <<fs, reader, told, quiet, raced, faults>>

\* buildTransaction reads the images once more; then the journal is published.
Buildable(k) == /\ k = "new" => fs.disk["new"] = Absent
                /\ Moves(k)  => fs.disk["done"] = Absent

Images(k) == [txn    |-> op.txn,
              phase  |-> "prepared",
              before |-> fs.disk,
              after  |-> IF k = "archive" THEN [op.after EXCEPT !["detail"] = fs.disk["detail"]]
                         ELSE op.after,
              owns   |-> Moves(k) /\ fs.dir = Absent]

Prepare ==
    /\ op.at = "prepare"
    /\ LET k == kind[op.txn] IN
       IF Buildable(k) THEN Change([fs EXCEPT !.journal = Images(k)], At("check"), Idle)
       ELSE Goto(Idle)

\* validateFilePublishPrecondition
Unchanged(f) == fs.disk[f] = J.before[f]

\* validatePublishInputs, validatePublishState
CheckPublish ==
    /\ op.at = "check"
    /\ Goto(IF /\ \A i \in DOMAIN Files(Kind) : Unchanged(Files(Kind)[i])
               /\ Moves(Kind) => fs.disk["done"] = Absent /\ J.owns = (fs.dir = Absent)
            THEN At(IF J.owns THEN "mkdir" ELSE "write") ELSE RollBack("publish"))

\* prepareTransactionDirectoriesWithLease
MakeDirectory ==
    /\ op.at = "mkdir"
    /\ IF fs.dir = Absent
       THEN Change([fs EXCEPT !.dir = None], At("mark"), RollBack("publish"))
       ELSE Goto(RollBack("publish"))

\* When the marker fails its directory is removed, if nothing is in it.
MarkDirectory ==
    /\ op.at = "mark"
    /\ \/ Change([fs EXCEPT !.dir = J.txn], At("write"), RollBack("publish"))
       \/ /\ Faulty
          /\ fs' = [fs EXCEPT !.dir = IF fs.disk["done"] = Absent THEN Absent ELSE @]
          /\ op' = RollBack("publish")
          /\ UNCHANGED <<reader, kind, told, quiet, raced>>

Written == IF op.i < Len(Writes(Kind)) THEN [At("write") EXCEPT !.i = op.i + 1]
           ELSE At(IF Moves(Kind) THEN "link" ELSE "commit")

\* The loop over the changed files: atomicfile.WriteIfChanged, or the first
\* half of writeNewTransactionFileWithLease.
WriteFile ==
    /\ op.at = "write"
    /\ LET f == Writes(Kind)[op.i] IN
       IF ~Unchanged(f) THEN Goto(RollBack("publish"))
       ELSE IF f = "new" THEN Change(Put(f, Torn), [op EXCEPT !.at = "fill"], RollBack("publish"))
       ELSE Change(Put(f, J.after[f]), Written, RollBack("publish"))

\* Its second half: a file that could not be filled and synced is removed.
FillFile ==
    /\ op.at = "fill"
    /\ \/ Change(Put("new", J.after["new"]), Written, RollBack("publish"))
       \/ /\ Faulty
          /\ fs' = Put("new", Absent) /\ op' = RollBack("publish")
          /\ UNCHANGED <<reader, kind, told, quiet, raced>>

\* publishTransactionMoveWithLease
LinkMove ==
    /\ op.at = "link"
    /\ IF fs.disk["detail"] = J.after["detail"] /\ fs.disk["done"] = Absent
       THEN Change(Link("done", fs.disk["detail"]),
                   At("linked"), RollBack("publish"))
       ELSE Goto(RollBack("publish"))

\* validateLinkedMove
VerifyLink ==
    /\ op.at = "linked"
    /\ IF fs.linked THEN Goto(At("unlink"))
       ELSE Change(Put("done", Absent), RollBack("publish"), RollBack("publish"))

UnlinkMove ==
    /\ op.at = "unlink"
    /\ Change(Unlink("detail"), At("commit"), RollBack("publish"))

\* After an error the phase is read back.
MarkCommitted ==
    /\ op.at = "commit"
    /\ \/ Change([fs EXCEPT !.journal.phase = "committed"], At("unmark"), Idle)
       \/ /\ Faulty /\ op' = RollBack("commit")
          /\ UNCHANGED <<fs, reader, kind, told, quiet, raced>>

\* cleanupCommittedDirectoryMarkersWithLease
RemoveMarker ==
    /\ op.at = "unmark"
    /\ Change([fs EXCEPT !.dir = IF J.owns /\ @ = J.txn THEN None ELSE @], At("forget"), Idle)

ForgetJournal ==
    /\ op.at = "forget"
    /\ Change([fs EXCEPT !.journal = None], At("report"), Idle)

\* The command returns what it knows: done, or rolled back. (Create reads the
\* board once more before it does.)
Report ==
    /\ op.at \in {"report", "report_rolled"}
    /\ told' = IF op.cause = "recover" THEN told
               ELSE [told EXCEPT ![op.txn] = IF op.at = "report" THEN "done" ELSE "rolled back"]
    /\ op' = Idle
    /\ UNCHANGED <<fs, reader, kind, quiet, raced, faults>>

--------------------------------------------------------------------------------
\* rollbackTransactionWithLease and RecoverIfNeeded.

\* Mutant: the phase ignored.
RecoverAsCommitted ==
    op = Idle /\ J # None /\ Goto(Command("unmark", J.txn, NoFiles, "recover"))

Recover ==
    /\ op = Idle /\ J # None
    /\ Goto(Command(IF J.phase = "committed" THEN "unmark" ELSE "roll_back",
                    J.txn, NoFiles, "recover"))

\* Mutant: every content is taken for an image.
FileTrusted(f) == fs.disk[f] # Torn

\* validateRollbackFile: the before or the after image; a moved file may be at
\* its destination, a created one may be gone.
FileRecognised(f) ==
    LET moved == f = "detail" /\ Moves(Kind) /\ fs.disk[f] = Absent
        body  == fs.disk[IF moved THEN "done" ELSE f]
    IN  IF f = "new" THEN body \in {Absent, J.after[f]}
        ELSE body \in {J.before[f], J.after[f]}

\* Mutant: the state between link and unlink forgotten.
MoveWhole ==
    \/ fs.disk["done"] = Absent /\ fs.disk["detail"] \in {J.before["detail"], J.after["detail"]}
    \/ fs.disk["detail"] = Absent /\ fs.disk["done"] = J.after["detail"]

\* validateRollbackMoves: before, after or linked.
MoveRecognised ==
    LET source == fs.disk["detail"]  destination == fs.disk["done"] IN
    \/ destination = Absent /\ source \in {J.before["detail"], J.after["detail"]}
    \/ source = Absent /\ destination = J.after["detail"]
    \/ fs.linked /\ source = J.after["detail"]

\* validateRollbackState; a directory without the marker is not recognised.
DirectoryRecognised == J.owns => fs.dir \in {Absent, J.txn}

Recognised ==
    /\ \A i \in DOMAIN Files(Kind) : FileRecognised(Files(Kind)[i])
    /\ Moves(Kind) => MoveRecognised
    /\ DirectoryRecognised

CheckRollback ==
    /\ op.at = "roll_back"
    /\ Goto(IF ~Recognised THEN Idle ELSE At(IF Moves(Kind) THEN "move_back" ELSE "restore"))

\* A step that takes something back; a read that is under way is then undone.
TakeBack(new, next) ==
    /\ \/ fs' = new /\ op' = next /\ UNCHANGED faults
       \/ Faulty /\ fs' \in {fs, new} /\ op' = Idle
    /\ reader' = [reader EXCEPT !.undone = reader.at # "idle"]
    /\ UNCHANGED <<kind, told, quiet, raced>>

\* Mutant: a link that is already there is taken for a foreign file.
MoveBackOnce ==
    /\ op.at = "move_back"
    /\ CASE fs.disk["done"] = Absent -> Goto(At("restore"))
         [] fs.disk["detail"] = Absent /\ fs.disk["done"] = J.after["detail"] ->
              TakeBack(Link("detail", fs.disk["done"]), At("linked_back"))
         [] OTHER -> Goto(Idle)

\* rollbackTransactionMoveWithLease: the source is linked back before the
\* destination goes.
MoveBack ==
    /\ op.at = "move_back"
    /\ CASE fs.disk["done"] = Absent -> Goto(At("restore"))
         [] fs.disk["done"] # Absent /\ fs.linked ->
              TakeBack(Unlink("done"), At("restore"))
         [] fs.disk["detail"] = Absent /\ fs.disk["done"] = J.after["detail"] ->
              TakeBack(Link("detail", fs.disk["done"]), At("linked_back"))
         [] OTHER -> Goto(Idle)

VerifyLinkBack ==
    /\ op.at = "linked_back"
    /\ IF fs.linked THEN Goto(At("unlink_back")) ELSE TakeBack(Put("detail", Absent), Idle)

UnlinkBack ==
    /\ op.at = "unlink_back"
    /\ TakeBack(Unlink("done"), At("restore"))

\* Mutant: one file too few.
RestoreButLast ==
    /\ op.at = "restore"
    /\ LET f == Files(Kind)[op.i] IN
       TakeBack([Put(f, J.before[f]) EXCEPT !.linked = IF f = "detail" THEN FALSE ELSE @],
                IF op.i + 1 < Len(Files(Kind)) THEN [op EXCEPT !.i = @ + 1]
                ELSE At(IF J.owns THEN "unmark_back" ELSE "forget_back"))

RestoreFile ==
    /\ op.at = "restore"
    /\ LET f == Files(Kind)[op.i] IN
       TakeBack([Put(f, J.before[f]) EXCEPT !.linked = IF f = "detail" THEN FALSE ELSE @],
                IF op.i < Len(Files(Kind)) THEN [op EXCEPT !.i = @ + 1]
                ELSE At(IF J.owns THEN "unmark_back" ELSE "forget_back"))

\* rollbackCreatedDirectoriesWithLease: only with the marker and nothing else.
UnmarkDirectory ==
    /\ op.at = "unmark_back"
    /\ CASE fs.dir = Absent -> Goto(At("forget_back"))
         [] fs.dir = J.txn /\ fs.disk["done"] = Absent ->
              Change([fs EXCEPT !.dir = None], At("rmdir"), Idle)
         [] OTHER -> Goto(Idle)

\* When the removal fails the marker is put back.
RemoveDirectory ==
    /\ op.at = "rmdir"
    /\ \/ /\ fs.disk["done"] = Absent
          /\ Change([fs EXCEPT !.dir = Absent], At("forget_back"), Idle)
       \/ /\ fs.disk["done"] = Absent => faults < MaxFaults
          /\ faults' = IF fs.disk["done"] = Absent THEN faults + 1 ELSE faults
          /\ fs' = [fs EXCEPT !.dir = J.txn] /\ op' = Idle
          /\ UNCHANGED <<reader, kind, told, quiet, raced>>

\* The rollback of a failed commit mark leaves the journal in place.
ForgetRolledBack ==
    /\ op.at = "forget_back"
    /\ IF op.cause = "commit" THEN Goto(At("report_rolled"))
       ELSE Change([fs EXCEPT !.journal = None], At("report_rolled"), Idle)

--------------------------------------------------------------------------------
\* An editor replaces a file, creates one, or creates the archive's directory.

Fresh(e) == e \notin quiet \cup raced

Edit(e, f) ==
    /\ Fresh(e) /\ Faulty
    /\ \/ Holds(f)
       \/ fs.disk[f] = Absent /\ (f = "new" \/ (f = "done" /\ fs.dir # Absent))
    /\ fs' = [Put(f, {e} \cup (IF Holds(f) THEN fs.disk[f] ELSE {}))
                EXCEPT !.linked = @ /\ f \notin {"detail", "done"}]
    /\ IF op = Idle THEN quiet' = quiet \cup {e} /\ UNCHANGED raced
                    ELSE raced' = raced \cup {e} /\ UNCHANGED quiet
    /\ UNCHANGED <<op, reader, kind, told>>

EditDirectory(e) ==
    /\ Fresh(e) /\ Faulty /\ fs.dir = Absent
    /\ fs' = [fs EXCEPT !.dir = None] /\ raced' = raced \cup {e}
    /\ UNCHANGED <<op, reader, kind, told, quiet>>

--------------------------------------------------------------------------------
\* inspectResolvedOnce: no journal, the overview, the details it names, all of
\* them again, no journal. A read that sees a change is refused.

\* What an overview names. The logbook reader never opens its archive.
Includes(body, k) == \E t \in body \cap Txns : kind[t] = k
Named(body) == (IF Includes(body, "archive") THEN {"done"}
                ELSE IF Includes(body, "logbook") THEN {} ELSE {"detail"})
               \cup (IF Includes(body, "new") THEN {"new"} ELSE {})

Reads(next) == reader' = next /\ UNCHANGED <<fs, op, kind, told, quiet, raced, faults>>
ReadAt(label) == [reader EXCEPT !.at = label]

BeginRead    == reader.at = "idle" /\ J = None /\ Reads([NotReading EXCEPT !.at = "overview"])

ReadOverview == /\ reader.at = "overview" /\ Holds("overview")
                /\ Reads([ReadAt("details") EXCEPT !.seen["overview"] = fs.disk["overview"]])

ReadDetails ==
    /\ reader.at = "details"
    /\ LET named == Named(reader.seen["overview"]) IN
       Reads(IF \A f \in named : Holds(f)
             THEN [ReadAt("again") EXCEPT !.seen = [f \in Paths |->
                      IF f \in named THEN fs.disk[f] ELSE @[f]]]
             ELSE NotReading)

SameAs(f) == reader.seen[f] = fs.disk[f]

\* concurrentReadIssues
ReadOverviewAgain ==
    /\ reader.at = "again"
    /\ Reads(IF SameAs("overview") THEN ReadAt("details_again") ELSE NotReading)

ReadDetailsAgain ==
    /\ reader.at = "details_again"
    /\ Reads(IF \A f \in Named(reader.seen["overview"]) : SameAs(f)
             THEN ReadAt("last") ELSE NotReading)

\* Mutant: the last look at the journal forgotten.
EndReadUnchecked == reader.at = "last" /\ Reads(ReadAt("returned"))

EndRead  == reader.at = "last" /\ Reads(IF J = None THEN ReadAt("returned") ELSE NotReading)
Returned == reader.at = "returned" /\ Reads(NotReading)

--------------------------------------------------------------------------------
Publish  == \/ Prepare \/ CheckPublish \/ MakeDirectory \/ MarkDirectory \/ WriteFile
            \/ FillFile \/ LinkMove \/ VerifyLink \/ UnlinkMove \/ MarkCommitted
            \/ RemoveMarker \/ ForgetJournal \/ Report
Rollback == \/ CheckRollback \/ MoveBack \/ VerifyLinkBack \/ UnlinkBack \/ RestoreFile
            \/ UnmarkDirectory \/ RemoveDirectory \/ ForgetRolledBack
Read     == \/ BeginRead \/ ReadOverview \/ ReadDetails \/ ReadOverviewAgain
            \/ ReadDetailsAgain \/ EndRead \/ Returned
Outside  == \E e \in Edits : EditDirectory(e) \/ \E f \in Paths : Edit(e, f)

Next == \/ \E t \in Txns, k \in Kinds : Start(t, k)
        \/ Publish \/ Recover \/ Rollback \/ Outside \/ Read

Spec == Init /\ [][Next]_vars

\* A command that holds the lock goes on, and somebody follows the message of a
\* refused read and runs `task recover`.
LiveSpec == Spec /\ WF_vars(Publish) /\ WF_vars(Rollback) /\ WF_vars(Recover)

--------------------------------------------------------------------------------
Somewhere(t) == \E f \in Paths : Holds(f) /\ t \in fs.disk[f]

Applied(t) ==
    /\ Holds("overview") /\ t \in fs.disk["overview"]
    /\ kind[t] = "new" => Holds("new") /\ t \in fs.disk["new"]
    /\ kind[t] \in {"claim", "logbook"} =>
          \E f \in {"detail", "done"} : Holds(f) /\ t \in fs.disk[f]
    /\ Moves(kind[t]) => fs.disk["detail"] = Absent /\ Holds("done")

\* transaction.go:338, 1051: without a journal each command has done all of its
\* changes or none, whatever died, failed, was recovered or edited meanwhile.
AllOrNothing == J = None => \A t \in Txns : Applied(t) \/ ~Somewhere(t)

\* transaction.go:366, 400: a command that returned success stays done, also
\* through the rollback of later ones, and one that returned `rolled back`
\* leaves no trace, also when its journal is recovered later.
OutcomesHold ==
    \A t \in Txns : /\ told[t] = "done" => t \in fs.disk["overview"] /\ Somewhere(t)
                    /\ told[t] = "rolled back" => ~Somewhere(t)

\* docs/documentation.md:2054-2056: an edit that was not made in the middle of
\* a command is never overwritten, by a command or a recovery.
EditsKept == \A e \in quiet : Somewhere(e)

\* docs/documentation.md:2065-2069: without edits from outside, a rollback is
\* refused only if the process died between the creation of a directory or a
\* file and its marker or content, or between the removals of both.
Blind       == \/ fs.disk["new"] = Torn
               \/ J # None /\ J.owns /\ fs.dir = None
Recoverable == (J # None /\ J.phase = "prepared") => Recognised
RefusedForCause == (quiet \cup raced = {} /\ ~Blind) => Recoverable

\* What a read shows of the board. A transaction is torn in it if the overview
\* has it and a detail that it changed does not.
Changes(t, f) == IF f = "new" THEN kind[t] = "new" ELSE kind[t] \in {"claim", "logbook"}
TornRead(t) ==
    /\ t \in reader.seen["overview"]
    /\ \E f \in Named(reader.seen["overview"]) : Changes(t, f) /\ t \notin reader.seen[f]

\* docs/documentation.md:1947-1953, parse.go:165-202, 291-309: what a read returns
\* is committed, its details are not ahead of its overview, and at most one
\* transaction is torn in it: one that was published around the reader's second
\* look at the details and committed before its last look at the journal.
\* Excepted is a read during which a transaction was taken back.
ReadsAreCommitted ==
    (reader.at = "returned" /\ ~reader.undone) =>
        /\ \A t \in reader.seen["overview"] \cap Txns :
            t \in fs.disk["overview"] /\ (J = None \/ J.txn # t)
        /\ \A f \in Named(reader.seen["overview"]) :
            reader.seen[f] \cap Txns \subseteq reader.seen["overview"]
        /\ \A t, u \in Txns : TornRead(t) /\ TornRead(u) => t = u

\* transaction.go:1051: a journal goes, unless somebody must look at an edit or
\* at a directory or file whose owner cannot be proven.
PendingIsResolved == (J # None) ~> (J = None \/ quiet \cup raced # {} \/ Blind)
=============================================================================
