------------------------ MODULE TaskTransactionProofs ------------------------
(***************************************************************************)
(* What a command promises of the board, for every set of transactions and *)
(* edits and any number of faults. The invariant compares the disk with    *)
(* the two images in the journal, file by file and but for edits. It is    *)
(* stated of given files F, a command O and histories k (kind), t (told),  *)
(* q (quiet) and r (raced), so that what a change of the disk does to it   *)
(* is a lemma about values.                                                *)
(***************************************************************************)
EXTENDS TaskTransaction, TLAPS

--------------------------------------------------------------------------------
(* The shape of the state.                                                 *)

Publishing == {"check", "mkdir", "mark", "write", "fill", "link", "linked", "unlink", "commit"}
Undoing    == {"roll_back", "move_back", "linked_back", "unlink_back", "restore",
               "unmark_back", "rmdir", "forget_back"}
Labels     == {"idle", "prepare", "unmark", "forget", "report", "report_rolled"}
                 \cup Publishing \cup Undoing

FileSystems == [disk : Disks, linked : BOOLEAN, dir : Txns \cup {Absent, None},
                journal : Journals \cup {None}]
Commands    == [at : Labels, txn : Txns \cup {None}, after : Disks, i : {1, 2},
                cause : {None, "publish", "commit", "recover"}]

Typed(F, O) == F \in FileSystems /\ O \in Commands
Histories(k, t, q, r) ==
    /\ k \in [Txns -> Kinds \cup {None}]
    /\ t \in [Txns -> {None, "done", "rolled back"}]
    /\ \A x \in Txns : k[x] = None => t[x] = None
    /\ q \subseteq Edits /\ r \subseteq Edits

\* The second file of a command; the first is always the overview.
Second(kd)  == IF kd = "new" THEN "new" ELSE "detail"
Changed(kd) == IF kd = "archive" THEN {"overview"} ELSE {"overview", Second(kd)}
Moved(kd)   == IF Moves(kd) THEN {"detail", "done"} ELSE {}

--------------------------------------------------------------------------------
(* The parts of the invariant.                                             *)

\* Who holds the lock, and which journal there is.
Control(F, O, k, t) ==
    /\ O.at = "idle" => O = Idle
    /\ O.at # "idle" => O.txn \in Txns /\ k[O.txn] \in Kinds
    /\ O.at \in {"prepare", "report"} => F.journal = None
    /\ O.at = "prepare" \/ O.at \in Publishing => O.cause = None
    /\ O.at \in Undoing \cup {"report_rolled"} => O.cause # None
    /\ O.at \in Publishing \cup Undoing =>
          F.journal # None /\ F.journal.txn = O.txn /\ F.journal.phase = "prepared"
    /\ O.at \in {"unmark", "forget"} =>
          F.journal # None /\ F.journal.txn = O.txn /\ F.journal.phase = "committed"
    /\ O.at = "report_rolled" /\ F.journal # None =>
          F.journal.txn = O.txn /\ F.journal.phase = "prepared"
    /\ O.at # "idle" /\ O.cause # "recover" => t[O.txn] = None
    /\ O.at = "write" /\ O.i = 2 => k[O.txn] # "archive"
    /\ O.at = "fill" => k[O.txn] = "new" /\ O.i = 2
    /\ O.at \in {"link", "linked", "unlink", "move_back", "linked_back", "unlink_back"}
          => Moves(k[O.txn])

\* Whose journal, link and marker they are.
Owned(F, O, k, t) ==
    /\ F.journal # None =>
          /\ k[F.journal.txn] \in Kinds /\ t[F.journal.txn] # "done"
          /\ F.journal.phase = "committed" => t[F.journal.txn] = None
    /\ F.linked =>
          /\ F.journal # None /\ F.journal.phase = "prepared"
          /\ Moves(k[F.journal.txn]) /\ t[F.journal.txn] = None
          /\ F.disk["detail"] = F.disk["done"] /\ F.disk["detail"] \in Bodies
          /\ O.at \in {"idle", "linked", "unlink", "roll_back", "move_back", "linked_back",
                       "unlink_back"}
    /\ F.dir \in Txns => F.journal # None /\ F.journal.txn = F.dir /\ F.journal.owns
    /\ O.at \in {"mkdir", "mark", "unmark_back", "rmdir"} => F.journal.owns
    /\ O.at \in {"forget", "forget_back"} => F.dir \notin Txns

\* What went into a file, nothing when there is none.
Content(b) == IF b \in Bodies THEN b ELSE {}
Body(D, f) == Content(D[f])
In(D, x)   == \E f \in Paths : x \in Body(D, f)
Done(D, k, x) ==
    /\ x \in Body(D, "overview")
    /\ k[x] = "new" => x \in Body(D, "new")
    /\ k[x] \in {"claim", "logbook"} => x \in Body(D, "detail") \cup Body(D, "done")
    /\ Moves(k[x]) => D["detail"] = Absent /\ D["done"] \in Bodies

\* A disk without a transaction under way: each is done or not, as it was told.
Sound(D, k, t) ==
    /\ D["overview"] \in Bodies
    /\ \A x \in Txns : /\ Done(D, k, x) \/ ~In(D, x)
                       /\ t[x] = "done" => x \in Body(D, "overview")
                       /\ t[x] = "rolled back" => ~In(D, x)
                       /\ k[x] = None => ~In(D, x)

\* What is in file f is b where it was c, but for edits.
Like(b, c, f, q) ==
    \/ b = c
    \/ b \in Bodies /\ c \in Bodies /\ b \cap Txns = c \cap Txns /\ c \cap q \subseteq b
    \/ c = Absent /\ f \in {"new", "done"} /\ b \in Bodies /\ b \cap Txns = {}

Old(F, f, q) == Like(F.disk[f], F.journal.before[f], f, q)
New(F, f, q) == Like(F.disk[f], F.journal.after[f], f, q)
AtDone(F, q) == Like(F.disk["done"], F.journal.after["detail"], "detail", q)

\* after is before with the transaction in the files that its command changes.
Adds(kd, x, before, after, q) ==
    \A f \in Changed(kd) :
        /\ after[f] \in Bodies
        /\ after[f] \cap Txns = {x} \cup (Body(before, f) \cap Txns)
        /\ Body(before, f) \cap q \subseteq after[f]

\* The images of a journal j.
ImagesSound(j, k, t, q) ==
    /\ Sound(j.before, k, t) /\ ~In(j.before, j.txn)
    /\ k[j.txn] # "new" => j.before["detail"] \in Bodies
    /\ k[j.txn] = "new" => j.before["new"] = Absent
    /\ Moves(k[j.txn]) => j.before["done"] = Absent
    /\ Adds(k[j.txn], j.txn, j.before, j.after, q)
    /\ k[j.txn] = "archive" => j.after["detail"] = j.before["detail"]

\* The contents that a command has built.
Built(F, O, k, q) ==
    /\ ~In(F.disk, O.txn)
    /\ k[O.txn] # "new" => F.disk["detail"] \in Bodies
    /\ Adds(k[O.txn], O.txn, F.disk, O.after, q)

\* The stages of a publication and of its end.
AllOld(F, q) == \A f \in Paths : Old(F, f, q)
Staged(F, kd, n, q) ==
    \A f \in Paths : IF \/ f = "overview" /\ n > 0
                        \/ f = Second(kd) /\ n > 1
                     THEN New(F, f, q) ELSE Old(F, f, q)
TwoNames(F, q) == New(F, "overview", q) /\ New(F, "detail", q) /\ AtDone(F, q) /\ Old(F, "new", q)
Finished(F, kd, q) ==
    /\ \A f \in Changed(kd) \ Moved(kd) : New(F, f, q)
    /\ Moves(kd) => F.disk["detail"] = Absent /\ AtDone(F, q)
    /\ \A f \in Paths \ (Changed(kd) \cup Moved(kd)) : Old(F, f, q)

\* Whatever step a transaction was left at.
Between(F, kd, q) ==
    /\ \A f \in Paths \ (Changed(kd) \cup Moved(kd)) : Old(F, f, q)
    /\ \A f \in Changed(kd) \ Moved(kd) :
          Old(F, f, q) \/ New(F, f, q) \/ (f = "new" /\ F.disk[f] = Torn)
    /\ Moves(kd) =>
          /\ \/ Old(F, "detail", q) \/ New(F, "detail", q)
             \/ F.disk["detail"] = Absent /\ AtDone(F, q)
          /\ Old(F, "done", q) \/ AtDone(F, q)

\* What is on the disk, by the journal and by where its command is.
OnDisk(F, O, k, t, q) ==
    IF F.journal = None THEN Sound(F.disk, k, t)
    ELSE /\ ImagesSound(F.journal, k, t, q)
         /\ IF F.journal.phase = "committed" THEN Finished(F, k[F.journal.txn], q)
            ELSE Between(F, k[F.journal.txn], q)
         /\ t[F.journal.txn] = "rolled back" =>
               AllOld(F, q) /\ O.at \notin {"linked_back", "unlink_back"}
Progress(F, O, k, t, q) ==
    /\ O.at = "prepare" => Built(F, O, k, q)
    /\ O.at \in {"check", "mkdir", "mark", "unmark_back", "rmdir", "forget_back"} => AllOld(F, q)
    /\ O.at = "write" => Staged(F, k[O.txn], O.i - 1, q)
    /\ O.at = "fill" => New(F, "overview", q) /\ F.disk["new"] = Torn
    /\ O.at = "link" => Staged(F, k[O.txn], IF k[O.txn] = "archive" THEN 1 ELSE 2, q)
    /\ O.at \in {"linked", "unlink"} => TwoNames(F, q)
    /\ O.at = "commit" => Finished(F, k[O.txn], q)
    /\ O.at \in {"linked_back", "unlink_back"} => New(F, "detail", q) /\ AtDone(F, q)
    /\ O.at = "restore" => /\ O.i = 2 => Old(F, "overview", q)
                           /\ Moves(k[O.txn]) => Old(F, "done", q)
    /\ O.at = "report_rolled" /\ F.journal # None => AllOld(F, q)
    /\ O.at = "report_rolled" /\ O.cause # "recover" => ~In(F.disk, O.txn)
    /\ O.at = "report" /\ O.cause # "recover" => Done(F.disk, k, O.txn)

\* Where the edits are that no command was under way for.
EditsOf(D, q, r) == \A f \in Paths : Body(D, f) \cap Edits \subseteq q \cup r
Made(F, O, q, r) ==
    /\ EditsOf(F.disk, q, r) /\ EditsOf(O.after, q, r)
    /\ F.journal # None => EditsOf(F.journal.before, q, r) /\ EditsOf(F.journal.after, q, r)
Foreign(F, O, e) ==
    /\ O.at \in {"idle", "roll_back"}
    /\ In(F.disk, e) /\ ~In(F.journal.before, e) /\ ~In(F.journal.after, e)
Kept(F, O, k, q) ==
    \A e \in q :
        IF F.journal = None \/ F.journal.phase = "committed" THEN In(F.disk, e)
        ELSE \/ In(F.journal.before, e)
             \/ LET kd == k[F.journal.txn]
                IN  \E f \in Paths \ (Changed(kd) \cup Moved(kd)) : e \in Body(F.disk, f)
             \/ Foreign(F, O, e)

Good(F, O, k, t, q, r) ==
    /\ Typed(F, O) /\ Histories(k, t, q, r)
    /\ Control(F, O, k, t) /\ Owned(F, O, k, t)
    /\ OnDisk(F, O, k, t, q) /\ Progress(F, O, k, t, q)
    /\ Made(F, O, q, r) /\ Kept(F, O, k, q)

\* The inductive invariant.
TaskInv == Good(fs, op, kind, told, quiet, raced)
--------------------------------------------------------------------------------
(* Values.                                                                 *)

\* The same command elsewhere, and other files.
Cmd(O, at, i, cause) ==
    [at |-> at, txn |-> O.txn, after |-> O.after, i |-> i, cause |-> cause]
With(D, f, b) == [D EXCEPT ![f] = b]
Sys(D, linked, dir, journal) ==
    [disk |-> D, linked |-> linked, dir |-> dir, journal |-> journal]

\* How the labels of the module change a command.
LEMMA Labelled ==
    ASSUME op \in Commands
    PROVE  /\ \A l : At(l) = Cmd(op, l, 1, op.cause)
           /\ \A by : RollBack(by) = Cmd(op, "roll_back", 1, by)
           /\ \A l : [op EXCEPT !.at = l] = Cmd(op, l, op.i, op.cause)
           /\ [At("write") EXCEPT !.i = op.i + 1] = Cmd(op, "write", op.i + 1, op.cause)
           /\ [op EXCEPT !.i = @ + 1] = Cmd(op, op.at, op.i + 1, op.cause)
<1>0. op = [at |-> op.at, txn |-> op.txn, after |-> op.after, i |-> op.i, cause |-> op.cause]
  BY DEF Commands
<1>1. \A l : At(l) = Cmd(op, l, 1, op.cause)
  <2> TAKE l
  <2>1. At(l) = [[at |-> op.at, txn |-> op.txn, after |-> op.after, i |-> op.i,
                  cause |-> op.cause] EXCEPT !.at = l, !.i = 1]
    BY <1>0, Zenon DEF At
  <2> QED
    BY <2>1 DEF Cmd
<1>2. \A by : RollBack(by) = Cmd(op, "roll_back", 1, by)
  BY <1>1 DEF RollBack, Cmd
<1>3. \A l : [op EXCEPT !.at = l] = Cmd(op, l, op.i, op.cause)
  BY DEF Cmd, Commands
<1>4. [At("write") EXCEPT !.i = op.i + 1] = Cmd(op, "write", op.i + 1, op.cause)
  <2>1. \A n : [Cmd(op, "write", 1, op.cause) EXCEPT !.i = n] = Cmd(op, "write", n, op.cause)
    BY DEF Cmd
  <2> QED
    BY <1>1, <2>1
<1>5. [op EXCEPT !.i = @ + 1] = Cmd(op, op.at, op.i + 1, op.cause)
  BY DEF Cmd, Commands
<1> QED
  BY <1>1, <1>2, <1>3, <1>4, <1>5

\* How a change of one part of the files changes them.
LEMMA Replaced ==
    ASSUME NEW F \in FileSystems
    PROVE  /\ \A f, b : [F EXCEPT !.disk[f] = b]
                           = Sys(With(F.disk, f, b), F.linked, F.dir, F.journal)
           /\ \A d : [F EXCEPT !.dir = d] = Sys(F.disk, F.linked, d, F.journal)
           /\ \A j : [F EXCEPT !.journal = j] = Sys(F.disk, F.linked, F.dir, j)
<1>1. \A f, b : [F EXCEPT !.disk[f] = b]
                  = Sys(With(F.disk, f, b), F.linked, F.dir, F.journal)
  BY DEF FileSystems, Sys, With
<1>2. \A d : [F EXCEPT !.dir = d] = Sys(F.disk, F.linked, d, F.journal)
  BY DEF FileSystems, Sys
<1>3. \A j : [F EXCEPT !.journal = j] = Sys(F.disk, F.linked, F.dir, j)
  BY DEF FileSystems, Sys
<1> QED
  BY <1>1, <1>2, <1>3

\* Every kind of command changes two files at most, the overview first.
LEMMA KindsOfCommand ==
    ASSUME NEW kd \in Kinds
    PROVE  /\ Len(Writes(kd)) = IF kd = "archive" THEN 1 ELSE 2
           /\ DOMAIN Writes(kd) = 1 .. Len(Writes(kd))
           /\ Writes(kd)[1] = "overview"
           /\ kd # "archive" => Writes(kd)[2] = Second(kd)
           /\ Len(Files(kd)) = 2 /\ DOMAIN Files(kd) = {1, 2}
           /\ Files(kd)[1] = "overview" /\ Files(kd)[2] = Second(kd)
           /\ Second(kd) \in {"new", "detail"} /\ (Second(kd) = "new" <=> kd = "new")
<1>1. /\ Writes("new") = <<"overview", "new">> /\ Writes("archive") = <<"overview">>
      /\ Writes("claim") = <<"overview", "detail">>
      /\ Writes("logbook") = <<"overview", "detail">>
  BY DEF Writes
<1>2. /\ Files("new") = <<"overview", "new">> /\ Files("archive") = <<"overview", "detail">>
      /\ Files("claim") = <<"overview", "detail">>
      /\ Files("logbook") = <<"overview", "detail">>
  BY <1>1 DEF Files
<1>3. /\ Second("new") = "new" /\ Second("archive") = "detail"
      /\ Second("claim") = "detail" /\ Second("logbook") = "detail"
  BY DEF Second
<1>4. CASE kd = "new"
  BY <1>1, <1>2, <1>3, <1>4
<1>5. CASE kd = "archive"
  BY <1>1, <1>2, <1>3, <1>5
<1>6. CASE kd = "claim"
  BY <1>1, <1>2, <1>3, <1>6
<1>7. CASE kd = "logbook"
  BY <1>1, <1>2, <1>3, <1>7
<1> QED
  BY <1>4, <1>5, <1>6, <1>7 DEF Kinds

\* Like files show the same transactions, and the quiet edits of the model.
LEMMA SameMarks ==
    ASSUME NEW f \in Paths, NEW b \in Bodies \cup {Absent, Torn},
           NEW c \in Bodies \cup {Absent, Torn}, NEW q, Like(b, c, f, q)
    PROVE  /\ \A x \in Txns : x \in Content(b) <=> x \in Content(c)
           /\ \A e \in q : e \in Content(c) => e \in Content(b)
           /\ c \in Bodies => b \in Bodies
           /\ b = Torn => c = Torn
           /\ f \notin {"new", "done"} => (b \in Bodies <=> c \in Bodies)
           /\ f \notin {"new", "done"} => (b = Absent <=> c = Absent)
BY NamesAssumption DEF Like, Content

\* The same of a file and its image in the journal.
LEMMA Marks ==
    ASSUME NEW F \in FileSystems, F.journal \in Journals, NEW q
    PROVE  /\ \A f \in Paths : Old(F, f, q) =>
                /\ \A x \in Txns : x \in Body(F.disk, f) <=> x \in Body(F.journal.before, f)
                /\ \A e \in q : e \in Body(F.journal.before, f) => e \in Body(F.disk, f)
                /\ F.journal.before[f] \in Bodies => F.disk[f] \in Bodies
                /\ f \notin {"new", "done"} => (F.disk[f] = Absent <=> F.journal.before[f] = Absent)
           /\ \A f \in Paths : New(F, f, q) =>
                /\ \A x \in Txns : x \in Body(F.disk, f) <=> x \in Body(F.journal.after, f)
                /\ \A e \in q : e \in Body(F.journal.after, f) => e \in Body(F.disk, f)
                /\ F.journal.after[f] \in Bodies => F.disk[f] \in Bodies
           /\ AtDone(F, q) =>
                /\ \A x \in Txns : x \in Body(F.disk, "done") <=> x \in Body(F.journal.after, "detail")
                /\ \A e \in q : e \in Body(F.journal.after, "detail") => e \in Body(F.disk, "done")
                /\ F.journal.after["detail"] \in Bodies => F.disk["done"] \in Bodies
<1>1. \A f \in Paths : /\ F.disk[f] \in Bodies \cup {Absent, Torn}
                       /\ F.journal.before[f] \in Bodies \cup {Absent, Torn}
                       /\ F.journal.after[f] \in Bodies \cup {Absent, Torn}
  BY DEF FileSystems, Journals, Disks
<1>2. "detail" \in Paths /\ "done" \in Paths /\ "detail" \notin {"new", "done"}
  BY DEF Paths
<1>3. ASSUME NEW f \in Paths, Old(F, f, q)
      PROVE  /\ \A x \in Txns : x \in Body(F.disk, f) <=> x \in Body(F.journal.before, f)
             /\ \A e \in q : e \in Body(F.journal.before, f) => e \in Body(F.disk, f)
             /\ F.journal.before[f] \in Bodies => F.disk[f] \in Bodies
             /\ f \notin {"new", "done"} => (F.disk[f] = Absent <=> F.journal.before[f] = Absent)
  <2> DEFINE b == F.disk[f]
             c == F.journal.before[f]
  <2>1. Like(b, c, f, q) /\ b \in Bodies \cup {Absent, Torn} /\ c \in Bodies \cup {Absent, Torn}
    BY <1>1, <1>3 DEF Old
  <2> HIDE DEF b, c
  <2>2. /\ \A x \in Txns : x \in Content(b) <=> x \in Content(c)
        /\ \A e \in q : e \in Content(c) => e \in Content(b)
        /\ c \in Bodies => b \in Bodies
        /\ f \notin {"new", "done"} => (b = Absent <=> c = Absent)
    BY <2>1, SameMarks
  <2> QED
    BY <2>2 DEF Body, b, c
<1>4. ASSUME NEW f \in Paths, New(F, f, q)
      PROVE  /\ \A x \in Txns : x \in Body(F.disk, f) <=> x \in Body(F.journal.after, f)
             /\ \A e \in q : e \in Body(F.journal.after, f) => e \in Body(F.disk, f)
             /\ F.journal.after[f] \in Bodies => F.disk[f] \in Bodies
  BY <1>1, <1>4, SameMarks DEF New, Body
<1>5. ASSUME AtDone(F, q)
      PROVE  /\ \A x \in Txns : x \in Body(F.disk, "done") <=> x \in Body(F.journal.after, "detail")
             /\ \A e \in q : e \in Body(F.journal.after, "detail") => e \in Body(F.disk, "done")
             /\ F.journal.after["detail"] \in Bodies => F.disk["done"] \in Bodies
  BY <1>1, <1>2, <1>5, SameMarks DEF AtDone, Body
<1> QED
  BY <1>3, <1>4, <1>5

\* A disk like another shows the same transactions, done as they were.
LEMMA LikeDisks ==
    ASSUME NEW D \in Disks, NEW B \in Disks, NEW k, NEW q,
           \A f \in Paths : Like(D[f], B[f], f, q)
    PROVE  /\ \A f \in Paths : /\ \A x \in Txns : x \in Body(D, f) <=> x \in Body(B, f)
                               /\ B[f] \in Bodies => D[f] \in Bodies
           /\ \A x \in Txns : In(D, x) <=> In(B, x)
           /\ \A x \in Txns : Done(B, k, x) => Done(D, k, x)
           /\ \A e \in q : In(B, e) => In(D, e)
<1>1. \A f \in Paths : /\ D[f] \in Bodies \cup {Absent, Torn}
                       /\ B[f] \in Bodies \cup {Absent, Torn}
  BY DEF Disks
<1>2. \A f \in Paths : /\ \A x \in Txns : x \in Body(D, f) <=> x \in Body(B, f)
                       /\ \A e \in q : e \in Body(B, f) => e \in Body(D, f)
                       /\ B[f] \in Bodies => D[f] \in Bodies
                       /\ f \notin {"new", "done"} => (D[f] = Absent <=> B[f] = Absent)
  BY <1>1, SameMarks DEF Body
<1>3. {"overview", "detail", "new", "done"} = Paths
  BY DEF Paths
<1>4. \A x \in Txns : In(D, x) <=> In(B, x)
  BY <1>2 DEF In
<1>5. \A e \in q : In(B, e) => In(D, e)
  BY <1>2 DEF In
<1>6. \A x \in Txns : Done(B, k, x) => Done(D, k, x)
  BY <1>2, <1>3 DEF Done
<1> QED
  BY <1>2, <1>4, <1>5, <1>6

\* A disk like a sound one is sound.
LEMMA OldSound ==
    ASSUME NEW D \in Disks, NEW B \in Disks, NEW k, NEW t, NEW q,
           Sound(B, k, t), \A f \in Paths : Like(D[f], B[f], f, q)
    PROVE  /\ Sound(D, k, t)
           /\ \A x \in Txns : In(D, x) <=> In(B, x)
           /\ \A e \in q : In(B, e) => In(D, e)
<1>1. /\ \A f \in Paths : /\ \A x \in Txns : x \in Body(D, f) <=> x \in Body(B, f)
                          /\ B[f] \in Bodies => D[f] \in Bodies
      /\ \A x \in Txns : In(D, x) <=> In(B, x)
      /\ \A x \in Txns : Done(B, k, x) => Done(D, k, x)
      /\ \A e \in q : In(B, e) => In(D, e)
  BY LikeDisks
<1>2. "overview" \in Paths
  BY DEF Paths
<1> QED
  BY <1>1, <1>2 DEF Sound

\* What each kind of command changes and moves.
LEMMA KindSets ==
    ASSUME NEW kd \in Kinds
    PROVE  /\ "overview" \in Changed(kd) \ Moved(kd)
           /\ kd = "new" => /\ Changed(kd) = {"overview", "new"} /\ Moved(kd) = {}
                            /\ Second(kd) = "new" /\ ~Moves(kd)
           /\ kd # "new" => Second(kd) = "detail"
           /\ kd = "claim" => Changed(kd) = {"overview", "detail"} /\ Moved(kd) = {} /\ ~Moves(kd)
           /\ kd = "archive" => /\ Changed(kd) = {"overview"} /\ Moved(kd) = {"detail", "done"}
                                /\ Moves(kd)
           /\ kd = "logbook" => /\ Changed(kd) = {"overview", "detail"}
                                /\ Moved(kd) = {"detail", "done"} /\ Moves(kd)
           /\ kd \in {"new", "claim", "archive", "logbook"}
           /\ Paths = {"overview", "detail", "new", "done"}
BY DEF Kinds, Changed, Moved, Moves, Second, Paths

\* The stages are between the images.
LEMMA Stages ==
    ASSUME NEW F, NEW kd \in Kinds, NEW q
    PROVE  /\ AllOld(F, q) => Between(F, kd, q)
           /\ \A n \in {0, 1, 2} : Staged(F, kd, n, q) /\ (n = 2 => kd # "archive")
                                     => Between(F, kd, q)
           /\ Moves(kd) /\ TwoNames(F, q) => Between(F, kd, q)
           /\ Finished(F, kd, q) => Between(F, kd, q)
<1>1. AllOld(F, q) => Between(F, kd, q)
  BY KindSets DEF AllOld, Between
<1>2. ASSUME NEW n \in {0, 1, 2}, Staged(F, kd, n, q), n = 2 => kd # "archive"
      PROVE  Between(F, kd, q)
  <2>1. \A f \in Paths : Old(F, f, q) \/ (New(F, f, q) /\ f \in {"overview", Second(kd)}
                                           /\ (f = "overview" \/ n = 2))
    BY <1>2 DEF Staged
  <2> QED
    BY <2>1, <1>2, KindSets DEF Between
<1>3. ASSUME Moves(kd), TwoNames(F, q) PROVE Between(F, kd, q)
  BY <1>3, KindSets DEF TwoNames, Between
<1>4. ASSUME Finished(F, kd, q) PROVE Between(F, kd, q)
  <2>1. Moves(kd) => Old(F, "done", q) \/ AtDone(F, q)
    BY <1>4 DEF Finished
  <2> QED
    BY <1>4, <2>1, KindSets DEF Finished, Between
<1> QED
  BY <1>1, <1>2, <1>3, <1>4

\* What a finished transaction leaves: of the others what there was, of itself
\* what its kind of command changes.
LEMMA FinishedMarks ==
    ASSUME NEW F \in FileSystems, F.journal \in Journals, NEW k, NEW t, NEW q,
           k[F.journal.txn] \in Kinds, ImagesSound(F.journal, k, t, q),
           Finished(F, k[F.journal.txn], q)
    PROVE  LET j == F.journal  kd == k[j.txn] IN
           /\ \A x \in Txns \ {j.txn} :
                /\ \A f \in {"overview", "new"} : x \in Body(F.disk, f) <=> x \in Body(j.before, f)
                /\ ~Moves(kd) => \A f \in {"detail", "done"} :
                                    x \in Body(F.disk, f) <=> x \in Body(j.before, f)
                /\ Moves(kd) => /\ x \notin Body(F.disk, "detail") /\ x \notin Body(j.before, "done")
                                /\ x \in Body(F.disk, "done") <=> x \in Body(j.before, "detail")
           /\ \A e \in q : In(j.before, e) => In(F.disk, e)
           /\ Done(F.disk, k, j.txn)
<1> DEFINE j == F.journal
           kd == k[j.txn]
<1> SUFFICES
      /\ \A x \in Txns \ {j.txn} :
           /\ \A f \in {"overview", "new"} : x \in Body(F.disk, f) <=> x \in Body(j.before, f)
           /\ ~Moves(kd) => \A f \in {"detail", "done"} :
                               x \in Body(F.disk, f) <=> x \in Body(j.before, f)
           /\ Moves(kd) => /\ x \notin Body(F.disk, "detail") /\ x \notin Body(j.before, "done")
                           /\ x \in Body(F.disk, "done") <=> x \in Body(j.before, "detail")
      /\ \A e \in q : In(j.before, e) => In(F.disk, e)
      /\ Done(F.disk, k, j.txn)
  OBVIOUS
<1>0. kd \in Kinds /\ j \in Journals /\ j = F.journal /\ j.txn \in Txns
  BY DEF Journals
<1>1. /\ "overview" \in Changed(kd) \ Moved(kd)
      /\ kd = "new" => /\ Changed(kd) = {"overview", "new"} /\ Moved(kd) = {} /\ ~Moves(kd)
      /\ kd = "claim" => Changed(kd) = {"overview", "detail"} /\ Moved(kd) = {} /\ ~Moves(kd)
      /\ kd = "archive" => Changed(kd) = {"overview"} /\ Moved(kd) = {"detail", "done"} /\ Moves(kd)
      /\ kd = "logbook" => /\ Changed(kd) = {"overview", "detail"}
                           /\ Moved(kd) = {"detail", "done"} /\ Moves(kd)
      /\ kd \in {"new", "claim", "archive", "logbook"}
      /\ Paths = {"overview", "detail", "new", "done"}
  BY <1>0, KindSets
<1>2. /\ ~In(j.before, j.txn)
      /\ kd # "new" => j.before["detail"] \in Bodies
      /\ Moves(kd) => j.before["done"] = Absent
      /\ Adds(kd, j.txn, j.before, j.after, q)
      /\ kd = "archive" => j.after["detail"] = j.before["detail"]
  BY DEF ImagesSound
<1>3. /\ \A f \in Changed(kd) \ Moved(kd) : New(F, f, q)
      /\ Moves(kd) => F.disk["detail"] = Absent /\ AtDone(F, q)
      /\ \A f \in Paths \ (Changed(kd) \cup Moved(kd)) : Old(F, f, q)
  BY DEF Finished
<1>4. \A f \in Changed(kd) : /\ \A x \in Txns : x \in Body(j.after, f) <=> (x = j.txn \/ x \in Body(j.before, f))
                             /\ \A e \in q : e \in Body(j.before, f) => e \in Body(j.after, f)
                             /\ j.after[f] \in Bodies
  <2>1. \A f \in Changed(kd) : Body(j.after, f) = j.after[f] /\ j.after[f] \in Bodies
    BY <1>2 DEF Adds, Body, Content
  <2>2. \A f \in Changed(kd) : j.after[f] \cap Txns = {j.txn} \cup (Body(j.before, f) \cap Txns)
    BY <1>2 DEF Adds
  <2>3. \A f \in Changed(kd) : Body(j.before, f) \cap q \subseteq j.after[f]
    BY <1>2 DEF Adds
  <2> QED
    BY <2>1, <2>2, <2>3, <1>0
<1>5. /\ \A f \in Paths : Old(F, f, q) =>
                /\ \A x \in Txns : x \in Body(F.disk, f) <=> x \in Body(j.before, f)
                /\ \A e \in q : e \in Body(j.before, f) => e \in Body(F.disk, f)
      /\ \A f \in Paths : New(F, f, q) =>
                /\ \A x \in Txns : x \in Body(F.disk, f) <=> x \in Body(j.after, f)
                /\ \A e \in q : e \in Body(j.after, f) => e \in Body(F.disk, f)
      /\ AtDone(F, q) =>
                /\ \A x \in Txns : x \in Body(F.disk, "done") <=> x \in Body(j.after, "detail")
                /\ \A e \in q : e \in Body(j.after, "detail") => e \in Body(F.disk, "done")
                /\ j.after["detail"] \in Bodies => F.disk["done"] \in Bodies
  BY Marks
<1>6. \A D : D["detail"] = Absent => Body(D, "detail") = {}
  BY NamesAssumption DEF Body, Content
<1>7. \A D : D["done"] = Absent => Body(D, "done") = {}
  BY NamesAssumption DEF Body, Content
<1>8. Moves(kd) => j.after["detail"] \in Bodies
  BY <1>1, <1>2, <1>4
<1>9. kd = "archive" => Body(j.after, "detail") = Body(j.before, "detail")
  BY <1>2 DEF Body
<1> HIDE DEF kd, j
<1>10. ASSUME NEW x \in Txns \ {j.txn}
       PROVE  /\ \A f \in {"overview", "new"} : x \in Body(F.disk, f) <=> x \in Body(j.before, f)
              /\ ~Moves(kd) => \A f \in {"detail", "done"} :
                                  x \in Body(F.disk, f) <=> x \in Body(j.before, f)
              /\ Moves(kd) => /\ x \notin Body(F.disk, "detail") /\ x \notin Body(j.before, "done")
                              /\ x \in Body(F.disk, "done") <=> x \in Body(j.before, "detail")
  BY <1>1, <1>2, <1>3, <1>4, <1>5, <1>6, <1>7, <1>9
<1>11. ASSUME NEW e \in q, NEW f \in Paths, e \in Body(j.before, f)
       PROVE  \E g \in Paths : e \in Body(F.disk, g)
  BY <1>1, <1>2, <1>3, <1>4, <1>5, <1>7, <1>9, <1>11
<1>12. Done(F.disk, k, j.txn)
  BY <1>0, <1>1, <1>3, <1>4, <1>5, <1>8 DEF Done, kd
<1> QED
  BY <1>10, <1>11, <1>12 DEF In

\* A finished transaction leaves a sound disk.
LEMMA FinishedSound ==
    ASSUME NEW F \in FileSystems, F.journal \in Journals, NEW k, NEW t, NEW q,
           k[F.journal.txn] \in Kinds, ImagesSound(F.journal, k, t, q),
           Finished(F, k[F.journal.txn], q), t[F.journal.txn] = None
    PROVE  /\ Sound(F.disk, k, t) /\ Done(F.disk, k, F.journal.txn)
           /\ \A e \in q : In(F.journal.before, e) => In(F.disk, e)
<1> DEFINE j == F.journal
           kd == k[j.txn]
           D == F.disk
           B == j.before
<1>0. kd \in Kinds /\ j.txn \in Txns /\ None # "done" /\ None # "rolled back" /\ None \notin Kinds
  BY NamesAssumption DEF Journals
<1>1. /\ \A x \in Txns \ {j.txn} :
           /\ \A f \in {"overview", "new"} : x \in Body(D, f) <=> x \in Body(B, f)
           /\ ~Moves(kd) => \A f \in {"detail", "done"} :
                               x \in Body(D, f) <=> x \in Body(B, f)
           /\ Moves(kd) => /\ x \notin Body(D, "detail") /\ x \notin Body(B, "done")
                           /\ x \in Body(D, "done") <=> x \in Body(B, "detail")
      /\ \A e \in q : In(B, e) => In(D, e)
      /\ Done(D, k, j.txn)
  BY FinishedMarks
<1>2. Paths = {"overview", "detail", "new", "done"}
  BY DEF Paths
<1>3. \A x \in Txns \ {j.txn} : In(D, x) <=> In(B, x)
  <2> TAKE x \in Txns \ {j.txn}
  <2>1. /\ x \in Body(D, "overview") <=> x \in Body(B, "overview")
        /\ x \in Body(D, "new") <=> x \in Body(B, "new")
        /\ (x \in Body(D, "detail") \/ x \in Body(D, "done"))
             <=> (x \in Body(B, "detail") \/ x \in Body(B, "done"))
    BY <1>1
  <2> QED
    BY <2>1, <1>2 DEF In
<1>4. /\ \A f \in Paths \ (Changed(kd) \cup Moved(kd)) : Old(F, f, q)
      /\ \A f \in Changed(kd) \ Moved(kd) : New(F, f, q)
      /\ \A f \in Changed(kd) : j.after[f] \in Bodies
      /\ kd # "new" => B["detail"] \in Bodies
  BY DEF Finished, ImagesSound, Adds
<1>5. /\ \A f \in Paths : Old(F, f, q) =>
                /\ B[f] \in Bodies => D[f] \in Bodies
                /\ f \notin {"new", "done"} => (D[f] = Absent <=> B[f] = Absent)
      /\ \A f \in Paths : New(F, f, q) => (j.after[f] \in Bodies => D[f] \in Bodies)
  BY Marks
<1>6. D["overview"] \in Bodies
  BY <1>0, <1>2, <1>4, <1>5, KindSets
<1>7. \A x \in Txns \ {j.txn} : Done(B, k, x) => Done(D, k, x)
  <2> TAKE x \in Txns \ {j.txn}
  <2> HAVE Done(B, k, x)
  <2>1. /\ x \in Body(D, "overview")
        /\ k[x] = "new" => x \in Body(D, "new")
        /\ k[x] \in {"claim", "logbook"} => x \in Body(D, "detail") \cup Body(D, "done")
    BY <1>1 DEF Done
  <2>2. ASSUME Moves(k[x]) PROVE D["detail"] = Absent /\ D["done"] \in Bodies
    <3>1. B["detail"] = Absent /\ B["done"] \in Bodies
      BY <2>2 DEF Done
    <3>2. kd = "new"
      BY <3>1, <1>4, NamesAssumption
    <3>3. Changed(kd) = {"overview", "new"} /\ Moved(kd) = {}
      BY <3>2, <1>0, KindSets
    <3>4. Old(F, "detail", q) /\ Old(F, "done", q)
      BY <3>3, <1>2, <1>4
    <3> QED
      BY <3>1, <3>4, <1>2, <1>5
  <2> QED
    BY <2>1, <2>2 DEF Done
<1>8. Sound(B, k, t) /\ ~In(B, j.txn)
  BY DEF ImagesSound
<1> HIDE DEF j, kd, D, B
<1>9. \A x \in Txns \ {j.txn} :
          /\ Done(D, k, x) \/ ~In(D, x)
          /\ t[x] = "done" => x \in Body(D, "overview")
          /\ t[x] = "rolled back" => ~In(D, x)
          /\ k[x] = None => ~In(D, x)
  <2> TAKE x \in Txns \ {j.txn}
  <2>1. /\ Done(B, k, x) \/ ~In(B, x)
        /\ t[x] = "done" => x \in Body(B, "overview")
        /\ t[x] = "rolled back" => ~In(B, x)
        /\ k[x] = None => ~In(B, x)
    BY <1>8 DEF Sound
  <2> QED
    BY <2>1, <1>1, <1>3, <1>7
<1>10. /\ Done(D, k, j.txn) /\ t[j.txn] = None /\ k[j.txn] # None
  BY <1>0, <1>1 DEF j, kd
<1>11. Sound(D, k, t)
  BY <1>0, <1>6, <1>9, <1>10 DEF Sound
<1> QED
  BY <1>1, <1>11 DEF D, B, j

\* Between the images a file shows nothing of the others but what was there.
LEMMA BetweenMarks ==
    ASSUME NEW F \in FileSystems, F.journal \in Journals, NEW k, NEW t, NEW q,
           k[F.journal.txn] \in Kinds, ImagesSound(F.journal, k, t, q),
           Between(F, k[F.journal.txn], q)
    PROVE  LET j == F.journal IN
           /\ \A x \in Txns \ {j.txn} :
                /\ In(F.disk, x) => In(j.before, x)
                /\ x \in Body(j.before, "overview") => x \in Body(F.disk, "overview")
           /\ \A e \in q : In(j.before, e) => In(F.disk, e)
<1> DEFINE j == F.journal
           kd == k[j.txn]
<1> SUFFICES
      /\ \A x \in Txns \ {j.txn} :
           /\ In(F.disk, x) => In(j.before, x)
           /\ x \in Body(j.before, "overview") => x \in Body(F.disk, "overview")
      /\ \A e \in q : In(j.before, e) => In(F.disk, e)
  OBVIOUS
<1>0. kd \in Kinds /\ j \in Journals /\ j = F.journal /\ j.txn \in Txns
  BY DEF Journals
<1>1. /\ "overview" \in Changed(kd) \ Moved(kd)
      /\ kd = "new" => /\ Changed(kd) = {"overview", "new"} /\ Moved(kd) = {} /\ ~Moves(kd)
      /\ kd = "claim" => Changed(kd) = {"overview", "detail"} /\ Moved(kd) = {} /\ ~Moves(kd)
      /\ kd = "archive" => Changed(kd) = {"overview"} /\ Moved(kd) = {"detail", "done"} /\ Moves(kd)
      /\ kd = "logbook" => /\ Changed(kd) = {"overview", "detail"}
                           /\ Moved(kd) = {"detail", "done"} /\ Moves(kd)
      /\ kd \in {"new", "claim", "archive", "logbook"}
      /\ Paths = {"overview", "detail", "new", "done"}
  BY <1>0, KindSets
<1>2. /\ kd = "new" => j.before["new"] = Absent
      /\ Moves(kd) => j.before["done"] = Absent
      /\ Adds(kd, j.txn, j.before, j.after, q)
      /\ kd = "archive" => j.after["detail"] = j.before["detail"]
      /\ j.before["overview"] \in Bodies
  BY DEF ImagesSound, Sound
<1>3. /\ \A f \in Paths \ (Changed(kd) \cup Moved(kd)) : Old(F, f, q)
      /\ \A f \in Changed(kd) \ Moved(kd) :
            Old(F, f, q) \/ New(F, f, q) \/ (f = "new" /\ F.disk[f] = Torn)
      /\ Moves(kd) =>
            /\ \/ Old(F, "detail", q) \/ New(F, "detail", q)
               \/ F.disk["detail"] = Absent /\ AtDone(F, q)
            /\ Old(F, "done", q) \/ AtDone(F, q)
  BY DEF Between
<1>4. \A f \in Changed(kd) : /\ \A x \in Txns : x \in Body(j.after, f) <=> (x = j.txn \/ x \in Body(j.before, f))
                             /\ \A e \in q : e \in Body(j.before, f) => e \in Body(j.after, f)
  <2>1. \A f \in Changed(kd) : Body(j.after, f) = j.after[f] /\ j.after[f] \in Bodies
    BY <1>2 DEF Adds, Body, Content
  <2>2. \A f \in Changed(kd) : j.after[f] \cap Txns = {j.txn} \cup (Body(j.before, f) \cap Txns)
    BY <1>2 DEF Adds
  <2>3. \A f \in Changed(kd) : Body(j.before, f) \cap q \subseteq j.after[f]
    BY <1>2 DEF Adds
  <2> QED
    BY <2>1, <2>2, <2>3, <1>0
<1>5. /\ \A f \in Paths : Old(F, f, q) =>
                /\ \A x \in Txns : x \in Body(F.disk, f) <=> x \in Body(j.before, f)
                /\ \A e \in q : e \in Body(j.before, f) => e \in Body(F.disk, f)
      /\ \A f \in Paths : New(F, f, q) =>
                /\ \A x \in Txns : x \in Body(F.disk, f) <=> x \in Body(j.after, f)
                /\ \A e \in q : e \in Body(j.after, f) => e \in Body(F.disk, f)
      /\ AtDone(F, q) =>
                /\ \A x \in Txns : x \in Body(F.disk, "done") <=> x \in Body(j.after, "detail")
                /\ \A e \in q : e \in Body(j.after, "detail") => e \in Body(F.disk, "done")
  BY Marks
<1>6. \A D, f : D[f] \in {Absent, Torn} => Body(D, f) = {}
  BY NamesAssumption DEF Body, Content
<1>7. kd = "archive" => Body(j.after, "detail") = Body(j.before, "detail")
  BY <1>2 DEF Body
<1> HIDE DEF kd, j
<1>8. ASSUME NEW x \in Txns \ {j.txn}, NEW f \in Paths, x \in Body(F.disk, f)
      PROVE  \E g \in Paths : x \in Body(j.before, g)
  <2>1. CASE f \in {"overview", "new"}
    BY <2>1, <1>1, <1>3, <1>4, <1>5, <1>6, <1>8
  <2>2. CASE f \in {"detail", "done"} /\ ~Moves(kd)
    BY <2>2, <1>1, <1>3, <1>4, <1>5, <1>6, <1>8
  <2>3. CASE f \in {"detail", "done"} /\ Moves(kd)
    BY <2>3, <1>1, <1>3, <1>4, <1>5, <1>6, <1>7, <1>8
  <2> QED
    BY <2>1, <2>2, <2>3, <1>1
<1>9. ASSUME NEW x \in Txns \ {j.txn}, x \in Body(j.before, "overview")
      PROVE  x \in Body(F.disk, "overview")
  BY <1>1, <1>3, <1>4, <1>5, <1>9
<1>10. ASSUME NEW e \in q, NEW f \in Paths, e \in Body(j.before, f)
       PROVE  \E g \in Paths : e \in Body(F.disk, g)
  <2>1. CASE f \in {"overview", "new"}
    BY <2>1, <1>1, <1>2, <1>3, <1>4, <1>5, <1>6, <1>10
  <2>2. CASE f \in {"detail", "done"} /\ ~Moves(kd)
    BY <2>2, <1>1, <1>2, <1>3, <1>4, <1>5, <1>6, <1>10
  <2>3. CASE f \in {"detail", "done"} /\ Moves(kd)
    BY <2>3, <1>1, <1>2, <1>3, <1>4, <1>5, <1>6, <1>7, <1>10
  <2> QED
    BY <2>1, <2>2, <2>3, <1>1
<1> QED
  BY <1>8, <1>9, <1>10 DEF In

\* What the invariant says of a disk without a journal, and with one.
LEMMA WhatIsThere ==
    ASSUME NEW F, NEW O, NEW k, NEW t, NEW q, NEW r, Good(F, O, k, t, q, r)
    PROVE  /\ F.journal = None => Sound(F.disk, k, t)
           /\ \A x \in Txns : /\ t[x] = "done" => x \in Body(F.disk, "overview")
                              /\ t[x] = "rolled back" => ~In(F.disk, x)
           /\ \A e \in q : In(F.disk, e)
<1>1. /\ F \in FileSystems /\ k \in [Txns -> Kinds \cup {None}]
      /\ OnDisk(F, O, k, t, q) /\ Owned(F, O, k, t) /\ Kept(F, O, k, q)
  BY DEF Good, Typed, Histories
<1>2. CASE F.journal = None
  <2>1. Sound(F.disk, k, t)
    BY <1>1, <1>2 DEF OnDisk
  <2> QED
    BY <1>1, <1>2, <2>1 DEF Sound, Kept
<1>3. CASE F.journal # None
  <2> DEFINE j == F.journal
  <2>1. j \in Journals /\ j.txn \in Txns /\ j.phase \in {"prepared", "committed"}
    BY <1>1, <1>3 DEF FileSystems, Journals
  <2>2. /\ k[j.txn] \in Kinds /\ t[j.txn] # "done" /\ (j.phase = "committed" => t[j.txn] = None)
        /\ ImagesSound(j, k, t, q)
        /\ j.phase = "committed" => Finished(F, k[j.txn], q)
        /\ j.phase # "committed" => Between(F, k[j.txn], q)
        /\ t[j.txn] = "rolled back" => AllOld(F, q)
    BY <1>1, <1>3 DEF Owned, OnDisk
  <2>3. Sound(j.before, k, t) /\ ~In(j.before, j.txn)
    BY <2>2 DEF ImagesSound
  <2>4. CASE j.phase = "committed"
    <3>1. /\ Sound(F.disk, k, t) /\ \A e \in q : In(j.before, e) => In(F.disk, e)
      BY <1>1, <2>1, <2>2, <2>4, FinishedSound
    <3>2. \A e \in q : In(F.disk, e)
      BY <1>1, <2>4 DEF Kept
    <3> QED
      BY <1>3, <3>1, <3>2 DEF Sound
  <2>5. CASE j.phase # "committed"
    <3>1. /\ \A x \in Txns \ {j.txn} :
                /\ In(F.disk, x) => In(j.before, x)
                /\ x \in Body(j.before, "overview") => x \in Body(F.disk, "overview")
          /\ \A e \in q : In(j.before, e) => In(F.disk, e)
      BY <1>1, <2>1, <2>2, <2>5, BetweenMarks
    <3>2. \A x \in Txns \ {j.txn} : /\ t[x] = "done" => x \in Body(F.disk, "overview")
                                    /\ t[x] = "rolled back" => ~In(F.disk, x)
      BY <2>3, <3>1 DEF Sound
    <3>3. t[j.txn] = "rolled back" => ~In(F.disk, j.txn)
      <4> SUFFICES ASSUME AllOld(F, q) PROVE ~In(F.disk, j.txn)
        BY <2>2
      <4>1. \A f \in Paths : j.txn \in Body(F.disk, f) <=> j.txn \in Body(j.before, f)
        BY <1>1, <2>1, Marks DEF AllOld
      <4> QED
        BY <4>1, <2>3 DEF In
    <3>4. \A e \in q : In(F.disk, e)
      BY <1>1, <1>3, <2>5, <3>1 DEF Kept, Foreign, In
    <3> QED
      BY <1>3, <2>2, <3>2, <3>3, <3>4
  <2> QED
    BY <2>4, <2>5
<1> QED
  BY <1>2, <1>3

\* Holds and Body speak of the same files.
LEMMA BodiesHeld ==
    ASSUME fs \in FileSystems
    PROVE  /\ \A f \in Paths : Holds(f) <=> fs.disk[f] \in Bodies
           /\ \A f \in Paths : \A x : x \in Body(fs.disk, f) <=> (Holds(f) /\ x \in fs.disk[f])
           /\ \A x : Somewhere(x) <=> In(fs.disk, x)
<1>1. \A f \in Paths : fs.disk[f] \in Bodies \cup {Absent, Torn}
  BY DEF FileSystems, Disks
<1>2. \A f \in Paths : Holds(f) <=> fs.disk[f] \in Bodies
  BY <1>1, NamesAssumption DEF Holds
<1>3. \A f \in Paths : \A x : x \in Body(fs.disk, f) <=> (Holds(f) /\ x \in fs.disk[f])
  BY <1>2 DEF Body, Content
<1> QED
  BY <1>2, <1>3 DEF Somewhere, In

\* The invariant and what the runs check of a command.
LEMMA TaskInvMeans == TaskInv => AllOrNothing /\ OutcomesHold /\ EditsKept
<1> SUFFICES ASSUME TaskInv PROVE AllOrNothing /\ OutcomesHold /\ EditsKept
  OBVIOUS
<1>1. /\ fs \in FileSystems /\ J = fs.journal
      /\ fs.journal = None => Sound(fs.disk, kind, told)
      /\ \A x \in Txns : /\ told[x] = "done" => x \in Body(fs.disk, "overview")
                         /\ told[x] = "rolled back" => ~In(fs.disk, x)
      /\ \A e \in quiet : In(fs.disk, e)
  BY WhatIsThere DEF TaskInv, Good, Typed, J
<1>2. /\ \A f \in Paths : Holds(f) <=> fs.disk[f] \in Bodies
      /\ \A f \in Paths : \A x : x \in Body(fs.disk, f) <=> (Holds(f) /\ x \in fs.disk[f])
      /\ \A x : Somewhere(x) <=> In(fs.disk, x)
  BY <1>1, BodiesHeld
<1>3. Paths = {"overview", "detail", "new", "done"}
  BY DEF Paths
<1>4. \A x \in Txns : Done(fs.disk, kind, x) => Applied(x)
  BY <1>2, <1>3 DEF Done, Applied
<1>5. AllOrNothing
  BY <1>1, <1>2, <1>4 DEF AllOrNothing, Sound
<1>6. OutcomesHold
  BY <1>1, <1>2, <1>3 DEF OutcomesHold, In
<1> QED
  BY <1>1, <1>2, <1>5, <1>6 DEF EditsKept
--------------------------------------------------------------------------------
(* Steps.                                                                  *)

\* The words that the state keeps are different from None.
LEMMA Words ==
    /\ None \notin {"done", "rolled back", "publish", "commit", "recover"}
    /\ None \notin Kinds /\ None \notin Txns /\ Absent \notin Txns /\ None \notin Journals
    /\ Absent # None /\ Absent \notin Bodies /\ Torn \notin Bodies /\ Txns \cap Edits = {}
BY NamesAssumption

\* No command holds the lock: a command may die wherever it is.
LEMMA IdleGood ==
    ASSUME NEW F, NEW O, NEW k, NEW t, NEW q, NEW r, Good(F, O, k, t, q, r)
    PROVE  Good(F, Idle, k, t, q, r)
<1>0. Typed(F, O) /\ Histories(k, t, q, r) /\ Owned(F, O, k, t)
      /\ OnDisk(F, O, k, t, q) /\ Made(F, O, q, r) /\ Kept(F, O, k, q)
  BY DEF Good
<1>1. /\ Idle.at = "idle" /\ Idle.after = NoFiles /\ Idle.cause = None
      /\ Idle.txn = None /\ Idle.i = 1
  BY DEF Idle, Command
<1>2. Typed(F, Idle)
  <2>1. NoFiles \in Disks
    BY DEF NoFiles, Disks
  <2> QED
    BY <1>0, <2>1 DEF Typed, Idle, Command, Commands, Labels
<1>3. Control(F, Idle, k, t)
  BY <1>1 DEF Control, Publishing, Undoing
<1>4. Owned(F, Idle, k, t)
  BY <1>0, <1>1 DEF Owned
<1>5. OnDisk(F, Idle, k, t, q)
  BY <1>0, <1>1 DEF OnDisk
<1>6. Progress(F, Idle, k, t, q)
  BY <1>1 DEF Progress
<1>7. Made(F, Idle, q, r)
  <2>1. EditsOf(NoFiles, q, r)
    BY NamesAssumption DEF EditsOf, Body, Content, NoFiles
  <2> QED
    BY <1>0, <1>1, <2>1 DEF Made
<1>8. Kept(F, Idle, k, q)
  BY <1>0, <1>1 DEF Kept, Foreign
<1> QED
  BY <1>0, <1>2, <1>3, <1>4, <1>5, <1>6, <1>7, <1>8 DEF Good

\* A command that publishes turns to the rollback, wherever it is.
LEMMA RollBackGood ==
    ASSUME NEW F, NEW O, NEW k, NEW t, NEW q, NEW r, Good(F, O, k, t, q, r),
           O.at \in Publishing, NEW by \in {"publish", "commit"}
    PROVE  Good(F, Cmd(O, "roll_back", 1, by), k, t, q, r)
<1> DEFINE P == Cmd(O, "roll_back", 1, by)
<1>0. Typed(F, O) /\ Histories(k, t, q, r) /\ Control(F, O, k, t) /\ Owned(F, O, k, t)
      /\ OnDisk(F, O, k, t, q) /\ Made(F, O, q, r) /\ Kept(F, O, k, q)
  BY DEF Good
<1>1. /\ P.at = "roll_back" /\ P.after = O.after /\ P.cause = by /\ P.txn = O.txn /\ P.i = 1
  BY DEF Cmd
<1>2. Typed(F, P)
  BY <1>0 DEF Typed, Cmd, Commands, Labels, Undoing
<1> HIDE DEF P
<1>3. Control(F, P, k, t)
  <2>1. /\ O.txn \in Txns /\ k[O.txn] \in Kinds /\ O.cause = None
        /\ F.journal # None /\ F.journal.txn = O.txn /\ F.journal.phase = "prepared"
        /\ O.at # "idle" /\ O.at # "prepare"
    BY <1>0 DEF Control, Publishing
  <2>2. t[O.txn] = None
    BY <1>0, <2>1, Words DEF Control
  <2> QED
    BY <1>1, <2>1, <2>2, Words DEF Control, Publishing, Undoing
<1>4. Owned(F, P, k, t)
  BY <1>0, <1>1 DEF Owned
<1>5. OnDisk(F, P, k, t, q)
  BY <1>0, <1>1 DEF OnDisk
<1>6. Progress(F, P, k, t, q)
  BY <1>1 DEF Progress
<1>7. Made(F, P, q, r)
  BY <1>0, <1>1 DEF Made
<1>8. Kept(F, P, k, q)
  BY <1>0, <1>1 DEF Kept, Foreign
<1> QED
  BY <1>0, <1>2, <1>3, <1>4, <1>5, <1>6, <1>7, <1>8 DEF Good, P

\* A change of the disk keeps the invariant when it does wherever it succeeds
\* or fails: the command goes on, turns to the rollback or is gone.
LEMMA ChangeKeeps ==
    ASSUME TaskInv, NEW G, NEW P, NEW Q, Change(G, P, Q),
           Good(G, P, kind, told, quiet, raced),
           Good(G, Q, kind, told, quiet, raced), Good(fs, Q, kind, told, quiet, raced)
    PROVE  TaskInv'
<1>1. Good(fs, Idle, kind, told, quiet, raced) /\ Good(G, Idle, kind, told, quiet, raced)
  BY IdleGood DEF TaskInv
<1>2. fs' \in {fs, G} /\ op' \in {P, Q, Idle} /\ (op' = P => fs' = G \/ P \in {Q, Idle})
      /\ kind' = kind /\ told' = told /\ quiet' = quiet /\ raced' = raced
  BY DEF Change
<1>3. Good(fs', op', kind, told, quiet, raced)
  BY <1>1, <1>2
<1> QED
  BY <1>2, <1>3 DEF TaskInv

\* Where a command may go on, and with which cause.
Leads(O, l, n, c, kd) ==
    /\ O.at \in Publishing \cup (Undoing \ {"roll_back"}) /\ n \in {1, 2}
    /\ \/ l \in Publishing /\ c = O.cause /\ O.cause = None
       \/ l \in Undoing /\ c = O.cause /\ O.cause # None
       \/ O.at \in Publishing /\ l \in Undoing /\ c \in {"publish", "commit"}
    /\ l = "write" /\ n = 2 => kd # "archive"
    /\ l = "fill" => kd = "new" /\ n = 2
    /\ l \in {"link", "linked", "unlink", "move_back", "linked_back", "unlink_back"} => Moves(kd)

\* What a step leaves alone: the journal and the files of no concern to it.
Concerns(F, G, kd) ==
    /\ G \in FileSystems /\ G.journal = F.journal
    /\ \A f \in Paths \ (Changed(kd) \cup Moved(kd)) : G.disk[f] = F.disk[f]

\* A step of a publication or of a rollback. What it must show is what is on
\* the disk afterwards, and that its next place is one that its kind of
\* command has.
LEMMA WorkStep ==
    ASSUME NEW F, NEW O, NEW k, NEW t, NEW q, NEW r, Good(F, O, k, t, q, r),
           NEW l, NEW n, NEW c, Leads(O, l, n, c, k[O.txn]),
           NEW G, Concerns(F, G, k[O.txn]),
           EditsOf(G.disk, q, r),
           Owned(G, Cmd(O, l, n, c), k, t),
           Between(G, k[O.txn], q),
           t[O.txn] = "rolled back" => AllOld(G, q) /\ l \notin {"linked_back", "unlink_back"},
           Progress(G, Cmd(O, l, n, c), k, t, q)
    PROVE  Good(G, Cmd(O, l, n, c), k, t, q, r)
<1> DEFINE P == Cmd(O, l, n, c)
<1>0. Typed(F, O) /\ Histories(k, t, q, r) /\ Control(F, O, k, t)
      /\ OnDisk(F, O, k, t, q) /\ Made(F, O, q, r) /\ Kept(F, O, k, q)
  BY DEF Good
<1>a. /\ O.at \in Publishing \cup (Undoing \ {"roll_back"}) /\ n \in {1, 2}
      /\ \/ l \in Publishing /\ c = O.cause /\ O.cause = None
         \/ l \in Undoing /\ c = O.cause /\ O.cause # None
         \/ O.at \in Publishing /\ l \in Undoing /\ c \in {"publish", "commit"}
      /\ l = "write" /\ n = 2 => k[O.txn] # "archive"
      /\ l = "fill" => k[O.txn] = "new" /\ n = 2
      /\ l \in {"link", "linked", "unlink", "move_back", "linked_back", "unlink_back"}
            => Moves(k[O.txn])
  BY DEF Leads
<1>b. /\ G \in FileSystems /\ G.journal = F.journal
      /\ \A f \in Paths \ (Changed(k[O.txn]) \cup Moved(k[O.txn])) : G.disk[f] = F.disk[f]
  BY DEF Concerns
<1>1. /\ P.at = l /\ P.after = O.after /\ P.cause = c /\ P.txn = O.txn /\ P.i = n
  BY DEF Cmd
<1>2. /\ O.txn \in Txns /\ k[O.txn] \in Kinds
      /\ F.journal # None /\ F.journal.txn = O.txn /\ F.journal.phase = "prepared"
      /\ O.at # "idle"
  BY <1>a, <1>b, <1>0 DEF Control, Publishing, Undoing
<1>3. Typed(G, P)
  <2>1. l \in Labels /\ c \in {None, "publish", "commit", "recover"}
    BY <1>a, <1>b, <1>0 DEF Labels, Typed, Commands
  <2> QED
    BY <1>a, <1>b, <1>0, <2>1 DEF Typed, Cmd, Commands
<1>4. Control(G, P, k, t)
  <2>1. c # "recover" => O.cause # "recover"
    BY <1>a, <1>b, <1>0, Words DEF Control
  <2>2. c # "recover" => t[O.txn] = None
    BY <1>a, <1>b, <1>0, <1>2, <2>1 DEF Control
  <2>3. l \in Publishing \cup Undoing /\ (l \in Publishing => c = None) /\ (l \in Undoing => c # None)
    BY <1>a, Words DEF Publishing, Undoing
  <2>4. /\ l \notin {"idle", "prepare", "report", "unmark", "forget", "report_rolled"}
    BY <2>3 DEF Publishing, Undoing
  <2> HIDE DEF P
  <2> QED
    BY <1>a, <1>b, <1>1, <1>2, <2>2, <2>3, <2>4 DEF Control
<1>5. OnDisk(G, P, k, t, q)
  <2>1. ImagesSound(F.journal, k, t, q)
    BY <1>a, <1>b, <1>0, <1>2 DEF OnDisk
  <2> HIDE DEF P
  <2>2. F.journal.phase # "committed"
    BY <1>2
  <2> QED
    BY <1>a, <1>b, <1>1, <1>2, <2>1, <2>2 DEF OnDisk
<1> HIDE DEF P
<1>6. Made(G, P, q, r)
  BY <1>a, <1>b, <1>0, <1>1 DEF Made
<1>7. Kept(G, P, k, q)
  <2>1. O.at \notin {"idle", "roll_back"}
    BY <1>a DEF Publishing, Undoing
  <2>2. F.journal.phase # "committed"
    BY <1>2
  <2>3. \A e \in q : \/ In(F.journal.before, e)
                     \/ \E f \in Paths \ (Changed(k[O.txn]) \cup Moved(k[O.txn])) : e \in Body(F.disk, f)
    BY <1>a, <1>b, <1>0, <1>2, <2>1, <2>2 DEF Kept, Foreign
  <2>4. \A e \in q : \/ In(G.journal.before, e)
                     \/ \E f \in Paths \ (Changed(k[O.txn]) \cup Moved(k[O.txn])) : e \in Body(G.disk, f)
    BY <1>b, <2>3 DEF Body
  <2> QED
    BY <1>b, <1>2, <2>2, <2>4 DEF Kept
<1> QED
  BY <1>a, <1>b, <1>0, <1>3, <1>4, <1>5, <1>6, <1>7 DEF Good, P

\* What every publishing or undoing command knows of its journal.
LEMMA AtWork ==
    ASSUME TaskInv, op.at \in Publishing \cup Undoing
    PROVE  /\ fs \in FileSystems /\ op \in Commands /\ J = fs.journal /\ Kind = kind[op.txn]
           /\ J \in Journals /\ J.txn = op.txn /\ op.txn \in Txns /\ J.phase = "prepared"
           /\ Kind \in Kinds /\ op.at # "idle"
           /\ op.at \in Publishing => op.cause = None /\ told[op.txn] = None
           /\ op.at \in Undoing => op.cause # None
           /\ ImagesSound(J, kind, told, quiet) /\ Between(fs, Kind, quiet)
           /\ EditsOf(fs.disk, quiet, raced)
           /\ EditsOf(J.before, quiet, raced) /\ EditsOf(J.after, quiet, raced)
           /\ Owned(fs, op, kind, told) /\ Progress(fs, op, kind, told, quiet)
           /\ told[op.txn] = "rolled back"
                => AllOld(fs, quiet) /\ op.at \notin {"linked_back", "unlink_back"}
<1>1. /\ Typed(fs, op) /\ Control(fs, op, kind, told) /\ Owned(fs, op, kind, told)
      /\ OnDisk(fs, op, kind, told, quiet) /\ Made(fs, op, quiet, raced)
      /\ Progress(fs, op, kind, told, quiet)
  BY DEF TaskInv, Good
<1>2. /\ op.txn \in Txns /\ fs.journal # None /\ fs.journal.txn = op.txn
      /\ fs.journal.phase = "prepared" /\ kind[op.txn] \in Kinds /\ op.at # "idle"
      /\ op.at \in Publishing => op.cause = None
      /\ op.at \in Undoing => op.cause # None
  BY <1>1 DEF Control, Publishing, Undoing
<1>3. op.at \in Publishing => told[op.txn] = None
  BY <1>1, <1>2, Words DEF Control
<1>4. /\ fs \in FileSystems /\ op \in Commands /\ fs.journal \in Journals
  BY <1>1, <1>2 DEF Typed, FileSystems
<1>5. J = fs.journal /\ Kind = kind[op.txn]
  BY <1>2 DEF J, Kind
<1>6. /\ ImagesSound(fs.journal, kind, told, quiet) /\ Between(fs, kind[op.txn], quiet)
      /\ told[op.txn] = "rolled back"
                => AllOld(fs, quiet) /\ op.at \notin {"linked_back", "unlink_back"}
  <2>1. fs.journal.phase # "committed"
    BY <1>2
  <2> QED
    BY <1>1, <1>2, <2>1 DEF OnDisk
<1>7. /\ EditsOf(fs.disk, quiet, raced)
      /\ EditsOf(fs.journal.before, quiet, raced) /\ EditsOf(fs.journal.after, quiet, raced)
  BY <1>1, <1>2 DEF Made
<1> QED
  BY <1>1, <1>2, <1>3, <1>4, <1>5, <1>6, <1>7

\* The two changes of the command's place, for the command that holds the lock.
LEMMA TurnsBack ==
    ASSUME TaskInv, op.at \in Publishing, NEW by \in {"publish", "commit"}
    PROVE  /\ RollBack(by) = Cmd(op, "roll_back", 1, by)
           /\ Good(fs, RollBack(by), kind, told, quiet, raced)
<1>1. op \in Commands
  BY DEF TaskInv, Good, Typed
<1>2. RollBack(by) = Cmd(op, "roll_back", 1, by)
  BY <1>1, Labelled
<1> QED
  BY <1>2, RollBackGood DEF TaskInv

\* A step of the command that holds the lock.
LEMMA OpStep ==
    ASSUME TaskInv, NEW l, NEW n, NEW c, Leads(op, l, n, c, Kind),
           NEW G, Concerns(fs, G, Kind), EditsOf(G.disk, quiet, raced),
           Owned(G, Cmd(op, l, n, c), kind, told), Between(G, Kind, quiet),
           op.at \in Publishing
             \/ (told[op.txn] = "rolled back"
                    => AllOld(G, quiet) /\ l \notin {"linked_back", "unlink_back"}),
           Progress(G, Cmd(op, l, n, c), kind, told, quiet)
    PROVE  Good(G, Cmd(op, l, n, c), kind, told, quiet, raced)
<1>1. op.at \in Publishing \cup Undoing
  BY DEF Leads
<1>2. Kind = kind[op.txn] /\ (op.at \in Publishing => told[op.txn] = None)
  BY <1>1, AtWork
<1>3. None # "rolled back"
  BY Words
<1>4. told[op.txn] = "rolled back" => AllOld(G, quiet) /\ l \notin {"linked_back", "unlink_back"}
  BY <1>2, <1>3
<1>5. Good(fs, op, kind, told, quiet, raced)
  BY DEF TaskInv
<1>6. Leads(op, l, n, c, kind[op.txn]) /\ Concerns(fs, G, kind[op.txn])
      /\ Between(G, kind[op.txn], quiet)
  BY <1>2
<1> QED
  BY <1>4, <1>5, <1>6, WorkStep

\* A change of a publication that goes on, turns to the rollback or dies.
LEMMA PublishChange ==
    ASSUME TaskInv, op.at \in Publishing, NEW l \in Publishing, NEW n, NEW P,
           P = Cmd(op, l, n, op.cause),
           NEW G, Change(G, P, RollBack("publish")), Good(G, P, kind, told, quiet, raced)
    PROVE  TaskInv'
<1>1. /\ RollBack("publish") = Cmd(op, "roll_back", 1, "publish")
      /\ Good(fs, RollBack("publish"), kind, told, quiet, raced)
  BY TurnsBack
<1>2. P.at \in Publishing /\ Cmd(P, "roll_back", 1, "publish") = Cmd(op, "roll_back", 1, "publish")
  BY DEF Cmd
<1>3. Good(G, RollBack("publish"), kind, told, quiet, raced)
  BY <1>1, <1>2, RollBackGood
<1> QED
  BY <1>1, <1>3, ChangeKeeps

\* A step that only decides.
LEMMA DecisionKeeps ==
    ASSUME NEW P, Goto(P), Good(fs, P, kind, told, quiet, raced)
    PROVE  TaskInv'
BY DEF Goto, TaskInv

\* The stages are of the disk and the journal.
LEMMA SameDisk ==
    ASSUME NEW F, NEW G, G.disk = F.disk, NEW q,
           G.journal.before = F.journal.before, G.journal.after = F.journal.after
    PROVE  /\ AllOld(F, q) => AllOld(G, q)
           /\ \A kd : /\ Between(F, kd, q) => Between(G, kd, q)
                      /\ Finished(F, kd, q) => Finished(G, kd, q)
                      /\ \A n : Staged(F, kd, n, q) => Staged(G, kd, n, q)
<1>1. \A f : (Old(F, f, q) <=> Old(G, f, q)) /\ (New(F, f, q) <=> New(G, f, q))
  BY DEF Old, New
<1>2. AtDone(F, q) <=> AtDone(G, q)
  BY DEF AtDone
<1>3. AllOld(F, q) => AllOld(G, q)
  BY <1>1 DEF AllOld
<1>4. \A kd : Between(F, kd, q) => Between(G, kd, q)
  BY <1>1, <1>2 DEF Between
<1>5. \A kd : Finished(F, kd, q) => Finished(G, kd, q)
  BY <1>1, <1>2 DEF Finished
<1>6. \A kd, n : Staged(F, kd, n, q) => Staged(G, kd, n, q)
  BY <1>1 DEF Staged
<1> QED
  BY <1>3, <1>4, <1>5, <1>6

\* One file is changed: no edits come with it but those that were made.
LEMMA EditsStay ==
    ASSUME NEW D \in Disks, NEW q, NEW r, EditsOf(D, q, r), NEW f \in Paths, NEW b, NEW E,
           E = With(D, f, b), Content(b) \cap Edits \subseteq q \cup r
    PROVE  EditsOf(E, q, r)
<1>1. \A g \in Paths : E[g] = IF g = f THEN b ELSE D[g]
  BY DEF Disks, With
<1> QED
  BY <1>1 DEF EditsOf, Body

\* The check before the publication.
LEMMA CheckPublishKeeps == TaskInv /\ CheckPublish => TaskInv'
<1> SUFFICES ASSUME TaskInv, CheckPublish PROVE TaskInv'
  OBVIOUS
<1>0. op.at = "check" /\ op.at \in Publishing
  BY DEF CheckPublish, Publishing
<1>1. /\ fs \in FileSystems /\ op \in Commands /\ J = fs.journal /\ Kind = kind[op.txn]
      /\ J \in Journals /\ op.cause = None /\ told[op.txn] = None
      /\ Between(fs, Kind, quiet) /\ EditsOf(fs.disk, quiet, raced)
      /\ Owned(fs, op, kind, told) /\ Progress(fs, op, kind, told, quiet)
  BY <1>0, AtWork
<1>2. AllOld(fs, quiet)
  BY <1>0, <1>1 DEF Progress
<1>3. /\ UNCHANGED <<fs, kind, told, quiet, raced>>
      /\ \/ op' = At("mkdir") /\ J.owns
         \/ op' = At("write")
         \/ op' = RollBack("publish")
  BY DEF CheckPublish, Goto
<1>4. CASE op' = RollBack("publish")
  BY <1>0, <1>3, <1>4, TurnsBack DEF TaskInv
<1>5. ASSUME NEW l \in {"mkdir", "write"}, op' = At(l), l = "mkdir" => J.owns
      PROVE  TaskInv'
  <2>1. op' = Cmd(op, l, 1, op.cause)
    BY <1>1, <1>5, Labelled
  <2> DEFINE P == Cmd(op, l, 1, op.cause)
  <2>2. P.at = l /\ P.txn = op.txn /\ P.i = 1
    BY DEF Cmd
  <2>3. l \in Publishing /\ l \notin {"link", "linked", "unlink", "move_back", "linked_back", "unlink_back", "fill"}
    BY DEF Publishing
  <2> HIDE DEF P
  <2>4. Owned(fs, P, kind, told)
    BY <1>0, <1>1, <1>5, <2>2 DEF Owned
  <2>5. Staged(fs, kind[op.txn], 0, quiet)
    BY <1>2 DEF AllOld, Staged
  <2>6. Progress(fs, P, kind, told, quiet)
    BY <1>2, <2>2, <2>5 DEF Progress
  <2>7. Leads(op, l, 1, op.cause, Kind)
    BY <1>0, <1>1, <2>3 DEF Leads
  <2>8. Concerns(fs, fs, Kind)
    BY <1>1 DEF Concerns
  <2>9. Good(fs, P, kind, told, quiet, raced)
    BY <1>0, <1>1, <2>4, <2>6, <2>7, <2>8, OpStep DEF P
  <2> QED
    BY <1>3, <2>1, <2>9 DEF TaskInv, P
<1> QED
  BY <1>3, <1>4, <1>5

\* The archive's directory is created.
LEMMA MakeDirectoryKeeps == TaskInv /\ MakeDirectory => TaskInv'
<1> SUFFICES ASSUME TaskInv, MakeDirectory PROVE TaskInv'
  OBVIOUS
<1>0. op.at = "mkdir" /\ op.at \in Publishing
  BY DEF MakeDirectory, Publishing
<1>1. /\ fs \in FileSystems /\ op \in Commands /\ J = fs.journal /\ Kind = kind[op.txn]
      /\ J \in Journals /\ op.cause = None
      /\ Between(fs, Kind, quiet) /\ EditsOf(fs.disk, quiet, raced)
      /\ Owned(fs, op, kind, told) /\ Progress(fs, op, kind, told, quiet)
  BY <1>0, AtWork
<1>2. AllOld(fs, quiet)
  BY <1>0, <1>1 DEF Progress
<1>3. CASE fs.dir # Absent
  BY <1>0, <1>3, TurnsBack, DecisionKeeps DEF MakeDirectory
<1>4. CASE fs.dir = Absent
  <2> DEFINE P == Cmd(op, "mark", 1, op.cause)
             G == Sys(fs.disk, fs.linked, None, fs.journal)
  <2>1. Change(G, P, RollBack("publish"))
    BY <1>1, <1>4, Labelled, Replaced DEF MakeDirectory
  <2>2. /\ G.disk = fs.disk /\ G.linked = fs.linked /\ G.dir = None /\ G.journal = fs.journal
        /\ G \in FileSystems
    BY <1>1 DEF Sys, FileSystems
  <2>3. P.at = "mark" /\ P.txn = op.txn /\ P.i = 1
    BY DEF Cmd
  <2>4. Leads(op, "mark", 1, op.cause, Kind)
    BY <1>0, <1>1 DEF Leads, Publishing
  <2> HIDE DEF P, G
  <2>5. Owned(G, P, kind, told)
    BY <1>0, <1>1, <2>2, <2>3, Words DEF Owned
  <2>6. AllOld(G, quiet) /\ Between(G, Kind, quiet) /\ Concerns(fs, G, Kind)
    BY <1>1, <1>2, <2>2, SameDisk DEF Concerns
  <2>7. Progress(G, P, kind, told, quiet)
    BY <2>3, <2>6 DEF Progress
  <2>8. Good(G, P, kind, told, quiet, raced)
    BY <1>0, <1>1, <2>2, <2>4, <2>5, <2>6, <2>7, OpStep DEF P
  <2> QED
    BY <1>0, <2>1, <2>8, PublishChange DEF P, Publishing
<1> QED
  BY <1>3, <1>4

\* Its marker is written; when that fails the directory is removed, or stays.
LEMMA MarkDirectoryKeeps == TaskInv /\ MarkDirectory => TaskInv'
<1> SUFFICES ASSUME TaskInv, MarkDirectory PROVE TaskInv'
  OBVIOUS
<1>0. op.at = "mark" /\ op.at \in Publishing
  BY DEF MarkDirectory, Publishing
<1>1. /\ fs \in FileSystems /\ op \in Commands /\ J = fs.journal /\ Kind = kind[op.txn]
      /\ J \in Journals /\ op.cause = None /\ J.txn \in Txns
      /\ Between(fs, Kind, quiet) /\ EditsOf(fs.disk, quiet, raced)
      /\ Owned(fs, op, kind, told) /\ Progress(fs, op, kind, told, quiet)
  BY <1>0, AtWork
<1>2. AllOld(fs, quiet) /\ J.owns
  BY <1>0, <1>1 DEF Progress, Owned
<1>3. CASE Change([fs EXCEPT !.dir = J.txn], At("write"), RollBack("publish"))
  <2> DEFINE P == Cmd(op, "write", 1, op.cause)
             G == Sys(fs.disk, fs.linked, J.txn, fs.journal)
  <2>1. Change(G, P, RollBack("publish"))
    BY <1>1, <1>3, Labelled, Replaced
  <2>2. /\ G.disk = fs.disk /\ G.linked = fs.linked /\ G.dir = J.txn /\ G.journal = fs.journal
        /\ G \in FileSystems
    BY <1>1 DEF Sys, FileSystems
  <2>3. P.at = "write" /\ P.txn = op.txn /\ P.i = 1
    BY DEF Cmd
  <2>4. Leads(op, "write", 1, op.cause, Kind)
    BY <1>0, <1>1 DEF Leads, Publishing
  <2> HIDE DEF P, G
  <2>5. Owned(G, P, kind, told)
    BY <1>0, <1>1, <1>2, <2>2, <2>3, Words DEF Owned
  <2>6. AllOld(G, quiet) /\ Between(G, Kind, quiet) /\ Concerns(fs, G, Kind)
    BY <1>1, <1>2, <2>2, SameDisk DEF Concerns
  <2>7. Staged(G, kind[op.txn], 0, quiet)
    BY <2>6 DEF AllOld, Staged
  <2>8. Progress(G, P, kind, told, quiet)
    BY <2>3, <2>7 DEF Progress
  <2>9. Good(G, P, kind, told, quiet, raced)
    BY <1>0, <1>1, <2>2, <2>4, <2>5, <2>6, <2>8, OpStep DEF P
  <2> QED
    BY <1>0, <2>1, <2>9, PublishChange DEF P, Publishing
<1>4. ASSUME NEW d \in {Absent, fs.dir}, fs' = [fs EXCEPT !.dir = d], op' = RollBack("publish"),
             UNCHANGED <<reader, kind, told, quiet, raced>>
      PROVE  TaskInv'
  <2> DEFINE P == Cmd(op, "roll_back", 1, "publish")
             G == Sys(fs.disk, fs.linked, d, fs.journal)
  <2>1. fs' = G /\ op' = P
    BY <1>1, <1>4, Labelled, Replaced
  <2>2. /\ G.disk = fs.disk /\ G.linked = fs.linked /\ G.dir = d /\ G.journal = fs.journal
        /\ G \in FileSystems
    BY <1>1 DEF Sys, FileSystems
  <2>3. P.at = "roll_back" /\ P.txn = op.txn /\ P.i = 1
    BY DEF Cmd
  <2>4. Leads(op, "roll_back", 1, "publish", Kind)
    BY <1>0 DEF Leads, Publishing, Undoing
  <2> HIDE DEF P, G
  <2>5. Owned(G, P, kind, told)
    BY <1>0, <1>1, <2>2, <2>3, Words DEF Owned
  <2>6. Between(G, Kind, quiet) /\ Concerns(fs, G, Kind)
    BY <1>1, <2>2, SameDisk DEF Concerns
  <2>7. Progress(G, P, kind, told, quiet)
    BY <2>3 DEF Progress
  <2>8. Good(G, P, kind, told, quiet, raced)
    BY <1>0, <1>1, <2>2, <2>4, <2>5, <2>6, <2>7, OpStep DEF P
  <2> QED
    BY <1>4, <2>1, <2>8 DEF TaskInv
<1> QED
  BY <1>3, <1>4 DEF MarkDirectory

\* One file is changed: the others are as they were.
LEMMA OneFile ==
    ASSUME NEW D \in Disks, NEW f \in Paths, NEW b \in Bodies \cup {Absent, Torn}
    PROVE  /\ With(D, f, b) \in Disks /\ With(D, f, b)[f] = b
           /\ \A g \in Paths \ {f} : With(D, f, b)[g] = D[g]
BY DEF With, Disks

\* The files with one of them changed, as the actions write it.
LEMMA PutOne ==
    ASSUME fs \in FileSystems, NEW f \in Paths, NEW b \in Bodies \cup {Absent, Torn}, NEW G,
           G = Sys(With(fs.disk, f, b), fs.linked, fs.dir, fs.journal)
    PROVE  /\ Put(f, b) = G
           /\ G \in FileSystems /\ G.disk = With(fs.disk, f, b)
           /\ G.linked = fs.linked /\ G.dir = fs.dir /\ G.journal = fs.journal
<1>1. Put(f, b) = G
  BY Replaced DEF Put
<1>2. fs.disk \in Disks
  BY DEF FileSystems
<1>3. With(fs.disk, f, b) \in Disks
  BY <1>2, OneFile
<1>4. /\ G \in FileSystems /\ G.disk = With(fs.disk, f, b)
      /\ G.linked = fs.linked /\ G.dir = fs.dir /\ G.journal = fs.journal
  BY <1>3 DEF FileSystems, Sys
<1> QED
  BY <1>1, <1>4

\* What that leaves alone.
LEMMA PutFields ==
    ASSUME fs \in FileSystems, NEW f \in Paths, NEW b \in Bodies \cup {Absent, Torn}
    PROVE  /\ Put(f, b) \in FileSystems /\ Put(f, b).disk = With(fs.disk, f, b)
           /\ Put(f, b).linked = fs.linked /\ Put(f, b).dir = fs.dir
           /\ Put(f, b).journal = fs.journal
BY PutOne

\* The same with a link that is made, or gone.
LEMMA PutLinked ==
    ASSUME fs \in FileSystems, NEW f \in Paths, NEW b \in Bodies \cup {Absent, Torn}, NEW G
    PROVE  /\ G = Link(f, b) => /\ G \in FileSystems /\ G.disk = With(fs.disk, f, b)
                                /\ G.linked /\ G.dir = fs.dir /\ G.journal = fs.journal
           /\ G = Unlink(f) => /\ G \in FileSystems /\ G.disk = With(fs.disk, f, Absent)
                               /\ ~G.linked /\ G.dir = fs.dir /\ G.journal = fs.journal
<1>1. ASSUME NEW c \in {b, Absent}
      PROVE  /\ Put(f, c) \in FileSystems /\ Put(f, c).disk = With(fs.disk, f, c)
             /\ Put(f, c).dir = fs.dir /\ Put(f, c).journal = fs.journal
  BY PutOne
<1>2. ASSUME G = Link(f, b)
      PROVE  /\ G \in FileSystems /\ G.disk = With(fs.disk, f, b)
             /\ G.linked /\ G.dir = fs.dir /\ G.journal = fs.journal
  <2> DEFINE H == Put(f, b)
  <2>1. /\ H \in FileSystems /\ H.disk = With(fs.disk, f, b)
        /\ H.dir = fs.dir /\ H.journal = fs.journal
    BY <1>1
  <2>2. G = [H EXCEPT !.linked = TRUE]
    BY <1>2 DEF Link
  <2> HIDE DEF H
  <2>3. G \in FileSystems /\ G.disk = H.disk /\ G.linked /\ G.dir = H.dir /\ G.journal = H.journal
    BY <2>1, <2>2 DEF FileSystems
  <2> QED
    BY <2>1, <2>3
<1>3. ASSUME G = Unlink(f)
      PROVE  /\ G \in FileSystems /\ G.disk = With(fs.disk, f, Absent)
             /\ ~G.linked /\ G.dir = fs.dir /\ G.journal = fs.journal
  <2> DEFINE H == Put(f, Absent)
  <2>1. /\ H \in FileSystems /\ H.disk = With(fs.disk, f, Absent)
        /\ H.dir = fs.dir /\ H.journal = fs.journal
    BY <1>1
  <2>2. G = [H EXCEPT !.linked = FALSE]
    BY <1>3 DEF Unlink
  <2> HIDE DEF H
  <2>3. G \in FileSystems /\ G.disk = H.disk /\ ~G.linked /\ G.dir = H.dir /\ G.journal = H.journal
    BY <2>1, <2>2 DEF FileSystems
  <2> QED
    BY <2>1, <2>3
<1> QED
  BY <1>2, <1>3

\* What a changed file is among the images.
LEMMA OneImage ==
    ASSUME NEW F \in FileSystems, NEW f \in Paths, NEW b \in Bodies \cup {Absent, Torn}, NEW G,
           G.disk = With(F.disk, f, b), G.journal = F.journal, NEW q
    PROVE  /\ \A g \in Paths \ {f} : /\ Old(G, g, q) <=> Old(F, g, q)
                                     /\ New(G, g, q) <=> New(F, g, q)
           /\ f # "done" => (AtDone(G, q) <=> AtDone(F, q))
           /\ b = F.journal.before[f] => Old(G, f, q)
           /\ b = F.journal.after[f] => New(G, f, q)
           /\ f = "done" /\ b = F.journal.after["detail"] => AtDone(G, q)
<1>1. G.disk[f] = b /\ \A g \in Paths \ {f} : G.disk[g] = F.disk[g]
  <2>1. F.disk \in Disks
    BY DEF FileSystems
  <2> QED
    BY <2>1, OneFile
<1>2. \A g \in Paths \ {f} : /\ Old(G, g, q) <=> Old(F, g, q)
                             /\ New(G, g, q) <=> New(F, g, q)
  BY <1>1 DEF Old, New
<1>3. "done" \in Paths
  BY DEF Paths
<1>4. f # "done" => (AtDone(G, q) <=> AtDone(F, q))
  BY <1>1, <1>3 DEF AtDone
<1>5. /\ b = F.journal.before[f] => Old(G, f, q)
      /\ b = F.journal.after[f] => New(G, f, q)
      /\ f = "done" /\ b = F.journal.after["detail"] => AtDone(G, q)
  BY <1>1 DEF Old, New, AtDone, Like
<1> QED
  BY <1>2, <1>4, <1>5

\* A step of a publication that changes one file, while no link is there.
LEMMA FileStep ==
    ASSUME TaskInv, op.at \in Publishing, ~fs.linked,
           NEW f \in Changed(Kind) \cup Moved(Kind), NEW b \in {Absent, Torn, J.after[f]},
           NEW G \in FileSystems, G.disk = With(fs.disk, f, b),
           G.linked = fs.linked, G.dir = fs.dir, G.journal = fs.journal,
           NEW l \in Labels \ {"mkdir", "mark", "unmark_back", "rmdir", "forget", "forget_back"},
           NEW n, NEW c, Leads(op, l, n, c, Kind),
           Between(G, Kind, quiet), Progress(G, Cmd(op, l, n, c), kind, told, quiet)
    PROVE  Good(G, Cmd(op, l, n, c), kind, told, quiet, raced)
<1>1. /\ fs \in FileSystems /\ J = fs.journal /\ J \in Journals /\ Kind \in Kinds
      /\ EditsOf(fs.disk, quiet, raced) /\ EditsOf(J.after, quiet, raced)
      /\ Owned(fs, op, kind, told)
  BY AtWork
<1>2. f \in Paths /\ b \in Bodies \cup {Absent, Torn} /\ fs.disk \in Disks
  BY <1>1, KindSets DEF Journals, Disks, FileSystems
<1>3. \A g \in Paths \ {f} : G.disk[g] = fs.disk[g]
  BY <1>2, OneFile
<1>4. EditsOf(G.disk, quiet, raced)
  <2>1. CASE b \in {Absent, Torn}
    <3>1. Content(b) = {}
      BY <2>1, Words DEF Content
    <3> QED
      BY <1>1, <1>2, <3>1, EditsStay
  <2>2. CASE b = J.after[f]
    <3>1. Content(b) \cap Edits \subseteq quiet \cup raced
      BY <1>1, <1>2, <2>2 DEF EditsOf, Body
    <3> QED
      BY <1>1, <1>2, <3>1, EditsStay
  <2> QED
    BY <2>1, <2>2
<1>5. Concerns(fs, G, Kind)
  BY <1>3 DEF Concerns
<1> DEFINE P == Cmd(op, l, n, c)
<1>6. P.at = l
  BY DEF Cmd
<1> HIDE DEF P
<1>7. Owned(G, P, kind, told)
  BY <1>1, <1>6 DEF Owned
<1> QED
  BY <1>4, <1>5, <1>7, OpStep DEF P

\* A file of the command is replaced, or created empty.
LEMMA WriteFileKeeps == TaskInv /\ WriteFile => TaskInv'
<1> SUFFICES ASSUME TaskInv, WriteFile PROVE TaskInv'
  OBVIOUS
<1> DEFINE f == Writes(Kind)[op.i]
<1>0. op.at = "write" /\ op.at \in Publishing
  BY DEF WriteFile, Publishing
<1>1. /\ fs \in FileSystems /\ op \in Commands /\ J = fs.journal /\ Kind = kind[op.txn]
      /\ J \in Journals /\ op.cause = None /\ Kind \in Kinds
      /\ Owned(fs, op, kind, told) /\ Progress(fs, op, kind, told, quiet)
  BY <1>0, AtWork
<1>2. /\ Staged(fs, Kind, op.i - 1, quiet) /\ ~fs.linked /\ op.i \in {1, 2}
      /\ op.i = 2 => Kind # "archive"
  <2>1. Control(fs, op, kind, told)
    BY DEF TaskInv, Good
  <2> QED
    BY <1>0, <1>1, <2>1 DEF Progress, Owned, Commands, Control
<1>3. /\ Len(Writes(Kind)) = IF Kind = "archive" THEN 1 ELSE 2
      /\ f = IF op.i = 1 THEN "overview" ELSE Second(Kind)
      /\ Second(Kind) \in {"new", "detail"} /\ (Second(Kind) = "new" <=> Kind = "new")
  BY <1>1, <1>2, KindsOfCommand
<1>4. /\ "overview" \in Changed(Kind) \ Moved(Kind)
      /\ Kind = "new" => /\ Changed(Kind) = {"overview", "new"} /\ Moved(Kind) = {} /\ ~Moves(Kind)
      /\ Kind = "claim" => Changed(Kind) = {"overview", "detail"} /\ Moved(Kind) = {} /\ ~Moves(Kind)
      /\ Kind = "archive" => /\ Changed(Kind) = {"overview"} /\ Moved(Kind) = {"detail", "done"}
                             /\ Moves(Kind)
      /\ Kind = "logbook" => /\ Changed(Kind) = {"overview", "detail"}
                             /\ Moved(Kind) = {"detail", "done"} /\ Moves(Kind)
      /\ Kind \in {"new", "claim", "archive", "logbook"}
      /\ Paths = {"overview", "detail", "new", "done"}
  BY <1>1, KindSets
<1>5. IF ~Unchanged(f) THEN Goto(RollBack("publish"))
      ELSE IF f = "new" THEN Change(Put(f, Torn), [op EXCEPT !.at = "fill"], RollBack("publish"))
      ELSE Change(Put(f, J.after[f]), Written, RollBack("publish"))
  BY DEF WriteFile
<1>6. f \in Changed(Kind) /\ f \in Paths /\ f # "done"
  BY <1>2, <1>3, <1>4
<1> HIDE DEF f
<1>8. CASE ~Unchanged(f)
  BY <1>0, <1>5, <1>8, TurnsBack, DecisionKeeps
<1>9. CASE f = "new" /\ Unchanged(f)
  <2> DEFINE P == Cmd(op, "fill", 2, op.cause)
             G == Sys(With(fs.disk, f, Torn), fs.linked, fs.dir, fs.journal)
  <2>a. /\ Put(f, Torn) = G /\ G \in FileSystems /\ G.disk = With(fs.disk, f, Torn)
        /\ G.linked = fs.linked /\ G.dir = fs.dir /\ G.journal = fs.journal
        /\ Torn \in Bodies \cup {Absent, Torn} /\ fs.disk \in Disks
    BY <1>1, <1>6, PutOne DEF FileSystems
  <2>1. op.i = 2 /\ Kind = "new"
    BY <1>2, <1>3, <1>9
  <2>2. Change(G, P, RollBack("publish"))
    BY <1>1, <1>5, <1>9, <2>1, <2>a, Labelled
  <2>3. P.at = "fill" /\ P.txn = op.txn
    BY DEF Cmd
  <2> HIDE DEF P, G
  <2>b. \A g \in Paths \ {f} : /\ Old(G, g, quiet) <=> Old(fs, g, quiet)
                               /\ New(G, g, quiet) <=> New(fs, g, quiet)
    <3>1. fs \in FileSystems /\ f \in Paths /\ Torn \in Bodies \cup {Absent, Torn}
      BY <1>1, <1>6
    <3>2. G.disk = With(fs.disk, f, Torn) /\ G.journal = fs.journal
      BY <2>a
    <3> QED
      BY <3>1, <3>2, OneImage
  <2>c. G.disk[f] = Torn
    BY <1>1, <1>6, <2>a, OneFile
  <2>4. /\ \A g \in Paths \ {f} : /\ Old(G, g, quiet) <=> Old(fs, g, quiet)
                                  /\ New(G, g, quiet) <=> New(fs, g, quiet)
        /\ G.disk[f] = Torn
    BY <2>b, <2>c
  <2>5. New(fs, "overview", quiet) /\ Old(fs, "detail", quiet) /\ Old(fs, "done", quiet)
    BY <1>2, <1>3, <1>4, <2>1 DEF Staged
  <2>6. Between(G, Kind, quiet)
    BY <1>4, <1>9, <2>1, <2>4, <2>5 DEF Between
  <2>7. Progress(G, P, kind, told, quiet)
    BY <1>4, <1>9, <2>3, <2>4, <2>5 DEF Progress
  <2>8. Leads(op, "fill", 2, op.cause, Kind)
    BY <1>0, <1>1, <2>1 DEF Leads, Publishing
  <2>9. Good(G, P, kind, told, quiet, raced)
    BY <1>0, <1>2, <1>6, <2>a, <2>6, <2>7, <2>8, FileStep DEF P, Labels, Publishing
  <2> QED
    BY <1>0, <2>2, <2>9, PublishChange DEF P, Publishing
<1>10. ASSUME f # "new", Unchanged(f),
              NEW l \in Publishing \ {"mkdir", "mark", "fill"}, NEW n,
              Written = Cmd(op, l, n, op.cause), Leads(op, l, n, op.cause, Kind),
              l = "write" => n = op.i + 1,
              l = "link" => op.i = IF Kind = "archive" THEN 1 ELSE 2,
              l = "commit" => op.i = 2 /\ Kind = "claim",
              l \in {"write", "link", "commit"}
       PROVE  TaskInv'
  <2> DEFINE P == Cmd(op, l, n, op.cause)
             G == Sys(With(fs.disk, f, J.after[f]), fs.linked, fs.dir, fs.journal)
  <2>0. J.after[f] \in Bodies \cup {Absent, Torn}
    BY <1>1, <1>6 DEF Journals, Disks
  <2>a. /\ Put(f, J.after[f]) = G /\ G \in FileSystems /\ G.disk = With(fs.disk, f, J.after[f])
        /\ G.linked = fs.linked /\ G.dir = fs.dir /\ G.journal = fs.journal
    BY <1>1, <1>6, <2>0, PutOne
  <2>1. Change(G, P, RollBack("publish"))
    BY <1>5, <1>10, <2>a
  <2>2. P.at = l /\ P.txn = op.txn /\ P.i = n
    BY DEF Cmd
  <2> HIDE DEF P, G
  <2>3. /\ \A g \in Paths \ {f} : /\ Old(G, g, quiet) <=> Old(fs, g, quiet)
                                  /\ New(G, g, quiet) <=> New(fs, g, quiet)
        /\ New(G, f, quiet)
    <3> DEFINE b == J.after[f]
    <3>1. b \in Bodies \cup {Absent, Torn} /\ b = fs.journal.after[f] /\ fs \in FileSystems
          /\ G.disk = With(fs.disk, f, b) /\ G.journal = fs.journal /\ f \in Paths
      BY <1>1, <1>6, <2>0, <2>a
    <3> HIDE DEF b
    <3> QED
      BY <3>1, OneImage
  <2>4. Staged(G, Kind, op.i, quiet)
    BY <1>2, <1>3, <1>4, <2>3 DEF Staged
  <2>5. Between(G, Kind, quiet)
    BY <1>1, <1>2, <2>4, Stages
  <2>6. l = "commit" => Finished(G, Kind, quiet)
    BY <1>4, <1>10, <1>3, <2>4 DEF Finished, Staged
  <2>7. Progress(G, P, kind, told, quiet)
    <3>1. l = "write" => Staged(G, kind[op.txn], n - 1, quiet)
      <4>1. l = "write" => n - 1 = op.i
        BY <1>2, <1>10
      <4> QED
        BY <1>1, <2>4, <4>1
    <3> QED
      BY <1>1, <1>10, <2>2, <2>4, <2>6, <3>1 DEF Progress
  <2>8. Good(G, P, kind, told, quiet, raced)
    BY <1>0, <1>2, <1>6, <1>10, <2>a, <2>5, <2>7, FileStep DEF P, Labels, Publishing
  <2> QED
    BY <1>0, <2>1, <2>8, PublishChange DEF P, Publishing
<1>11. CASE f # "new" /\ Unchanged(f) /\ op.i < Len(Writes(Kind))
  <2>1. op.i = 1 /\ Kind # "archive"
    BY <1>2, <1>3, <1>11
  <2>2. Written = Cmd(op, "write", op.i + 1, op.cause)
    BY <1>1, <1>11, Labelled DEF Written
  <2>3. Leads(op, "write", op.i + 1, op.cause, Kind)
    BY <1>0, <1>1, <2>1 DEF Leads, Publishing
  <2> QED
    BY <1>10, <1>11, <2>2, <2>3 DEF Publishing
<1>12. CASE f # "new" /\ Unchanged(f) /\ ~(op.i < Len(Writes(Kind)))
  <2>1. op.i = IF Kind = "archive" THEN 1 ELSE 2
    BY <1>2, <1>3, <1>12
  <2>2. CASE Moves(Kind)
    <3>1. Written = Cmd(op, "link", 1, op.cause)
      BY <1>1, <1>12, <2>2, Labelled DEF Written
    <3>2. Leads(op, "link", 1, op.cause, Kind)
      BY <1>0, <1>1, <2>2 DEF Leads, Publishing
    <3> QED
      BY <1>10, <1>12, <2>1, <3>1, <3>2 DEF Publishing
  <2>3. CASE ~Moves(Kind)
    <3>1. Written = Cmd(op, "commit", 1, op.cause)
      BY <1>1, <1>12, <2>3, Labelled DEF Written
    <3>2. Leads(op, "commit", 1, op.cause, Kind)
      BY <1>0, <1>1 DEF Leads, Publishing
    <3>3. Kind = "claim" /\ op.i = 2
      BY <1>3, <1>4, <1>12, <2>1, <2>3
    <3> QED
      BY <1>10, <1>12, <3>1, <3>2, <3>3 DEF Publishing
  <2> QED
    BY <2>2, <2>3
<1> QED
  BY <1>8, <1>9, <1>11, <1>12

\* A created file is filled and synced, or removed again.
LEMMA FillFileKeeps == TaskInv /\ FillFile => TaskInv'
<1> SUFFICES ASSUME TaskInv, FillFile PROVE TaskInv'
  OBVIOUS
<1>0. op.at = "fill" /\ op.at \in Publishing
  BY DEF FillFile, Publishing
<1>1. /\ fs \in FileSystems /\ op \in Commands /\ J = fs.journal /\ Kind = kind[op.txn]
      /\ J \in Journals /\ op.cause = None /\ Kind \in Kinds
      /\ ImagesSound(J, kind, told, quiet) /\ Between(fs, Kind, quiet) /\ J.txn = op.txn
      /\ Owned(fs, op, kind, told) /\ Progress(fs, op, kind, told, quiet)
  BY <1>0, AtWork
<1>2. /\ New(fs, "overview", quiet) /\ ~fs.linked /\ Kind = "new" /\ op.i = 2
  <2>1. Control(fs, op, kind, told)
    BY DEF TaskInv, Good
  <2> QED
    BY <1>0, <1>1, <2>1 DEF Progress, Owned, Control
<1>3. /\ Changed(Kind) = {"overview", "new"} /\ Moved(Kind) = {} /\ ~Moves(Kind)
      /\ Paths = {"overview", "detail", "new", "done"} /\ Len(Writes(Kind)) = 2
  BY <1>1, <1>2, KindSets, KindsOfCommand
<1>4. Old(fs, "detail", quiet) /\ Old(fs, "done", quiet)
  BY <1>1, <1>3 DEF Between
<1>5. J.before["new"] = Absent
  BY <1>1, <1>2 DEF ImagesSound
<1>6. Written = Cmd(op, "commit", 1, op.cause)
  <2>1. ~(op.i < Len(Writes(Kind)))
    <3>1. op.i = 2 /\ Len(Writes(Kind)) = 2
      BY <1>2, <1>3
    <3> HIDE <1>2, <1>3
    <3> QED
      BY <3>1
  <2>2. Written = At("commit")
    BY <1>3, <2>1 DEF Written
  <2> QED
    BY <1>1, <2>2, Labelled
<1>7. ASSUME NEW b \in {Absent, J.after["new"]}
      PROVE  \E G : /\ Put("new", b) = G /\ G \in FileSystems /\ G.disk = With(fs.disk, "new", b)
                    /\ G.linked = fs.linked /\ G.dir = fs.dir /\ G.journal = fs.journal
                    /\ New(G, "overview", quiet) /\ Old(G, "detail", quiet) /\ Old(G, "done", quiet)
                    /\ b = Absent => Old(G, "new", quiet)
                    /\ b = J.after["new"] => New(G, "new", quiet)
  <2> DEFINE G == Sys(With(fs.disk, "new", b), fs.linked, fs.dir, fs.journal)
  <2>1. b \in Bodies \cup {Absent, Torn} /\ "new" \in Paths
    BY <1>1, <1>3 DEF Journals, Disks
  <2>2. /\ Put("new", b) = G /\ G \in FileSystems /\ G.disk = With(fs.disk, "new", b)
        /\ G.linked = fs.linked /\ G.dir = fs.dir /\ G.journal = fs.journal
    BY <1>1, <2>1, PutOne
  <2> HIDE DEF G
  <2>3. /\ \A g \in Paths \ {"new"} : /\ Old(G, g, quiet) <=> Old(fs, g, quiet)
                                      /\ New(G, g, quiet) <=> New(fs, g, quiet)
        /\ b = fs.journal.before["new"] => Old(G, "new", quiet)
        /\ b = fs.journal.after["new"] => New(G, "new", quiet)
    <3>1. fs \in FileSystems
      BY <1>1
    <3>2. G.disk = With(fs.disk, "new", b) /\ G.journal = fs.journal
      BY <2>2
    <3> QED
      BY <2>1, <3>1, <3>2, OneImage
  <2> QED
    BY <1>1, <1>2, <1>3, <1>4, <1>5, <2>2, <2>3
<1>8. CASE Change(Put("new", J.after["new"]), Written, RollBack("publish"))
  <2> DEFINE P == Cmd(op, "commit", 1, op.cause)
  <2>1. PICK G : /\ Put("new", J.after["new"]) = G /\ G \in FileSystems
                 /\ G.disk = With(fs.disk, "new", J.after["new"])
                 /\ G.linked = fs.linked /\ G.dir = fs.dir /\ G.journal = fs.journal
                 /\ New(G, "overview", quiet) /\ Old(G, "detail", quiet) /\ Old(G, "done", quiet)
                 /\ New(G, "new", quiet)
    BY <1>7
  <2>2. P.at = "commit" /\ P.txn = op.txn
    BY DEF Cmd
  <2> HIDE DEF P
  <2>3. Finished(G, Kind, quiet)
    BY <1>3, <2>1 DEF Finished
  <2>4. Between(G, Kind, quiet)
    BY <1>1, <2>3, Stages
  <2>5. Progress(G, P, kind, told, quiet)
    BY <1>1, <2>2, <2>3 DEF Progress
  <2>6. Leads(op, "commit", 1, op.cause, Kind)
    BY <1>0, <1>1 DEF Leads, Publishing
  <2>7. Good(G, P, kind, told, quiet, raced)
    BY <1>0, <1>2, <1>3, <2>1, <2>4, <2>5, <2>6, FileStep DEF P, Labels, Publishing
  <2> QED
    BY <1>0, <1>6, <1>8, <2>1, <2>7, PublishChange DEF P, Publishing
<1>9. CASE /\ fs' = Put("new", Absent) /\ op' = RollBack("publish")
           /\ UNCHANGED <<reader, kind, told, quiet, raced>>
  <2> DEFINE P == Cmd(op, "roll_back", 1, "publish")
  <2>0. op' = P
    BY <1>1, <1>9, Labelled
  <2>1. PICK G : /\ Put("new", Absent) = G /\ G \in FileSystems
                 /\ G.disk = With(fs.disk, "new", Absent)
                 /\ G.linked = fs.linked /\ G.dir = fs.dir /\ G.journal = fs.journal
                 /\ New(G, "overview", quiet) /\ Old(G, "detail", quiet) /\ Old(G, "done", quiet)
                 /\ Old(G, "new", quiet)
    BY <1>7
  <2>2. P.at = "roll_back" /\ P.txn = op.txn
    BY DEF Cmd
  <2> HIDE DEF P
  <2>3. Between(G, Kind, quiet)
    BY <1>3, <2>1 DEF Between
  <2>4. Progress(G, P, kind, told, quiet)
    BY <2>2 DEF Progress
  <2>5. Leads(op, "roll_back", 1, "publish", Kind)
    BY <1>0 DEF Leads, Publishing, Undoing
  <2>6. Good(G, P, kind, told, quiet, raced)
    BY <1>0, <1>2, <1>3, <2>1, <2>3, <2>4, <2>5, FileStep DEF P, Labels, Undoing
  <2> QED
    BY <1>9, <2>0, <2>1, <2>6 DEF TaskInv
<1> QED
  BY <1>8, <1>9 DEF FillFile

\* A moved file is linked to its destination.
LEMMA LinkMoveKeeps == TaskInv /\ LinkMove => TaskInv'
<1> SUFFICES ASSUME TaskInv, LinkMove PROVE TaskInv'
  OBVIOUS
<1>0. op.at = "link" /\ op.at \in Publishing
  BY DEF LinkMove, Publishing
<1>1. /\ fs \in FileSystems /\ op \in Commands /\ J = fs.journal /\ Kind = kind[op.txn]
      /\ J \in Journals /\ op.cause = None /\ Kind \in Kinds /\ J.txn = op.txn
      /\ J.phase = "prepared" /\ told[op.txn] = None
      /\ EditsOf(fs.disk, quiet, raced)
      /\ ImagesSound(J, kind, told, quiet) /\ Between(fs, Kind, quiet)
      /\ Owned(fs, op, kind, told) /\ Progress(fs, op, kind, told, quiet)
  BY <1>0, AtWork
<1>2. Moves(Kind)
  BY <1>0, <1>1 DEF TaskInv, Good, Control
<1>3. /\ Kind = "archive" => /\ Changed(Kind) = {"overview"} /\ Moved(Kind) = {"detail", "done"}
      /\ Kind = "logbook" => /\ Changed(Kind) = {"overview", "detail"}
                             /\ Moved(Kind) = {"detail", "done"}
      /\ Kind \in {"archive", "logbook"} /\ Second(Kind) = "detail"
      /\ Paths = {"overview", "detail", "new", "done"}
  BY <1>1, <1>2, KindSets
<1>4. CASE ~(fs.disk["detail"] = J.after["detail"] /\ fs.disk["done"] = Absent)
  BY <1>0, <1>4, TurnsBack, DecisionKeeps DEF LinkMove
<1>5. CASE fs.disk["detail"] = J.after["detail"] /\ fs.disk["done"] = Absent
  <2> DEFINE P == Cmd(op, "linked", 1, op.cause)
             b == fs.disk["detail"]
             G == Link("done", b)
  <2>1. b \in Bodies /\ fs.disk \in Disks /\ b = fs.journal.after["detail"]
        /\ "done" \in Paths /\ "detail" \in Paths \ {"done"}
    <3>1. J.after["detail"] \in Bodies
      BY <1>1, <1>3 DEF ImagesSound, Adds
    <3> QED
      BY <1>1, <1>3, <1>5, <3>1 DEF FileSystems
  <2>3. Change(G, P, RollBack("publish"))
    BY <1>1, <1>5, Labelled DEF LinkMove
  <2>2. G = Link("done", b)
    OBVIOUS
  <2> HIDE DEF G, b
  <2>4. With(fs.disk, "done", b) \in Disks /\ With(fs.disk, "done", b)["done"] = b
        /\ \A g \in Paths \ {"done"} : With(fs.disk, "done", b)[g] = fs.disk[g]
    BY <2>1, OneFile
  <2>5. /\ G.disk = With(fs.disk, "done", b) /\ G.linked /\ G.dir = fs.dir
        /\ G.journal = fs.journal /\ G \in FileSystems
    BY <1>1, <2>1, <2>2, PutLinked
  <2>6. P.at = "linked" /\ P.txn = op.txn
    BY DEF Cmd
  <2> HIDE DEF P
  <2>7. Concerns(fs, G, Kind)
    BY <1>3, <2>4, <2>5 DEF Concerns
  <2>8. EditsOf(G.disk, quiet, raced)
    <3>1. Content(b) \cap Edits \subseteq quiet \cup raced
      BY <1>1, <2>1 DEF EditsOf, Body, b
    <3> QED
      BY <1>1, <2>1, <2>5, <3>1, EditsStay
  <2>9. Owned(G, P, kind, told)
    <3>1. /\ G.disk["detail"] = G.disk["done"] /\ G.disk["detail"] \in Bodies
      BY <2>1, <2>4, <2>5 DEF b
    <3>2. fs.journal # None
      BY <1>1, Words
    <3> QED
      BY <1>0, <1>1, <1>2, <2>5, <2>6, <3>1, <3>2 DEF Owned
  <2>10. TwoNames(G, quiet)
    <3>1. Staged(fs, Kind, IF Kind = "archive" THEN 1 ELSE 2, quiet)
      BY <1>0, <1>1 DEF Progress
    <3>2. New(fs, "overview", quiet) /\ Old(fs, "new", quiet)
      BY <1>3, <3>1 DEF Staged
    <3>3. New(fs, "detail", quiet)
      BY <1>1, <1>5 DEF New, Like
    <3>4. /\ \A g \in Paths \ {"done"} : /\ Old(G, g, quiet) <=> Old(fs, g, quiet)
                                         /\ New(G, g, quiet) <=> New(fs, g, quiet)
          /\ AtDone(G, quiet)
      BY <1>1, <2>1, <2>5, OneImage
    <3> QED
      BY <1>3, <3>2, <3>3, <3>4 DEF TwoNames
  <2>11. Between(G, Kind, quiet)
    BY <1>1, <1>2, <2>10, Stages
  <2>12. Progress(G, P, kind, told, quiet)
    BY <2>6, <2>10 DEF Progress
  <2>13. Leads(op, "linked", 1, op.cause, Kind)
    BY <1>0, <1>1, <1>2 DEF Leads, Publishing
  <2>14. Good(G, P, kind, told, quiet, raced)
    BY <1>0, <2>7, <2>8, <2>9, <2>11, <2>12, <2>13, OpStep DEF P
  <2> QED
    BY <1>0, <2>3, <2>14, PublishChange DEF P, Publishing
<1> QED
  BY <1>4, <1>5

\* The link is found, or whatever was put there is removed.
LEMMA VerifyLinkKeeps == TaskInv /\ VerifyLink => TaskInv'
<1> SUFFICES ASSUME TaskInv, VerifyLink PROVE TaskInv'
  OBVIOUS
<1>0. op.at = "linked" /\ op.at \in Publishing
  BY DEF VerifyLink, Publishing
<1>1. /\ fs \in FileSystems /\ op \in Commands /\ J = fs.journal /\ Kind = kind[op.txn]
      /\ J \in Journals /\ op.cause = None /\ Kind \in Kinds /\ J.txn = op.txn
      /\ EditsOf(fs.disk, quiet, raced)
      /\ ImagesSound(J, kind, told, quiet) /\ Between(fs, Kind, quiet)
      /\ Owned(fs, op, kind, told) /\ Progress(fs, op, kind, told, quiet)
  BY <1>0, AtWork
<1>2. Moves(Kind) /\ TwoNames(fs, quiet)
  BY <1>0, <1>1 DEF TaskInv, Good, Control, Progress
<1>3. /\ Kind = "archive" => /\ Changed(Kind) = {"overview"} /\ Moved(Kind) = {"detail", "done"}
      /\ Kind = "logbook" => /\ Changed(Kind) = {"overview", "detail"}
                             /\ Moved(Kind) = {"detail", "done"}
      /\ Kind \in {"archive", "logbook"}
      /\ Paths = {"overview", "detail", "new", "done"}
  BY <1>1, <1>2, KindSets
<1>4. CASE fs.linked
  <2> DEFINE P == Cmd(op, "unlink", 1, op.cause)
  <2>1. Goto(P)
    BY <1>1, <1>4, Labelled DEF VerifyLink
  <2>2. P.at = "unlink"
    BY DEF Cmd
  <2> HIDE DEF P
  <2>3. Owned(fs, P, kind, told)
    BY <1>0, <1>1, <2>2 DEF Owned
  <2>4. Progress(fs, P, kind, told, quiet)
    BY <1>2, <2>2 DEF Progress
  <2>5. Concerns(fs, fs, Kind)
    BY <1>1 DEF Concerns
  <2>6. Leads(op, "unlink", 1, op.cause, Kind)
    BY <1>0, <1>1, <1>2 DEF Leads, Publishing
  <2>7. Good(fs, P, kind, told, quiet, raced)
    BY <1>0, <1>1, <2>3, <2>4, <2>5, <2>6, OpStep DEF P
  <2> QED
    BY <2>1, <2>7, DecisionKeeps
<1>5. CASE ~fs.linked
  <2> DEFINE P == Cmd(op, "roll_back", 1, "publish")
             G == Put("done", Absent)
  <2>1. Change(G, P, P)
    BY <1>1, <1>5, Labelled DEF VerifyLink
  <2>2. P.at = "roll_back"
    BY DEF Cmd
  <2>3. /\ G \in FileSystems /\ G.disk = With(fs.disk, "done", Absent)
        /\ G.linked = fs.linked /\ G.dir = fs.dir /\ G.journal = fs.journal
        /\ "done" \in Paths /\ Absent \in Bodies \cup {Absent, Torn}
    BY <1>1, <1>3, PutOne
  <2> HIDE DEF P, G
  <2>4. Between(G, Kind, quiet)
    <3>1. J.before["done"] = Absent
      BY <1>1, <1>2 DEF ImagesSound
    <3>2. /\ \A g \in Paths \ {"done"} : /\ Old(G, g, quiet) <=> Old(fs, g, quiet)
                                         /\ New(G, g, quiet) <=> New(fs, g, quiet)
          /\ Absent = fs.journal.before["done"] => Old(G, "done", quiet)
      BY <1>1, <2>3, OneImage
    <3> QED
      BY <1>1, <1>2, <1>3, <3>1, <3>2 DEF Between, TwoNames
  <2>5. Progress(G, P, kind, told, quiet)
    BY <2>2 DEF Progress
  <2>6. Leads(op, "roll_back", 1, "publish", Kind)
    BY <1>0 DEF Leads, Publishing, Undoing
  <2>7. Good(G, P, kind, told, quiet, raced)
    BY <1>0, <1>3, <1>5, <2>3, <2>4, <2>5, <2>6, FileStep DEF P, Labels, Undoing
  <2>8. Good(fs, P, kind, told, quiet, raced)
    BY <1>0, TurnsBack DEF P
  <2> QED
    BY <2>1, <2>7, <2>8, ChangeKeeps
<1> QED
  BY <1>4, <1>5

\* The first name of a moved file goes.
LEMMA UnlinkMoveKeeps == TaskInv /\ UnlinkMove => TaskInv'
<1> SUFFICES ASSUME TaskInv, UnlinkMove PROVE TaskInv'
  OBVIOUS
<1>0. op.at = "unlink" /\ op.at \in Publishing
  BY DEF UnlinkMove, Publishing
<1>1. /\ fs \in FileSystems /\ op \in Commands /\ J = fs.journal /\ Kind = kind[op.txn]
      /\ J \in Journals /\ op.cause = None /\ Kind \in Kinds
      /\ EditsOf(fs.disk, quiet, raced)
      /\ Owned(fs, op, kind, told) /\ Progress(fs, op, kind, told, quiet)
  BY <1>0, AtWork
<1>2. Moves(Kind) /\ TwoNames(fs, quiet)
  BY <1>0, <1>1 DEF TaskInv, Good, Control, Progress
<1>3. /\ Kind = "archive" => /\ Changed(Kind) = {"overview"} /\ Moved(Kind) = {"detail", "done"}
      /\ Kind = "logbook" => /\ Changed(Kind) = {"overview", "detail"}
                             /\ Moved(Kind) = {"detail", "done"}
      /\ Kind \in {"archive", "logbook"}
      /\ Paths = {"overview", "detail", "new", "done"}
  BY <1>1, <1>2, KindSets
<1> DEFINE P == Cmd(op, "commit", 1, op.cause)
           G == Unlink("detail")
<1>4. Change(G, P, RollBack("publish"))
  BY <1>1, Labelled DEF UnlinkMove
<1>5. P.at = "commit" /\ P.txn = op.txn
  BY DEF Cmd
<1>6. /\ G \in FileSystems /\ G.disk = With(fs.disk, "detail", Absent)
      /\ ~G.linked /\ G.dir = fs.dir /\ G.journal = fs.journal
      /\ "detail" \in Paths /\ Absent \in Bodies \cup {Absent, Torn} /\ fs.disk \in Disks
  BY <1>1, <1>3, PutLinked DEF FileSystems
<1> HIDE DEF P, G
<1>7. With(fs.disk, "detail", Absent)["detail"] = Absent
      /\ \A g \in Paths \ {"detail"} : With(fs.disk, "detail", Absent)[g] = fs.disk[g]
  BY <1>6, OneFile
<1>8. Concerns(fs, G, Kind)
  BY <1>3, <1>6, <1>7 DEF Concerns
<1>9. EditsOf(G.disk, quiet, raced)
  <2>1. Content(Absent) = {}
    BY Words DEF Content
  <2> QED
    BY <1>1, <1>6, <2>1, EditsStay
<1>10. Owned(G, P, kind, told)
  BY <1>0, <1>1, <1>5, <1>6 DEF Owned
<1>11. Finished(G, Kind, quiet)
  <2>1. /\ \A g \in Paths \ {"detail"} : /\ Old(G, g, quiet) <=> Old(fs, g, quiet)
                                         /\ New(G, g, quiet) <=> New(fs, g, quiet)
        /\ "detail" # "done" => (AtDone(G, quiet) <=> AtDone(fs, quiet))
    BY <1>1, <1>6, OneImage
  <2> QED
    BY <1>2, <1>3, <1>6, <1>7, <2>1 DEF Finished, TwoNames
<1>12. Between(G, Kind, quiet)
  BY <1>1, <1>11, Stages
<1>13. Progress(G, P, kind, told, quiet)
  BY <1>1, <1>5, <1>11 DEF Progress
<1>14. Leads(op, "commit", 1, op.cause, Kind)
  BY <1>0, <1>1 DEF Leads, Publishing
<1>15. Good(G, P, kind, told, quiet, raced)
  BY <1>0, <1>8, <1>9, <1>10, <1>12, <1>13, <1>14, OpStep DEF P
<1> QED
  BY <1>0, <1>4, <1>15, PublishChange DEF P, Publishing

\* What is on the disk, journal or not, for a command that only ends.
LEMMA EditsKeptOnDisk ==
    ASSUME TaskInv
    PROVE  \A e \in quiet : In(fs.disk, e)
BY WhatIsThere DEF TaskInv

\* The commit mark, or its failure.
LEMMA MarkCommittedKeeps == TaskInv /\ MarkCommitted => TaskInv'
<1> SUFFICES ASSUME TaskInv, MarkCommitted PROVE TaskInv'
  OBVIOUS
<1>0. op.at = "commit" /\ op.at \in Publishing
  BY DEF MarkCommitted, Publishing
<1>1. /\ fs \in FileSystems /\ op \in Commands /\ J = fs.journal /\ Kind = kind[op.txn]
      /\ J \in Journals /\ op.cause = None /\ Kind \in Kinds /\ J.txn = op.txn
      /\ told[op.txn] = None /\ op.txn \in Txns
      /\ EditsOf(fs.disk, quiet, raced) /\ ImagesSound(J, kind, told, quiet)
      /\ EditsOf(J.before, quiet, raced) /\ EditsOf(J.after, quiet, raced)
      /\ Owned(fs, op, kind, told) /\ Progress(fs, op, kind, told, quiet)
  BY <1>0, AtWork
<1>2. CASE op' = RollBack("commit") /\ UNCHANGED <<fs, reader, kind, told, quiet, raced>>
  BY <1>0, <1>2, TurnsBack DEF TaskInv
<1>3. CASE Change([fs EXCEPT !.journal.phase = "committed"], At("unmark"), Idle)
  <2> DEFINE P == Cmd(op, "unmark", 1, op.cause)
             G == [fs EXCEPT !.journal.phase = "committed"]
             j == G.journal
  <2>1. Change(G, P, Idle)
    BY <1>1, <1>3, Labelled
  <2>2. /\ P.at = "unmark" /\ P.txn = op.txn /\ P.cause = None /\ P.after = op.after
    BY <1>1 DEF Cmd
  <2>3. /\ j = [J EXCEPT !.phase = "committed"]
        /\ G.disk = fs.disk /\ G.linked = fs.linked /\ G.dir = fs.dir
    BY <1>1 DEF FileSystems
  <2>4. /\ j \in Journals /\ j.txn = op.txn /\ j.phase = "committed" /\ j.owns = J.owns
        /\ j.before = J.before /\ j.after = J.after /\ j # None
    <3>1. /\ j \in Journals /\ j.txn = J.txn /\ j.phase = "committed" /\ j.owns = J.owns
          /\ j.before = J.before /\ j.after = J.after
      BY <1>1, <2>3 DEF Journals
    <3> QED
      BY <1>1, <3>1, Words
  <2>5. G \in FileSystems
    BY <1>1, <2>4 DEF FileSystems
  <2> HIDE DEF P, G, j
  <2>6. G.journal = j
    BY DEF j
  <2>7. Typed(G, P)
    BY <1>1, <2>5 DEF Typed, P, Cmd, Commands, Labels
  <2>8. Histories(kind, told, quiet, raced)
    BY DEF TaskInv, Good
  <2>9. Control(G, P, kind, told)
    BY <1>1, <2>2, <2>4, <2>6 DEF Control, Publishing, Undoing
  <2>10. ~fs.linked
    BY <1>0, <1>1 DEF Owned
  <2>11. Owned(G, P, kind, told)
    <3>1. P.at = "unmark" /\ G.linked = fs.linked /\ G.dir = fs.dir
      BY <2>2, <2>3
    <3>2. kind[j.txn] \in Kinds /\ told[j.txn] = None
      BY <1>1, <2>4
    <3>3. told[j.txn] # "done"
      BY <3>2, Words
    <3>4. fs.dir \in Txns => J # None /\ J.txn = fs.dir /\ J.owns
      BY <1>1 DEF Owned
    <3>5. G.dir \in Txns => j # None /\ j.txn = G.dir /\ j.owns
      BY <1>1, <2>4, <3>1, <3>4
    <3> QED
      BY <2>6, <2>10, <3>1, <3>2, <3>3, <3>5 DEF Owned
  <2>12. ImagesSound(j, kind, told, quiet)
    BY <1>1, <2>4 DEF ImagesSound
  <2>13. Finished(G, kind[op.txn], quiet)
    <3>1. Finished(fs, kind[op.txn], quiet)
      BY <1>0, <1>1 DEF Progress
    <3> QED
      BY <1>1, <2>3, <2>4, <2>6, <3>1, SameDisk
  <2>14. OnDisk(G, P, kind, told, quiet)
    BY <1>1, <2>4, <2>6, <2>12, <2>13, Words DEF OnDisk
  <2>15. Progress(G, P, kind, told, quiet)
    BY <2>2 DEF Progress
  <2>16. Made(G, P, quiet, raced)
    BY <1>1, <2>2, <2>3, <2>4, <2>6 DEF Made, TaskInv, Good
  <2>17. Kept(G, P, kind, quiet)
    BY <2>3, <2>4, <2>6, EditsKeptOnDisk DEF Kept
  <2>18. Good(G, P, kind, told, quiet, raced)
    BY <2>7, <2>8, <2>9, <2>11, <2>14, <2>15, <2>16, <2>17 DEF Good
  <2> QED
    BY <2>1, <2>18, IdleGood, ChangeKeeps DEF TaskInv
<1> QED
  BY <1>2, <1>3 DEF MarkCommitted

\* What a command knows that ends a committed transaction.
LEMMA AtEnd ==
    ASSUME TaskInv, op.at \in {"unmark", "forget"}
    PROVE  /\ fs \in FileSystems /\ op \in Commands /\ J = fs.journal /\ J \in Journals
           /\ J # None /\ J.txn = op.txn /\ op.txn \in Txns /\ J.phase = "committed"
           /\ kind[op.txn] \in Kinds /\ told[op.txn] = None /\ ~fs.linked
           /\ Histories(kind, told, quiet, raced)
           /\ Control(fs, op, kind, told) /\ Owned(fs, op, kind, told)
           /\ ImagesSound(J, kind, told, quiet) /\ Finished(fs, kind[op.txn], quiet)
           /\ Made(fs, op, quiet, raced)
           /\ \A e \in quiet : In(fs.disk, e)
<1>1. /\ Typed(fs, op) /\ Control(fs, op, kind, told) /\ Owned(fs, op, kind, told)
      /\ OnDisk(fs, op, kind, told, quiet) /\ Made(fs, op, quiet, raced)
      /\ Histories(kind, told, quiet, raced)
  BY DEF TaskInv, Good
<1>2. /\ op.txn \in Txns /\ fs.journal # None /\ fs.journal.txn = op.txn
      /\ fs.journal.phase = "committed" /\ kind[op.txn] \in Kinds
  BY <1>1 DEF Control
<1>3. told[op.txn] = None /\ ~fs.linked
  BY <1>1, <1>2 DEF Owned
<1>4. fs \in FileSystems /\ op \in Commands /\ fs.journal \in Journals
  BY <1>1, <1>2 DEF Typed, FileSystems
<1>5. ImagesSound(fs.journal, kind, told, quiet) /\ Finished(fs, kind[op.txn], quiet)
  BY <1>1, <1>2 DEF OnDisk
<1> QED
  BY <1>1, <1>2, <1>3, <1>4, <1>5, EditsKeptOnDisk DEF J

\* The marker of a committed transaction goes.
LEMMA RemoveMarkerKeeps == TaskInv /\ RemoveMarker => TaskInv'
<1> SUFFICES ASSUME TaskInv, RemoveMarker PROVE TaskInv'
  OBVIOUS
<1>0. op.at = "unmark"
  BY DEF RemoveMarker
<1>1. /\ fs \in FileSystems /\ op \in Commands /\ J = fs.journal /\ J \in Journals
      /\ J # None /\ J.txn = op.txn /\ op.txn \in Txns /\ J.phase = "committed"
      /\ kind[op.txn] \in Kinds /\ told[op.txn] = None /\ ~fs.linked
      /\ Histories(kind, told, quiet, raced)
      /\ Control(fs, op, kind, told) /\ Owned(fs, op, kind, told)
      /\ ImagesSound(J, kind, told, quiet) /\ Finished(fs, kind[op.txn], quiet)
      /\ Made(fs, op, quiet, raced)
      /\ \A e \in quiet : In(fs.disk, e)
  BY <1>0, AtEnd
<1> DEFINE d == IF J.owns /\ fs.dir = J.txn THEN None ELSE fs.dir
           P == Cmd(op, "forget", 1, op.cause)
           G == Sys(fs.disk, fs.linked, d, fs.journal)
<1>2. Change(G, P, Idle)
  <2>1. [fs EXCEPT !.dir = d] = G
    BY <1>1, Replaced
  <2>2. At("forget") = P
    BY <1>1, Labelled
  <2> QED
    BY <2>1, <2>2 DEF RemoveMarker
<1>3. /\ P.at = "forget" /\ P.txn = op.txn /\ P.cause = op.cause /\ P.after = op.after
  BY DEF Cmd
<1>4. d \notin Txns /\ d \in {Absent, None} \cup Txns
  BY <1>1, Words DEF Owned, FileSystems
<1>5. /\ G.disk = fs.disk /\ G.linked = fs.linked /\ G.dir = d /\ G.journal = fs.journal
      /\ G \in FileSystems
  BY <1>1, <1>4 DEF Sys, FileSystems
<1>6. Typed(G, P)
  BY <1>1, <1>5 DEF Typed, Cmd, Commands, Labels
<1> HIDE DEF P, G, d
<1>7. Control(G, P, kind, told)
  BY <1>0, <1>1, <1>3, <1>5 DEF Control, Publishing, Undoing
<1>8. Owned(G, P, kind, told)
  BY <1>1, <1>3, <1>4, <1>5 DEF Owned
<1>9. Finished(G, kind[op.txn], quiet)
  BY <1>1, <1>5, SameDisk
<1>10. OnDisk(G, P, kind, told, quiet)
  BY <1>1, <1>5, <1>9, Words DEF OnDisk
<1>11. Progress(G, P, kind, told, quiet)
  BY <1>3 DEF Progress
<1>12. Made(G, P, quiet, raced)
  BY <1>1, <1>3, <1>5 DEF Made
<1>13. Kept(G, P, kind, quiet)
  BY <1>1, <1>5 DEF Kept
<1>14. Good(G, P, kind, told, quiet, raced)
  BY <1>1, <1>6, <1>7, <1>8, <1>10, <1>11, <1>12, <1>13 DEF Good
<1> QED
  BY <1>2, <1>14, IdleGood, ChangeKeeps DEF TaskInv

\* The journal of a committed transaction goes.
LEMMA ForgetJournalKeeps == TaskInv /\ ForgetJournal => TaskInv'
<1> SUFFICES ASSUME TaskInv, ForgetJournal PROVE TaskInv'
  OBVIOUS
<1>0. op.at = "forget"
  BY DEF ForgetJournal
<1>1. /\ fs \in FileSystems /\ op \in Commands /\ J = fs.journal /\ J \in Journals
      /\ J # None /\ J.txn = op.txn /\ op.txn \in Txns /\ J.phase = "committed"
      /\ kind[op.txn] \in Kinds /\ told[op.txn] = None /\ ~fs.linked
      /\ Histories(kind, told, quiet, raced)
      /\ Control(fs, op, kind, told) /\ Owned(fs, op, kind, told)
      /\ ImagesSound(J, kind, told, quiet) /\ Finished(fs, kind[op.txn], quiet)
      /\ Made(fs, op, quiet, raced)
      /\ \A e \in quiet : In(fs.disk, e)
  BY <1>0, AtEnd
<1> DEFINE P == Cmd(op, "report", 1, op.cause)
           G == Sys(fs.disk, fs.linked, fs.dir, None)
<1>2. Change(G, P, Idle)
  BY <1>1, Replaced, Labelled DEF ForgetJournal
<1>3. /\ P.at = "report" /\ P.txn = op.txn /\ P.cause = op.cause /\ P.after = op.after
  BY DEF Cmd
<1>4. /\ G.disk = fs.disk /\ G.linked = fs.linked /\ G.dir = fs.dir /\ G.journal = None
      /\ G \in FileSystems
  BY <1>1 DEF Sys, FileSystems
<1>5. Typed(G, P)
  BY <1>1, <1>4 DEF Typed, Cmd, Commands, Labels
<1> HIDE DEF P, G
<1>6. Control(G, P, kind, told)
  BY <1>0, <1>1, <1>3, <1>4 DEF Control, Publishing, Undoing
<1>7. Owned(G, P, kind, told)
  BY <1>0, <1>1, <1>3, <1>4 DEF Owned
<1>8. Sound(fs.disk, kind, told) /\ Done(fs.disk, kind, op.txn)
  BY <1>1, FinishedSound
<1>9. OnDisk(G, P, kind, told, quiet)
  BY <1>4, <1>8 DEF OnDisk
<1>10. Progress(G, P, kind, told, quiet)
  BY <1>3, <1>4, <1>8 DEF Progress
<1>11. Made(G, P, quiet, raced)
  BY <1>1, <1>3, <1>4 DEF Made
<1>12. Kept(G, P, kind, quiet)
  BY <1>1, <1>4 DEF Kept
<1>13. Good(G, P, kind, told, quiet, raced)
  BY <1>1, <1>5, <1>6, <1>7, <1>9, <1>10, <1>11, <1>12 DEF Good
<1> QED
  BY <1>2, <1>13, IdleGood, ChangeKeeps DEF TaskInv

\* A disk stays sound when a transaction that shows on it is told done, or one
\* that does not is told rolled back.
LEMMA SoundTold ==
    ASSUME NEW D, NEW k, NEW t \in [Txns -> {None, "done", "rolled back"}], Sound(D, k, t),
           NEW x \in Txns, NEW w \in {"done", "rolled back"},
           w = "done" => Done(D, k, x), w = "rolled back" => ~In(D, x)
    PROVE  Sound(D, k, [t EXCEPT ![x] = w])
BY DEF Sound, Done

\* The command returns.
LEMMA ReportKeeps == TaskInv /\ Report => TaskInv'
<1> SUFFICES ASSUME TaskInv, Report PROVE TaskInv'
  OBVIOUS
<1>0. op.at \in {"report", "report_rolled"} /\ op' = Idle
      /\ UNCHANGED <<fs, kind, quiet, raced>>
      /\ told' = IF op.cause = "recover" THEN told
                 ELSE [told EXCEPT ![op.txn] = IF op.at = "report" THEN "done" ELSE "rolled back"]
  BY DEF Report
<1>1. CASE op.cause = "recover"
  BY <1>0, <1>1, IdleGood DEF TaskInv
<1>2. CASE op.cause # "recover"
  <2> DEFINE w == IF op.at = "report" THEN "done" ELSE "rolled back"
             t == [told EXCEPT ![op.txn] = w]
  <2>1. /\ Typed(fs, op) /\ Histories(kind, told, quiet, raced)
        /\ Control(fs, op, kind, told) /\ Owned(fs, op, kind, told)
        /\ OnDisk(fs, op, kind, told, quiet) /\ Progress(fs, op, kind, told, quiet)
    BY DEF TaskInv, Good
  <2>2. /\ op.txn \in Txns /\ kind[op.txn] \in Kinds
        /\ op.at = "report" => fs.journal = None
        /\ fs.journal # None => fs.journal.txn = op.txn /\ fs.journal.phase = "prepared"
    BY <1>0, <2>1 DEF Control
  <2>3. /\ op.at = "report" => Done(fs.disk, kind, op.txn)
        /\ op.at = "report_rolled" => ~In(fs.disk, op.txn)
        /\ op.at = "report_rolled" /\ fs.journal # None => AllOld(fs, quiet)
    BY <1>2, <2>1 DEF Progress
  <2>4. /\ Good(fs, Idle, kind, told, quiet, raced)
    BY IdleGood DEF TaskInv
  <2>5. /\ w \in {"done", "rolled back"} /\ (w = "done" => op.at = "report")
        /\ (w = "rolled back" => op.at = "report_rolled")
    BY <1>0
  <2>6. told' = t
    BY <1>0, <1>2
  <2>7. /\ t \in [Txns -> {None, "done", "rolled back"}] /\ t[op.txn] = w
        /\ told \in [Txns -> {None, "done", "rolled back"}]
        /\ \A x \in Txns \ {op.txn} : t[x] = told[x]
    BY <2>1, <2>2, <2>5 DEF Histories
  <2> HIDE DEF w
  <2>8. \A D : Sound(D, kind, told) /\ (w = "done" => Done(D, kind, op.txn))
                 /\ (w = "rolled back" => ~In(D, op.txn))
               => Sound(D, kind, t)
    BY <2>2, <2>5, <2>7, SoundTold
  <2> HIDE DEF t
  <2>9. Histories(kind, t, quiet, raced)
    BY <2>1, <2>2, <2>7, Words DEF Histories
  <2>10. ~fs.linked
    BY <1>0, <2>1 DEF Owned
  <2>11. Idle.at = "idle" /\ Idle.txn = None
    BY DEF Idle, Command
  <2>12. Control(fs, Idle, kind, t)
    BY <2>11 DEF Control, Publishing, Undoing
  <2>13. Owned(fs, Idle, kind, t)
    BY <2>1, <2>2, <2>3, <2>5, <2>7, <2>10, <2>11 DEF Owned
  <2>14. OnDisk(fs, Idle, kind, t, quiet)
    <3>1. CASE fs.journal = None
      <4>1. Sound(fs.disk, kind, told)
        BY <2>1, <3>1 DEF OnDisk
      <4>2. Sound(fs.disk, kind, t)
        BY <2>3, <2>5, <2>8, <4>1
      <4> QED
        BY <3>1, <4>2 DEF OnDisk
    <3>2. CASE fs.journal # None
      <4>1. /\ w = "rolled back" /\ AllOld(fs, quiet) /\ fs.journal.phase # "committed"
        BY <2>2, <2>3, <2>5, <3>2, <1>0
      <4>2. ImagesSound(fs.journal, kind, told, quiet) /\ Between(fs, kind[op.txn], quiet)
        BY <2>1, <2>2, <3>2, <4>1 DEF OnDisk
      <4>3. Sound(fs.journal.before, kind, t)
        BY <2>2, <2>8, <3>2, <4>1, <4>2 DEF ImagesSound
      <4>4. ImagesSound(fs.journal, kind, t, quiet)
        BY <4>2, <4>3 DEF ImagesSound
      <4> QED
        BY <2>2, <2>11, <3>2, <4>1, <4>2, <4>4 DEF OnDisk
    <3> QED
      BY <3>1, <3>2
  <2>15. Progress(fs, Idle, kind, t, quiet)
    BY <2>11 DEF Progress
  <2>16. Good(fs, Idle, kind, t, quiet, raced)
    BY <2>4, <2>9, <2>12, <2>13, <2>14, <2>15 DEF Good
  <2> QED
    BY <1>0, <2>6, <2>16 DEF TaskInv
<1> QED
  BY <1>1, <1>2

\* A journal that was left is taken up: a committed one is finished, any other
\* undone.
LEMMA RecoverKeeps == TaskInv /\ Recover => TaskInv'
<1> SUFFICES ASSUME TaskInv, Recover PROVE TaskInv'
  OBVIOUS
<1> DEFINE l == IF J.phase = "committed" THEN "unmark" ELSE "roll_back"
           P == Command(l, J.txn, NoFiles, "recover")
<1>0. op = Idle /\ J # None /\ J = fs.journal /\ Goto(P)
  BY DEF Recover, J
<1>1. /\ Typed(fs, op) /\ Histories(kind, told, quiet, raced) /\ Owned(fs, op, kind, told)
      /\ OnDisk(fs, op, kind, told, quiet) /\ Made(fs, op, quiet, raced) /\ Kept(fs, op, kind, quiet)
  BY DEF TaskInv, Good
<1>2. /\ J \in Journals /\ J.txn \in Txns /\ kind[J.txn] \in Kinds
      /\ J.phase \in {"prepared", "committed"}
      /\ l \in {"unmark", "roll_back"} /\ (l = "unmark" <=> J.phase = "committed")
  BY <1>0, <1>1 DEF Typed, FileSystems, Journals, Owned
<1>3. /\ P.at = l /\ P.txn = J.txn /\ P.cause = "recover" /\ P.after = op.after /\ P.i = 1
      /\ P = [at |-> l, txn |-> J.txn, after |-> NoFiles, i |-> 1, cause |-> "recover"]
      /\ op.after = NoFiles /\ op.at = "idle"
  <2>2. P = [at |-> l, txn |-> J.txn, after |-> NoFiles, i |-> 1, cause |-> "recover"]
    BY DEF Command
  <2>3. op.after = NoFiles /\ op.at = "idle"
    BY <1>0 DEF Idle, Command
  <2> HIDE DEF P
  <2> QED
    BY <2>2, <2>3
<1> HIDE DEF l
<1>4. Typed(fs, P)
  <2>1. NoFiles \in Disks
    BY DEF NoFiles, Disks
  <2>2. l \in Labels
    BY <1>2 DEF Labels, Undoing
  <2> QED
    BY <1>1, <1>2, <1>3, <2>1, <2>2 DEF Typed, Commands
<1> HIDE DEF P
<1>5. Control(fs, P, kind, told)
  BY <1>0, <1>2, <1>3, Words DEF Control, Publishing, Undoing
<1>6. Owned(fs, P, kind, told)
  BY <1>0, <1>1, <1>2, <1>3 DEF Owned
<1>7. OnDisk(fs, P, kind, told, quiet)
  BY <1>0, <1>1, <1>2, <1>3 DEF OnDisk
<1>8. Progress(fs, P, kind, told, quiet)
  BY <1>2, <1>3 DEF Progress
<1>9. Made(fs, P, quiet, raced)
  BY <1>1, <1>3 DEF Made
<1>10. Kept(fs, P, kind, quiet)
  BY <1>0, <1>1, <1>2, <1>3 DEF Kept, Foreign
<1>11. Good(fs, P, kind, told, quiet, raced)
  BY <1>1, <1>4, <1>5, <1>6, <1>7, <1>8, <1>9, <1>10 DEF Good
<1> QED
  BY <1>0, <1>11, DecisionKeeps

\* What a rollback recognises of the files it is about to restore: nothing but
\* images.
LEMMA RecognisedImages ==
    ASSUME TaskInv, op.at = "roll_back", Recognised
    PROVE  \A f \in Changed(Kind) \cup Moved(Kind) :
              \/ fs.disk[f] \in {J.before[f], J.after[f], Absent}
              \/ f = "done" /\ fs.disk[f] = J.after["detail"]
<1>0. op.at \in Undoing
  BY DEF Undoing
<1>1. /\ Kind \in Kinds /\ Owned(fs, op, kind, told)
  BY <1>0, AtWork
<1>2. /\ "overview" \in Changed(Kind) \ Moved(Kind)
      /\ Kind = "new" => /\ Changed(Kind) = {"overview", "new"} /\ Moved(Kind) = {}
                         /\ Second(Kind) = "new" /\ ~Moves(Kind)
      /\ Kind # "new" => Second(Kind) = "detail"
      /\ Kind = "claim" => Changed(Kind) = {"overview", "detail"} /\ Moved(Kind) = {} /\ ~Moves(Kind)
      /\ Kind = "archive" => /\ Changed(Kind) = {"overview"} /\ Moved(Kind) = {"detail", "done"}
                             /\ Moves(Kind)
      /\ Kind = "logbook" => /\ Changed(Kind) = {"overview", "detail"}
                             /\ Moved(Kind) = {"detail", "done"} /\ Moves(Kind)
      /\ Kind \in {"new", "claim", "archive", "logbook"}
  BY <1>1, KindSets
<1>3. FileRecognised("overview") /\ FileRecognised(Second(Kind))
  <2>1. /\ DOMAIN Files(Kind) = {1, 2} /\ Files(Kind)[1] = "overview" /\ Files(Kind)[2] = Second(Kind)
    BY <1>1, KindsOfCommand
  <2>2. FileRecognised(Files(Kind)[1]) /\ FileRecognised(Files(Kind)[2])
    BY <2>1 DEF Recognised
  <2> QED
    BY <2>1, <2>2
<1>4. fs.disk["overview"] \in {J.before["overview"], J.after["overview"]}
  BY <1>3 DEF FileRecognised
<1>5. Kind = "new" => fs.disk["new"] \in {Absent, J.after["new"]}
  BY <1>2, <1>3 DEF FileRecognised
<1>6. Kind # "new" => fs.disk["detail"] \in {J.before["detail"], J.after["detail"], Absent}
  BY <1>2, <1>3 DEF FileRecognised
<1>7. Moves(Kind) => fs.disk["done"] \in {Absent, J.after["detail"]}
  <2>1. fs.linked => fs.disk["detail"] = fs.disk["done"]
    BY <1>1 DEF Owned
  <2>2. Moves(Kind) => MoveRecognised
    BY DEF Recognised
  <2> QED
    BY <2>1, <2>2 DEF MoveRecognised
<1> QED
  BY <1>2, <1>4, <1>5, <1>6, <1>7

\* A rollback is refused, or starts on nothing but images: what it overwrites
\* holds no edit that is not in one of them.
LEMMA CheckRollbackKeeps == TaskInv /\ CheckRollback => TaskInv'
<1> SUFFICES ASSUME TaskInv, CheckRollback PROVE TaskInv'
  OBVIOUS
<1>0. op.at = "roll_back" /\ op.at \in Undoing
  BY DEF CheckRollback, Undoing
<1>1. /\ fs \in FileSystems /\ op \in Commands /\ J = fs.journal /\ Kind = kind[op.txn]
      /\ J \in Journals /\ J.txn = op.txn /\ op.txn \in Txns /\ J.phase = "prepared"
      /\ Kind \in Kinds /\ op.cause # None
      /\ ImagesSound(J, kind, told, quiet) /\ Between(fs, Kind, quiet)
      /\ Owned(fs, op, kind, told)
  BY <1>0, AtWork
<1>2. CASE ~Recognised
  BY <1>2, IdleGood, DecisionKeeps DEF CheckRollback, TaskInv
<1>3. CASE Recognised
  <2> DEFINE l == IF Moves(Kind) THEN "move_back" ELSE "restore"
             P == Cmd(op, l, 1, op.cause)
  <2>1. Goto(P)
    BY <1>1, <1>3, Labelled DEF CheckRollback
  <2>2. l \in {"move_back", "restore"} /\ (l = "move_back" <=> Moves(Kind))
    OBVIOUS
  <2>3. /\ P.at = l /\ P.txn = op.txn /\ P.i = 1 /\ P.after = op.after /\ P.cause = op.cause
    BY DEF Cmd
  <2> HIDE DEF l
  <2>4. /\ Typed(fs, op) /\ Histories(kind, told, quiet, raced) /\ Control(fs, op, kind, told)
        /\ OnDisk(fs, op, kind, told, quiet) /\ Made(fs, op, quiet, raced) /\ Kept(fs, op, kind, quiet)
    BY DEF TaskInv, Good
  <2>5. Typed(fs, P)
    BY <2>2, <2>4 DEF Typed, Cmd, Commands, Labels, Undoing
  <2> HIDE DEF P
  <2>6. Control(fs, P, kind, told)
    BY <1>0, <1>1, <2>2, <2>3, <2>4 DEF Control, Publishing, Undoing
  <2>7. l = "restore" => ~fs.linked
    BY <1>1, <2>2 DEF Owned
  <2>8. Owned(fs, P, kind, told)
    BY <1>0, <1>1, <2>2, <2>3, <2>7 DEF Owned
  <2>9. OnDisk(fs, P, kind, told, quiet)
    BY <1>1, <2>2, <2>3, <2>4 DEF OnDisk
  <2>10. Progress(fs, P, kind, told, quiet)
    BY <1>1, <2>2, <2>3 DEF Progress
  <2>11. Made(fs, P, quiet, raced)
    BY <2>3, <2>4 DEF Made
  <2>12. Kept(fs, P, kind, quiet)
    <3> SUFFICES ASSUME NEW e \in quiet
                 PROVE  \/ In(J.before, e)
                        \/ \E f \in Paths \ (Changed(Kind) \cup Moved(Kind)) : e \in Body(fs.disk, f)
      BY <1>1, Words DEF Kept
    <3>1. \/ In(J.before, e)
          \/ \E f \in Paths \ (Changed(Kind) \cup Moved(Kind)) : e \in Body(fs.disk, f)
          \/ Foreign(fs, op, e)
      BY <1>1, <2>4, Words DEF Kept
    <3>2. ASSUME Foreign(fs, op, e)
          PROVE  \E f \in Paths \ (Changed(Kind) \cup Moved(Kind)) : e \in Body(fs.disk, f)
      <4>1. PICK f \in Paths : e \in Body(fs.disk, f)
        BY <3>2 DEF Foreign, In
      <4>2. ~In(J.before, e) /\ ~In(J.after, e)
        BY <1>1, <3>2 DEF Foreign
      <4>3. "detail" \in Paths
        BY DEF Paths
      <4>4. CASE f \in Changed(Kind) \cup Moved(Kind)
        <5>1. \/ fs.disk[f] \in {J.before[f], J.after[f], Absent}
              \/ fs.disk[f] = J.after["detail"]
          BY <1>0, <1>3, <4>4, RecognisedImages
        <5>2. Content(fs.disk[f]) \in {Content(J.before[f]), Content(J.after[f]), {}, Content(J.after["detail"])}
          <6>1. Content(Absent) = {}
            BY Words DEF Content
          <6> QED
            BY <5>1, <6>1
        <5>3. e \in Content(fs.disk[f])
          BY <4>1 DEF Body
        <5> QED
          BY <4>2, <4>3, <5>2, <5>3 DEF In, Body
      <4>5. CASE f \notin Changed(Kind) \cup Moved(Kind)
        BY <4>1, <4>5
      <4> QED
        BY <4>4, <4>5
    <3> QED
      BY <3>1, <3>2
  <2>13. Good(fs, P, kind, told, quiet, raced)
    BY <2>4, <2>5, <2>6, <2>8, <2>9, <2>10, <2>11, <2>12 DEF Good
  <2> QED
    BY <2>1, <2>13, DecisionKeeps
<1> QED
  BY <1>2, <1>3

\* Every kind of command works on files of the board.
LEMMA FilesOfKind ==
    ASSUME NEW kd
    PROVE  Changed(kd) \cup Moved(kd) \subseteq Paths
BY DEF Changed, Moved, Second, Paths

\* A step that takes something back, and tells a read that is under way.
LEMMA TakeBackKeeps ==
    ASSUME TaskInv, NEW G, NEW P, TakeBack(G, P), Good(G, P, kind, told, quiet, raced)
    PROVE  TaskInv'
<1>1. Good(fs, Idle, kind, told, quiet, raced) /\ Good(G, Idle, kind, told, quiet, raced)
  BY IdleGood DEF TaskInv
<1>2. fs' \in {fs, G} /\ op' \in {P, Idle} /\ (op' = P => fs' = G \/ P = Idle)
      /\ kind' = kind /\ told' = told /\ quiet' = quiet /\ raced' = raced
  BY DEF TakeBack
<1>3. Good(fs', op', kind, told, quiet, raced)
  BY <1>1, <1>2
<1> QED
  BY <1>2, <1>3 DEF TaskInv

\* A step of a rollback that changes one file and leaves no link.
LEMMA UndoStep ==
    ASSUME TaskInv, op.at \in Undoing \ {"roll_back"},
           NEW f \in Changed(Kind) \cup Moved(Kind), NEW b \in {Absent, J.before[f]},
           NEW G \in FileSystems, G.disk = With(fs.disk, f, b),
           ~G.linked, G.dir = fs.dir, G.journal = fs.journal,
           NEW l \in Undoing \ {"rmdir"}, NEW n \in {1, 2},
           l \in {"move_back", "linked_back", "unlink_back"} => Moves(Kind),
           l = "unmark_back" => J.owns, l = "forget_back" => ~J.owns,
           Between(G, Kind, quiet),
           told[op.txn] = "rolled back" => AllOld(G, quiet) /\ l \notin {"linked_back", "unlink_back"},
           Progress(G, Cmd(op, l, n, op.cause), kind, told, quiet)
    PROVE  Good(G, Cmd(op, l, n, op.cause), kind, told, quiet, raced)
<1>0. op.at \in Undoing
  OBVIOUS
<1>1. /\ fs \in FileSystems /\ J = fs.journal /\ J \in Journals /\ Kind \in Kinds
      /\ EditsOf(fs.disk, quiet, raced) /\ EditsOf(J.before, quiet, raced)
      /\ Owned(fs, op, kind, told) /\ op.cause # None
  BY <1>0, AtWork
<1>2. f \in Paths /\ b \in Bodies \cup {Absent, Torn} /\ fs.disk \in Disks
  <2>1. f \in Paths
    BY FilesOfKind
  <2>2. fs.disk \in Disks /\ J.before \in [Paths -> Bodies \cup {Absent, Torn}]
    BY <1>1 DEF Journals, Disks, FileSystems
  <2> QED
    BY <2>1, <2>2
<1>3. \A g \in Paths \ {f} : G.disk[g] = fs.disk[g]
  <2>1. f \in Paths /\ b \in Bodies \cup {Absent, Torn}
    BY <1>2
  <2>2. fs.disk \in Disks
    BY <1>2
  <2>3. \A g \in Paths \ {f} : With(fs.disk, f, b)[g] = fs.disk[g]
    BY <2>1, <2>2, OneFile
  <2> QED
    BY <2>3
<1>4. EditsOf(G.disk, quiet, raced)
  <2>1. Content(b) \cap Edits \subseteq quiet \cup raced
    BY <1>1, <1>2, Words DEF Content, EditsOf, Body
  <2> QED
    BY <1>1, <1>2, <2>1, EditsStay
<1>5. Concerns(fs, G, Kind)
  BY <1>3 DEF Concerns
<1>6. Leads(op, l, n, op.cause, Kind)
  BY <1>1 DEF Leads, Undoing
<1> DEFINE P == Cmd(op, l, n, op.cause)
<1>7. P.at = l
  BY DEF Cmd
<1> HIDE DEF P
<1>8. Owned(G, P, kind, told)
  BY <1>1, <1>7 DEF Owned, Undoing
<1> QED
  BY <1>4, <1>5, <1>6, <1>8, OpStep DEF P

\* A step of a rollback that changes the archive's directory, or nothing.
LEMMA DirStep ==
    ASSUME TaskInv, op.at \in Undoing \ {"roll_back"}, ~fs.linked,
           NEW G \in FileSystems, G.disk = fs.disk, ~G.linked, G.journal = fs.journal,
           G.dir \in Txns => G.dir = J.txn /\ J.owns,
           NEW l \in {"restore", "unmark_back", "rmdir", "forget_back"},
           l \in {"unmark_back", "rmdir"} => J.owns, l = "forget_back" => G.dir \notin Txns,
           Progress(G, Cmd(op, l, 1, op.cause), kind, told, quiet)
    PROVE  Good(G, Cmd(op, l, 1, op.cause), kind, told, quiet, raced)
<1>0. op.at \in Undoing
  OBVIOUS
<1>1. /\ fs \in FileSystems /\ J = fs.journal /\ J \in Journals
      /\ EditsOf(fs.disk, quiet, raced) /\ Between(fs, Kind, quiet)
      /\ Owned(fs, op, kind, told) /\ op.cause # None
      /\ told[op.txn] = "rolled back" => AllOld(fs, quiet)
  BY <1>0, AtWork
<1>2. /\ AllOld(fs, quiet) => AllOld(G, quiet)
      /\ Between(G, Kind, quiet)
  BY <1>1, SameDisk
<1>3. Concerns(fs, G, Kind)
  BY DEF Concerns
<1>4. Leads(op, l, 1, op.cause, Kind)
  BY <1>1 DEF Leads, Undoing
<1> DEFINE P == Cmd(op, l, 1, op.cause)
<1>5. P.at = l
  BY DEF Cmd
<1> HIDE DEF P
<1>6. Owned(G, P, kind, told)
  BY <1>1, <1>5, Words DEF Owned
<1> QED
  BY <1>1, <1>2, <1>3, <1>4, <1>6, OpStep DEF P

\* A file of a kind that moves one; what a moved file's images are.
LEMMA MovedFiles ==
    ASSUME TaskInv, op.at \in Undoing, Moves(Kind)
    PROVE  /\ Moved(Kind) = {"detail", "done"} /\ "overview" \in Changed(Kind) \ Moved(Kind)
           /\ Changed(Kind) \cup Moved(Kind) = {"overview", "detail", "done"}
           /\ Changed(Kind) \ Moved(Kind) = {"overview"} /\ Second(Kind) = "detail"
           /\ Paths = {"overview", "detail", "new", "done"}
           /\ J.before["done"] = Absent
           /\ J.before["detail"] \in Bodies /\ J.after["detail"] \in Bodies
<1>1. Kind \in Kinds /\ ImagesSound(J, kind, told, quiet) /\ J.txn = op.txn /\ Kind = kind[op.txn]
  BY AtWork
<1>2. /\ Kind = "archive" => /\ Changed(Kind) = {"overview"} /\ Moved(Kind) = {"detail", "done"}
      /\ Kind = "logbook" => /\ Changed(Kind) = {"overview", "detail"}
                             /\ Moved(Kind) = {"detail", "done"}
      /\ Kind \in {"archive", "logbook"} /\ Second(Kind) = "detail"
      /\ Paths = {"overview", "detail", "new", "done"}
  BY <1>1, KindSets
<1>3. J.before["done"] = Absent /\ J.before["detail"] \in Bodies
  BY <1>1, <1>2 DEF ImagesSound
<1>4. J.after["detail"] \in Bodies
  BY <1>1, <1>2, <1>3 DEF ImagesSound, Adds
<1> QED
  BY <1>2, <1>3, <1>4

\* A moved file is taken back: its source is there, or is linked back first.
LEMMA MoveBackKeeps == TaskInv /\ MoveBack => TaskInv'
<1> SUFFICES ASSUME TaskInv, MoveBack PROVE TaskInv'
  OBVIOUS
<1>0. op.at = "move_back" /\ op.at \in Undoing \ {"roll_back"} /\ op.at \in Undoing
  BY DEF MoveBack, Undoing
<1>1. /\ fs \in FileSystems /\ op \in Commands /\ J = fs.journal /\ Kind = kind[op.txn]
      /\ J \in Journals /\ J.txn = op.txn /\ op.txn \in Txns /\ J.phase = "prepared"
      /\ Kind \in Kinds /\ op.cause # None
      /\ EditsOf(fs.disk, quiet, raced) /\ EditsOf(J.after, quiet, raced)
      /\ Between(fs, Kind, quiet) /\ Owned(fs, op, kind, told)
      /\ told[op.txn] = "rolled back" => AllOld(fs, quiet)
  BY <1>0, AtWork
<1>2. Moves(Kind)
  BY <1>0, <1>1 DEF TaskInv, Good, Control
<1>3. /\ Moved(Kind) = {"detail", "done"} /\ "overview" \in Changed(Kind) \ Moved(Kind)
      /\ Changed(Kind) \cup Moved(Kind) = {"overview", "detail", "done"}
      /\ Changed(Kind) \ Moved(Kind) = {"overview"}
      /\ Paths = {"overview", "detail", "new", "done"}
      /\ J.before["done"] = Absent
      /\ J.before["detail"] \in Bodies /\ J.after["detail"] \in Bodies
  BY <1>0, <1>2, MovedFiles
<1>4. \/ Goto(Idle)
      \/ fs.disk["done"] = Absent /\ Goto(At("restore"))
      \/ fs.linked /\ TakeBack(Unlink("done"), At("restore"))
      \/ /\ fs.disk["detail"] = Absent /\ fs.disk["done"] = J.after["detail"] /\ ~fs.linked
         /\ TakeBack(Link("detail", fs.disk["done"]), At("linked_back"))
  <2>1. fs.disk["detail"] = Absent => ~fs.linked
    BY <1>1, Words DEF Owned
  <2>2. CASE fs.disk["done"] = Absent \/ fs.linked
    <3>1. ~(fs.disk["detail"] = Absent /\ fs.disk["done"] = J.after["detail"])
      BY <1>3, <2>1, <2>2, Words
    <3> QED
      BY <2>2, <3>1 DEF MoveBack
  <2>3. CASE ~(fs.disk["done"] = Absent \/ fs.linked)
    BY <2>3 DEF MoveBack
  <2> QED
    BY <2>1, <2>2, <2>3
<1>5. CASE Goto(Idle)
  BY <1>5, IdleGood, DecisionKeeps DEF TaskInv
<1>6. CASE fs.disk["done"] = Absent /\ Goto(At("restore"))
  <2> DEFINE P == Cmd(op, "restore", 1, op.cause)
  <2>1. Goto(P)
    BY <1>1, <1>6, Labelled
  <2>2. P.at = "restore" /\ P.i = 1 /\ P.txn = op.txn
    BY DEF Cmd
  <2> HIDE DEF P
  <2>3. ~fs.linked
    BY <1>1, <1>6, Words DEF Owned
  <2>4. Old(fs, "done", quiet)
    BY <1>1, <1>3, <1>6 DEF Old, Like
  <2>5. Progress(fs, P, kind, told, quiet)
    BY <2>2, <2>4 DEF Progress
  <2>6. fs.dir \in Txns => fs.dir = J.txn /\ J.owns
    BY <1>1 DEF Owned
  <2>7. Good(fs, P, kind, told, quiet, raced)
    BY <1>0, <1>1, <2>3, <2>5, <2>6, DirStep DEF P
  <2> QED
    BY <2>1, <2>7, DecisionKeeps
<1>7. CASE fs.linked /\ TakeBack(Unlink("done"), At("restore"))
  <2> DEFINE P == Cmd(op, "restore", 1, op.cause)
             G == Unlink("done")
  <2>1. TakeBack(G, P)
    BY <1>1, <1>7, Labelled
  <2>2. P.at = "restore" /\ P.i = 1 /\ P.txn = op.txn
    BY DEF Cmd
  <2>3. G = Unlink("done")
    OBVIOUS
  <2> HIDE DEF P, G
  <2>4. "done" \in Paths /\ Absent \in Bodies \cup {Absent, Torn}
    BY <1>3
  <2>5. /\ G \in FileSystems /\ G.disk = With(fs.disk, "done", Absent)
        /\ ~G.linked /\ G.dir = fs.dir /\ G.journal = fs.journal
    BY <1>1, <2>3, <2>4, PutLinked
  <2>6. told[op.txn] = None /\ fs.disk["detail"] \in Bodies
    BY <1>1, <1>7 DEF Owned
  <2>7. Old(fs, "detail", quiet) \/ New(fs, "detail", quiet)
    BY <1>1, <1>2, <2>6, Words DEF Between
  <2>8. /\ \A g \in Paths \ {"done"} : /\ Old(G, g, quiet) <=> Old(fs, g, quiet)
                                       /\ New(G, g, quiet) <=> New(fs, g, quiet)
        /\ Absent = fs.journal.before["done"] => Old(G, "done", quiet)
    BY <1>1, <2>4, <2>5, OneImage
  <2>9. Old(G, "done", quiet)
    BY <1>1, <1>3, <2>8
  <2>10. Between(G, Kind, quiet)
    <3>1. G.disk["overview"] = fs.disk["overview"]
      <4>1. fs.disk \in Disks
        BY <1>1 DEF FileSystems
      <4>2. \A g \in Paths \ {"done"} : With(fs.disk, "done", Absent)[g] = fs.disk[g]
        BY <2>4, <4>1, OneFile
      <4>3. "overview" \in Paths \ {"done"}
        BY <1>3
      <4> QED
        BY <2>5, <4>2, <4>3
    <3> QED
      BY <1>1, <1>2, <1>3, <2>7, <2>8, <2>9, <3>1 DEF Between
  <2>11. Progress(G, P, kind, told, quiet)
    BY <2>2, <2>9 DEF Progress
  <2>12. told[op.txn] # "rolled back"
    BY <2>6, Words
  <2>13. Good(G, P, kind, told, quiet, raced)
    BY <1>0, <1>3, <2>5, <2>10, <2>11, <2>12, UndoStep DEF P, Undoing
  <2> QED
    BY <2>1, <2>13, TakeBackKeeps
<1>8. CASE /\ fs.disk["detail"] = Absent /\ fs.disk["done"] = J.after["detail"] /\ ~fs.linked
           /\ TakeBack(Link("detail", fs.disk["done"]), At("linked_back"))
  <2> DEFINE P == Cmd(op, "linked_back", 1, op.cause)
             b == fs.disk["done"]
             G == Link("detail", b)
  <2>1. TakeBack(G, P)
    BY <1>1, <1>8, Labelled
  <2>2. P.at = "linked_back" /\ P.txn = op.txn
    BY DEF Cmd
  <2>3. G = Link("detail", b) /\ b = J.after["detail"] /\ b = fs.disk["done"]
    BY <1>8
  <2> HIDE DEF P, G, b
  <2>4. /\ "detail" \in Paths /\ "done" \in Paths \ {"detail"} /\ b \in Bodies
        /\ b \in Bodies \cup {Absent, Torn}
    BY <1>3, <2>3
  <2>5. /\ G \in FileSystems /\ G.disk = With(fs.disk, "detail", b)
        /\ G.linked /\ G.dir = fs.dir /\ G.journal = fs.journal
    <3>1. fs \in FileSystems
      BY <1>1
    <3>2. G = Link("detail", b)
      BY <2>3
    <3>3. "detail" \in Paths /\ b \in Bodies \cup {Absent, Torn}
      BY <2>4
    <3> QED
      BY <3>1, <3>2, <3>3, PutLinked
  <2>6. /\ G.disk["detail"] = b /\ \A g \in Paths \ {"detail"} : G.disk[g] = fs.disk[g]
    <3>1. fs.disk \in Disks
      BY <1>1 DEF FileSystems
    <3>2. With(fs.disk, "detail", b)["detail"] = b
          /\ \A g \in Paths \ {"detail"} : With(fs.disk, "detail", b)[g] = fs.disk[g]
      BY <2>4, <3>1, OneFile
    <3> QED
      BY <2>5, <3>2
  <2>7. told[op.txn] # "rolled back"
    <3> SUFFICES ASSUME Old(fs, "detail", quiet) PROVE FALSE
      BY <1>1, <2>4 DEF AllOld
    <3>1. fs.disk["detail"] = Absent <=> J.before["detail"] = Absent
      <4>1. "detail" \notin {"new", "done"}
        OBVIOUS
      <4>2. \A f \in Paths : Old(fs, f, quiet) =>
                (f \notin {"new", "done"} => (fs.disk[f] = Absent <=> fs.journal.before[f] = Absent))
        BY <1>1, Marks
      <4> QED
        BY <1>1, <2>4, <4>1, <4>2
    <3> QED
      BY <1>3, <1>8, <3>1, Words
  <2>8. told[op.txn] = None
    <3>1. told \in [Txns -> {None, "done", "rolled back"}]
      BY DEF TaskInv, Good, Histories
    <3>2. told[op.txn] # "done"
      BY <1>1, Words DEF Owned
    <3> QED
      BY <1>1, <2>7, <3>1, <3>2
  <2>9. /\ \A g \in Paths \ {"detail"} : /\ Old(G, g, quiet) <=> Old(fs, g, quiet)
                                         /\ New(G, g, quiet) <=> New(fs, g, quiet)
        /\ AtDone(G, quiet) <=> AtDone(fs, quiet)
        /\ b = fs.journal.after["detail"] => New(G, "detail", quiet)
    <3>1. "detail" # "done"
      OBVIOUS
    <3> QED
      BY <1>1, <2>4, <2>5, <3>1, OneImage
  <2>10. New(G, "detail", quiet) /\ AtDone(G, quiet)
    BY <1>1, <2>3, <2>9 DEF AtDone, Like
  <2>11. Between(G, Kind, quiet)
    BY <1>1, <1>2, <1>3, <2>6, <2>9, <2>10 DEF Between
  <2>12. Progress(G, P, kind, told, quiet)
    BY <2>2, <2>10 DEF Progress
  <2>13. Concerns(fs, G, Kind)
    BY <1>3, <2>5, <2>6 DEF Concerns
  <2>14. EditsOf(G.disk, quiet, raced)
    <3>1. Content(b) \cap Edits \subseteq quiet \cup raced
      BY <1>1, <2>3, <2>4 DEF EditsOf, Body
    <3>2. fs.disk \in Disks
      BY <1>1 DEF FileSystems
    <3> QED
      BY <1>1, <2>4, <2>5, <3>1, <3>2, EditsStay
  <2>15. Owned(G, P, kind, told)
    <3>1. /\ G.disk["detail"] = G.disk["done"] /\ G.disk["detail"] \in Bodies
      BY <2>3, <2>4, <2>6
    <3>2. fs.journal # None
      BY <1>1, Words
    <3> QED
      BY <1>1, <1>2, <2>2, <2>5, <2>8, <3>1, <3>2 DEF Owned
  <2>16. Leads(op, "linked_back", 1, op.cause, Kind)
    BY <1>0, <1>1, <1>2 DEF Leads, Undoing
  <2>17. Good(G, P, kind, told, quiet, raced)
    BY <2>7, <2>11, <2>12, <2>13, <2>14, <2>15, <2>16, OpStep DEF P
  <2> QED
    BY <2>1, <2>17, TakeBackKeeps
<1> QED
  BY <1>4, <1>5, <1>6, <1>7, <1>8

\* The link back is found, or whatever was put there is removed.
LEMMA VerifyLinkBackKeeps == TaskInv /\ VerifyLinkBack => TaskInv'
<1> SUFFICES ASSUME TaskInv, VerifyLinkBack PROVE TaskInv'
  OBVIOUS
<1>0. op.at = "linked_back" /\ op.at \in Undoing \ {"roll_back"} /\ op.at \in Undoing
  BY DEF VerifyLinkBack, Undoing
<1>1. /\ fs \in FileSystems /\ op \in Commands /\ J = fs.journal /\ Kind = kind[op.txn]
      /\ J \in Journals /\ op.cause # None
      /\ EditsOf(fs.disk, quiet, raced)
      /\ Between(fs, Kind, quiet) /\ Owned(fs, op, kind, told)
      /\ Progress(fs, op, kind, told, quiet)
      /\ told[op.txn] # "rolled back"
  BY <1>0, AtWork
<1>2. Moves(Kind) /\ AtDone(fs, quiet) /\ New(fs, "detail", quiet)
  BY <1>0, <1>1 DEF TaskInv, Good, Control, Progress
<1>3. /\ Moved(Kind) = {"detail", "done"} /\ "overview" \in Changed(Kind) \ Moved(Kind)
      /\ Changed(Kind) \cup Moved(Kind) = {"overview", "detail", "done"}
      /\ Changed(Kind) \ Moved(Kind) = {"overview"}
      /\ Paths = {"overview", "detail", "new", "done"}
  BY <1>0, <1>2, MovedFiles
<1>4. CASE fs.linked
  <2> DEFINE P == Cmd(op, "unlink_back", 1, op.cause)
  <2>1. Goto(P)
    BY <1>1, <1>4, Labelled DEF VerifyLinkBack
  <2>2. P.at = "unlink_back"
    BY DEF Cmd
  <2> HIDE DEF P
  <2>3. Owned(fs, P, kind, told)
    BY <1>0, <1>1, <2>2 DEF Owned
  <2>4. Progress(fs, P, kind, told, quiet)
    BY <1>2, <2>2 DEF Progress
  <2>5. Concerns(fs, fs, Kind)
    BY <1>1 DEF Concerns
  <2>6. Leads(op, "unlink_back", 1, op.cause, Kind)
    BY <1>0, <1>1, <1>2 DEF Leads, Undoing
  <2>7. Good(fs, P, kind, told, quiet, raced)
    BY <1>0, <1>1, <2>3, <2>4, <2>5, <2>6, OpStep DEF P
  <2> QED
    BY <2>1, <2>7, DecisionKeeps
<1>5. CASE ~fs.linked
  <2> DEFINE P == Cmd(op, "move_back", 1, op.cause)
             G == Put("detail", Absent)
  <2>1. TakeBack(G, Idle)
    BY <1>5 DEF VerifyLinkBack
  <2>2. P.at = "move_back"
    BY DEF Cmd
  <2>3. "detail" \in Paths /\ "done" \in Paths /\ Absent \in Bodies \cup {Absent, Torn}
    BY <1>3
  <2>4. /\ G \in FileSystems /\ G.disk = With(fs.disk, "detail", Absent)
        /\ G.linked = fs.linked /\ G.dir = fs.dir /\ G.journal = fs.journal
    BY <1>1, <2>3, PutFields
  <2> HIDE DEF P, G
  <2>5. /\ \A g \in Paths \ {"detail"} : /\ Old(G, g, quiet) <=> Old(fs, g, quiet)
                                         /\ New(G, g, quiet) <=> New(fs, g, quiet)
        /\ AtDone(G, quiet) <=> AtDone(fs, quiet)
    <3>1. "detail" # "done"
      OBVIOUS
    <3> QED
      BY <1>1, <2>3, <2>4, <3>1, OneImage
  <2>6. /\ G.disk["detail"] = Absent /\ \A g \in Paths \ {"detail"} : G.disk[g] = fs.disk[g]
    <3>1. fs.disk \in Disks
      BY <1>1 DEF FileSystems
    <3>2. With(fs.disk, "detail", Absent)["detail"] = Absent
          /\ \A g \in Paths \ {"detail"} : With(fs.disk, "detail", Absent)[g] = fs.disk[g]
      BY <2>3, <3>1, OneFile
    <3> QED
      BY <2>4, <3>2
  <2>7. Between(G, Kind, quiet)
    BY <1>1, <1>2, <1>3, <2>5, <2>6 DEF Between
  <2>8. Progress(G, P, kind, told, quiet)
    BY <2>2 DEF Progress
  <2>9. Good(G, P, kind, told, quiet, raced)
    BY <1>0, <1>1, <1>2, <1>3, <1>5, <2>4, <2>7, <2>8, UndoStep DEF P, Undoing
  <2>10. Good(G, Idle, kind, told, quiet, raced)
    BY <2>9, IdleGood
  <2> QED
    BY <2>1, <2>10, TakeBackKeeps
<1> QED
  BY <1>4, <1>5

\* The destination of a move that was linked back goes.
LEMMA UnlinkBackKeeps == TaskInv /\ UnlinkBack => TaskInv'
<1> SUFFICES ASSUME TaskInv, UnlinkBack PROVE TaskInv'
  OBVIOUS
<1>0. op.at = "unlink_back" /\ op.at \in Undoing \ {"roll_back"} /\ op.at \in Undoing
  BY DEF UnlinkBack, Undoing
<1>1. /\ fs \in FileSystems /\ op \in Commands /\ J = fs.journal /\ Kind = kind[op.txn]
      /\ J \in Journals
      /\ Between(fs, Kind, quiet) /\ Progress(fs, op, kind, told, quiet)
      /\ told[op.txn] # "rolled back"
  BY <1>0, AtWork
<1>2. Moves(Kind) /\ New(fs, "detail", quiet)
  BY <1>0, <1>1 DEF TaskInv, Good, Control, Progress
<1>3. /\ Moved(Kind) = {"detail", "done"} /\ "overview" \in Changed(Kind) \ Moved(Kind)
      /\ Changed(Kind) \cup Moved(Kind) = {"overview", "detail", "done"}
      /\ Changed(Kind) \ Moved(Kind) = {"overview"}
      /\ Paths = {"overview", "detail", "new", "done"} /\ J.before["done"] = Absent
  BY <1>0, <1>2, MovedFiles
<1> DEFINE P == Cmd(op, "restore", 1, op.cause)
           G == Unlink("done")
<1>4. TakeBack(G, P)
  BY <1>1, Labelled DEF UnlinkBack
<1>5. P.at = "restore" /\ P.i = 1 /\ P.txn = op.txn
  BY DEF Cmd
<1>6. G = Unlink("done")
  OBVIOUS
<1> HIDE DEF P, G
<1>7. "done" \in Paths /\ Absent \in Bodies \cup {Absent, Torn}
  BY <1>3
<1>8. /\ G \in FileSystems /\ G.disk = With(fs.disk, "done", Absent)
      /\ ~G.linked /\ G.dir = fs.dir /\ G.journal = fs.journal
  BY <1>1, <1>6, <1>7, PutLinked
<1>9. /\ \A g \in Paths \ {"done"} : /\ Old(G, g, quiet) <=> Old(fs, g, quiet)
                                     /\ New(G, g, quiet) <=> New(fs, g, quiet)
      /\ Absent = fs.journal.before["done"] => Old(G, "done", quiet)
  BY <1>1, <1>7, <1>8, OneImage
<1>10. Old(G, "done", quiet) /\ New(G, "detail", quiet)
  BY <1>1, <1>2, <1>3, <1>9
<1>11. Between(G, Kind, quiet)
  <2>1. G.disk["overview"] = fs.disk["overview"]
    <3>1. fs.disk \in Disks
      BY <1>1 DEF FileSystems
    <3>2. \A g \in Paths \ {"done"} : With(fs.disk, "done", Absent)[g] = fs.disk[g]
      BY <1>7, <3>1, OneFile
    <3>3. "overview" \in Paths \ {"done"}
      BY <1>3
    <3> QED
      BY <1>8, <3>2, <3>3
  <2> QED
    BY <1>1, <1>2, <1>3, <1>9, <1>10, <2>1 DEF Between
<1>12. Progress(G, P, kind, told, quiet)
  BY <1>5, <1>10 DEF Progress
<1>13. Good(G, P, kind, told, quiet, raced)
  BY <1>0, <1>1, <1>3, <1>8, <1>11, <1>12, UndoStep DEF P, Undoing
<1> QED
  BY <1>4, <1>13, TakeBackKeeps

\* A file gets its image from before.
LEMMA RestoreFileKeeps == TaskInv /\ RestoreFile => TaskInv'
<1> SUFFICES ASSUME TaskInv, RestoreFile PROVE TaskInv'
  OBVIOUS
<1>0. op.at = "restore" /\ op.at \in Undoing \ {"roll_back"} /\ op.at \in Undoing
  BY DEF RestoreFile, Undoing
<1>1. /\ fs \in FileSystems /\ op \in Commands /\ J = fs.journal /\ Kind = kind[op.txn]
      /\ J \in Journals /\ Kind \in Kinds /\ op.i \in {1, 2}
      /\ Between(fs, Kind, quiet) /\ Owned(fs, op, kind, told)
      /\ Progress(fs, op, kind, told, quiet)
      /\ told[op.txn] = "rolled back" => AllOld(fs, quiet)
  BY <1>0, AtWork DEF Commands
<1>2. /\ op.i = 2 => Old(fs, "overview", quiet)
      /\ Moves(Kind) => Old(fs, "done", quiet)
      /\ ~fs.linked
  BY <1>0, <1>1 DEF Progress, Owned
<1>3. /\ "overview" \in Changed(Kind) \ Moved(Kind)
      /\ Kind = "new" => /\ Changed(Kind) = {"overview", "new"} /\ Moved(Kind) = {} /\ ~Moves(Kind)
      /\ Kind = "claim" => Changed(Kind) = {"overview", "detail"} /\ Moved(Kind) = {} /\ ~Moves(Kind)
      /\ Kind = "archive" => /\ Changed(Kind) = {"overview"} /\ Moved(Kind) = {"detail", "done"}
                             /\ Moves(Kind)
      /\ Kind = "logbook" => /\ Changed(Kind) = {"overview", "detail"}
                             /\ Moved(Kind) = {"detail", "done"} /\ Moves(Kind)
      /\ Kind \in {"new", "claim", "archive", "logbook"}
      /\ Paths = {"overview", "detail", "new", "done"}
      /\ Kind = "new" => Second(Kind) = "new"
      /\ Kind # "new" => Second(Kind) = "detail"
  BY <1>1, KindSets
<1> DEFINE f == Files(Kind)[op.i]
           b == J.before[f]
           G == [Put(f, b) EXCEPT !.linked = IF f = "detail" THEN FALSE ELSE @]
<1>4. TakeBack(G, IF op.i < Len(Files(Kind)) THEN [op EXCEPT !.i = @ + 1]
                  ELSE At(IF J.owns THEN "unmark_back" ELSE "forget_back"))
  BY DEF RestoreFile
<1>5. /\ Len(Files(Kind)) = 2
      /\ op.i = 1 => f = "overview"
      /\ op.i = 2 => f = Second(Kind)
  BY <1>1, KindsOfCommand
<1>6. f \in Changed(Kind) \cup Moved(Kind) /\ f \in Paths
  BY <1>1, <1>3, <1>5
<1>7. b \in Bodies \cup {Absent, Torn} /\ b = fs.journal.before[f]
  <2>1. J.before \in [Paths -> Bodies \cup {Absent, Torn}]
    BY <1>1 DEF Journals, Disks
  <2> QED
    BY <1>1, <1>6, <2>1
<1>8. G = [Put(f, b) EXCEPT !.linked = IF f = "detail" THEN FALSE ELSE @]
      /\ b \in {Absent, J.before[f]}
  OBVIOUS
<1> HIDE DEF G, b, f
<1>9. /\ G \in FileSystems /\ G.disk = With(fs.disk, f, b)
      /\ ~G.linked /\ G.dir = fs.dir /\ G.journal = fs.journal
  <2> DEFINE H == Put(f, b)
  <2>1. /\ H \in FileSystems /\ H.disk = With(fs.disk, f, b)
        /\ H.linked = fs.linked /\ H.dir = fs.dir /\ H.journal = fs.journal
    BY <1>1, <1>6, <1>7, PutFields
  <2>2. G = [H EXCEPT !.linked = IF f = "detail" THEN FALSE ELSE @]
    BY <1>8
  <2> HIDE DEF H
  <2>3. G \in FileSystems /\ G.disk = H.disk /\ ~G.linked /\ G.dir = H.dir /\ G.journal = H.journal
    BY <1>2, <2>1, <2>2 DEF FileSystems
  <2> QED
    BY <2>1, <2>3
<1>10. /\ \A g \in Paths \ {f} : /\ Old(G, g, quiet) <=> Old(fs, g, quiet)
                                 /\ New(G, g, quiet) <=> New(fs, g, quiet)
       /\ f # "done" => (AtDone(G, quiet) <=> AtDone(fs, quiet))
       /\ Old(G, f, quiet)
  <2>1. /\ \A g \in Paths \ {f} : /\ Old(G, g, quiet) <=> Old(fs, g, quiet)
                                  /\ New(G, g, quiet) <=> New(fs, g, quiet)
        /\ f # "done" => (AtDone(G, quiet) <=> AtDone(fs, quiet))
        /\ b = fs.journal.before[f] => Old(G, f, quiet)
    <3>1. /\ fs \in FileSystems /\ f \in Paths /\ b \in Bodies \cup {Absent, Torn}
          /\ G.disk = With(fs.disk, f, b) /\ G.journal = fs.journal
      BY <1>1, <1>6, <1>7, <1>9
    <3> HIDE <1>1, <1>6, <1>7, <1>9
    <3> QED
      BY <3>1, OneImage
  <2> QED
    BY <1>7, <2>1
<1>11. \A g \in Paths \ {f} : G.disk[g] = fs.disk[g]
  <2>1. fs.disk \in Disks
    BY <1>1 DEF FileSystems
  <2>2. \A g \in Paths \ {f} : With(fs.disk, f, b)[g] = fs.disk[g]
    BY <1>6, <1>7, <2>1, OneFile
  <2> QED
    BY <1>9, <2>2
<1>12. AllOld(fs, quiet) => AllOld(G, quiet)
  BY <1>10 DEF AllOld
<1>13. Between(G, Kind, quiet)
  <2>1. CASE f = "overview"
    BY <1>1, <1>3, <1>10, <1>11, <2>1 DEF Between
  <2>2. CASE f = "new" /\ Kind = "new"
    BY <1>1, <1>3, <1>10, <1>11, <2>2 DEF Between
  <2>3. CASE f = "detail" /\ Kind # "new"
    BY <1>1, <1>3, <1>10, <1>11, <2>3 DEF Between
  <2> QED
    BY <1>1, <1>3, <1>5, <2>1, <2>2, <2>3
<1>14. Moves(Kind) => Old(G, "done", quiet)
  BY <1>2, <1>3, <1>5, <1>1, <1>10
<1>15. CASE op.i = 1
  <2> DEFINE P == Cmd(op, "restore", 2, op.cause)
  <2>1. op.i < Len(Files(Kind)) /\ op.i + 1 = 2
    <3>1. op.i = 1 /\ Len(Files(Kind)) = 2
      BY <1>5, <1>15
    <3> HIDE <1>5, <1>15
    <3> QED
      BY <3>1
  <2>2. TakeBack(G, [op EXCEPT !.i = @ + 1])
    BY <1>4, <2>1
  <2>3. [op EXCEPT !.i = @ + 1] = P
    BY <1>0, <1>1, <2>1, Labelled
  <2>4. P.at = "restore" /\ P.i = 2 /\ P.txn = op.txn
    BY DEF Cmd
  <2> HIDE DEF P
  <2>5. Progress(G, P, kind, told, quiet)
    BY <1>1, <1>5, <1>10, <1>14, <1>15, <2>4 DEF Progress
  <2>6. Good(G, P, kind, told, quiet, raced)
    BY <1>0, <1>1, <1>6, <1>8, <1>9, <1>12, <1>13, <2>5, UndoStep DEF P, Undoing
  <2> QED
    BY <2>2, <2>3, <2>6, TakeBackKeeps
<1>16. CASE op.i = 2
  <2> DEFINE l == IF J.owns THEN "unmark_back" ELSE "forget_back"
             P == Cmd(op, l, 1, op.cause)
  <2>1. ~(op.i < Len(Files(Kind)))
    <3>1. op.i = 2 /\ Len(Files(Kind)) = 2
      BY <1>5, <1>16
    <3> HIDE <1>5, <1>16
    <3> QED
      BY <3>1
  <2>2. TakeBack(G, At(l))
    BY <1>4, <2>1
  <2>3. At(l) = P
    BY <1>1, Labelled
  <2>4. P.at = l /\ P.i = 1 /\ P.txn = op.txn
    BY DEF Cmd
  <2>5. /\ l \in {"unmark_back", "forget_back"}
        /\ l = "unmark_back" => J.owns
        /\ l = "forget_back" => ~J.owns
    OBVIOUS
  <2> HIDE DEF P, l
  <2>6. AllOld(G, quiet)
    <3>1. Old(G, "overview", quiet)
      BY <1>2, <1>3, <1>5, <1>10, <1>16
    <3>2. Old(G, Second(Kind), quiet)
      BY <1>5, <1>10, <1>16
    <3>3. ~Moves(Kind) => Old(G, "done", quiet)
      BY <1>13, <1>3 DEF Between
    <3>4. Kind = "new" => Old(G, "detail", quiet)
      BY <1>13, <1>3 DEF Between
    <3>5. Kind # "new" => Old(G, "new", quiet)
      BY <1>13, <1>3 DEF Between
    <3> QED
      BY <1>3, <1>14, <3>1, <3>2, <3>3, <3>4, <3>5 DEF AllOld
  <2>7. Progress(G, P, kind, told, quiet)
    BY <2>4, <2>5, <2>6 DEF Progress
  <2>8. Good(G, P, kind, told, quiet, raced)
    BY <1>0, <1>6, <1>8, <1>9, <1>13, <2>5, <2>6, <2>7, UndoStep DEF P, Undoing
  <2> QED
    BY <2>2, <2>3, <2>8, TakeBackKeeps
<1> QED
  BY <1>1, <1>15, <1>16

\* The archive's directory loses its marker.
LEMMA UnmarkDirectoryKeeps == TaskInv /\ UnmarkDirectory => TaskInv'
<1> SUFFICES ASSUME TaskInv, UnmarkDirectory PROVE TaskInv'
  OBVIOUS
<1>0. op.at = "unmark_back" /\ op.at \in Undoing \ {"roll_back"} /\ op.at \in Undoing
  BY DEF UnmarkDirectory, Undoing
<1>1. /\ fs \in FileSystems /\ op \in Commands /\ J = fs.journal
      /\ Owned(fs, op, kind, told) /\ Progress(fs, op, kind, told, quiet)
  BY <1>0, AtWork
<1>2. AllOld(fs, quiet) /\ ~fs.linked /\ J.owns
  BY <1>0, <1>1 DEF Progress, Owned
<1>3. \/ fs.dir = Absent /\ Goto(At("forget_back"))
      \/ Change([fs EXCEPT !.dir = None], At("rmdir"), Idle)
      \/ Goto(Idle)
  BY DEF UnmarkDirectory
<1>4. CASE Goto(Idle)
  BY <1>4, IdleGood, DecisionKeeps DEF TaskInv
<1>5. CASE fs.dir = Absent /\ Goto(At("forget_back"))
  <2> DEFINE P == Cmd(op, "forget_back", 1, op.cause)
  <2>1. Goto(P)
    BY <1>1, <1>5, Labelled
  <2>2. P.at = "forget_back"
    BY DEF Cmd
  <2> HIDE DEF P
  <2>3. Progress(fs, P, kind, told, quiet)
    BY <1>2, <2>2 DEF Progress
  <2>4. Good(fs, P, kind, told, quiet, raced)
    BY <1>0, <1>1, <1>2, <1>5, <2>3, DirStep, Words DEF P
  <2> QED
    BY <2>1, <2>4, DecisionKeeps
<1>6. CASE Change([fs EXCEPT !.dir = None], At("rmdir"), Idle)
  <2> DEFINE P == Cmd(op, "rmdir", 1, op.cause)
             G == Sys(fs.disk, fs.linked, None, fs.journal)
  <2>1. Change(G, P, Idle)
    BY <1>1, <1>6, Labelled, Replaced
  <2>2. P.at = "rmdir"
    BY DEF Cmd
  <2>3. /\ G.disk = fs.disk /\ G.linked = fs.linked /\ G.dir = None /\ G.journal = fs.journal
        /\ G \in FileSystems
    BY <1>1 DEF Sys, FileSystems
  <2> HIDE DEF P, G
  <2>4. AllOld(G, quiet)
    BY <1>2, <2>3, SameDisk
  <2>5. Progress(G, P, kind, told, quiet)
    BY <2>2, <2>4 DEF Progress
  <2>6. Good(G, P, kind, told, quiet, raced)
    BY <1>0, <1>1, <1>2, <2>3, <2>5, DirStep, Words DEF P
  <2> QED
    BY <2>1, <2>6, IdleGood, ChangeKeeps DEF TaskInv
<1> QED
  BY <1>3, <1>4, <1>5, <1>6

\* The directory is removed, or gets its marker back.
LEMMA RemoveDirectoryKeeps == TaskInv /\ RemoveDirectory => TaskInv'
<1> SUFFICES ASSUME TaskInv, RemoveDirectory PROVE TaskInv'
  OBVIOUS
<1>0. op.at = "rmdir" /\ op.at \in Undoing \ {"roll_back"} /\ op.at \in Undoing
  BY DEF RemoveDirectory, Undoing
<1>1. /\ fs \in FileSystems /\ op \in Commands /\ J = fs.journal /\ J \in Journals
      /\ J.txn \in Txns
      /\ Owned(fs, op, kind, told) /\ Progress(fs, op, kind, told, quiet)
  BY <1>0, AtWork
<1>2. AllOld(fs, quiet) /\ ~fs.linked /\ J.owns
  BY <1>0, <1>1 DEF Progress, Owned
<1>3. \/ Change([fs EXCEPT !.dir = Absent], At("forget_back"), Idle)
      \/ /\ fs' = [fs EXCEPT !.dir = J.txn] /\ op' = Idle
         /\ UNCHANGED <<reader, kind, told, quiet, raced>>
  BY DEF RemoveDirectory
<1>4. CASE Change([fs EXCEPT !.dir = Absent], At("forget_back"), Idle)
  <2> DEFINE P == Cmd(op, "forget_back", 1, op.cause)
             G == Sys(fs.disk, fs.linked, Absent, fs.journal)
  <2>1. Change(G, P, Idle)
    BY <1>1, <1>4, Labelled, Replaced
  <2>2. P.at = "forget_back"
    BY DEF Cmd
  <2>3. /\ G.disk = fs.disk /\ G.linked = fs.linked /\ G.dir = Absent /\ G.journal = fs.journal
        /\ G \in FileSystems
    BY <1>1 DEF Sys, FileSystems
  <2> HIDE DEF P, G
  <2>4. AllOld(G, quiet)
    BY <1>2, <2>3, SameDisk
  <2>5. Progress(G, P, kind, told, quiet)
    BY <2>2, <2>4 DEF Progress
  <2>6. Good(G, P, kind, told, quiet, raced)
    BY <1>0, <1>1, <1>2, <2>3, <2>5, DirStep, Words DEF P
  <2> QED
    BY <2>1, <2>6, IdleGood, ChangeKeeps DEF TaskInv
<1>5. CASE /\ fs' = [fs EXCEPT !.dir = J.txn] /\ op' = Idle
           /\ UNCHANGED <<reader, kind, told, quiet, raced>>
  <2> DEFINE P == Cmd(op, "unmark_back", 1, op.cause)
             G == Sys(fs.disk, fs.linked, J.txn, fs.journal)
  <2>1. fs' = G
    BY <1>1, <1>5, Replaced
  <2>2. P.at = "unmark_back"
    BY DEF Cmd
  <2>3. /\ G.disk = fs.disk /\ G.linked = fs.linked /\ G.dir = J.txn /\ G.journal = fs.journal
        /\ G \in FileSystems
    BY <1>1 DEF Sys, FileSystems
  <2> HIDE DEF P, G
  <2>4. AllOld(G, quiet)
    BY <1>2, <2>3, SameDisk
  <2>5. Progress(G, P, kind, told, quiet)
    BY <2>2, <2>4 DEF Progress
  <2>6. Good(G, P, kind, told, quiet, raced)
    BY <1>0, <1>1, <1>2, <2>3, <2>5, DirStep DEF P
  <2>7. Good(G, Idle, kind, told, quiet, raced)
    BY <2>6, IdleGood
  <2> QED
    BY <1>5, <2>1, <2>7 DEF TaskInv
<1> QED
  BY <1>3, <1>4, <1>5

\* The journal of an undone transaction goes, or stays after a failed commit
\* mark.
LEMMA ForgetRolledBackKeeps == TaskInv /\ ForgetRolledBack => TaskInv'
<1> SUFFICES ASSUME TaskInv, ForgetRolledBack PROVE TaskInv'
  OBVIOUS
<1>0. op.at = "forget_back" /\ op.at \in Undoing /\ op.at \notin Publishing
  BY DEF ForgetRolledBack, Undoing, Publishing
<1>1. /\ fs \in FileSystems /\ op \in Commands /\ J = fs.journal /\ J \in Journals
      /\ J.txn = op.txn /\ op.txn \in Txns /\ J.phase = "prepared" /\ kind[op.txn] \in Kinds
      /\ op.cause # None /\ ImagesSound(J, kind, told, quiet)
      /\ Owned(fs, op, kind, told) /\ Progress(fs, op, kind, told, quiet)
  BY <1>0, AtWork
<1>2. AllOld(fs, quiet) /\ ~fs.linked /\ fs.dir \notin Txns
  BY <1>0, <1>1 DEF Progress, Owned
<1>3. /\ Sound(fs.disk, kind, told) /\ ~In(fs.disk, op.txn)
      /\ \A e \in quiet : In(J.before, e) => In(fs.disk, e)
  <2>1. fs.disk \in Disks /\ J.before \in Disks
    BY <1>1 DEF FileSystems, Journals
  <2>2. \A f \in Paths : Like(fs.disk[f], J.before[f], f, quiet)
    BY <1>1, <1>2 DEF AllOld, Old
  <2>3. Sound(J.before, kind, told) /\ ~In(J.before, op.txn)
    BY <1>1 DEF ImagesSound
  <2>4. /\ Sound(fs.disk, kind, told)
        /\ \A x \in Txns : In(fs.disk, x) <=> In(J.before, x)
        /\ \A e \in quiet : In(J.before, e) => In(fs.disk, e)
    BY <2>1, <2>2, <2>3, OldSound
  <2> QED
    BY <1>1, <2>3, <2>4
<1>4. /\ Typed(fs, op) /\ Histories(kind, told, quiet, raced) /\ Control(fs, op, kind, told)
      /\ OnDisk(fs, op, kind, told, quiet) /\ Made(fs, op, quiet, raced) /\ Kept(fs, op, kind, quiet)
  BY DEF TaskInv, Good
<1> DEFINE P == Cmd(op, "report_rolled", 1, op.cause)
<1>5. P.at = "report_rolled" /\ P.txn = op.txn /\ P.cause = op.cause /\ P.after = op.after
  BY DEF Cmd
<1>6. P \in Commands
  BY <1>1 DEF Cmd, Commands, Labels
<1>7. At("report_rolled") = P
  BY <1>1, Labelled
<1> HIDE DEF P
<1>8. CASE op.cause = "commit"
  <2>1. Goto(P)
    BY <1>7, <1>8 DEF ForgetRolledBack
  <2>2. Typed(fs, P)
    BY <1>4, <1>6 DEF Typed
  <2>3. Control(fs, P, kind, told)
    BY <1>0, <1>1, <1>4, <1>5 DEF Control, Publishing, Undoing
  <2>4. Owned(fs, P, kind, told)
    BY <1>1, <1>2, <1>5 DEF Owned
  <2>5. OnDisk(fs, P, kind, told, quiet)
    BY <1>4, <1>5 DEF OnDisk
  <2>6. Progress(fs, P, kind, told, quiet)
    BY <1>2, <1>3, <1>5 DEF Progress
  <2>7. Made(fs, P, quiet, raced)
    BY <1>4, <1>5 DEF Made
  <2>8. Kept(fs, P, kind, quiet)
    BY <1>0, <1>4, <1>5 DEF Kept, Foreign
  <2>9. Good(fs, P, kind, told, quiet, raced)
    BY <1>4, <2>2, <2>3, <2>4, <2>5, <2>6, <2>7, <2>8 DEF Good
  <2> QED
    BY <2>1, <2>9, DecisionKeeps
<1>9. CASE op.cause # "commit"
  <2> DEFINE G == Sys(fs.disk, fs.linked, fs.dir, None)
  <2>1. Change(G, P, Idle)
    BY <1>1, <1>7, <1>9, Replaced DEF ForgetRolledBack
  <2>2. /\ G.disk = fs.disk /\ G.linked = fs.linked /\ G.dir = fs.dir /\ G.journal = None
        /\ G \in FileSystems
    BY <1>1 DEF Sys, FileSystems
  <2> HIDE DEF G
  <2>3. Typed(G, P)
    BY <1>6, <2>2 DEF Typed
  <2>4. Control(G, P, kind, told)
    BY <1>0, <1>1, <1>4, <1>5, <2>2 DEF Control, Publishing, Undoing
  <2>5. Owned(G, P, kind, told)
    BY <1>2, <1>5, <2>2 DEF Owned
  <2>6. OnDisk(G, P, kind, told, quiet)
    BY <1>3, <2>2 DEF OnDisk
  <2>7. Progress(G, P, kind, told, quiet)
    BY <1>3, <1>5, <2>2 DEF Progress
  <2>8. Made(G, P, quiet, raced)
    BY <1>4, <1>5, <2>2 DEF Made
  <2>9. Kept(G, P, kind, quiet)
    BY <2>2, EditsKeptOnDisk DEF Kept
  <2>10. Good(G, P, kind, told, quiet, raced)
    BY <1>4, <2>3, <2>4, <2>5, <2>6, <2>7, <2>8, <2>9 DEF Good
  <2> QED
    BY <2>1, <2>10, IdleGood, ChangeKeeps DEF TaskInv
<1> QED
  BY <1>8, <1>9

\* What a command builds: the transaction in each file that its kind changes.
LEMMA ContentsBuilt ==
    ASSUME fs \in FileSystems, NEW t \in Txns, NEW kd \in Kinds
    PROVE  /\ Contents(t, kd) \in Disks
           /\ \A f \in Paths : Contents(t, kd)[f]
                                  = IF f \in Changed(kd) THEN {t} \cup Body(fs.disk, f) ELSE Absent
<1>1. \A f : (\E i \in DOMAIN Writes(kd) : Writes(kd)[i] = f) <=> f \in Changed(kd)
  <2>1. /\ DOMAIN Writes(kd) = IF kd = "archive" THEN {1} ELSE {1, 2}
        /\ Writes(kd)[1] = "overview"
        /\ kd # "archive" => Writes(kd)[2] = Second(kd)
    <3>1. /\ Len(Writes(kd)) = IF kd = "archive" THEN 1 ELSE 2
          /\ DOMAIN Writes(kd) = 1 .. Len(Writes(kd))
          /\ Writes(kd)[1] = "overview"
          /\ kd # "archive" => Writes(kd)[2] = Second(kd)
      BY KindsOfCommand
    <3>2. 1 .. 1 = {1} /\ 1 .. 2 = {1, 2}
      OBVIOUS
    <3> QED
      BY <3>1, <3>2
  <2> QED
    BY <2>1 DEF Changed
<1>2. \A f \in Paths : (IF Holds(f) THEN fs.disk[f] ELSE {}) = Body(fs.disk, f)
  BY BodiesHeld DEF Body, Content
<1>3. \A f \in Paths : Contents(t, kd)[f]
                          = IF f \in Changed(kd) THEN {t} \cup Body(fs.disk, f) ELSE Absent
  BY <1>1, <1>2 DEF Contents
<1>4. \A f \in Paths : {t} \cup Body(fs.disk, f) \in Bodies
  BY DEF Body, Content, Bodies
<1>5. Contents(t, kd) \in Disks
  <2>1. \A f \in Paths : Contents(t, kd)[f] \in Bodies \cup {Absent, Torn}
    BY <1>3, <1>4
  <2>2. Contents(t, kd) = [f \in Paths |-> Contents(t, kd)[f]]
    BY DEF Contents
  <2> QED
    BY <2>1, <2>2 DEF Disks
<1> QED
  BY <1>3, <1>5

\* A command begins: it builds its contents from the board as it is.
LEMMA StartKeeps ==
    ASSUME TaskInv, NEW t \in Txns, NEW kd \in Kinds, Start(t, kd)
    PROVE  TaskInv'
<1> DEFINE C == Contents(t, kd)
           P == Command("prepare", t, C, None)
           K == [kind EXCEPT ![t] = kd]
<1>0. /\ op = Idle /\ kind[t] = None /\ fs.journal = None /\ Holds("overview")
      /\ kd # "new" => Holds("detail")
      /\ op' = P /\ kind' = K /\ UNCHANGED <<fs, told, quiet, raced>>
  BY DEF Start, J
<1>1. /\ Typed(fs, op) /\ Histories(kind, told, quiet, raced) /\ Owned(fs, op, kind, told)
      /\ OnDisk(fs, op, kind, told, quiet) /\ Made(fs, op, quiet, raced) /\ Kept(fs, op, kind, quiet)
  BY DEF TaskInv, Good
<1>2. fs \in FileSystems
  BY <1>1 DEF Typed
<1>3. /\ C \in Disks
      /\ \A f \in Paths : C[f] = IF f \in Changed(kd) THEN {t} \cup Body(fs.disk, f) ELSE Absent
  BY <1>2, ContentsBuilt
<1>4. /\ P.at = "prepare" /\ P.txn = t /\ P.after = C /\ P.cause = None /\ P.i = 1
  BY DEF Command
<1>5. P \in Commands
  BY <1>3 DEF Command, Commands, Labels
<1>6. /\ K \in [Txns -> Kinds \cup {None}] /\ K[t] = kd /\ \A x \in Txns \ {t} : K[x] = kind[x]
  BY <1>1 DEF Histories
<1> HIDE DEF C, P, K
<1>7. told[t] = None
  BY <1>0, <1>1 DEF Histories
<1>8. Typed(fs, P)
  BY <1>1, <1>5 DEF Typed
<1>9. Histories(K, told, quiet, raced)
  BY <1>1, <1>6, Words DEF Histories
<1>10. Control(fs, P, K, told)
  BY <1>0, <1>4, <1>6, <1>7 DEF Control, Publishing, Undoing
<1>11. Owned(fs, P, K, told)
  BY <1>0, <1>1, <1>4 DEF Owned
<1>12. Sound(fs.disk, kind, told) /\ ~In(fs.disk, t)
  <2>1. Sound(fs.disk, kind, told)
    BY <1>0, <1>1 DEF OnDisk
  <2> QED
    BY <1>0, <2>1 DEF Sound
<1>13. Sound(fs.disk, K, told)
  <2>1. \A x \in Txns \ {t} : Done(fs.disk, kind, x) => Done(fs.disk, K, x)
    BY <1>6 DEF Done
  <2>2. \A x \in Txns \ {t} : /\ Done(fs.disk, K, x) \/ ~In(fs.disk, x)
                              /\ told[x] = "done" => x \in Body(fs.disk, "overview")
                              /\ told[x] = "rolled back" => ~In(fs.disk, x)
                              /\ K[x] = None => ~In(fs.disk, x)
    BY <1>6, <1>12, <2>1 DEF Sound
  <2>3. /\ told[t] # "done"
    BY <1>7, Words
  <2> QED
    BY <1>12, <2>2, <2>3 DEF Sound
<1>14. OnDisk(fs, P, K, told, quiet)
  BY <1>0, <1>13 DEF OnDisk
<1>15. Built(fs, P, K, quiet)
  <2>1. kd # "new" => fs.disk["detail"] \in Bodies
    <3>1. "detail" \in Paths
      BY DEF Paths
    <3> QED
      BY <1>0, <1>2, <3>1, BodiesHeld
  <2>2. Adds(kd, t, fs.disk, C, quiet)
    <3> SUFFICES ASSUME NEW f \in Changed(kd)
                 PROVE  /\ C[f] \in Bodies
                        /\ C[f] \cap Txns = {t} \cup (Body(fs.disk, f) \cap Txns)
                        /\ Body(fs.disk, f) \cap quiet \subseteq C[f]
      BY DEF Adds
    <3>1. f \in Paths
      BY FilesOfKind
    <3>2. C[f] = {t} \cup Body(fs.disk, f)
      BY <1>3, <3>1
    <3>3. C[f] \in Bodies
      BY <3>2 DEF Body, Content, Bodies
    <3> QED
      BY <3>2, <3>3
  <2> QED
    BY <1>4, <1>6, <1>12, <2>1, <2>2 DEF Built
<1>16. Progress(fs, P, K, told, quiet)
  BY <1>4, <1>15 DEF Progress
<1>17. Made(fs, P, quiet, raced)
  <2>1. EditsOf(C, quiet, raced)
    <3> SUFFICES ASSUME NEW f \in Paths, NEW e \in Edits, e \in Content(C[f])
                 PROVE  e \in quiet \cup raced
      BY DEF EditsOf, Body
    <3>1. C[f] = IF f \in Changed(kd) THEN {t} \cup Body(fs.disk, f) ELSE Absent
      BY <1>3
    <3>2. e \in {t} \cup Body(fs.disk, f)
      BY <3>1, Words DEF Content
    <3>3. e # t
      BY Words
    <3>4. EditsOf(fs.disk, quiet, raced)
      BY <1>1 DEF Made
    <3> QED
      BY <3>2, <3>3, <3>4 DEF EditsOf
  <2> QED
    BY <1>0, <1>1, <1>4, <2>1 DEF Made
<1>18. Kept(fs, P, K, quiet)
  BY <1>0, <1>1 DEF Kept
<1>19. Good(fs, P, K, told, quiet, raced)
  BY <1>8, <1>9, <1>10, <1>11, <1>14, <1>16, <1>17, <1>18 DEF Good
<1> QED
  BY <1>0, <1>19 DEF TaskInv

\* The journal is published: its images are the board and what was built.
LEMMA PrepareKeeps == TaskInv /\ Prepare => TaskInv'
<1> SUFFICES ASSUME TaskInv, Prepare PROVE TaskInv'
  OBVIOUS
<1> DEFINE kd == kind[op.txn]
           j == Images(kd)
           G == Sys(fs.disk, fs.linked, fs.dir, j)
           P == Cmd(op, "check", 1, op.cause)
<1>0. op.at = "prepare"
  BY DEF Prepare
<1>1. /\ Typed(fs, op) /\ Histories(kind, told, quiet, raced) /\ Control(fs, op, kind, told)
      /\ Owned(fs, op, kind, told) /\ OnDisk(fs, op, kind, told, quiet)
      /\ Progress(fs, op, kind, told, quiet)
      /\ Made(fs, op, quiet, raced) /\ Kept(fs, op, kind, quiet)
  BY DEF TaskInv, Good
<1>2. /\ fs \in FileSystems /\ op \in Commands /\ fs.journal = None
      /\ op.txn \in Txns /\ kd \in Kinds /\ op.cause = None
  BY <1>0, <1>1 DEF Typed, Control
<1>3. /\ told[op.txn] = None /\ ~fs.linked /\ fs.dir \notin Txns
  BY <1>0, <1>1, <1>2, Words DEF Control, Owned
<1>4. CASE ~Buildable(kd)
  BY <1>0, <1>4, IdleGood, DecisionKeeps DEF Prepare, TaskInv
<1>5. CASE Buildable(kd)
  <2>1. Change(G, P, Idle)
    BY <1>2, <1>5, Replaced, Labelled DEF Prepare
  <2>2. /\ P.at = "check" /\ P.txn = op.txn /\ P.cause = None /\ P.after = op.after
    BY <1>2 DEF Cmd
  <2>3. /\ j.txn = op.txn /\ j.phase = "prepared" /\ j.before = fs.disk
        /\ j.owns \in BOOLEAN
        /\ j.after = IF kd = "archive" THEN [op.after EXCEPT !["detail"] = fs.disk["detail"]]
                     ELSE op.after
        /\ j = [txn |-> j.txn, phase |-> j.phase, before |-> j.before, after |-> j.after,
                owns |-> j.owns]
    BY DEF Images
  <2>4. op.after \in Disks /\ fs.disk \in Disks
    BY <1>2 DEF Commands, FileSystems
  <2> DEFINE A == j.after
  <2>5. /\ A \in Disks
        /\ \A f \in Paths : A[f] = IF kd = "archive" /\ f = "detail" THEN fs.disk["detail"]
                                   ELSE op.after[f]
    <3>1. "detail" \in Paths
      BY DEF Paths
    <3> QED
      BY <2>3, <2>4, <3>1 DEF Disks
  <2>6. j \in Journals
    BY <1>2, <2>3, <2>4, <2>5 DEF Journals
  <2>7. /\ G.disk = fs.disk /\ G.linked = fs.linked /\ G.dir = fs.dir /\ G.journal = j
        /\ G \in FileSystems
    BY <1>2, <2>6 DEF Sys, FileSystems
  <2>8. P \in Commands
    BY <1>2 DEF Cmd, Commands, Labels, Publishing
  <2>9. j # None
    BY <2>6, Words
  <2>10. /\ kd = "new" => fs.disk["new"] = Absent
         /\ Moves(kd) => fs.disk["done"] = Absent
    BY <1>5 DEF Buildable
  <2> HIDE DEF A, j, G, P
  <2>11. Built(fs, op, kind, quiet) /\ Sound(fs.disk, kind, told)
    BY <1>0, <1>1, <1>2 DEF Progress, OnDisk
  <2>12. ImagesSound(j, kind, told, quiet)
    <3>1. /\ ~In(fs.disk, op.txn)
          /\ kd # "new" => fs.disk["detail"] \in Bodies
          /\ Adds(kd, op.txn, fs.disk, op.after, quiet)
      BY <2>11 DEF Built
    <3>2. Adds(kd, op.txn, fs.disk, A, quiet)
      <4>1. \A f \in Changed(kd) : A[f] = op.after[f]
        <5>1. \A f \in Changed(kd) : f \in Paths
          BY FilesOfKind
        <5>2. kd = "archive" => Changed(kd) = {"overview"}
          BY DEF Changed
        <5> QED
          BY <2>5, <5>1, <5>2
      <4> QED
        BY <3>1, <4>1 DEF Adds
    <3>3. kd = "archive" => A["detail"] = fs.disk["detail"]
      <4>1. "detail" \in Paths
        BY DEF Paths
      <4> QED
        BY <2>5, <4>1
    <3> HIDE DEF kd
    <3>4. kind[j.txn] = kd /\ j.txn = op.txn /\ j.before = fs.disk /\ j.after = A
      BY <2>3 DEF kd, A
    <3> QED
      BY <2>10, <2>11, <3>1, <3>2, <3>3, <3>4 DEF ImagesSound
  <2>13. AllOld(G, quiet)
    BY <2>3, <2>7 DEF AllOld, Old, Like
  <2>14. Between(G, kd, quiet)
    BY <1>2, <2>13, Stages
  <2>15. Typed(G, P)
    BY <2>7, <2>8 DEF Typed
  <2>16. Control(G, P, kind, told)
    BY <1>2, <1>3, <2>2, <2>3, <2>7, <2>9 DEF Control, Publishing, Undoing
  <2>17. Owned(G, P, kind, told)
    BY <1>2, <1>3, <2>2, <2>3, <2>7, Words DEF Owned
  <2>18. OnDisk(G, P, kind, told, quiet)
    <3>1. G.journal # None /\ G.journal.phase # "committed" /\ told[G.journal.txn] # "rolled back"
      BY <1>3, <2>3, <2>7, <2>9, Words
    <3>2. Between(G, kind[G.journal.txn], quiet)
      BY <2>3, <2>7, <2>14
    <3> QED
      BY <2>7, <2>12, <3>1, <3>2 DEF OnDisk
  <2>19. Progress(G, P, kind, told, quiet)
    BY <2>2, <2>13 DEF Progress
  <2>20. Made(G, P, quiet, raced)
    <3>1. EditsOf(fs.disk, quiet, raced) /\ EditsOf(op.after, quiet, raced)
      BY <1>1 DEF Made
    <3>2. EditsOf(A, quiet, raced)
      <4>1. "detail" \in Paths
        BY DEF Paths
      <4>2. \A f \in Paths : Body(A, f) = IF kd = "archive" /\ f = "detail" THEN Body(fs.disk, "detail")
                                          ELSE Body(op.after, f)
        BY <2>5 DEF Body
      <4> QED
        BY <3>1, <4>1, <4>2 DEF EditsOf
    <3>3. G.journal.before = fs.disk /\ G.journal.after = A
      BY <2>3, <2>7 DEF A
    <3> QED
      BY <2>2, <2>7, <3>1, <3>2, <3>3 DEF Made
  <2>21. Kept(G, P, kind, quiet)
    <3>1. \A e \in quiet : In(G.journal.before, e)
      BY <2>3, <2>7, EditsKeptOnDisk
    <3>2. G.journal # None /\ G.journal.phase # "committed"
      BY <2>3, <2>7, <2>9
    <3> QED
      BY <3>1, <3>2 DEF Kept
  <2>22. Good(G, P, kind, told, quiet, raced)
    BY <1>1, <2>15, <2>16, <2>17, <2>18, <2>19, <2>20, <2>21 DEF Good
  <2> QED
    BY <2>1, <2>22, IdleGood, ChangeKeeps DEF TaskInv
<1> QED
  BY <1>4, <1>5
--------------------------------------------------------------------------------
(* Edits from outside.                                                     *)

\* The same files with an edit e in some of them, and no new link or marker.
Grown(F, G, e) ==
    /\ G \in FileSystems /\ G.journal = F.journal
    /\ G.linked => F.linked /\ \A f \in {"detail", "done"} : G.disk[f] = F.disk[f]
    /\ G.dir \in Txns => G.dir = F.dir
    /\ \A f \in Paths : \/ G.disk[f] = F.disk[f]
                        \/ F.disk[f] \in Bodies /\ G.disk[f] = {e} \cup F.disk[f]
                        \/ F.disk[f] = Absent /\ f \in {"new", "done"} /\ G.disk[f] = {e}

\* An edited file is like what it was like, if the edit is new.
LEMMA LikeEdited ==
    ASSUME NEW f, NEW a, NEW b, NEW c, NEW e \in Edits, NEW q, NEW Q, Q \subseteq q \cup {e},
           c \in Bodies \cup {Absent, Torn}, e \notin Content(c), Like(a, c, f, q),
           \/ b = a
           \/ a \in Bodies /\ b = {e} \cup a
           \/ a = Absent /\ f \in {"new", "done"} /\ b = {e}
    PROVE  Like(b, c, f, Q)
<1>1. e \notin Txns
  BY Words
<1>2. c \in Bodies => c \cap Q \subseteq q /\ e \notin c
  BY DEF Content
<1>3. CASE b = a
  BY <1>2, <1>3 DEF Like
<1>4. CASE a \in Bodies /\ b = {e} \cup a
  <2>1. b \in Bodies
    BY <1>4 DEF Bodies
  <2>2. b \cap Txns = a \cap Txns
    BY <1>1, <1>4
  <2>3. a # Absent
    BY <1>4, Words
  <2> QED
    BY <1>2, <1>4, <2>1, <2>2, <2>3 DEF Like
<1>5. CASE a = Absent /\ f \in {"new", "done"} /\ b = {e}
  <2>1. b \in Bodies
    BY <1>5 DEF Bodies
  <2>2. b \cap Txns = {}
    BY <1>1, <1>5
  <2>3. c = Absent
    BY <1>5, Words DEF Like
  <2> QED
    BY <1>5, <2>1, <2>2, <2>3 DEF Like
<1> QED
  BY <1>3, <1>4, <1>5

\* So are all files, and what they are compared with.
LEMMA ImagesEdited ==
    ASSUME NEW F \in FileSystems, F.journal \in Journals, NEW G, NEW e \in Edits, Grown(F, G, e),
           NEW q, NEW Q, Q \subseteq q \cup {e},
           \A f \in Paths : e \notin Body(F.journal.before, f) /\ e \notin Body(F.journal.after, f)
    PROVE  /\ \A f \in Paths : Old(F, f, q) => Old(G, f, Q)
           /\ \A f \in Paths : New(F, f, q) => New(G, f, Q)
           /\ F.journal.after["detail"] \in Bodies /\ AtDone(F, q) => AtDone(G, Q)
           /\ G.disk["detail"] = Absent <=> F.disk["detail"] = Absent
           /\ F.disk["new"] = Torn => G.disk["new"] = Torn
<1>1. /\ G.journal = F.journal
      /\ \A f \in Paths : \/ G.disk[f] = F.disk[f]
                          \/ F.disk[f] \in Bodies /\ G.disk[f] = {e} \cup F.disk[f]
                          \/ F.disk[f] = Absent /\ f \in {"new", "done"} /\ G.disk[f] = {e}
  BY DEF Grown
<1>2. \A f \in Paths : /\ F.journal.before[f] \in Bodies \cup {Absent, Torn}
                       /\ F.journal.after[f] \in Bodies \cup {Absent, Torn}
                       /\ e \notin Content(F.journal.before[f])
                       /\ e \notin Content(F.journal.after[f])
  BY DEF Journals, Disks, Body
<1>3. ASSUME NEW f \in Paths, Old(F, f, q)
      PROVE  Old(G, f, Q)
  <2> DEFINE a == F.disk[f]
             b == G.disk[f]
             c == F.journal.before[f]
  <2>1. /\ Like(a, c, f, q) /\ c \in Bodies \cup {Absent, Torn} /\ e \notin Content(c)
        /\ \/ b = a
           \/ a \in Bodies /\ b = {e} \cup a
           \/ a = Absent /\ f \in {"new", "done"} /\ b = {e}
    BY <1>1, <1>2, <1>3 DEF Old
  <2>2. c = G.journal.before[f] /\ b = G.disk[f]
    BY <1>1
  <2> HIDE DEF a, b, c
  <2>3. Like(b, c, f, Q)
    BY <2>1, LikeEdited
  <2> QED
    BY <2>2, <2>3 DEF Old
<1>4. ASSUME NEW f \in Paths, New(F, f, q)
      PROVE  New(G, f, Q)
  <2> DEFINE a == F.disk[f]
             b == G.disk[f]
             c == F.journal.after[f]
  <2>1. /\ Like(a, c, f, q) /\ c \in Bodies \cup {Absent, Torn} /\ e \notin Content(c)
        /\ \/ b = a
           \/ a \in Bodies /\ b = {e} \cup a
           \/ a = Absent /\ f \in {"new", "done"} /\ b = {e}
    BY <1>1, <1>2, <1>4 DEF New
  <2>2. c = G.journal.after[f] /\ b = G.disk[f]
    BY <1>1
  <2> HIDE DEF a, b, c
  <2>3. Like(b, c, f, Q)
    BY <2>1, LikeEdited
  <2> QED
    BY <2>2, <2>3 DEF New
<1>5. ASSUME F.journal.after["detail"] \in Bodies, AtDone(F, q)
      PROVE  AtDone(G, Q)
  <2> DEFINE a == F.disk["done"]
             b == G.disk["done"]
             c == F.journal.after["detail"]
             f == "detail"
  <2>0. "done" \in Paths /\ "detail" \in Paths
    BY DEF Paths
  <2>1. /\ Like(a, c, f, q) /\ c \in Bodies \cup {Absent, Torn} /\ e \notin Content(c)
    BY <1>2, <1>5, <2>0 DEF AtDone
  <2>2. a # Absent
    BY <1>5, <2>1, Words DEF Like
  <2>3. /\ \/ b = a
           \/ a \in Bodies /\ b = {e} \cup a
           \/ a = Absent /\ f \in {"new", "done"} /\ b = {e}
    BY <1>1, <2>0, <2>2
  <2>4. c = G.journal.after["detail"] /\ b = G.disk["done"] /\ f = "detail"
    BY <1>1
  <2> HIDE DEF a, b, c, f
  <2>5. Like(b, c, f, Q)
    BY <2>1, <2>3, LikeEdited
  <2> QED
    BY <2>4, <2>5 DEF AtDone
<1>6. G.disk["detail"] = Absent <=> F.disk["detail"] = Absent
  <2>1. "detail" \in Paths /\ \A b : b \in Bodies => b # Absent
    BY Words DEF Paths
  <2>2. F.disk["detail"] \in Bodies => {e} \cup F.disk["detail"] \in Bodies
    BY DEF Bodies
  <2> QED
    BY <1>1, <2>1, <2>2
<1>7. F.disk["new"] = Torn => G.disk["new"] = Torn
  <2>1. "new" \in Paths
    BY DEF Paths
  <2> QED
    BY <1>1, <2>1, NamesAssumption
<1> QED
  BY <1>3, <1>4, <1>5, <1>6, <1>7

\* The board with an edit is like the board before it.
LEMMA BoardEdited ==
    ASSUME NEW F \in FileSystems, NEW G, NEW e \in Edits, Grown(F, G, e), NEW q
    PROVE  /\ F.disk \in Disks /\ G.disk \in Disks
           /\ \A f \in Paths : Like(G.disk[f], F.disk[f], f, q)
           /\ \A f \in Paths : \A x : x \in Body(F.disk, f) => x \in Body(G.disk, f)
           /\ \A f \in Paths : \A x : x \in Body(G.disk, f) => x = e \/ x \in Body(F.disk, f)
           /\ \A f \in Paths : F.disk[f] \in Bodies => G.disk[f] \in Bodies
<1>1. \A f \in Paths : \/ G.disk[f] = F.disk[f]
                       \/ F.disk[f] \in Bodies /\ G.disk[f] = {e} \cup F.disk[f]
                       \/ F.disk[f] = Absent /\ f \in {"new", "done"} /\ G.disk[f] = {e}
  BY DEF Grown
<1>2. F.disk \in Disks /\ G.disk \in Disks
  BY DEF Grown, FileSystems
<1>3. e \notin Txns /\ {e} \in Bodies /\ \A b \in Bodies : {e} \cup b \in Bodies
  BY Words DEF Bodies
<1>4. \A f \in Paths : Like(G.disk[f], F.disk[f], f, q)
  BY <1>1, <1>3 DEF Like
<1>5. ASSUME NEW f \in Paths
      PROVE  /\ \A x : x \in Body(F.disk, f) => x \in Body(G.disk, f)
             /\ \A x : x \in Body(G.disk, f) => x = e \/ x \in Body(F.disk, f)
             /\ F.disk[f] \in Bodies => G.disk[f] \in Bodies
  <2>1. CASE G.disk[f] = F.disk[f]
    BY <2>1 DEF Body
  <2>2. CASE F.disk[f] \in Bodies /\ G.disk[f] = {e} \cup F.disk[f]
    BY <1>3, <2>2 DEF Body, Content
  <2>3. CASE F.disk[f] = Absent /\ G.disk[f] = {e}
    BY <1>3, <2>3, Words DEF Body, Content
  <2> QED
    BY <1>1, <2>1, <2>2, <2>3
<1> QED
  BY <1>2, <1>4, <1>5

\* An edit keeps the invariant. One that no command is under way for is found
\* by a rollback, since it is in none of the images.
LEMMA GrownGood ==
    ASSUME TaskInv, NEW e \in Edits, Fresh(e), NEW G, Grown(fs, G, e), NEW Q, NEW R,
           Q \cup R = quiet \cup raced \cup {e},
           Q = quiet \/ (Q = quiet \cup {e} /\ op = Idle /\ In(G.disk, e))
    PROVE  Good(G, op, kind, told, Q, R)
<1> DEFINE j == fs.journal
           kd == kind[j.txn]
<1>1. /\ Typed(fs, op) /\ Histories(kind, told, quiet, raced) /\ Control(fs, op, kind, told)
      /\ Owned(fs, op, kind, told) /\ OnDisk(fs, op, kind, told, quiet)
      /\ Progress(fs, op, kind, told, quiet)
      /\ Made(fs, op, quiet, raced) /\ Kept(fs, op, kind, quiet)
  BY DEF TaskInv, Good
<1>2. /\ fs \in FileSystems /\ op \in Commands /\ G \in FileSystems /\ G.journal = j
      /\ G.linked => fs.linked /\ \A f \in {"detail", "done"} : G.disk[f] = fs.disk[f]
      /\ G.dir \in Txns => G.dir = fs.dir
  BY <1>1 DEF Typed, Grown
<1>3. /\ Q \subseteq quiet \cup {e} /\ quiet \subseteq Q /\ Q \subseteq Edits /\ R \subseteq Edits
      /\ quiet \cup raced \subseteq Q \cup R /\ e \in Q \cup R
      /\ e \notin quiet /\ e \notin raced
  BY <1>1 DEF Histories, Fresh
<1>4. op # Idle => Q = quiet
  OBVIOUS
<1>5. /\ fs.disk \in Disks /\ G.disk \in Disks
      /\ \A f \in Paths : Like(G.disk[f], fs.disk[f], f, quiet)
      /\ \A f \in Paths : \A x : x \in Body(fs.disk, f) => x \in Body(G.disk, f)
      /\ \A f \in Paths : \A x : x \in Body(G.disk, f) => x = e \/ x \in Body(fs.disk, f)
      /\ \A f \in Paths : fs.disk[f] \in Bodies => G.disk[f] \in Bodies
  BY <1>2, BoardEdited
<1>6. /\ \A x \in Txns : In(G.disk, x) <=> In(fs.disk, x)
      /\ \A x \in Txns : Done(fs.disk, kind, x) => Done(G.disk, kind, x)
      /\ \A x \in Txns : \A f \in Paths : x \in Body(G.disk, f) <=> x \in Body(fs.disk, f)
  BY <1>5, LikeDisks
<1>7. \A x : In(fs.disk, x) => In(G.disk, x)
  BY <1>5 DEF In
<1>8. ASSUME j # None
      PROVE  /\ j \in Journals
             /\ \A f \in Paths : e \notin Body(j.before, f) /\ e \notin Body(j.after, f)
             /\ ~In(j.before, e) /\ ~In(j.after, e)
  <2>1. j \in Journals
    BY <1>2, <1>8 DEF FileSystems
  <2>2. EditsOf(j.before, quiet, raced) /\ EditsOf(j.after, quiet, raced)
    BY <1>1, <1>8 DEF Made
  <2>3. \A f \in Paths : e \notin Body(j.before, f) /\ e \notin Body(j.after, f)
    BY <1>3, <2>2 DEF EditsOf
  <2> QED
    BY <2>1, <2>3 DEF In
<1>9. ASSUME j # None
      PROVE  /\ \A f \in Paths : Old(fs, f, quiet) => Old(G, f, Q)
             /\ \A f \in Paths : New(fs, f, quiet) => New(G, f, Q)
             /\ j.after["detail"] \in Bodies /\ AtDone(fs, quiet) => AtDone(G, Q)
             /\ G.disk["detail"] = Absent <=> fs.disk["detail"] = Absent
             /\ fs.disk["new"] = Torn => G.disk["new"] = Torn
  <2>1. /\ j \in Journals
        /\ \A f \in Paths : e \notin Body(j.before, f) /\ e \notin Body(j.after, f)
    BY <1>8, <1>9
  <2> QED
    BY <1>2, <1>3, <2>1, ImagesEdited
<1> HIDE DEF j, kd
<1>10. ASSUME j # None
       PROVE  /\ ImagesSound(j, kind, told, Q)
              /\ Moves(kd) => j.after["detail"] \in Bodies
              /\ kd \in Kinds
  <2>1. ImagesSound(j, kind, told, quiet) /\ kd \in Kinds
    BY <1>1, <1>10 DEF OnDisk, Owned, j, kd
  <2>2. Adds(kd, j.txn, j.before, j.after, quiet)
    BY <2>1 DEF ImagesSound, kd
  <2>3. Adds(kd, j.txn, j.before, j.after, Q)
    <3>1. \A f \in Changed(kd) : Body(j.before, f) \cap Q \subseteq Body(j.before, f) \cap quiet
      <4>1. \A f \in Changed(kd) : f \in Paths
        BY FilesOfKind
      <4> QED
        BY <1>3, <1>8, <1>10, <4>1
    <3> QED
      BY <2>2, <3>1 DEF Adds
  <2>4. ImagesSound(j, kind, told, Q)
    BY <2>1, <2>3 DEF ImagesSound, kd
  <2>5. ASSUME Moves(kd) PROVE j.after["detail"] \in Bodies
    <3>1. /\ kd = "archive" \/ "detail" \in Changed(kd)
          /\ kd # "new"
      BY <2>1, <2>5, KindSets
    <3> QED
      BY <2>1, <2>2, <3>1 DEF ImagesSound, Adds, kd
  <2> QED
    BY <2>1, <2>4, <2>5
<1>11. ASSUME j # None
       PROVE  /\ AllOld(fs, quiet) => AllOld(G, Q)
              /\ Between(fs, kd, quiet) => Between(G, kd, Q)
              /\ Finished(fs, kd, quiet) => Finished(G, kd, Q)
              /\ \A n : Staged(fs, kd, n, quiet) => Staged(G, kd, n, Q)
              /\ Moves(kd) /\ TwoNames(fs, quiet) => TwoNames(G, Q)
  <2>1. /\ \A f \in Paths : Old(fs, f, quiet) => Old(G, f, Q)
        /\ \A f \in Paths : New(fs, f, quiet) => New(G, f, Q)
        /\ Moves(kd) /\ AtDone(fs, quiet) => AtDone(G, Q)
        /\ G.disk["detail"] = Absent <=> fs.disk["detail"] = Absent
        /\ fs.disk["new"] = Torn => G.disk["new"] = Torn
    BY <1>9, <1>10, <1>11
  <2>2. Paths = {"overview", "detail", "new", "done"}
    BY DEF Paths
  <2>3. AllOld(fs, quiet) => AllOld(G, Q)
    BY <2>1 DEF AllOld
  <2>4. Between(fs, kd, quiet) => Between(G, kd, Q)
    <3> SUFFICES ASSUME Between(fs, kd, quiet) PROVE Between(G, kd, Q)
      OBVIOUS
    <3>1. \A f \in Changed(kd) : f \in Paths
      BY FilesOfKind
    <3>2. \A f \in Paths \ (Changed(kd) \cup Moved(kd)) : Old(G, f, Q)
      BY <2>1 DEF Between
    <3>3. \A f \in Changed(kd) \ Moved(kd) :
             Old(G, f, Q) \/ New(G, f, Q) \/ (f = "new" /\ G.disk[f] = Torn)
      BY <2>1, <3>1 DEF Between
    <3>4. Moves(kd) =>
            /\ \/ Old(G, "detail", Q) \/ New(G, "detail", Q)
               \/ G.disk["detail"] = Absent /\ AtDone(G, Q)
            /\ Old(G, "done", Q) \/ AtDone(G, Q)
      BY <2>1, <2>2 DEF Between
    <3> QED
      BY <3>2, <3>3, <3>4 DEF Between
  <2>5. Finished(fs, kd, quiet) => Finished(G, kd, Q)
    <3>1. \A f \in Changed(kd) : f \in Paths
      BY FilesOfKind
    <3> QED
      BY <2>1, <3>1 DEF Finished
  <2>6. \A n : Staged(fs, kd, n, quiet) => Staged(G, kd, n, Q)
    BY <2>1 DEF Staged
  <2>7. Moves(kd) /\ TwoNames(fs, quiet) => TwoNames(G, Q)
    BY <2>1, <2>2 DEF TwoNames
  <2> QED
    BY <2>3, <2>4, <2>5, <2>6, <2>7
<1>12. Typed(G, op) /\ Histories(kind, told, Q, R)
  BY <1>1, <1>2, <1>3 DEF Typed, Histories
<1>13. Control(G, op, kind, told)
  BY <1>1, <1>2 DEF Control, j
<1>14. Owned(G, op, kind, told)
  BY <1>1, <1>2 DEF Owned, j
<1>15. OnDisk(G, op, kind, told, Q)
  <2>1. CASE j = None
    <3>1. Sound(fs.disk, kind, told)
      BY <1>1, <2>1 DEF OnDisk, j
    <3>2. Sound(G.disk, kind, told)
      BY <1>5, <3>1, OldSound
    <3> QED
      BY <1>2, <2>1, <3>2 DEF OnDisk
  <2>2. CASE j # None
    <3>1. /\ IF j.phase = "committed" THEN Finished(fs, kd, quiet) ELSE Between(fs, kd, quiet)
          /\ told[j.txn] = "rolled back" => AllOld(fs, quiet) /\ op.at \notin {"linked_back", "unlink_back"}
      BY <1>1, <2>2 DEF OnDisk, j, kd
    <3>2. /\ IF j.phase = "committed" THEN Finished(G, kd, Q) ELSE Between(G, kd, Q)
          /\ told[j.txn] = "rolled back" => AllOld(G, Q) /\ op.at \notin {"linked_back", "unlink_back"}
      BY <1>11, <2>2, <3>1
    <3> QED
      BY <1>2, <1>10, <2>2, <3>2 DEF OnDisk, kd
  <2> QED
    BY <2>1, <2>2
<1>16. ASSUME op.at = "prepare" PROVE Built(G, op, kind, Q)
  <2>1. Built(fs, op, kind, quiet) /\ op.txn \in Txns
    BY <1>1, <1>16 DEF Progress, Control
  <2>2. Q = quiet
    <3>1. op # Idle
      BY <1>16 DEF Idle, Command
    <3> QED
      BY <1>4, <3>1
  <2>3. "detail" \in Paths /\ \A f \in Changed(kind[op.txn]) : f \in Paths
    BY FilesOfKind DEF Paths
  <2>4. Adds(kind[op.txn], op.txn, G.disk, op.after, quiet)
    <3> SUFFICES ASSUME NEW f \in Changed(kind[op.txn])
                 PROVE  /\ op.after[f] \in Bodies
                        /\ op.after[f] \cap Txns = {op.txn} \cup (Body(G.disk, f) \cap Txns)
                        /\ Body(G.disk, f) \cap quiet \subseteq op.after[f]
      BY DEF Adds
    <3>1. /\ op.after[f] \in Bodies
          /\ op.after[f] \cap Txns = {op.txn} \cup (Body(fs.disk, f) \cap Txns)
          /\ Body(fs.disk, f) \cap quiet \subseteq op.after[f]
      BY <2>1 DEF Built, Adds
    <3>2. Body(G.disk, f) \cap Txns = Body(fs.disk, f) \cap Txns
      BY <1>6, <2>3
    <3>3. Body(G.disk, f) \cap quiet \subseteq Body(fs.disk, f)
      BY <1>3, <1>5, <2>3
    <3> QED
      BY <3>1, <3>2, <3>3
  <2> QED
    BY <1>5, <1>6, <2>1, <2>2, <2>3, <2>4 DEF Built
<1>17. ASSUME op.at \in Publishing \cup Undoing
       PROVE  j # None /\ kd = kind[op.txn]
  BY <1>1, <1>17 DEF Control, Publishing, Undoing, j, kd
<1>18. Progress(G, op, kind, told, Q)
  <2>1. op.at \in {"check", "mkdir", "mark", "unmark_back", "rmdir", "forget_back"} => AllOld(G, Q)
    BY <1>1, <1>11, <1>17 DEF Progress, Publishing, Undoing
  <2>2. op.at = "write" => Staged(G, kind[op.txn], op.i - 1, Q)
    BY <1>1, <1>11, <1>17 DEF Progress, Publishing
  <2>3. op.at = "fill" => New(G, "overview", Q) /\ G.disk["new"] = Torn
    BY <1>1, <1>9, <1>17 DEF Progress, Publishing, Paths
  <2>4. op.at = "link" => Staged(G, kind[op.txn], IF kind[op.txn] = "archive" THEN 1 ELSE 2, Q)
    BY <1>1, <1>11, <1>17 DEF Progress, Publishing
  <2>5. op.at \in {"linked", "unlink"} => TwoNames(G, Q)
    BY <1>1, <1>11, <1>17 DEF Progress, Publishing, Control
  <2>6. op.at = "commit" => Finished(G, kind[op.txn], Q)
    BY <1>1, <1>11, <1>17 DEF Progress, Publishing
  <2>7. op.at \in {"linked_back", "unlink_back"} => New(G, "detail", Q) /\ AtDone(G, Q)
    <3> SUFFICES ASSUME op.at \in {"linked_back", "unlink_back"}
                 PROVE  New(G, "detail", Q) /\ AtDone(G, Q)
      OBVIOUS
    <3>1. New(fs, "detail", quiet) /\ AtDone(fs, quiet) /\ Moves(kind[op.txn])
      BY <1>1 DEF Progress, Control
    <3>2. j # None /\ kd = kind[op.txn] /\ "detail" \in Paths
      BY <1>17 DEF Undoing, Paths
    <3> QED
      BY <1>9, <1>10, <3>1, <3>2
  <2>8. op.at = "restore" => /\ op.i = 2 => Old(G, "overview", Q)
                             /\ Moves(kind[op.txn]) => Old(G, "done", Q)
    BY <1>1, <1>9, <1>17 DEF Progress, Undoing, Paths
  <2>9. op.at = "report_rolled" /\ j # None => AllOld(G, Q)
    BY <1>1, <1>11 DEF Progress, j
  <2>10. op.at = "report_rolled" /\ op.cause # "recover" => ~In(G.disk, op.txn)
    BY <1>1, <1>6 DEF Progress, Control
  <2>11. op.at = "report" /\ op.cause # "recover" => Done(G.disk, kind, op.txn)
    BY <1>1, <1>6 DEF Progress, Control
  <2> QED
    BY <1>2, <1>16, <2>1, <2>2, <2>3, <2>4, <2>5, <2>6, <2>7, <2>8, <2>9, <2>10, <2>11 DEF Progress
<1>19. Made(G, op, Q, R)
  <2>1. EditsOf(G.disk, Q, R)
    <3>1. EditsOf(fs.disk, quiet, raced)
      BY <1>1 DEF Made
    <3> QED
      BY <1>3, <1>5, <3>1 DEF EditsOf
  <2>2. \A D : EditsOf(D, quiet, raced) => EditsOf(D, Q, R)
    BY <1>3 DEF EditsOf
  <2> QED
    BY <1>1, <1>2, <2>1, <2>2 DEF Made, j
<1>20. Kept(G, op, kind, Q)
  <2>1. ASSUME NEW d \in quiet
        PROVE  IF j = None \/ j.phase = "committed" THEN In(G.disk, d)
               ELSE \/ In(j.before, d)
                    \/ \E f \in Paths \ (Changed(kd) \cup Moved(kd)) : d \in Body(G.disk, f)
                    \/ Foreign(G, op, d)
    <3>1. IF j = None \/ j.phase = "committed" THEN In(fs.disk, d)
          ELSE \/ In(j.before, d)
               \/ \E f \in Paths \ (Changed(kd) \cup Moved(kd)) : d \in Body(fs.disk, f)
               \/ Foreign(fs, op, d)
      BY <1>1 DEF Kept, j, kd
    <3>2. Foreign(fs, op, d) => Foreign(G, op, d)
      BY <1>2, <1>7 DEF Foreign, j
    <3> QED
      BY <1>5, <1>7, <3>1, <3>2
  <2>2. ASSUME e \in Q
        PROVE  IF j = None \/ j.phase = "committed" THEN In(G.disk, e)
               ELSE Foreign(G, op, e)
    <3>1. op = Idle /\ In(G.disk, e)
      BY <1>3, <2>2
    <3>2. op.at = "idle"
      BY <3>1 DEF Idle, Command
    <3> QED
      BY <1>2, <1>8, <3>1, <3>2 DEF Foreign
  <2> QED
    BY <1>2, <1>3, <2>1, <2>2 DEF Kept, kd
<1> QED
  BY <1>12, <1>13, <1>14, <1>15, <1>18, <1>19, <1>20 DEF Good

\* An editor replaces or creates a file.
LEMMA EditKeeps ==
    ASSUME TaskInv, NEW e \in Edits, NEW f \in Paths, Edit(e, f)
    PROVE  TaskInv'
<1> DEFINE b == {e} \cup (IF Holds(f) THEN fs.disk[f] ELSE {})
           G == [Put(f, b) EXCEPT !.linked = @ /\ f \notin {"detail", "done"}]
<1>1. /\ fs \in FileSystems /\ Histories(kind, told, quiet, raced)
  BY DEF TaskInv, Good, Typed
<1>2. /\ Fresh(e) /\ fs' = G /\ UNCHANGED <<op, kind, told>>
      /\ Holds(f) \/ (fs.disk[f] = Absent /\ f \in {"new", "done"})
      /\ \/ op = Idle /\ quiet' = quiet \cup {e} /\ raced' = raced
         \/ op # Idle /\ raced' = raced \cup {e} /\ quiet' = quiet
  BY DEF Edit
<1>3. Holds(f) <=> fs.disk[f] \in Bodies
  BY <1>1, BodiesHeld
<1>4. b \in Bodies /\ b \in Bodies \cup {Absent, Torn}
  BY <1>3 DEF Bodies
<1>5. /\ fs.disk[f] \in Bodies => b = {e} \cup fs.disk[f]
      /\ fs.disk[f] \notin Bodies => b = {e}
      /\ e \in b
  BY <1>3
<1>6. G = [Put(f, b) EXCEPT !.linked = @ /\ f \notin {"detail", "done"}]
  OBVIOUS
<1> HIDE DEF b, G
<1>7. /\ G \in FileSystems /\ G.disk = With(fs.disk, f, b) /\ G.dir = fs.dir
      /\ G.journal = fs.journal
      /\ G.linked => fs.linked /\ f \notin {"detail", "done"}
  <2> DEFINE H == Put(f, b)
  <2>1. /\ H \in FileSystems /\ H.disk = With(fs.disk, f, b)
        /\ H.linked = fs.linked /\ H.dir = fs.dir /\ H.journal = fs.journal
    BY <1>1, <1>4, PutFields
  <2>2. G = [H EXCEPT !.linked = @ /\ f \notin {"detail", "done"}]
    BY <1>6
  <2> HIDE DEF H
  <2>3. /\ G.disk = H.disk /\ G.dir = H.dir /\ G.journal = H.journal
        /\ G.linked = (H.linked /\ f \notin {"detail", "done"})
        /\ G = [disk |-> G.disk, linked |-> G.linked, dir |-> G.dir, journal |-> G.journal]
    BY <2>1, <2>2 DEF FileSystems
  <2>4. G.linked \in BOOLEAN
    BY <2>3, Zenon
  <2> QED
    BY <2>1, <2>3, <2>4 DEF FileSystems
<1>8. G.disk[f] = b /\ \A g \in Paths \ {f} : G.disk[g] = fs.disk[g]
  <2>1. fs.disk \in Disks
    BY <1>1 DEF FileSystems
  <2>2. With(fs.disk, f, b)[f] = b /\ \A g \in Paths \ {f} : With(fs.disk, f, b)[g] = fs.disk[g]
    BY <1>4, <2>1, OneFile
  <2> QED
    BY <1>7, <2>2
<1>9. Grown(fs, G, e)
  <2>1. \A g \in Paths : \/ G.disk[g] = fs.disk[g]
                         \/ fs.disk[g] \in Bodies /\ G.disk[g] = {e} \cup fs.disk[g]
                         \/ fs.disk[g] = Absent /\ g \in {"new", "done"} /\ G.disk[g] = {e}
    BY <1>2, <1>3, <1>5, <1>8
  <2>2. G.linked => fs.linked /\ \A g \in {"detail", "done"} : G.disk[g] = fs.disk[g]
    <3>1. "detail" \in Paths /\ "done" \in Paths
      BY DEF Paths
    <3> QED
      BY <1>7, <1>8, <3>1
  <2> QED
    BY <1>7, <2>1, <2>2 DEF Grown
<1>10. In(G.disk, e)
  BY <1>4, <1>5, <1>8 DEF In, Body, Content
<1>11. /\ quiet' \cup raced' = quiet \cup raced \cup {e}
       /\ quiet' = quiet \/ (quiet' = quiet \cup {e} /\ op = Idle /\ In(G.disk, e))
  BY <1>2, <1>10
<1>12. Good(G, op, kind, told, quiet', raced')
  BY <1>2, <1>9, <1>11, GrownGood
<1> QED
  BY <1>2, <1>12 DEF TaskInv

\* An editor creates the archive's directory.
LEMMA EditDirectoryKeeps ==
    ASSUME TaskInv, NEW e \in Edits, EditDirectory(e)
    PROVE  TaskInv'
<1> DEFINE G == Sys(fs.disk, fs.linked, None, fs.journal)
           R == raced \cup {e}
<1>1. fs \in FileSystems
  BY DEF TaskInv, Good, Typed
<1>2. /\ Fresh(e) /\ fs' = G /\ raced' = R /\ UNCHANGED <<op, kind, told, quiet>>
  BY <1>1, Replaced DEF EditDirectory
<1>3. /\ G.disk = fs.disk /\ G.linked = fs.linked /\ G.dir = None /\ G.journal = fs.journal
      /\ G \in FileSystems
  BY <1>1 DEF Sys, FileSystems
<1>4. quiet \cup R = quiet \cup raced \cup {e}
  OBVIOUS
<1> HIDE DEF G, R
<1>5. Grown(fs, G, e)
  BY <1>3, Words DEF Grown
<1>6. Good(G, op, kind, told, quiet, R)
  BY <1>2, <1>4, <1>5, GrownGood
<1> QED
  BY <1>2, <1>6 DEF TaskInv

--------------------------------------------------------------------------------
(* The invariant, and what follows.                                        *)

\* It holds of the board that there is at first.
LEMMA TaskInvAtFirst == Init => TaskInv
<1> SUFFICES ASSUME Init PROVE TaskInv
  OBVIOUS
<1>1. PICK d \in {Absent, None} :
         fs = [disk    |-> [f \in Paths |-> IF f \in {"overview", "detail"} THEN {} ELSE Absent],
               linked  |-> FALSE, dir |-> d, journal |-> None]
  BY DEF Init
<1>2. /\ op = Idle /\ kind = [t \in Txns |-> None] /\ told = [t \in Txns |-> None]
      /\ quiet = {} /\ raced = {}
  BY DEF Init
<1>3. /\ fs.linked = FALSE /\ fs.dir = d /\ fs.journal = None
      /\ fs.disk = [f \in Paths |-> IF f \in {"overview", "detail"} THEN {} ELSE Absent]
  BY <1>1
<1>4. fs.disk \in Disks /\ {} \in Bodies
  BY <1>3 DEF Disks, Bodies
<1>5. \A f \in Paths : Body(fs.disk, f) = {}
  BY <1>3, Words DEF Body, Content
<1>6. "overview" \in Paths
  BY DEF Paths
<1>7. /\ Idle.at = "idle" /\ Idle.after = NoFiles /\ Idle.cause = None
      /\ Idle.txn = None /\ Idle.i = 1
  BY DEF Idle, Command
<1>8. Typed(fs, op)
  <2>1. fs \in FileSystems
    BY <1>1, <1>3, <1>4 DEF FileSystems
  <2>2. NoFiles \in Disks
    BY DEF NoFiles, Disks
  <2> QED
    BY <1>2, <2>1, <2>2 DEF Typed, Idle, Command, Commands, Labels
<1>9. Histories(kind, told, quiet, raced)
  BY <1>2 DEF Histories
<1>10. Control(fs, op, kind, told)
  BY <1>2, <1>7 DEF Control, Publishing, Undoing
<1>11. Owned(fs, op, kind, told)
  BY <1>2, <1>3, <1>7, Words DEF Owned
<1>12. OnDisk(fs, op, kind, told, quiet)
  <2>1. \A x \in Txns : ~In(fs.disk, x)
    BY <1>5 DEF In
  <2>2. \A x \in Txns : told[x] # "done"
    BY <1>2, Words
  <2>3. fs.disk["overview"] \in Bodies
    BY <1>3, <1>4, <1>6
  <2> QED
    BY <1>3, <2>1, <2>2, <2>3 DEF OnDisk, Sound
<1>13. Progress(fs, op, kind, told, quiet)
  BY <1>2, <1>7 DEF Progress
<1>14. Made(fs, op, quiet, raced)
  <2>1. EditsOf(fs.disk, quiet, raced)
    BY <1>5 DEF EditsOf
  <2>2. EditsOf(NoFiles, quiet, raced)
    BY Words DEF EditsOf, Body, Content, NoFiles
  <2> QED
    BY <1>2, <1>3, <1>7, <2>1, <2>2 DEF Made
<1>15. Kept(fs, op, kind, quiet)
  BY <1>2 DEF Kept
<1> QED
  BY <1>8, <1>9, <1>10, <1>11, <1>12, <1>13, <1>14, <1>15 DEF TaskInv, Good

\* Every step keeps it.
LEMMA TaskInvKept == TaskInv /\ [Next]_vars => TaskInv'
<1> SUFFICES ASSUME TaskInv, [Next]_vars PROVE TaskInv'
  OBVIOUS
<1>1. CASE \E t \in Txns, kd \in Kinds : Start(t, kd)
  BY <1>1, StartKeeps
<1>2. CASE Publish
  BY <1>2, PrepareKeeps, CheckPublishKeeps, MakeDirectoryKeeps, MarkDirectoryKeeps,
     WriteFileKeeps, FillFileKeeps, LinkMoveKeeps, VerifyLinkKeeps, UnlinkMoveKeeps,
     MarkCommittedKeeps, RemoveMarkerKeeps, ForgetJournalKeeps, ReportKeeps DEF Publish
<1>3. CASE Recover
  BY <1>3, RecoverKeeps
<1>4. CASE Rollback
  BY <1>4, CheckRollbackKeeps, MoveBackKeeps, VerifyLinkBackKeeps, UnlinkBackKeeps,
     RestoreFileKeeps, UnmarkDirectoryKeeps, RemoveDirectoryKeeps, ForgetRolledBackKeeps
     DEF Rollback
<1>5. CASE Outside
  BY <1>5, EditKeeps, EditDirectoryKeeps DEF Outside
<1>6. CASE UNCHANGED <<fs, op, kind, told, quiet, raced>>
  BY <1>6 DEF TaskInv
<1>7. Read => UNCHANGED <<fs, op, kind, told, quiet, raced>>
  BY DEF Read, BeginRead, ReadOverview, ReadDetails, ReadOverviewAgain, ReadDetailsAgain,
         EndRead, Returned, Reads
<1> QED
  BY <1>1, <1>2, <1>3, <1>4, <1>5, <1>6, <1>7 DEF Next, vars

\* Nothing but what TaskInv says is ever on the disk.
LEMMA TaskInvAlways == Spec => []TaskInv
BY TaskInvAtFirst, TaskInvKept, PTL DEF Spec

\* transaction.go:338, 1051: whatever dies, fails, is recovered or edited, a
\* board without a journal has all of a command or none of it.
THEOREM AllOrNothingAlways == Spec => []AllOrNothing
BY TaskInvAlways, TaskInvMeans, PTL

\* transaction.go:366, 400: what a command was told of its outcome stays true.
THEOREM OutcomesHoldAlways == Spec => []OutcomesHold
BY TaskInvAlways, TaskInvMeans, PTL

\* docs/documentation.md:2054-2056: no command and no recovery overwrites an
\* edit that was made while no command was under way.
THEOREM EditsKeptAlways == Spec => []EditsKept
BY TaskInvAlways, TaskInvMeans, PTL

--------------------------------------------------------------------------------
(* The reader.                                                             *)

\* A read that has begun: what it saw is on the board, until something is taken
\* back; what it returned was committed and stays so.
Readers == [at : {"idle", "overview", "details", "again", "details_again", "last", "returned"},
            seen : Disks, undone : BOOLEAN]
Shown   == Body(reader.seen, "overview") \cap Txns
ReadInv ==
    /\ reader \in Readers
    /\ reader.at \notin {"idle", "overview"} => reader.seen["overview"] \in Bodies
    /\ reader.at # "idle" /\ ~reader.undone => Shown \subseteq Body(fs.disk, "overview")
    /\ reader.at = "returned" /\ ~reader.undone =>
          \A t \in Shown : /\ kind[t] # None /\ (J # None => J.txn # t)
                           /\ op.at = "prepare" => op.txn # t

\* The archived file of a move under way is another's: the command cannot end.
Stuck(F) ==
    /\ F.journal # None /\ F.journal.phase = "prepared" /\ Moves(kind[F.journal.txn])
    /\ F.journal.txn \in Body(F.disk, "overview")
    /\ Body(F.journal.after, "detail") \cap Txns # {}
    /\ F.disk["done"] \in Bodies /\ Body(F.disk, "done") \cap Txns = {}

\* The board without the command under way. What is archived, and still in its
\* place, is there in full.
Board(F) == IF F.journal = None THEN F.disk ELSE F.journal.before
Apart(D) == D["detail"] \in Bodies => Body(D, "done") \cap Txns \subseteq Body(D, "detail")

\* What the overview shows of transactions is never less in G, and what is new in
\* another file is in the overview before.
Grows(F, G) ==
    /\ Body(F.disk, "overview") \cap Txns \subseteq Body(G.disk, "overview")
    /\ \A x \in Txns : In(G.disk, x) => In(F.disk, x) \/ x \in Body(G.disk, "overview")
    /\ Stuck(F) => Stuck(G)

\* The journal of F is still there, or it is gone.
SameOwner(F, G) ==
    /\ G.journal = None \/ (F.journal # None /\ G.journal.txn = F.journal.txn)
    /\ Apart(Board(F)) => Apart(Board(G))

\* What a step that is not the reader's may do: whatever it takes back undoes
\* the read; a journal is that of the command that prepares it, and that
\* command's transaction is new.
Carries ==
    /\ \/ reader' = reader /\ Grows(fs, fs')
       \/ reader' = [reader EXCEPT !.undone = reader.at # "idle"]
    /\ \/ SameOwner(fs, fs')
       \/ op.at = "prepare" /\ fs'.journal.txn = op.txn /\ Board(fs') = Board(fs)
    /\ op'.at = "prepare" => \/ op.at = "prepare" /\ op'.txn = op.txn
                             \/ kind[op'.txn] = None
    /\ \A t \in Txns : kind[t] # None => kind'[t] = kind[t]

\* Such a step keeps what a read has.
LEMMA CarriesKeeps ==
    ASSUME ReadInv, Carries
    PROVE  ReadInv'
<1>1. CASE reader' = reader /\ Grows(fs, fs')
  <2>1. Shown' = Shown
    BY <1>1 DEF Shown
  <2>2. reader.at = "returned" /\ ~reader.undone =>
           \A t \in Shown : /\ kind'[t] # None /\ (J' # None => J'.txn # t)
                            /\ op'.at = "prepare" => op'.txn # t
    BY DEF ReadInv, Carries, SameOwner, J, Shown
  <2>3. Shown \subseteq Body(fs.disk, "overview") => Shown \subseteq Body(fs'.disk, "overview")
    BY <1>1 DEF Grows, Shown
  <2> QED
    BY <1>1, <2>1, <2>2, <2>3 DEF ReadInv
<1>2. CASE reader' = [reader EXCEPT !.undone = reader.at # "idle"]
  <2>1. /\ reader'.at = reader.at /\ reader'.seen = reader.seen
        /\ reader'.undone = (reader.at # "idle") /\ reader' \in Readers
    BY <1>2 DEF ReadInv, Readers
  <2> QED
    BY <2>1 DEF ReadInv
<1> QED
  BY <1>1, <1>2 DEF Carries

\* A change of the disk.
LEMMA ChangeCarries ==
    ASSUME NEW G, NEW P, NEW Q, Change(G, P, Q), P.at # "prepare", Q.at # "prepare",
           Grows(fs, G), SameOwner(fs, G) \/ (op.at = "prepare" /\ G.journal.txn = op.txn /\ Board(G) = Board(fs))
    PROVE  Carries
<1>1. Idle.at # "prepare"
  BY DEF Idle, Command
<1>2. fs' \in {fs, G} /\ op' \in {P, Q, Idle} /\ reader' = reader /\ kind' = kind
  BY DEF Change
<1>3. op'.at # "prepare"
  BY <1>1, <1>2
<1>4. Grows(fs, fs) /\ SameOwner(fs, fs)
  BY DEF Grows, SameOwner
<1>5. /\ Grows(fs, fs')
      /\ \/ SameOwner(fs, fs')
         \/ op.at = "prepare" /\ fs'.journal.txn = op.txn /\ Board(fs') = Board(fs)
  BY <1>2, <1>4
<1> QED
  BY <1>2, <1>3, <1>5 DEF Carries

\* So does a step of a rollback.
LEMMA TakeBackCarries ==
    ASSUME NEW G, NEW P, TakeBack(G, P), P.at # "prepare", SameOwner(fs, G)
    PROVE  Carries
<1>1. Idle.at # "prepare"
  BY DEF Idle, Command
<1>2. /\ fs' \in {fs, G} /\ op' \in {P, Idle} /\ kind' = kind
      /\ reader' = [reader EXCEPT !.undone = reader.at # "idle"]
  BY DEF TakeBack
<1>3. op'.at # "prepare"
  BY <1>1, <1>2
<1>4. SameOwner(fs, fs')
  BY <1>2 DEF SameOwner
<1> QED
  BY <1>2, <1>3, <1>4 DEF Carries

\* And a decision.
LEMMA GotoCarries ==
    ASSUME NEW P, Goto(P), P.at # "prepare"
    PROVE  Carries
BY DEF Goto, Carries, Grows, SameOwner

\* Where a move is stuck no command is at these places.
LEMMA NotStuck ==
    ASSUME TaskInv, op.at \in {"prepare", "link", "linked", "unlink", "commit", "unmark",
                               "forget", "forget_back"},
           op.at = "link" => fs.disk["done"] = Absent
    PROVE  ~Stuck(fs)
<1> SUFFICES ASSUME Stuck(fs) PROVE FALSE
  OBVIOUS
<1>1. /\ Control(fs, op, kind, told) /\ Progress(fs, op, kind, told, quiet)
      /\ OnDisk(fs, op, kind, told, quiet) /\ fs \in FileSystems
  BY DEF TaskInv, Good, Typed
<1>2. /\ fs.journal # None /\ fs.journal.phase = "prepared" /\ fs.journal \in Journals
      /\ fs.journal.txn \in Txns
  BY <1>1 DEF Stuck, FileSystems, Journals
<1>3. op.at \in {"link", "linked", "unlink", "commit", "forget_back"} /\ fs.journal.txn = op.txn
  BY <1>1, <1>2 DEF Control, Publishing, Undoing
<1>4. CASE op.at = "link"
  BY <1>4, Words DEF Stuck
<1>5. CASE op.at \in {"linked", "unlink", "commit"}
  <2>1. AtDone(fs, quiet)
    BY <1>1, <1>3, <1>5 DEF Progress, TwoNames, Finished, Stuck
  <2>2. Body(fs.journal.after, "detail") \cap Txns \subseteq Body(fs.disk, "done")
    BY <1>1, <1>2, <2>1, Marks
  <2> QED
    BY <2>2 DEF Stuck
<1>6. CASE op.at = "forget_back"
  <2>1. Old(fs, "overview", quiet) /\ "overview" \in Paths
    BY <1>1, <1>6 DEF Progress, AllOld, Paths
  <2>2. ~In(fs.journal.before, fs.journal.txn)
    BY <1>1, <1>2 DEF OnDisk, ImagesSound
  <2>3. fs.journal.txn \notin Body(fs.disk, "overview")
    BY <1>1, <1>2, <2>1, <2>2, Marks DEF In
  <2> QED
    BY <2>3 DEF Stuck
<1> QED
  BY <1>3, <1>4, <1>5, <1>6

\* Where a journal is forgotten, what it leaves of the archived file is what was
\* there before.
LEMMA AtLast ==
    ASSUME TaskInv, op.at \in {"forget", "forget_back"}, Apart(Board(fs))
    PROVE  Apart(fs.disk)
<1> DEFINE B == fs.journal.before
<1>1. /\ Control(fs, op, kind, told) /\ Progress(fs, op, kind, told, quiet) /\ Owned(fs, op, kind, told)
      /\ OnDisk(fs, op, kind, told, quiet) /\ fs \in FileSystems
  BY DEF TaskInv, Good, Typed
<1>2. /\ fs.journal # None /\ fs.journal.txn = op.txn /\ kind[op.txn] \in Kinds
      /\ fs.journal.phase = IF op.at = "forget" THEN "committed" ELSE "prepared"
  BY <1>1 DEF Control, Owned, Undoing
<1>3. /\ ImagesSound(fs.journal, kind, told, quiet) /\ fs.journal \in Journals /\ Apart(B)
      /\ op.at = "forget" => Finished(fs, kind[op.txn], quiet)
      /\ op.at = "forget_back" => AllOld(fs, quiet)
  BY <1>1, <1>2 DEF OnDisk, Progress, FileSystems, Board
<1> HIDE DEF B
<1>4. "detail" \in Paths /\ "done" \in Paths
  BY DEF Paths
<1>5. SUFFICES ASSUME fs.disk["detail"] \in Bodies
               PROVE  Body(fs.disk, "done") \cap Txns \subseteq Body(fs.disk, "detail")
  BY DEF Apart
<1>6. ~(op.at = "forget" /\ Moves(kind[op.txn]))
  BY <1>3, <1>5, Words DEF Finished
<1>7. Old(fs, "done", quiet) /\ (Old(fs, "detail", quiet) \/ (New(fs, "detail", quiet)
         /\ "detail" \in Changed(kind[op.txn])))
  BY <1>2, <1>3, <1>4, <1>6, KindSets DEF AllOld, Finished
<1>8. Body(fs.disk, "done") \cap Txns \subseteq Body(B, "done")
  BY <1>1, <1>3, <1>4, <1>7, Marks DEF B
<1>9. Body(B, "detail") \cap Txns \subseteq Body(fs.disk, "detail")
  <2>1. CASE Old(fs, "detail", quiet)
    BY <1>1, <1>3, <1>4, <2>1, Marks DEF B
  <2>2. CASE New(fs, "detail", quiet) /\ "detail" \in Changed(kind[op.txn])
    <3>1. Body(B, "detail") \cap Txns \subseteq Body(fs.journal.after, "detail")
      BY <1>2, <1>3, <2>2 DEF ImagesSound, Adds, Body, Content, B
    <3> QED
      BY <1>1, <1>3, <1>4, <2>2, <3>1, Marks
  <2> QED
    BY <1>7, <2>1, <2>2
<1>10. B["detail"] \in Bodies
  <2>1. CASE Old(fs, "detail", quiet)
    BY <1>5, <2>1 DEF Old, Like, B
  <2>2. CASE "detail" \in Changed(kind[op.txn])
    BY <1>2, <1>3, <2>2, KindSets DEF ImagesSound, B
  <2> QED
    BY <1>7, <2>1, <2>2
<1> QED
  BY <1>3, <1>8, <1>9, <1>10 DEF Apart

\* A command's places carry their names.
LEMMA Placed ==
    ASSUME op \in Commands
    PROVE  /\ \A l : At(l).at = l
           /\ \A by : RollBack(by).at = "roll_back"
           /\ \A l : [op EXCEPT !.at = l].at = l
           /\ [At("write") EXCEPT !.i = op.i + 1].at = "write"
           /\ [op EXCEPT !.i = @ + 1].at = op.at
           /\ Idle.at = "idle"
<1>1. Idle.at = "idle"
  BY DEF Idle, Command
<1> QED
  BY <1>1, Labelled DEF Cmd

\* The overview of a disk with one file replaced.
LEMMA GrowsPut ==
    ASSUME fs \in FileSystems, NEW f \in Paths, NEW b, NEW G, G.disk = With(fs.disk, f, b),
           G.journal = fs.journal,
           f = "overview" => Content(fs.disk[f]) \cap Txns \subseteq Content(b),
           f # "overview" => \A x \in Content(b) \cap Txns :
                                In(fs.disk, x) \/ x \in Body(fs.disk, "overview"),
           f = "done" => ~Stuck(fs) \/ (b \in Bodies /\ Content(b) \cap Txns \subseteq Body(fs.disk, f))
    PROVE  Grows(fs, G)
<1>1. "overview" \in Paths
  BY DEF Paths
<1>2. G.disk[f] = b /\ \A g \in Paths \ {f} : G.disk[g] = fs.disk[g]
  BY DEF FileSystems, Disks, With
<1>3. \A x \in Txns : In(G.disk, x) => In(fs.disk, x) \/ x \in Content(b)
  BY <1>2 DEF In, Body
<1>4. ASSUME Stuck(fs) PROVE Stuck(G)
  <2>1. fs.journal.txn \in Txns
    BY <1>4 DEF Stuck, FileSystems, Journals
  <2>2. fs.journal.txn \in Body(G.disk, "overview")
    BY <1>1, <1>2, <1>4, <2>1 DEF Stuck, Body
  <2>3. G.disk["done"] \in Bodies /\ Body(G.disk, "done") \cap Txns = {}
    <3>1. "done" \in Paths
      BY DEF Paths
    <3> QED
      BY <1>2, <1>4, <3>1 DEF Stuck, Body
  <2> QED
    BY <1>4, <2>2, <2>3 DEF Stuck
<1>5. CASE f = "overview"
  BY <1>2, <1>3, <1>5, <1>4 DEF Grows, Body
<1>6. CASE f # "overview"
  <2>1. Body(G.disk, "overview") = Body(fs.disk, "overview")
    BY <1>1, <1>2, <1>6 DEF Body
  <2> QED
    BY <1>3, <1>6, <1>4, <2>1 DEF Grows
<1> QED
  BY <1>5, <1>6

\* The overview is written before every other file.
LEMMA OverviewFirst ==
    ASSUME TaskInv, op.at \in {"fill", "link", "linked", "unlink", "commit"}
                    \/ (op.at = "write" /\ op.i = 2)
    PROVE  J.txn \in Body(fs.disk, "overview")
<1>1. op.at \in Publishing
  BY DEF Publishing
<1>2. /\ fs \in FileSystems /\ J = fs.journal /\ J \in Journals /\ J.txn = op.txn /\ Kind \in Kinds
      /\ Kind = kind[op.txn] /\ op \in Commands
      /\ ImagesSound(J, kind, told, quiet) /\ Progress(fs, op, kind, told, quiet)
  BY <1>1, AtWork
<1>3. "overview" \in Paths /\ "overview" \in Changed(Kind) /\ "overview" \in Changed(Kind) \ Moved(Kind)
  BY <1>2, KindSets
<1>4. New(fs, "overview", quiet)
  BY <1>2, <1>3 DEF Progress, Staged, TwoNames, Finished
<1>5. J.txn \in Body(J.after, "overview") /\ J.txn \in Txns
  BY <1>2, <1>3 DEF ImagesSound, Adds, Body, Content, Journals
<1> QED
  BY <1>2, <1>3, <1>4, <1>5, Marks

\* The steps of a publication show more, never less.
LEMMA PublishCarries ==
    ASSUME TaskInv, Publish
    PROVE  Carries
<1>0. fs \in FileSystems /\ op \in Commands /\ J = fs.journal
  BY DEF TaskInv, Good, Typed, J
<1>a. /\ \A l : At(l).at = l
      /\ \A by : RollBack(by).at = "roll_back"
      /\ \A l : [op EXCEPT !.at = l].at = l
      /\ [At("write") EXCEPT !.i = op.i + 1].at = "write" /\ Idle.at = "idle"
  BY <1>0, Placed
<1>b. /\ \A f, b : [fs EXCEPT !.disk[f] = b]
                      = Sys(With(fs.disk, f, b), fs.linked, fs.dir, fs.journal)
      /\ \A d : [fs EXCEPT !.dir = d] = Sys(fs.disk, fs.linked, d, fs.journal)
      /\ \A j : [fs EXCEPT !.journal = j] = Sys(fs.disk, fs.linked, fs.dir, j)
  BY <1>0, Replaced
<1>c. \A D, l, d, j : /\ Sys(D, l, d, j).disk = D /\ Sys(D, l, d, j).journal = j
  BY DEF Sys
<1>d. ASSUME NEW G
      PROVE  /\ G.disk = fs.disk /\ (G.journal = fs.journal \/ ~Stuck(fs)) => Grows(fs, G)
             /\ G.journal = fs.journal /\ (G.disk = fs.disk \/ fs.journal # None)
                   => SameOwner(fs, G)
  <2>1. G.disk = fs.disk /\ (G.journal = fs.journal \/ ~Stuck(fs)) => (Stuck(fs) => Stuck(G))
    BY DEF Stuck
  <2>2. G.journal = fs.journal /\ (G.disk = fs.disk \/ fs.journal # None) => Board(G) = Board(fs)
    BY DEF Board
  <2> QED
    BY <2>1, <2>2 DEF Grows, SameOwner
<1>e. ASSUME NEW f \in Paths, NEW b
      PROVE  /\ Put(f, b).disk = With(fs.disk, f, b) /\ Put(f, b).journal = fs.journal
             /\ fs.journal # None => SameOwner(fs, Put(f, b))
             /\ (/\ f # "overview" /\ (f = "done" => ~Stuck(fs))
                 /\ \A x \in Content(b) \cap Txns : In(fs.disk, x) \/ x \in Body(fs.disk, "overview"))
                   => Grows(fs, Put(f, b))
  <2>1. Put(f, b) = Sys(With(fs.disk, f, b), fs.linked, fs.dir, fs.journal)
    BY <1>b DEF Put
  <2>2. /\ Put(f, b).disk = With(fs.disk, f, b) /\ Put(f, b).journal = fs.journal
    BY <1>c, <2>1
  <2> QED
    BY <1>0, <1>d, <2>2, GrowsPut
<1>f. Content(Absent) = {} /\ Content(Torn) = {}
  BY Words DEF Content
<1>g. /\ op.at \in Publishing \cup {"unmark", "forget"} => fs.journal # None
      /\ op.at = "prepare" => fs.journal = None
      /\ op.at \in {"prepare", "linked", "unlink", "commit", "unmark", "forget"} => ~Stuck(fs)
  BY NotStuck DEF TaskInv, Good, Control
<1>1. CASE Prepare
  <2> DEFINE G == [fs EXCEPT !.journal = Images(kind[op.txn])]
  <2>1. G = Sys(fs.disk, fs.linked, fs.dir, Images(kind[op.txn]))
    BY <1>b
  <2>2. Images(kind[op.txn]).txn = op.txn /\ Images(kind[op.txn]).before = fs.disk
    BY DEF Images
  <2>3. /\ Grows(fs, G) /\ G.journal.txn = op.txn /\ Board(G) = Board(fs)
    <3>1. op.at = "prepare"
      BY <1>1 DEF Prepare
    <3>2. G.disk = fs.disk /\ G.journal = Images(kind[op.txn])
      BY <1>c, <2>1
    <3> HIDE DEF G
    <3> QED
      BY <1>d, <1>g, <2>2, <3>1, <3>2 DEF Board
  <2> HIDE DEF G
  <2>4. op.at = "prepare" /\ (Change(G, At("check"), Idle) \/ Goto(Idle))
    BY <1>1 DEF Prepare, G
  <2>5. At("check").at # "prepare" /\ Idle.at # "prepare"
    BY <1>a
  <2> QED
    BY <2>3, <2>4, <2>5, ChangeCarries, GotoCarries
<1>2. CASE CheckPublish
  BY <1>2, <1>a, GotoCarries DEF CheckPublish
<1>3. CASE MakeDirectory \/ RemoveMarker
  BY <1>3, <1>a, <1>b, <1>c, <1>d, ChangeCarries, GotoCarries DEF MakeDirectory, RemoveMarker
<1>4. CASE MarkDirectory
  <2>1. CASE Change([fs EXCEPT !.dir = J.txn], At("write"), RollBack("publish"))
    BY <2>1, <1>a, <1>b, <1>c, <1>d, ChangeCarries
  <2>2. CASE /\ fs' = [fs EXCEPT !.dir = IF fs.disk["done"] = Absent THEN Absent ELSE @]
             /\ op' = RollBack("publish") /\ UNCHANGED <<reader, kind, told, quiet, raced>>
    <3>1. fs'.disk = fs.disk /\ fs'.journal = fs.journal
      BY <1>0, <2>2 DEF FileSystems
    <3> QED
      BY <2>2, <1>a, <1>d, <3>1 DEF Carries
  <2> QED
    BY <1>4, <2>1, <2>2 DEF MarkDirectory
<1>5. CASE WriteFile
  <2> DEFINE f == Writes(Kind)[op.i]
  <2>1. op.at = "write" /\ op.at \in Publishing /\ fs.journal # None
    BY <1>5, <1>g DEF WriteFile, Publishing
  <2>2. /\ Kind \in Kinds /\ ImagesSound(J, kind, told, quiet) /\ J.txn = op.txn
        /\ Kind = kind[op.txn] /\ op.i \in {1, 2} /\ J \in Journals
        /\ Control(fs, op, kind, told)
    BY <1>0, <2>1, AtWork DEF Commands, TaskInv, Good
  <2>3. f \in {"overview", "new", "detail"} /\ f \in Changed(Kind)
    BY <2>1, <2>2, KindsOfCommand, KindSets DEF Control
  <2>4. f \in Paths /\ "new" \in Paths
    BY <2>3 DEF Paths
  <2>5. Written.at # "prepare"
    BY <1>a DEF Written
  <2>6. CASE f = "new"
    <3> DEFINE P == [op EXCEPT !.at = "fill"]
    <3>1. P.at = "fill"
      BY <1>a
    <3>2. Grows(fs, Put("new", Torn)) /\ SameOwner(fs, Put("new", Torn))
      BY <1>e, <1>f, <2>1, <2>4
    <3>3. Change(Put("new", Torn), P, RollBack("publish")) \/ Goto(RollBack("publish"))
      BY <1>5, <2>6 DEF WriteFile
    <3> HIDE DEF P
    <3> QED
      BY <1>a, <3>1, <3>2, <3>3, ChangeCarries, GotoCarries
  <2>7. CASE f # "new" /\ Unchanged(f)
    <3>1. Adds(Kind, J.txn, J.before, J.after, quiet)
      BY <2>2 DEF ImagesSound
    <3>2. /\ Content(fs.disk[f]) \cap Txns \subseteq Content(J.after[f])
          /\ Content(J.after[f]) \cap Txns \subseteq {J.txn} \cup Body(fs.disk, f)
      <4>1. fs.disk[f] = J.before[f]
        BY <2>7 DEF Unchanged
      <4>2. J.after[f] \in Bodies /\ J.after[f] \cap Txns = {J.txn} \cup (Body(J.before, f) \cap Txns)
        BY <2>3, <3>1 DEF Adds
      <4> QED
        BY <4>1, <4>2 DEF Body, Content
    <3>3. f # "overview" => J.txn \in Body(fs.disk, "overview")
      BY <2>1, <2>2, <2>3, OverviewFirst, KindsOfCommand
    <3>4. f # "overview" => \A x \in Content(J.after[f]) \cap Txns :
                               In(fs.disk, x) \/ x \in Body(fs.disk, "overview")
      BY <2>4, <3>2, <3>3 DEF In
    <3>5. Grows(fs, Put(f, J.after[f]))
      BY <1>0, <1>e, <2>3, <2>4, <3>2, <3>4, GrowsPut
    <3> QED
      BY <1>5, <1>a, <1>e, <2>1, <2>4, <2>5, <2>7, <3>5, ChangeCarries DEF WriteFile
  <2>8. CASE ~Unchanged(f)
    BY <1>5, <1>a, <2>8, GotoCarries DEF WriteFile
  <2> QED
    BY <2>6, <2>7, <2>8
<1>6. CASE FillFile
  <2>1. "new" \in Paths /\ fs.journal # None
    BY <1>6, <1>g DEF FillFile, Publishing, Paths
  <2>2. Written.at # "prepare"
    BY <1>a DEF Written
  <2>3. CASE Change(Put("new", J.after["new"]), Written, RollBack("publish"))
    <3>1. op.at = "fill" /\ op.at \in Publishing
      BY <1>6 DEF FillFile, Publishing
    <3>2. /\ Kind = "new" /\ Kind \in Kinds /\ ImagesSound(J, kind, told, quiet)
          /\ Kind = kind[J.txn] /\ J.txn \in Txns
      BY <3>1, AtWork DEF TaskInv, Good, Control
    <3>3. /\ J.after["new"] \cap Txns = {J.txn} \cup (Body(J.before, "new") \cap Txns)
          /\ J.after["new"] \in Bodies /\ Body(J.before, "new") = {}
      BY <1>f, <3>2, KindSets DEF ImagesSound, Adds, Body
    <3>4. J.txn \in Body(fs.disk, "overview")
      BY <3>1, OverviewFirst
    <3>5. Grows(fs, Put("new", J.after["new"]))
      BY <1>e, <2>1, <3>3, <3>4 DEF Content
    <3> QED
      BY <1>a, <1>e, <2>1, <2>2, <2>3, <3>5, ChangeCarries
  <2>4. CASE /\ fs' = Put("new", Absent) /\ op' = RollBack("publish")
             /\ UNCHANGED <<reader, kind, told, quiet, raced>>
    BY <1>a, <1>e, <1>f, <2>1, <2>4 DEF Carries
  <2> QED
    BY <1>6, <2>3, <2>4 DEF FillFile
<1>7. CASE LinkMove \/ VerifyLink \/ UnlinkMove
  <2>1. /\ "done" \in Paths /\ "detail" \in Paths /\ fs.journal # None
    BY <1>7, <1>g DEF LinkMove, VerifyLink, UnlinkMove, Publishing, Paths
  <2>2. ASSUME NEW f \in Paths, NEW b, f # "overview", f = "done" => ~Stuck(fs)
        PROVE  /\ (\A x \in Content(b) \cap Txns : In(fs.disk, x)) => Grows(fs, Link(f, b))
               /\ SameOwner(fs, Link(f, b))
               /\ Grows(fs, Unlink(f)) /\ SameOwner(fs, Unlink(f))
    <3>1. /\ \A c, l : /\ [Put(f, c) EXCEPT !.linked = l].disk = Put(f, c).disk
                       /\ [Put(f, c) EXCEPT !.linked = l].journal = Put(f, c).journal
      BY <1>b DEF Put, Sys
    <3>2. /\ Link(f, b).disk = Put(f, b).disk /\ Link(f, b).journal = Put(f, b).journal
          /\ Unlink(f).disk = Put(f, Absent).disk /\ Unlink(f).journal = Put(f, Absent).journal
      BY <3>1 DEF Link, Unlink
    <3>3. /\ (\A x \in Content(b) \cap Txns : In(fs.disk, x)) => Grows(fs, Put(f, b))
          /\ Grows(fs, Put(f, Absent))
      BY <1>e, <1>f, <2>2
    <3>4. /\ \A G, H : G.disk = H.disk /\ G.journal = H.journal =>
                /\ Grows(fs, H) => Grows(fs, G)
                /\ SameOwner(fs, H) => SameOwner(fs, G)
      BY DEF Grows, SameOwner, Stuck, Board
    <3> QED
      BY <1>e, <2>1, <2>2, <3>2, <3>3, <3>4
  <2>3. \A x \in Content(fs.disk["detail"]) \cap Txns : In(fs.disk, x)
    BY <2>1 DEF In, Body
  <2>4. CASE LinkMove
    <3>1. fs.disk["done"] = Absent => ~Stuck(fs)
      BY Words DEF Stuck
    <3> QED
      BY <1>a, <2>1, <2>2, <2>3, <2>4, <3>1, ChangeCarries, GotoCarries DEF LinkMove
  <2>5. CASE VerifyLink
    BY <1>a, <1>e, <1>f, <1>g, <2>1, <2>5, ChangeCarries, GotoCarries DEF VerifyLink
  <2>6. CASE UnlinkMove
    BY <1>a, <2>1, <2>2, <2>6, ChangeCarries DEF UnlinkMove
  <2> QED
    BY <1>7, <2>4, <2>5, <2>6
<1>8. CASE MarkCommitted
  <2> DEFINE j == [fs.journal EXCEPT !.phase = "committed"]
             G == [fs EXCEPT !.journal.phase = "committed"]
  <2>1. op.at \in Publishing
    BY <1>8 DEF MarkCommitted, Publishing
  <2>2. fs.journal \in Journals /\ fs.journal # None
    BY <1>0, <2>1, AtWork DEF TaskInv, Good, Control
  <2>3. /\ G.disk = fs.disk /\ G.journal.txn = fs.journal.txn
        /\ G.journal.before = fs.journal.before /\ G.journal # None
    <3>1. [fs.journal EXCEPT !.phase = "committed"] \in Journals
      BY <2>2 DEF Journals
    <3> QED
      BY <1>0, <2>2, <3>1, Words DEF FileSystems, Journals
  <2>4. Grows(fs, G) /\ SameOwner(fs, G)
    <3>1. ~Stuck(fs)
      BY <1>8, <1>g DEF MarkCommitted
    <3> HIDE DEF G
    <3> QED
      BY <1>d, <2>2, <2>3, <3>1 DEF SameOwner, Board
  <2> HIDE DEF G
  <2>5. CASE Change(G, At("unmark"), Idle)
    BY <1>a, <2>4, <2>5, ChangeCarries
  <2>6. CASE op' = RollBack("commit") /\ UNCHANGED <<fs, reader, kind, told, quiet, raced>>
    BY <1>a, <1>d, <2>6 DEF Carries
  <2> QED
    BY <1>8, <2>5, <2>6 DEF MarkCommitted, G
<1>9. CASE ForgetJournal
  <2> DEFINE G == [fs EXCEPT !.journal = None]
  <2>1. G = Sys(fs.disk, fs.linked, fs.dir, None)
    BY <1>b
  <2>2. op.at = "forget" /\ G.disk = fs.disk /\ G.journal = None
    BY <1>9, <1>c, <2>1 DEF ForgetJournal
  <2> HIDE DEF G
  <2>4. Apart(Board(fs)) => Apart(fs.disk)
    BY <2>2, AtLast
  <2>5. Grows(fs, G) /\ SameOwner(fs, G)
    BY <1>d, <1>g, <2>2, <2>4 DEF SameOwner, Board
  <2>3. Change(G, At("report"), Idle)
    BY <1>9 DEF ForgetJournal, G
  <2> QED
    BY <1>a, <2>3, <2>5, ChangeCarries
<1>10. CASE Report
  BY <1>10, <1>a, <1>d DEF Report, Carries
<1> QED
  BY <1>1, <1>2, <1>3, <1>4, <1>5, <1>6, <1>7, <1>8, <1>9, <1>10 DEF Publish

\* The steps of a rollback undo a read, or leave the board alone.
LEMMA RollbackCarries ==
    ASSUME TaskInv, Rollback
    PROVE  Carries
<1>0. fs \in FileSystems /\ op \in Commands /\ J = fs.journal
  BY DEF TaskInv, Good, Typed, J
<1>a. /\ \A l : At(l).at = l
      /\ [op EXCEPT !.i = @ + 1].at = op.at /\ Idle.at = "idle"
  BY <1>0, Placed
<1>b. /\ \A f, b : [fs EXCEPT !.disk[f] = b]
                      = Sys(With(fs.disk, f, b), fs.linked, fs.dir, fs.journal)
      /\ \A d : [fs EXCEPT !.dir = d] = Sys(fs.disk, fs.linked, d, fs.journal)
      /\ \A j : [fs EXCEPT !.journal = j] = Sys(fs.disk, fs.linked, fs.dir, j)
  BY <1>0, Replaced
<1>c. \A D, l, d, j : /\ Sys(D, l, d, j).disk = D /\ Sys(D, l, d, j).journal = j
  BY DEF Sys
<1>d. ASSUME NEW G
      PROVE  /\ G.disk = fs.disk /\ (G.journal = fs.journal \/ ~Stuck(fs)) => Grows(fs, G)
             /\ G.journal = fs.journal /\ (G.disk = fs.disk \/ fs.journal # None)
                   => SameOwner(fs, G)
  <2>1. G.disk = fs.disk /\ (G.journal = fs.journal \/ ~Stuck(fs)) => (Stuck(fs) => Stuck(G))
    BY DEF Stuck
  <2>2. G.journal = fs.journal /\ (G.disk = fs.disk \/ fs.journal # None) => Board(G) = Board(fs)
    BY DEF Board
  <2> QED
    BY <2>1, <2>2 DEF Grows, SameOwner
<1>g. fs.journal # None
  BY DEF TaskInv, Good, Control, Undoing, Rollback, CheckRollback, MoveBack, VerifyLinkBack,
         UnlinkBack, RestoreFile, UnmarkDirectory, RemoveDirectory, ForgetRolledBack
<1>e. ASSUME NEW f, NEW b
      PROVE  /\ SameOwner(fs, Put(f, b)) /\ SameOwner(fs, Link(f, b)) /\ SameOwner(fs, Unlink(f))
             /\ \A l : SameOwner(fs, [Put(f, b) EXCEPT !.linked = l])
  <2>1. \A c, l : [Put(f, c) EXCEPT !.linked = l].journal = fs.journal /\ Put(f, c).journal = fs.journal
    BY <1>b DEF Put, Sys
  <2> QED
    BY <1>d, <1>g, <2>1 DEF Link, Unlink
<1>1. CASE CheckRollback
  BY <1>1, <1>a, GotoCarries DEF CheckRollback
<1>2. CASE MoveBack
  BY <1>2, <1>a, <1>e, TakeBackCarries, GotoCarries DEF MoveBack
<1>3. CASE VerifyLinkBack \/ UnlinkBack
  BY <1>3, <1>a, <1>e, TakeBackCarries, GotoCarries DEF VerifyLinkBack, UnlinkBack
<1>4. CASE RestoreFile
  <2> DEFINE f == Files(Kind)[op.i]
             G == [Put(f, J.before[f]) EXCEPT !.linked = IF f = "detail" THEN FALSE ELSE @]
             P == IF op.i < Len(Files(Kind)) THEN [op EXCEPT !.i = @ + 1]
                  ELSE At(IF J.owns THEN "unmark_back" ELSE "forget_back")
  <2>1. SameOwner(fs, G)
    BY <1>e
  <2>2. P.at # "prepare" /\ TakeBack(G, P)
    BY <1>4, <1>a DEF RestoreFile
  <2> HIDE DEF G, P
  <2> QED
    BY <2>1, <2>2, TakeBackCarries
<1>5. CASE UnmarkDirectory
  BY <1>5, <1>a, <1>b, <1>c, <1>d, ChangeCarries, GotoCarries DEF UnmarkDirectory
<1>6. CASE RemoveDirectory
  <2>1. CASE Change([fs EXCEPT !.dir = Absent], At("forget_back"), Idle)
    BY <2>1, <1>a, <1>b, <1>c, <1>d, ChangeCarries
  <2>2. CASE /\ fs' = [fs EXCEPT !.dir = J.txn] /\ op' = Idle
             /\ UNCHANGED <<reader, kind, told, quiet, raced>>
    <3>1. fs'.disk = fs.disk /\ fs'.journal = fs.journal
      BY <1>0, <2>2 DEF FileSystems
    <3> QED
      BY <2>2, <1>a, <1>d, <3>1 DEF Carries
  <2> QED
    BY <1>6, <2>1, <2>2 DEF RemoveDirectory
<1>7. CASE ForgetRolledBack
  <2> DEFINE G == [fs EXCEPT !.journal = None]
  <2>1. G = Sys(fs.disk, fs.linked, fs.dir, None)
    BY <1>b
  <2>2. op.at = "forget_back" /\ G.disk = fs.disk /\ G.journal = None
    BY <1>7, <1>c, <2>1 DEF ForgetRolledBack
  <2> HIDE DEF G
  <2>4. Grows(fs, G) /\ SameOwner(fs, G)
    BY <1>d, <2>2, AtLast, NotStuck DEF SameOwner, Board
  <2>3. Change(G, At("report_rolled"), Idle) \/ Goto(At("report_rolled"))
    BY <1>7 DEF ForgetRolledBack, G
  <2> QED
    BY <1>a, <2>3, <2>4, ChangeCarries, GotoCarries
<1> QED
  BY <1>1, <1>2, <1>3, <1>4, <1>5, <1>6, <1>7 DEF Rollback

\* A command that begins, a recovery and an edit take nothing away.
LEMMA OthersCarry ==
    ASSUME TaskInv, Outside \/ Recover \/ \E t \in Txns, k \in Kinds : Start(t, k)
    PROVE  Carries
<1>0. fs \in FileSystems /\ kind \in [Txns -> Kinds \cup {None}] /\ op.at = op.at
  BY DEF TaskInv, Good, Typed, Histories
<1>1. CASE Recover
  <2>1. Command(IF J.phase = "committed" THEN "unmark" ELSE "roll_back", J.txn, NoFiles,
                "recover").at # "prepare"
    BY DEF Command
  <2> QED
    BY <1>1, <2>1, GotoCarries DEF Recover
<1>2. ASSUME NEW t \in Txns, NEW k \in Kinds, Start(t, k)
      PROVE  Carries
  <2>1. op'.txn = t /\ kind[t] = None
    BY <1>2 DEF Start, Command
  <2>2. \A x \in Txns : kind[x] # None => kind'[x] = kind[x]
    BY <1>0, <1>2 DEF Start
  <2> QED
    BY <1>2, <2>1, <2>2 DEF Start, Carries, Grows, SameOwner
<1>3. ASSUME NEW e \in Edits, EditDirectory(e)
      PROVE  Carries
  <2>1. fs'.disk = fs.disk /\ fs'.journal = fs.journal
    BY <1>0, <1>3 DEF EditDirectory, FileSystems
  <2> QED
    BY <1>3, <2>1 DEF EditDirectory, Carries, Grows, SameOwner, Stuck, Board
<1>4. ASSUME NEW e \in Edits, NEW f \in Paths, Edit(e, f)
      PROVE  Carries
  <2> DEFINE b == {e} \cup (IF Holds(f) THEN fs.disk[f] ELSE {})
  <2>1. fs'.disk = With(fs.disk, f, b) /\ fs'.journal = fs.journal
    <3>1. fs' = [Put(f, b) EXCEPT !.linked = @ /\ f \notin {"detail", "done"}]
      BY <1>4 DEF Edit
    <3>2. Put(f, b) = Sys(With(fs.disk, f, b), fs.linked, fs.dir, fs.journal)
      BY <1>0, Replaced DEF Put
    <3> HIDE DEF b
    <3> QED
      BY <3>1, <3>2 DEF Sys
  <2>2. /\ Content(fs.disk[f]) \cap Txns \subseteq Content(b)
        /\ Content(b) \cap Txns \subseteq Body(fs.disk, f)
    <3>1. fs.disk[f] \in Bodies \cup {Absent, Torn}
      BY <1>0 DEF FileSystems, Disks
    <3>2. CASE Holds(f)
      <4>1. fs.disk[f] \in Bodies
        BY <3>1, <3>2 DEF Holds
      <4>2. b \in Bodies
        BY <4>1, <3>2 DEF Bodies
      <4> QED
        BY <4>1, <4>2, <3>2, NamesAssumption DEF Content, Body
    <3>3. CASE ~Holds(f)
      <4>1. b = {e} /\ b \in Bodies /\ b \cap Txns = {}
        BY <3>3, NamesAssumption DEF Bodies
      <4> QED
        BY <3>1, <3>3, <4>1, NamesAssumption DEF Holds, Content
    <3> QED
      BY <3>2, <3>3
  <2>4. b \in Bodies
    BY <1>0, <1>4, BodiesHeld DEF Bodies
  <2> HIDE DEF b
  <2>3. Grows(fs, fs')
    BY <1>0, <2>1, <2>2, <2>4, GrowsPut DEF In
  <2>5. Apart(Board(fs)) => Apart(Board(fs'))
    <3>1. fs'.disk[f] = b /\ \A g \in Paths \ {f} : fs'.disk[g] = fs.disk[g]
      BY <1>0, <2>1 DEF FileSystems, Disks, With
    <3>2. "detail" \in Paths /\ "done" \in Paths
      BY DEF Paths
    <3>3. Body(fs'.disk, "done") \cap Txns \subseteq Body(fs.disk, "done")
      BY <2>2, <3>1, <3>2 DEF Body
    <3>4. Body(fs.disk, "detail") \cap Txns \subseteq Body(fs'.disk, "detail")
      BY <2>2, <3>1, <3>2 DEF Body
    <3>5. fs'.disk["detail"] \in Bodies => fs.disk["detail"] \in Bodies
      <4>1. f = "detail" => fs.disk["detail"] \in Bodies
        BY <1>0, <1>4, BodiesHeld DEF Edit
      <4> QED
        BY <3>1, <3>2, <4>1
    <3> QED
      BY <2>1, <3>3, <3>4, <3>5 DEF Apart, Board
  <2> QED
    BY <1>4, <2>1, <2>3, <2>5 DEF Edit, Carries, SameOwner
<1> QED
  BY <1>1, <1>2, <1>3, <1>4 DEF Outside

\* The steps of the reader: what it sees is on the board, and what it returns
\* was there without a journal.
LEMMA ReadKeeps ==
    ASSUME TaskInv, ReadInv, Read
    PROVE  ReadInv'
<1>0. /\ fs \in FileSystems /\ reader \in Readers
      /\ UNCHANGED <<fs, op, kind>> /\ J' = J /\ "overview" \in Paths
  BY DEF TaskInv, Good, Typed, ReadInv, Read, BeginRead, ReadOverview, ReadDetails,
         ReadOverviewAgain, ReadDetailsAgain, EndRead, Returned, Reads, J, Paths
<1>a. /\ NotReading \in Readers /\ NotReading.at = "idle" /\ NoFiles \in Disks
  BY DEF NotReading, Readers, NoFiles, Disks
<1>1. CASE reader' = NotReading
  BY <1>1, <1>a DEF ReadInv
<1>2. CASE BeginRead
  <2>1. /\ reader'.at = "overview" /\ reader'.seen = NoFiles /\ reader' \in Readers
    BY <1>2, <1>a DEF BeginRead, Reads, NotReading, Readers
  <2>2. Shown' = {}
    BY <1>0, <2>1, NamesAssumption DEF Shown, Body, Content, NoFiles
  <2> QED
    BY <2>1, <2>2 DEF ReadInv
<1>3. CASE ReadOverview
  <2>1. /\ reader'.at = "details" /\ reader'.undone = reader.undone /\ reader' \in Readers
        /\ reader'.seen["overview"] = fs.disk["overview"]
    BY <1>0, <1>3 DEF ReadOverview, Reads, ReadAt, Readers, FileSystems, Disks
  <2>2. fs.disk["overview"] \in Bodies
    BY <1>0, <1>3 DEF ReadOverview, Holds, FileSystems, Disks
  <2>3. Shown' \subseteq Body(fs.disk, "overview")
    BY <2>1 DEF Shown, Body
  <2> QED
    BY <1>0, <2>1, <2>2, <2>3 DEF ReadInv
<1>4. ASSUME reader'.at \in {"again", "details_again", "last"}, reader.at \notin {"idle", "overview"},
             reader'.undone = reader.undone, reader' \in Readers,
             reader'.seen["overview"] = reader.seen["overview"]
      PROVE  ReadInv'
  <2>1. Shown' = Shown
    BY <1>4 DEF Shown, Body
  <2> QED
    BY <1>0, <1>4, <2>1 DEF ReadInv
<1>5. CASE ReadDetails
  <2> DEFINE named == Named(reader.seen["overview"])
             seen == [f \in Paths |-> IF f \in named THEN fs.disk[f] ELSE reader.seen[f]]
  <2>1. "overview" \notin named
    BY DEF Named
  <2>2. seen \in Disks /\ seen["overview"] = reader.seen["overview"]
    BY <1>0, <2>1 DEF FileSystems, Readers, Disks
  <2>3. CASE reader' = [ReadAt("again") EXCEPT !.seen = seen]
    <3> HIDE DEF seen
    <3>1. /\ reader'.at = "again" /\ reader'.undone = reader.undone /\ reader'.seen = seen
          /\ reader' \in Readers
      BY <1>0, <2>2, <2>3 DEF ReadAt, Readers
    <3> QED
      BY <1>4, <1>5, <2>2, <3>1 DEF ReadDetails
  <2>4. reader' = NotReading \/ reader' = [ReadAt("again") EXCEPT !.seen = seen]
    <3>1. [ReadAt("again") EXCEPT !.seen = [f \in Paths |-> IF f \in named THEN fs.disk[f] ELSE @[f]]]
            = [ReadAt("again") EXCEPT !.seen = seen]
      BY <1>0 DEF ReadAt, Readers
    <3> QED
      BY <1>5, <3>1 DEF ReadDetails, Reads
  <2> QED
    BY <1>1, <2>3, <2>4
<1>6. CASE ReadOverviewAgain \/ ReadDetailsAgain
  <2>1. \A l \in {"details_again", "last"} :
           /\ ReadAt(l).at = l /\ ReadAt(l).undone = reader.undone
           /\ ReadAt(l).seen = reader.seen /\ ReadAt(l) \in Readers
    BY <1>0 DEF ReadAt, Readers
  <2> QED
    BY <1>1, <1>4, <1>6, <2>1 DEF ReadOverviewAgain, ReadDetailsAgain, Reads
<1>7. CASE EndRead /\ J = None
  <2>1. /\ reader'.at = "returned" /\ reader'.undone = reader.undone
        /\ reader'.seen = reader.seen /\ reader' \in Readers /\ reader.at = "last"
    BY <1>0, <1>7 DEF EndRead, Reads, ReadAt, Readers
  <2>2. Shown' = Shown
    BY <2>1 DEF Shown
  <2>3. ASSUME ~reader.undone, NEW t \in Shown
        PROVE  kind[t] # None /\ (op.at = "prepare" => op.txn # t)
    <3>1. t \in Txns /\ In(fs.disk, t)
      BY <1>0, <2>1, <2>3 DEF ReadInv, Shown, In
    <3>2. Sound(fs.disk, kind, told) /\ (op.at = "prepare" => Built(fs, op, kind, quiet))
      BY <1>7 DEF TaskInv, Good, OnDisk, Progress, J
    <3> QED
      BY <3>1, <3>2 DEF Sound, Built
  <2> QED
    BY <1>0, <1>7, <2>1, <2>2, <2>3 DEF ReadInv
<1>8. CASE Returned \/ (EndRead /\ J # None)
  BY <1>1, <1>8 DEF Returned, EndRead, Reads
<1> QED
  BY <1>2, <1>3, <1>5, <1>6, <1>7, <1>8 DEF Read

--------------------------------------------------------------------------------
(* The details that a read shows.                                          *)

\* The transaction of the journal is in the overview before it is anywhere else.
Ahead(F) == F.journal # None /\ In(F.disk, F.journal.txn) =>
               F.journal.txn \in Body(F.disk, "overview")

\* The details that were read, and the transactions that are torn in them.
Details == Named(reader.seen["overview"])
OneTorn == \A t, u \in Txns : TornRead(t) /\ TornRead(u) => t = u

\* At its places a read knows more and more of its details: that each of their
\* transactions is on the board, that its own overview shows it, and that the
\* command under way at the second look is the only one that can be torn.
WholeInv ==
    /\ Apart(Board(fs))
    /\ reader.at # "idle" /\ ~reader.undone =>
          /\ Ahead(fs)
          /\ reader.at # "overview" => \A t \in Shown : kind[t] # None
          /\ reader.at \in {"again", "details_again", "last", "returned"} =>
                \A f \in Details : reader.seen[f] \in Bodies
          /\ reader.at = "again" =>
                \A f \in Details : Body(reader.seen, f) \cap Txns \subseteq Body(fs.disk, "overview")
          /\ reader.at \in {"details_again", "last", "returned"} =>
                \A f \in Details : Body(reader.seen, f) \cap Txns \subseteq Shown
          /\ reader.at = "last" => OneTorn \/ Stuck(fs)
          /\ reader.at = "returned" => OneTorn

\* What is on the board is in the overview, and somebody has begun it.
LEMMA OverviewShows ==
    ASSUME TaskInv
    PROVE  /\ \A x \in Txns : In(fs.disk, x) => kind[x] # None
           /\ Ahead(fs) => \A x \in Txns : In(fs.disk, x) => x \in Body(fs.disk, "overview")
<1>1. /\ OnDisk(fs, op, kind, told, quiet) /\ Owned(fs, op, kind, told) /\ fs \in FileSystems
  BY DEF TaskInv, Good, Typed
<1>2. CASE fs.journal = None
  BY <1>1, <1>2 DEF OnDisk, Sound, Done
<1>3. CASE fs.journal # None
  <2>1. /\ fs.journal \in Journals /\ kind[fs.journal.txn] \in Kinds
        /\ ImagesSound(fs.journal, kind, told, quiet) /\ Between(fs, kind[fs.journal.txn], quiet)
    <3>1. fs.journal \in Journals /\ kind[fs.journal.txn] \in Kinds
      BY <1>1, <1>3 DEF Owned, FileSystems
    <3> QED
      BY <1>1, <1>3, <3>1, Stages DEF OnDisk
  <2>2. \A x \in Txns \ {fs.journal.txn} :
           /\ In(fs.disk, x) => In(fs.journal.before, x)
           /\ x \in Body(fs.journal.before, "overview") => x \in Body(fs.disk, "overview")
    BY <1>1, <2>1, BetweenMarks
  <2>3. \A x \in Txns : In(fs.journal.before, x) =>
           kind[x] # None /\ x \in Body(fs.journal.before, "overview")
    BY <2>1 DEF ImagesSound, Sound, Done
  <2>4. kind[fs.journal.txn] # None
    BY <2>1, Words
  <2> QED
    BY <1>3, <2>2, <2>3, <2>4 DEF Ahead
<1> QED
  BY <1>2, <1>3

\* A step that is not the reader's keeps the overview ahead.
LEMMA AheadKept ==
    ASSUME TaskInv, fs' \in FileSystems, Ahead(fs), Carries, Grows(fs, fs')
    PROVE  Ahead(fs')
<1> DEFINE x == fs'.journal.txn
<1> SUFFICES ASSUME fs'.journal # None, In(fs'.disk, x)
             PROVE  x \in Body(fs'.disk, "overview")
  BY DEF Ahead
<1>1. x \in Txns
  BY DEF FileSystems, Journals
<1>2. In(fs.disk, x) \/ x \in Body(fs'.disk, "overview")
  BY <1>1 DEF Grows
<1>3. ASSUME In(fs.disk, x), SameOwner(fs, fs')
      PROVE  x \in Body(fs'.disk, "overview")
  <2>1. fs.journal # None /\ fs.journal.txn = x
    BY <1>3 DEF SameOwner
  <2> QED
    BY <1>1, <1>3, <2>1 DEF Ahead, Grows
<1>4. ASSUME In(fs.disk, x), op.at = "prepare", x = op.txn
      PROVE  FALSE
  BY <1>4 DEF TaskInv, Good, Progress, Built
<1> QED
  BY <1>2, <1>3, <1>4 DEF Carries

\* What was read says the same as long as nothing is read.
LEMMA SameRead ==
    ASSUME reader'.seen = reader.seen, reader.seen["overview"] \in Bodies,
           \A t \in Shown : kind'[t] = kind[t]
    PROVE  Shown' = Shown /\ Details' = Details /\ (OneTorn' <=> OneTorn)
<1>1. Shown' = Shown /\ Shown = reader.seen["overview"] \cap Txns
  BY DEF Shown, Body, Content
<1>2. \A k : (\E t \in reader.seen["overview"] \cap Txns : kind'[t] = k)
                <=> (\E t \in reader.seen["overview"] \cap Txns : kind[t] = k)
  BY <1>1
<1>3. Details' = Details
  BY <1>2 DEF Details, Named, Includes
<1>4. ASSUME NEW t \in Txns
      PROVE  TornRead(t)' <=> TornRead(t)
  <2>1. t \in reader.seen["overview"] => \A f : Changes(t, f)' <=> Changes(t, f)
    BY <1>1 DEF Changes
  <2> QED
    BY <1>3, <2>1 DEF TornRead, Details
<1> QED
  BY <1>1, <1>3, <1>4 DEF OneTorn

\* A step that is not the reader's keeps what it knows of the details.
LEMMA WholeCarries ==
    ASSUME TaskInv, fs' \in FileSystems, ReadInv, WholeInv, Carries
    PROVE  WholeInv'
<1>1. Apart(Board(fs))'
  BY DEF WholeInv, Carries, SameOwner
<1>2. CASE reader' = [reader EXCEPT !.undone = reader.at # "idle"]
  <2>1. reader'.at = reader.at /\ reader'.undone = (reader.at # "idle")
    BY <1>2 DEF ReadInv, Readers
  <2> QED
    BY <1>1, <2>1 DEF WholeInv
<1>3. CASE reader' = reader /\ Grows(fs, fs') /\ reader.at # "idle" /\ ~reader.undone
  <2>1. Ahead(fs')
    BY <1>3, AheadKept DEF WholeInv
  <2>2. CASE reader.at = "overview"
    BY <1>1, <1>3, <2>1, <2>2 DEF WholeInv
  <2>3. CASE reader.at # "overview"
    <3>1. /\ reader.seen["overview"] \in Bodies
          /\ \A t \in Shown : kind[t] # None /\ kind'[t] = kind[t]
      BY <1>3, <2>3 DEF ReadInv, WholeInv, Carries, Shown
    <3>2. Shown' = Shown /\ Details' = Details /\ (OneTorn' <=> OneTorn)
      BY <1>3, <3>1, SameRead
    <3>3. Stuck(fs) => Stuck(fs)'
      <4> SUFFICES ASSUME Stuck(fs) PROVE Stuck(fs)'
        OBVIOUS
      <4>1. fs.journal # None /\ fs.journal \in Journals
        BY DEF Stuck, TaskInv, Good, Typed, FileSystems
      <4>2. fs.journal.txn \in Txns /\ kind[fs.journal.txn] # None
        BY <4>1, Words DEF TaskInv, Good, Owned, Journals
      <4>3. op.at # "prepare"
        BY <4>1 DEF TaskInv, Good, Control
      <4>4. Stuck(fs')
        BY <1>3 DEF Grows
      <4>5. fs'.journal.txn = fs.journal.txn
        BY <4>3, <4>4 DEF Carries, SameOwner, Stuck
      <4>6. kind'[fs'.journal.txn] = kind[fs'.journal.txn]
        BY <4>2, <4>5 DEF Carries
      <4> QED
        BY <4>4, <4>6 DEF Stuck
    <3>4. \A f \in Details : Body(reader.seen, f) \cap Txns \subseteq Body(fs.disk, "overview")
             => Body(reader.seen, f) \cap Txns \subseteq Body(fs'.disk, "overview")
      BY <1>3 DEF Grows
    <3> QED
      BY <1>1, <1>3, <2>1, <2>3, <3>1, <3>2, <3>3, <3>4 DEF WholeInv
  <2> QED
    BY <2>2, <2>3
<1>4. CASE reader' = reader /\ (reader.at = "idle" \/ reader.undone)
  BY <1>1, <1>4 DEF WholeInv
<1> QED
  BY <1>2, <1>3, <1>4 DEF Carries

\* The board without the command under way, and what the disk still has of it.
LEMMA BoardOnDisk ==
    ASSUME TaskInv
    PROVE  /\ Sound(Board(fs), kind, told)
           /\ fs.journal = None => Board(fs) = fs.disk
           /\ fs.journal # None =>
                 /\ fs.journal \in Journals /\ Board(fs) = fs.journal.before
                 /\ kind[fs.journal.txn] \in Kinds
                 /\ ImagesSound(fs.journal, kind, told, quiet)
                 /\ Between(fs, kind[fs.journal.txn], quiet)
                 /\ fs.journal.phase # "prepared" => Finished(fs, kind[fs.journal.txn], quiet)
           /\ \A x \in Txns : x \in Body(fs.disk, "overview")
                              /\ (fs.journal # None => x # fs.journal.txn)
                                 => Done(Board(fs), kind, x)
<1>1. /\ OnDisk(fs, op, kind, told, quiet) /\ Owned(fs, op, kind, told) /\ fs \in FileSystems
      /\ "overview" \in Paths
  BY DEF TaskInv, Good, Typed, Paths
<1>2. CASE fs.journal = None
  <2>1. Sound(fs.disk, kind, told) /\ Board(fs) = fs.disk
    BY <1>1, <1>2 DEF OnDisk, Board
  <2> QED
    BY <1>1, <1>2, <2>1 DEF Sound, In
<1>3. CASE fs.journal # None
  <2>1. /\ fs.journal \in Journals /\ kind[fs.journal.txn] \in Kinds /\ Board(fs) = fs.journal.before
        /\ fs.journal.phase \in {"prepared", "committed"}
    BY <1>1, <1>3 DEF Owned, FileSystems, Journals, Board
  <2>2. /\ ImagesSound(fs.journal, kind, told, quiet)
        /\ fs.journal.phase # "prepared" => Finished(fs, kind[fs.journal.txn], quiet)
        /\ Between(fs, kind[fs.journal.txn], quiet)
    BY <1>1, <1>3, <2>1, Stages DEF OnDisk
  <2>3. \A x \in Txns \ {fs.journal.txn} : In(fs.disk, x) => In(fs.journal.before, x)
    BY <1>1, <2>1, <2>2, BetweenMarks
  <2>4. Sound(fs.journal.before, kind, told)
    BY <2>2 DEF ImagesSound
  <2>5. \A x \in Txns : x \in Body(fs.disk, "overview") => In(fs.disk, x)
    BY <1>1 DEF In
  <2> QED
    BY <1>3, <2>1, <2>2, <2>3, <2>4, <2>5 DEF Sound
<1> QED
  BY <1>2, <1>3

\* At the second look at the details, a transaction that is torn in them is that
\* of the command under way, or the archived file is another's.
LEMMA SecondLook ==
    ASSUME TaskInv, ReadInv, WholeInv, reader.at = "details_again", ~reader.undone,
           \A f \in Details : SameAs(f),
           NEW t \in Txns, TornRead(t), fs.journal # None => t # fs.journal.txn
    PROVE  Stuck(fs)
<1> DEFINE D == fs.disk
           B == Board(fs)
           j == fs.journal
           kd == kind[j.txn]
<1>1. PICK f \in Details : Changes(t, f) /\ t \notin reader.seen[f]
  BY DEF TornRead, Details
<1>2. /\ fs \in FileSystems /\ {"overview", "detail", "new", "done"} = Paths
      /\ f \in {"new", "detail", "done"} /\ reader.seen["overview"] \in Bodies
  BY DEF TaskInv, Good, Typed, ReadInv, Details, Named, Paths
<1>3. D[f] \in Bodies /\ t \notin Body(D, f)
  BY <1>1 DEF WholeInv, SameAs, Body, Content
<1>4. /\ Shown \subseteq Body(D, "overview") \cap Txns
      /\ \A x \in reader.seen["overview"] \cap Txns : x \in Shown
      /\ t \in Shown
  BY <1>2 DEF ReadInv, Shown, Body, Content, TornRead
<1>5. Done(B, kind, t) /\ Sound(B, kind, told) /\ Apart(B)
  BY <1>4, BoardOnDisk DEF WholeInv
<1>6. ASSUME j # None
      PROVE  /\ j \in Journals /\ B = j.before /\ kd \in Kinds
             /\ ImagesSound(j, kind, told, quiet) /\ Between(fs, kd, quiet)
             /\ j.phase # "prepared" => Finished(fs, kd, quiet)
             /\ \A g \in Paths : Old(fs, g, quiet) => Body(D, g) \cap Txns = Body(B, g) \cap Txns
  <2>1. /\ j \in Journals /\ B = j.before /\ kd \in Kinds
        /\ ImagesSound(j, kind, told, quiet) /\ Between(fs, kd, quiet)
        /\ j.phase # "prepared" => Finished(fs, kd, quiet)
    BY <1>6, BoardOnDisk
  <2> QED
    BY <1>2, <2>1, Marks
<1>7. j = None => B = D
  BY BoardOnDisk
<1> HIDE DEF D, B, j, kd
<1>8. CASE f = "new"
  <2>1. t \in Body(B, "new")
    BY <1>1, <1>5, <1>8 DEF Changes, Done
  <2>2. CASE j # None
    <3>1. kd # "new"
      BY <1>6, <2>1, <2>2, Words DEF ImagesSound, Body, Content, kd, j
    <3>2. "new" \notin Changed(kd) \cup Moved(kd)
      BY <1>6, <2>2, <3>1, KindSets
    <3>3. Old(fs, "new", quiet)
      BY <1>2, <1>6, <2>2, <3>2 DEF Between
    <3> QED
      BY <1>2, <1>3, <1>6, <1>8, <2>1, <2>2, <3>3
  <2> QED
    BY <1>3, <1>7, <1>8, <2>1, <2>2
<1>9. CASE f = "detail"
  <2>1. kind[t] = "claim"
    <3>1. ~Includes(reader.seen["overview"], "logbook")
      BY <1>1, <1>9 DEF Details, Named
    <3> QED
      BY <1>1, <1>9, <3>1 DEF Changes, Includes, TornRead
  <2>2. t \in Body(B, "detail") \cup Body(B, "done")
    BY <1>5, <2>1 DEF Done
  <2>3. CASE j = None
    BY <1>3, <1>5, <1>7, <1>9, <2>2, <2>3 DEF Apart
  <2>4. CASE j # None
    <3>1. Old(fs, "detail", quiet) \/ (New(fs, "detail", quiet) /\ kd # "new")
      <4>1. D["detail"] # Absent
        BY <1>3, <1>9, Words
      <4> QED
        BY <1>2, <1>6, <2>4, <4>1, KindSets DEF Between, D
    <3>2. B["detail"] \in Bodies
      BY <1>3, <1>6, <1>9, <2>4, <3>1 DEF Old, Like, ImagesSound, D, j, kd
    <3>3. t \in Body(B, "detail")
      BY <1>5, <2>2, <3>2 DEF Apart
    <3>4. CASE Old(fs, "detail", quiet)
      BY <1>2, <1>3, <1>6, <1>9, <2>4, <3>3, <3>4
    <3>5. CASE New(fs, "detail", quiet) /\ kd # "new"
      <4>1. t \in Body(j.after, "detail")
        <5>1. CASE kd = "archive"
          BY <1>6, <2>4, <3>3, <5>1 DEF ImagesSound, Body, j, kd
        <5>2. CASE kd # "archive"
          <6>1. "detail" \in Changed(kd)
            BY <1>6, <2>4, <3>5, <5>2, KindSets
          <6>2. Adds(kd, j.txn, B, j.after, quiet)
            BY <1>6, <2>4 DEF ImagesSound, j, kd
          <6> QED
            BY <3>3, <6>1, <6>2 DEF Adds, Body, Content
        <5> QED
          BY <5>1, <5>2
      <4> QED
        BY <1>2, <1>3, <1>6, <1>9, <2>4, <3>5, <4>1, Marks DEF D, j
    <3> QED
      BY <3>1, <3>4, <3>5
  <2> QED
    BY <2>3, <2>4
<1>10. CASE f = "done"
  <2>1. PICK a \in Shown : kind[a] = "archive"
    <3>1. Includes(reader.seen["overview"], "archive")
      BY <1>1, <1>10 DEF Details, Named
    <3> QED
      BY <1>4, <3>1 DEF Includes
  <2>2. kind[t] \in {"claim", "logbook"}
    BY <1>1, <1>10 DEF Changes
  <2>3. t \in Body(B, "detail") \cup Body(B, "done")
    BY <1>5, <2>2 DEF Done
  <2>4. CASE j = None \/ a # j.txn
    <3>1. Done(B, kind, a)
      BY <1>4, <2>4, BoardOnDisk DEF B, j, D
    <3>2. B["detail"] = Absent /\ t \in Body(B, "done")
      <4>1. B["detail"] = Absent
        BY <2>1, <3>1 DEF Done, Moves
      <4> QED
        BY <2>3, <4>1, Words DEF Body, Content
    <3>3. CASE j # None
      <4>1. kd = "new"
        BY <1>6, <3>2, <3>3, Words DEF ImagesSound, j, kd
      <4>2. Old(fs, "done", quiet)
        BY <1>2, <1>6, <3>3, <4>1, KindSets DEF Between
      <4> QED
        BY <1>2, <1>3, <1>6, <1>10, <3>2, <3>3, <4>2
    <3> QED
      BY <1>3, <1>7, <1>10, <3>2, <3>3
  <2>5. CASE j # None /\ a = j.txn
    <3>1. kd = "archive" /\ Moves(kd)
      BY <2>1, <2>5 DEF kd, Moves
    <3>2. /\ B["done"] = Absent /\ Body(B, "done") = {}
          /\ Body(j.after, "detail") = Body(B, "detail")
      BY <1>6, <2>5, <3>1, Words DEF ImagesSound, Body, Content, j, kd
    <3>3. t \in Body(j.after, "detail")
      BY <2>3, <3>2
    <3>4. ~AtDone(fs, quiet)
      BY <1>2, <1>3, <1>6, <1>10, <2>5, <3>3, Marks DEF D, j
    <3>5. j.phase = "prepared" /\ Old(fs, "done", quiet)
      BY <1>6, <2>5, <3>1, <3>4 DEF Finished, Between
    <3>6. Body(D, "done") \cap Txns = {}
      BY <1>2, <1>6, <2>5, <3>2, <3>5
    <3> QED
      BY <1>3, <1>4, <1>10, <2>1, <2>5, <3>1, <3>3, <3>5, <3>6 DEF Stuck, D, j, kd
  <2> QED
    BY <2>4, <2>5
<1> QED
  BY <1>2, <1>8, <1>9, <1>10

\* A step of the reader.
LEMMA WholeRead ==
    ASSUME TaskInv, ReadInv, WholeInv, Read
    PROVE  WholeInv'
<1>0. /\ fs \in FileSystems /\ reader \in Readers
      /\ UNCHANGED <<fs, op, kind>> /\ Apart(Board(fs))' /\ "overview" \in Paths
  BY DEF TaskInv, Good, Typed, ReadInv, WholeInv, Read, BeginRead, ReadOverview, ReadDetails,
         ReadOverviewAgain, ReadDetailsAgain, EndRead, Returned, Reads, Paths
<1>1. CASE reader' = NotReading
  BY <1>0, <1>1 DEF WholeInv, NotReading
<1>2. CASE BeginRead
  BY <1>0, <1>2 DEF BeginRead, Reads, NotReading, WholeInv, Ahead, J
<1>3. CASE ReadOverview
  <2>1. /\ reader'.at = "details" /\ reader'.undone = reader.undone
        /\ reader'.seen["overview"] = fs.disk["overview"] /\ reader.at = "overview"
    BY <1>0, <1>3 DEF ReadOverview, Reads, ReadAt, Readers, Disks
  <2>2. \A t \in Shown' : kind[t] # None
    BY <1>0, <2>1, OverviewShows DEF Shown, Body, In
  <2> QED
    BY <1>0, <2>1, <2>2 DEF WholeInv, Ahead
<1>4. CASE ReadDetails /\ reader' # NotReading
  <2> DEFINE seen == [f \in Paths |-> IF f \in Details THEN fs.disk[f] ELSE reader.seen[f]]
  <2>1. \A f \in Details : Holds(f) /\ f \in Paths /\ f # "overview"
    BY <1>4 DEF ReadDetails, Reads, Details, Named, Paths
  <2>2. reader' = [ReadAt("again") EXCEPT !.seen = seen]
    BY <1>0, <1>4 DEF ReadDetails, Reads, Details, ReadAt, Readers
  <2>3. /\ seen["overview"] = reader.seen["overview"]
        /\ \A f \in Details : seen[f] = fs.disk[f]
    BY <1>0, <2>1
  <2> HIDE DEF seen
  <2>4. /\ reader'.at = "again" /\ reader'.undone = reader.undone /\ reader'.seen = seen
        /\ reader.at = "details"
    BY <1>0, <1>4, <2>2 DEF ReadAt, Readers, ReadDetails
  <2>5. Shown' = Shown /\ Details' = Details
    BY <1>0, <2>3, <2>4 DEF Shown, Body, Details, Named, Includes
  <2>6. ~reader.undone => \A f \in Details :
           /\ reader'.seen[f] \in Bodies
           /\ Body(reader'.seen, f) \cap Txns \subseteq Body(fs.disk, "overview")
    <3> SUFFICES ASSUME ~reader.undone, NEW f \in Details
                 PROVE  /\ reader'.seen[f] \in Bodies
                        /\ Body(reader'.seen, f) \cap Txns \subseteq Body(fs.disk, "overview")
      OBVIOUS
    <3>1. fs.disk[f] \in Bodies
      BY <1>0, <2>1, BodiesHeld
    <3>2. \A x \in Body(fs.disk, f) \cap Txns : In(fs.disk, x)
      BY <2>1 DEF In
    <3>3. Ahead(fs)
      BY <2>4 DEF WholeInv
    <3>4. Body(reader'.seen, f) = Body(fs.disk, f)
      BY <2>3, <2>4 DEF Body
    <3> QED
      BY <2>3, <2>4, <3>1, <3>2, <3>3, <3>4, OverviewShows
  <2> QED
    BY <1>0, <2>4, <2>5, <2>6 DEF WholeInv, Ahead
<1>5. ASSUME NEW l \in {"details_again", "last", "returned"}, reader' = ReadAt(l),
             reader.at \notin {"idle", "overview"}
      PROVE  /\ reader'.at = l /\ reader'.undone = reader.undone /\ reader'.seen = reader.seen
             /\ Shown' = Shown /\ Details' = Details /\ (OneTorn' <=> OneTorn)
             /\ Ahead(fs)' <=> Ahead(fs)
  <2>1. reader'.at = l /\ reader'.undone = reader.undone /\ reader'.seen = reader.seen
    BY <1>0, <1>5 DEF ReadAt, Readers
  <2>2. reader.seen["overview"] \in Bodies
    BY <1>5 DEF ReadInv
  <2>3. Ahead(fs)' <=> Ahead(fs)
    BY <1>0 DEF Ahead
  <2> QED
    BY <1>0, <2>1, <2>2, <2>3, SameRead
<1>6. CASE ReadOverviewAgain /\ reader' # NotReading
  <2>1. reader.at = "again" /\ SameAs("overview") /\ reader' = ReadAt("details_again")
    BY <1>6 DEF ReadOverviewAgain, Reads
  <2>2. Body(fs.disk, "overview") \cap Txns \subseteq Shown
    BY <2>1 DEF SameAs, Shown, Body
  <2> QED
    BY <1>0, <1>5, <2>1, <2>2 DEF WholeInv
<1>7. CASE ReadDetailsAgain /\ reader' # NotReading
  <2>1. /\ reader.at = "details_again" /\ \A f \in Details : SameAs(f)
        /\ reader' = ReadAt("last")
    BY <1>7 DEF ReadDetailsAgain, Reads, Details
  <2>2. ~reader.undone => OneTorn \/ Stuck(fs)
    BY <2>1, SecondLook DEF OneTorn
  <2>3. Stuck(fs)' <=> Stuck(fs)
    BY <1>0 DEF Stuck
  <2> QED
    BY <1>0, <1>5, <2>1, <2>2, <2>3 DEF WholeInv
<1>8. CASE EndRead /\ reader' # NotReading
  <2>1. reader.at = "last" /\ ~Stuck(fs) /\ reader' = ReadAt("returned")
    BY <1>8 DEF EndRead, Reads, J, Stuck
  <2> QED
    BY <1>0, <1>5, <2>1 DEF WholeInv
<1> QED
  BY <1>1, <1>2, <1>3, <1>4, <1>6, <1>7, <1>8 DEF Read, Returned, Reads

\* docs/documentation.md:1947-1953, parse.go:165-202, 291-309: for any commands,
\* edits and faults, what a read without the lock returns is committed, its details
\* are not ahead of its overview, and at most one transaction is torn in it, unless
\* one was taken back while it was under way.
THEOREM ReadsAreCommittedAlways == Spec => []ReadsAreCommitted
<1>1. Init => ReadInv /\ WholeInv
  <2> SUFFICES ASSUME Init PROVE ReadInv /\ WholeInv
    OBVIOUS
  <2>1. NotReading \in Readers /\ NotReading.at = "idle"
    BY DEF NotReading, Readers, NoFiles, Disks
  <2>2. ReadInv
    BY <2>1 DEF Init, ReadInv
  <2>3. Apart(Board(fs))
    <3>1. fs.journal = None /\ fs.disk["done"] = Absent
      BY DEF Init, Paths
    <3> QED
      BY <3>1, Words DEF Apart, Board, Body, Content
  <2> QED
    BY <2>1, <2>2, <2>3 DEF Init, WholeInv
<1>2. TaskInv /\ TaskInv' /\ ReadInv /\ WholeInv /\ [Next]_vars => ReadInv' /\ WholeInv'
  <2> SUFFICES ASSUME TaskInv, TaskInv', ReadInv, WholeInv, [Next]_vars
               PROVE  ReadInv' /\ WholeInv'
    OBVIOUS
  <2>1. fs' \in FileSystems
    BY DEF TaskInv, Good, Typed
  <2>2. CASE UNCHANGED vars
    BY <2>2 DEF vars, ReadInv, WholeInv, Shown, J, Ahead, Details, Named, Includes, OneTorn,
                TornRead, Changes, Stuck, Board
  <2>3. CASE Read
    BY <2>3, ReadKeeps, WholeRead
  <2>4. CASE Carries
    BY <2>1, <2>4, CarriesKeeps, WholeCarries
  <2> QED
    BY <2>2, <2>3, <2>4, PublishCarries, RollbackCarries, OthersCarry DEF Next
<1>3. ReadInv /\ WholeInv => ReadsAreCommitted
  <2> SUFFICES ASSUME ReadInv, WholeInv, reader.at = "returned", ~reader.undone
               PROVE  /\ \A t \in reader.seen["overview"] \cap Txns :
                            t \in fs.disk["overview"] /\ (J = None \/ J.txn # t)
                      /\ \A f \in Details : reader.seen[f] \cap Txns \subseteq reader.seen["overview"]
                      /\ OneTorn
    BY DEF ReadsAreCommitted, Details, OneTorn
  <2>1. Shown = reader.seen["overview"] \cap Txns
    BY DEF ReadInv, Shown, Body, Content
  <2>2. ASSUME NEW t \in Shown PROVE t \in fs.disk["overview"] /\ (J = None \/ J.txn # t)
    <3>1. t \in Body(fs.disk, "overview")
      BY <2>2 DEF ReadInv
    <3> QED
      BY <2>2, <3>1 DEF ReadInv, Body, Content
  <2>3. \A f \in Details : reader.seen[f] \cap Txns \subseteq reader.seen["overview"]
    BY <2>1 DEF WholeInv, Body, Content
  <2> QED
    BY <2>1, <2>2, <2>3 DEF WholeInv
<1> QED
  BY <1>1, <1>2, <1>3, TaskInvAlways, PTL DEF Spec

--------------------------------------------------------------------------------
(* Rollbacks without edits.                                                *)

\* The places of a command at which it relies on the link, or on there being no
\* archived file.
OfLink  == {"linked", "unlink", "linked_back", "unlink_back"}
OfMove  == {"write", "restore", "check", "mkdir", "mark"}

\* Where no edit was made, and while the journal is prepared: a created file is
\* gone, not filled or complete; a moved one has one of its names, or two of the
\* same file. The link is there where a command relies on it.
Exact(F, kd) ==
    F.journal # None /\ F.journal.phase = "prepared" =>
        /\ kd = "new" => F.disk["new"] \in {Absent, Torn, F.journal.after["new"]}
        /\ Moves(kd) => \/ F.disk["done"] = Absent
                        \/ F.disk["detail"] = Absent
                        \/ F.linked /\ F.disk["detail"] = F.journal.after["detail"]
Relies(F, O, kd) ==
    /\ O.at \in OfLink => F.linked
    /\ O.at \in OfMove /\ Moves(kd) => F.disk["done"] = Absent
Unedited   == quiet \cup raced = {}
ExactState(F, O, k) == Exact(F, k[F.journal.txn]) /\ Relies(F, O, k[F.journal.txn])
ExactInv   == Unedited => ExactState(fs, op, kind)

\* A change of the disk keeps this if its result has it.
LEMMA ChangeExact ==
    ASSUME NEW G, NEW P, NEW Q, Change(G, P, Q) \/ (TakeBack(G, P) /\ Q = Idle),
           Q.at \notin OfLink \cup OfMove,
           ExactState(fs, op, kind), ExactState(G, P, kind)
    PROVE  ExactState(fs', op', kind')
<1>1. Idle.at \notin OfLink \cup OfMove
  BY DEF Idle, Command, OfLink, OfMove
<1>2. /\ fs' \in {fs, G} /\ op' \in {P, Q, Idle} /\ kind' = kind
      /\ op' = P /\ fs' # G => P \in {Q, Idle}
  BY DEF Change, TakeBack
<1>3. op'.at \in OfLink \cup OfMove => op' = P /\ fs' = G
  BY <1>1, <1>2
<1>4. Exact(fs', kind[fs'.journal.txn])
  BY <1>2 DEF ExactState
<1>5. CASE op'.at \in OfLink \cup OfMove
  BY <1>2, <1>3, <1>5
<1>6. CASE op'.at \notin OfLink \cup OfMove
  BY <1>2, <1>4, <1>6 DEF ExactState, Relies
<1> QED
  BY <1>5, <1>6

\* A decision must keep what the next step relies on.
LEMMA GotoExact ==
    ASSUME NEW P, Goto(P), ExactState(fs, op, kind), Relies(fs, P, Kind)
    PROVE  ExactState(fs', op', kind')
BY DEF Goto, ExactState, Kind, J

\* What a step of a publication or a rollback can lean on.
LEMMA WorkExact ==
    ASSUME TaskInv, op.at \in Publishing \cup Undoing, ExactState(fs, op, kind)
    PROVE  /\ Kind = kind[op.txn] /\ Kind = kind[fs.journal.txn] /\ Kind \in Kinds
           /\ fs.journal # None /\ fs.journal.phase = "prepared" /\ J = fs.journal
           /\ Exact(fs, Kind) /\ Relies(fs, op, Kind)
           /\ Kind = "new" => J.before["new"] = Absent
<1>1. /\ J = fs.journal /\ J \in Journals /\ J.phase = "prepared" /\ Kind = kind[op.txn]
      /\ J.txn = op.txn /\ Kind \in Kinds /\ ImagesSound(J, kind, told, quiet)
  BY AtWork
<1>2. fs.journal # None
  BY <1>1, Words
<1> QED
  BY <1>1, <1>2 DEF ExactState, ImagesSound

\* Another file, the same journal.
LEMMA ExactPut ==
    ASSUME TaskInv, op.at \in Publishing \cup Undoing, ExactState(fs, op, kind),
           NEW f \in Paths, NEW b, NEW G, G.disk = With(fs.disk, f, b),
           G.journal = fs.journal,
           (Moves(Kind) /\ f \notin {"detail", "done"}) =>
               (G.linked = fs.linked \/ fs.disk["done"] = Absent),
           f = "new" /\ Kind = "new" => b \in {Absent, Torn, J.after["new"]},
           f \in {"detail", "done"} /\ Moves(Kind) =>
               b = Absent \/ (f = "detail" /\ fs.disk["done"] = Absent)
    PROVE  Exact(G, kind[G.journal.txn])
<1>1. /\ Kind = kind[fs.journal.txn] /\ fs.journal # None /\ fs.journal.phase = "prepared"
      /\ J = fs.journal /\ Exact(fs, Kind)
  BY WorkExact
<1>2. fs \in FileSystems /\ Paths = {"overview", "detail", "new", "done"}
  BY DEF TaskInv, Good, Typed, Paths
<1>3. /\ G.disk[f] = b
      /\ \A g \in Paths : g # f => G.disk[g] = fs.disk[g]
  BY <1>2 DEF With, FileSystems, Disks
<1>4. Kind = "new" => G.disk["new"] \in {Absent, Torn, J.after["new"]}
  BY <1>1, <1>2, <1>3 DEF Exact
<1>5. Moves(Kind) => \/ G.disk["done"] = Absent
                     \/ G.disk["detail"] = Absent
                     \/ G.linked /\ G.disk["detail"] = J.after["detail"]
  BY <1>1, <1>2, <1>3 DEF Exact
<1> QED
  BY <1>1, <1>4, <1>5 DEF Exact

\* The steps of a publication.
LEMMA PublishExact ==
    ASSUME TaskInv, Publish, ExactState(fs, op, kind)
    PROVE  ExactState(fs', op', kind')
<1>0. fs \in FileSystems /\ op \in Commands /\ J = fs.journal
  BY DEF TaskInv, Good, Typed, J
<1>a. /\ \A l : At(l).at = l
      /\ \A by : RollBack(by).at = "roll_back"
      /\ \A l : [op EXCEPT !.at = l].at = l
      /\ [At("write") EXCEPT !.i = op.i + 1].at = "write" /\ Idle.at = "idle"
  BY <1>0, Placed
<1>b. /\ \A f, b : [fs EXCEPT !.disk[f] = b]
                      = Sys(With(fs.disk, f, b), fs.linked, fs.dir, fs.journal)
      /\ \A d : [fs EXCEPT !.dir = d] = Sys(fs.disk, fs.linked, d, fs.journal)
      /\ \A j : [fs EXCEPT !.journal = j] = Sys(fs.disk, fs.linked, fs.dir, j)
  BY <1>0, Replaced
<1>c. \A D, l, d, j : /\ Sys(D, l, d, j).disk = D /\ Sys(D, l, d, j).linked = l
                      /\ Sys(D, l, d, j).journal = j
  BY DEF Sys
<1>d. \A by : /\ RollBack(by).at \notin OfLink \cup OfMove
              /\ Relies(fs, RollBack(by), Kind)
  BY <1>a DEF OfLink, OfMove, Relies
<1>e. Idle.at \notin OfLink \cup OfMove /\ Relies(fs, Idle, Kind)
  BY <1>a DEF OfLink, OfMove, Relies
<1>f. ASSUME NEW G, NEW P, G.disk = fs.disk, G.linked = fs.linked, G.journal = fs.journal,
             P.at \in OfMove => op.at \in OfMove, P.at \notin OfLink
      PROVE  ExactState(G, P, kind)
  BY <1>f DEF ExactState, Exact, Relies
<1>1. CASE Prepare
  <2> DEFINE k == kind[op.txn]
             G == [fs EXCEPT !.journal = Images(k)]
  <2>1. G.disk = fs.disk /\ G.journal = Images(k)
    BY <1>b, <1>c
  <2>2. Images(k).txn = op.txn
    BY DEF Images
  <2>3. Buildable(k) => Exact(G, kind[G.journal.txn])
    <3> HIDE DEF G
    <3> QED
      BY <2>1, <2>2 DEF Buildable, Exact
  <2>4. At("check").at = "check" /\ (Buildable(k) => Relies(G, At("check"), kind[G.journal.txn]))
    <3> HIDE DEF G
    <3> QED
      BY <1>a, <2>1, <2>2 DEF Buildable, Relies, OfLink
  <2>5. (Buildable(k) /\ Change(G, At("check"), Idle)) \/ Goto(Idle)
    BY <1>1 DEF Prepare
  <2> HIDE DEF G
  <2>6. Buildable(k) => ExactState(G, At("check"), kind)
    BY <2>3, <2>4 DEF ExactState
  <2> QED
    BY <1>e, <2>5, <2>6, ChangeExact, GotoExact
<1>2. CASE CheckPublish
  <2>1. \/ Goto(RollBack("publish"))
        \/ /\ Moves(Kind) => fs.disk["done"] = Absent
           /\ Goto(At("mkdir")) \/ Goto(At("write"))
    BY <1>2 DEF CheckPublish
  <2>2. (Moves(Kind) => fs.disk["done"] = Absent) =>
           Relies(fs, At("mkdir"), Kind) /\ Relies(fs, At("write"), Kind)
    BY <1>a DEF Relies, OfLink
  <2> QED
    BY <1>d, <2>1, <2>2, GotoExact
<1>3. CASE MakeDirectory
  <2> DEFINE G == [fs EXCEPT !.dir = None]
  <2>1. G.disk = fs.disk /\ G.linked = fs.linked /\ G.journal = fs.journal
    BY <1>b, <1>c
  <2>2. op.at \in OfMove /\ (Change(G, At("mark"), RollBack("publish")) \/ Goto(RollBack("publish")))
    BY <1>3 DEF MakeDirectory, OfMove
  <2> HIDE DEF G
  <2>3. ExactState(G, At("mark"), kind)
    BY <1>a, <1>f, <2>1, <2>2 DEF OfLink
  <2> QED
    BY <1>d, <2>2, <2>3, ChangeExact, GotoExact
<1>4. CASE MarkDirectory
  <2> DEFINE G == [fs EXCEPT !.dir = J.txn]
  <2>0. op.at \in OfMove
    BY <1>4 DEF MarkDirectory, OfMove
  <2>1. G.disk = fs.disk /\ G.linked = fs.linked /\ G.journal = fs.journal
    BY <1>b, <1>c
  <2>2. CASE Change(G, At("write"), RollBack("publish"))
    <3> HIDE DEF G
    <3>1. ExactState(G, At("write"), kind)
      BY <1>a, <1>f, <2>0, <2>1 DEF OfLink
    <3> QED
      BY <1>d, <2>2, <3>1, ChangeExact
  <2>3. CASE /\ fs' = [fs EXCEPT !.dir = IF fs.disk["done"] = Absent THEN Absent ELSE @]
             /\ op' = RollBack("publish") /\ UNCHANGED <<reader, kind, told, quiet, raced>>
    <3>1. fs'.disk = fs.disk /\ fs'.journal = fs.journal /\ fs'.linked = fs.linked
      BY <1>0, <2>3 DEF FileSystems
    <3>2. op'.at \notin OfLink \cup OfMove
      BY <1>d, <2>3
    <3> QED
      BY <1>f, <2>3, <3>1, <3>2
  <2> QED
    BY <1>4, <2>2, <2>3 DEF MarkDirectory
<1>5. CASE WriteFile
  <2> DEFINE f == Writes(Kind)[op.i]
  <2>1. op.at = "write" /\ op.at \in Publishing /\ op.at \in OfMove
    BY <1>5 DEF WriteFile, Publishing, OfMove
  <2>2. /\ Kind \in Kinds /\ Kind = kind[op.txn] /\ op.i \in {1, 2} /\ Control(fs, op, kind, told)
        /\ Relies(fs, op, Kind) /\ Kind = kind[fs.journal.txn]
    BY <1>0, <2>1, WorkExact DEF Commands, TaskInv, Good
  <2>3. f \in {"overview", "new", "detail"} /\ (f = "new" => Kind = "new")
    BY <2>1, <2>2, KindsOfCommand DEF Control
  <2>4. f \in Paths /\ (Moves(Kind) => fs.disk["done"] = Absent /\ fs.disk["done"] # Torn)
    BY <2>1, <2>2, <2>3, NamesAssumption DEF Paths, Relies
  <2>5. ASSUME NEW b, f = "new" => b \in {Absent, Torn, J.after["new"]}
        PROVE  /\ Exact(Put(f, b), kind[Put(f, b).journal.txn])
               /\ Put(f, b).journal = fs.journal
               /\ Moves(Kind) => Put(f, b).disk["done"] = Absent
    <3>0. Put(f, b) = Sys(With(fs.disk, f, b), fs.linked, fs.dir, fs.journal)
      BY <1>b DEF Put
    <3>1. /\ Put(f, b).disk = With(fs.disk, f, b) /\ Put(f, b).journal = fs.journal
          /\ Put(f, b).linked = fs.linked
      BY <1>c, <3>0
    <3> HIDE DEF f
    <3>2. Exact(Put(f, b), kind[Put(f, b).journal.txn])
      BY <2>1, <2>3, <2>4, <2>5, <3>1, ExactPut
    <3>3. With(fs.disk, f, b)["done"] = fs.disk["done"]
      BY <1>0, <2>3 DEF With, FileSystems, Disks, Paths
    <3> QED
      BY <2>4, <3>1, <3>2, <3>3
  <2>6. CASE ~Unchanged(f)
    BY <1>5, <1>d, <2>6, GotoExact DEF WriteFile
  <2>7. CASE f = "new" /\ Unchanged(f)
    <3> DEFINE P == [op EXCEPT !.at = "fill"]
               G == Put("new", Torn)
    <3>1. P.at = "fill" /\ Change(G, P, RollBack("publish"))
      BY <1>5, <1>a, <2>7 DEF WriteFile
    <3>2. Exact(G, kind[G.journal.txn])
      BY <2>5, <2>7
    <3> HIDE DEF P, G
    <3>3. ExactState(G, P, kind)
      BY <3>1, <3>2 DEF ExactState, Relies, OfLink, OfMove
    <3> QED
      BY <1>d, <3>1, <3>3, ChangeExact
  <2>8. CASE f # "new" /\ Unchanged(f)
    <3> DEFINE G == Put(f, J.after[f])
    <3>1. Change(G, Written, RollBack("publish"))
      BY <1>5, <2>8 DEF WriteFile
    <3>2. Exact(G, kind[G.journal.txn]) /\ G.journal = fs.journal
          /\ (Moves(Kind) => G.disk["done"] = Absent)
      BY <2>5, <2>8
    <3>3. Written.at \in {"write", "link", "commit"}
      BY <1>a DEF Written
    <3> HIDE DEF G, f
    <3>4. ExactState(G, Written, kind)
      BY <2>2, <3>2, <3>3 DEF ExactState, Relies, OfLink, OfMove
    <3> QED
      BY <1>d, <3>1, <3>4, ChangeExact
  <2> QED
    BY <2>6, <2>7, <2>8

<1>6. CASE FillFile
  <2>1. op.at = "fill" /\ op.at \in Publishing /\ "new" \in Paths
    BY <1>6 DEF FillFile, Publishing, Paths
  <2>2. Control(fs, op, kind, told) /\ Kind = kind[op.txn] /\ Kind = kind[fs.journal.txn]
    BY <2>1, WorkExact DEF TaskInv, Good
  <2>3. Kind = "new" /\ ~Moves(Kind)
    BY <2>1, <2>2 DEF Control, Moves
  <2>4. ASSUME NEW b, b \in {Absent, Torn, J.after["new"]}
        PROVE  /\ Exact(Put("new", b), kind[Put("new", b).journal.txn])
               /\ Put("new", b).journal = fs.journal
    <3>0. Put("new", b) = Sys(With(fs.disk, "new", b), fs.linked, fs.dir, fs.journal)
      BY <1>b DEF Put
    <3>1. /\ Put("new", b).disk = With(fs.disk, "new", b) /\ Put("new", b).journal = fs.journal
          /\ Put("new", b).linked = fs.linked
      BY <1>c, <3>0
    <3> QED
      BY <2>1, <2>3, <2>4, <3>1, ExactPut
  <2>5. CASE Change(Put("new", J.after["new"]), Written, RollBack("publish"))
    <3> DEFINE G == Put("new", J.after["new"])
    <3>1. Exact(G, kind[G.journal.txn]) /\ G.journal = fs.journal
      BY <2>4
    <3>2. Written.at \in {"write", "link", "commit"}
      BY <1>a DEF Written
    <3>3. Change(G, Written, RollBack("publish"))
      BY <2>5
    <3> HIDE DEF G
    <3>4. ExactState(G, Written, kind)
      BY <2>2, <2>3, <3>1, <3>2 DEF ExactState, Relies, OfLink
    <3> QED
      BY <1>d, <3>3, <3>4, ChangeExact
  <2>6. CASE /\ fs' = Put("new", Absent) /\ op' = RollBack("publish")
             /\ UNCHANGED <<reader, kind, told, quiet, raced>>
    <3>1. Exact(fs', kind[fs'.journal.txn])
      BY <2>4, <2>6
    <3>2. Relies(fs', op', kind[fs'.journal.txn])
      BY <1>d, <2>6 DEF Relies
    <3> QED
      BY <2>6, <3>1, <3>2 DEF ExactState
  <2> QED
    BY <1>6, <2>5, <2>6 DEF FillFile
<1>7. CASE LinkMove
  <2> DEFINE G == Link("done", fs.disk["detail"])
  <2>1. op.at = "link" /\ op.at \in Publishing
    BY <1>7 DEF LinkMove, Publishing
  <2>2. /\ Control(fs, op, kind, told) /\ Kind = kind[op.txn] /\ Kind = kind[fs.journal.txn]
        /\ J = fs.journal
    BY <2>1, WorkExact DEF TaskInv, Good
  <2>3. Moves(Kind) /\ Kind # "new"
    BY <2>1, <2>2 DEF Control, Moves
  <2>4. /\ Put("done", fs.disk["detail"])
              = Sys(With(fs.disk, "done", fs.disk["detail"]), fs.linked, fs.dir, fs.journal)
    BY <1>b DEF Put
  <2>5. /\ G.disk = With(fs.disk, "done", fs.disk["detail"]) /\ G.linked /\ G.journal = fs.journal
    BY <2>4 DEF Link, Sys
  <2>6. With(fs.disk, "done", fs.disk["detail"])["detail"] = fs.disk["detail"]
    BY <1>0 DEF With, FileSystems, Disks, Paths
  <2>7. \/ Goto(RollBack("publish"))
        \/ /\ fs.disk["detail"] = J.after["detail"]
           /\ Change(G, At("linked"), RollBack("publish"))
    BY <1>7 DEF LinkMove
  <2> HIDE DEF G
  <2>8. fs.disk["detail"] = J.after["detail"] => ExactState(G, At("linked"), kind)
    BY <1>a, <2>2, <2>3, <2>5, <2>6 DEF ExactState, Exact, Relies, OfMove
  <2> QED
    BY <1>d, <2>7, <2>8, ChangeExact, GotoExact
<1>8. CASE VerifyLink
  <2>1. op.at = "linked" /\ op.at \in Publishing
    BY <1>8 DEF VerifyLink, Publishing
  <2>2. fs.linked
    BY <2>1, WorkExact DEF Relies, OfLink
  <2>3. Goto(At("unlink"))
    BY <1>8, <2>2 DEF VerifyLink
  <2>4. Relies(fs, At("unlink"), Kind)
    BY <1>a, <2>2 DEF Relies, OfMove
  <2> QED
    BY <2>3, <2>4, GotoExact
<1>9. CASE UnlinkMove
  <2> DEFINE G == Unlink("detail")
  <2>1. op.at = "unlink" /\ op.at \in Publishing /\ "detail" \in Paths
    BY <1>9 DEF UnlinkMove, Publishing, Paths
  <2>2. Put("detail", Absent) = Sys(With(fs.disk, "detail", Absent), fs.linked, fs.dir, fs.journal)
    BY <1>b DEF Put
  <2>3. G.disk = With(fs.disk, "detail", Absent) /\ G.journal = fs.journal
    BY <2>2 DEF Unlink, Sys
  <2>4. Change(G, At("commit"), RollBack("publish"))
    BY <1>9 DEF UnlinkMove
  <2> HIDE DEF G
  <2>5. Exact(G, kind[G.journal.txn])
    BY <2>1, <2>3, ExactPut
  <2>6. ExactState(G, At("commit"), kind)
    BY <1>a, <2>5 DEF ExactState, Relies, OfLink, OfMove
  <2> QED
    BY <1>d, <2>4, <2>6, ChangeExact
<1>10. CASE MarkCommitted
  <2> DEFINE G == [fs EXCEPT !.journal.phase = "committed"]
  <2>1. op.at = "commit" /\ op.at \in Publishing
    BY <1>10 DEF MarkCommitted, Publishing
  <2>2. fs.journal \in Journals
    BY <1>0, <2>1, AtWork
  <2>3. G.journal.phase = "committed"
    BY <1>0, <2>2 DEF FileSystems, Journals
  <2>4. Change(G, At("unmark"), Idle)
        \/ (op' = RollBack("commit") /\ UNCHANGED <<fs, reader, kind, told, quiet, raced>>)
    BY <1>10 DEF MarkCommitted
  <2> HIDE DEF G
  <2>5. ExactState(G, At("unmark"), kind)
    BY <1>a, <2>3 DEF ExactState, Exact, Relies, OfLink, OfMove
  <2>6. CASE Change(G, At("unmark"), Idle)
    BY <1>e, <2>5, <2>6, ChangeExact
  <2>7. CASE op' = RollBack("commit") /\ UNCHANGED <<fs, reader, kind, told, quiet, raced>>
    BY <1>d, <2>7 DEF ExactState, Relies
  <2> QED
    BY <2>4, <2>6, <2>7
<1>11. CASE RemoveMarker
  <2> DEFINE G == [fs EXCEPT !.dir = IF J.owns /\ @ = J.txn THEN None ELSE @]
  <2>1. G.disk = fs.disk /\ G.linked = fs.linked /\ G.journal = fs.journal
    BY <1>0 DEF FileSystems
  <2>2. Change(G, At("forget"), Idle)
    BY <1>11 DEF RemoveMarker
  <2> HIDE DEF G
  <2>3. ExactState(G, At("forget"), kind)
    BY <1>a, <1>f, <2>1 DEF OfLink, OfMove
  <2> QED
    BY <1>e, <2>2, <2>3, ChangeExact
<1>12. CASE ForgetJournal
  <2> DEFINE G == [fs EXCEPT !.journal = None]
  <2>1. G.journal = None
    BY <1>b, <1>c
  <2>2. Change(G, At("report"), Idle)
    BY <1>12 DEF ForgetJournal
  <2> HIDE DEF G
  <2>3. ExactState(G, At("report"), kind)
    BY <1>a, <2>1 DEF ExactState, Exact, Relies, OfLink, OfMove
  <2> QED
    BY <1>e, <2>2, <2>3, ChangeExact
<1>13. CASE Report
  BY <1>13, <1>e DEF Report, ExactState, Relies
<1> QED
  BY <1>1, <1>2, <1>3, <1>4, <1>5, <1>6, <1>7, <1>8, <1>9, <1>10, <1>11, <1>12, <1>13 DEF Publish

\* The steps of a rollback.
LEMMA RollbackExact ==
    ASSUME TaskInv, Rollback, ExactState(fs, op, kind)
    PROVE  ExactState(fs', op', kind')
<1>0. fs \in FileSystems /\ op \in Commands /\ J = fs.journal
  BY DEF TaskInv, Good, Typed, J
<1>a. /\ \A l : At(l).at = l
      /\ [op EXCEPT !.i = @ + 1].at = op.at /\ Idle.at = "idle"
  BY <1>0, Placed
<1>b. /\ \A f, b : [fs EXCEPT !.disk[f] = b]
                      = Sys(With(fs.disk, f, b), fs.linked, fs.dir, fs.journal)
      /\ \A d : [fs EXCEPT !.dir = d] = Sys(fs.disk, fs.linked, d, fs.journal)
      /\ \A j : [fs EXCEPT !.journal = j] = Sys(fs.disk, fs.linked, fs.dir, j)
  BY <1>0, Replaced
<1>c. \A D, l, d, j : /\ Sys(D, l, d, j).disk = D /\ Sys(D, l, d, j).linked = l
                      /\ Sys(D, l, d, j).journal = j
  BY DEF Sys
<1>e. Idle.at \notin OfLink \cup OfMove /\ Relies(fs, Idle, Kind)
  BY <1>a DEF OfLink, OfMove, Relies
<1>f. ASSUME NEW G, NEW P, G.disk = fs.disk, G.linked = fs.linked, G.journal = fs.journal,
             P.at \notin OfLink \cup OfMove
      PROVE  ExactState(G, P, kind)
  BY <1>f DEF ExactState, Exact, Relies
<1>g. ASSUME NEW f, NEW b
      PROVE  /\ Link(f, b).disk = With(fs.disk, f, b) /\ Link(f, b).linked
             /\ Link(f, b).journal = fs.journal
             /\ Unlink(f).disk = With(fs.disk, f, Absent) /\ Unlink(f).journal = fs.journal
  <2>1. \A c : Put(f, c) = Sys(With(fs.disk, f, c), fs.linked, fs.dir, fs.journal)
    BY <1>b DEF Put
  <2> QED
    BY <2>1 DEF Link, Unlink, Sys
<1>h. ASSUME op.at \in Undoing
      PROVE  /\ Kind = kind[op.txn] /\ Kind = kind[fs.journal.txn] /\ Kind \in Kinds
             /\ Exact(fs, Kind) /\ Relies(fs, op, Kind) /\ Control(fs, op, kind, told)
             /\ fs.journal # None /\ fs.journal.phase = "prepared" /\ J = fs.journal
  BY <1>h, WorkExact DEF TaskInv, Good
<1>1. CASE CheckRollback
  <2>1. \/ Goto(Idle) \/ Goto(At("move_back"))
        \/ ~Moves(Kind) /\ Goto(At("restore"))
    BY <1>1 DEF CheckRollback
  <2>2. /\ Relies(fs, At("move_back"), Kind)
        /\ ~Moves(Kind) => Relies(fs, At("restore"), Kind)
    BY <1>a DEF Relies, OfLink, OfMove
  <2> QED
    BY <1>e, <2>1, <2>2, GotoExact
<1>2. CASE MoveBack
  <2>1. op.at = "move_back" /\ op.at \in Undoing /\ op.at \in Publishing \cup Undoing
    BY <1>2 DEF MoveBack, Undoing
  <2>2. Moves(Kind) /\ Kind # "new"
    BY <1>h, <2>1 DEF Control, Moves
  <2>3. /\ "done" \in Paths /\ "detail" \in Paths
        /\ With(fs.disk, "done", Absent)["done"] = Absent
        /\ With(fs.disk, "detail", fs.disk["done"])["detail"] = fs.disk["done"]
    BY <1>0 DEF With, FileSystems, Disks, Paths
  <2>4. CASE fs.disk["done"] = Absent /\ Goto(At("restore"))
    <3>1. Relies(fs, At("restore"), Kind)
      BY <1>a, <2>4 DEF Relies, OfLink
    <3> QED
      BY <2>4, <3>1, GotoExact
  <2>5. CASE TakeBack(Unlink("done"), At("restore"))
    <3> DEFINE G == Unlink("done")
    <3>1. G.disk = With(fs.disk, "done", Absent) /\ G.journal = fs.journal
      BY <1>g
    <3>2. TakeBack(G, At("restore"))
      BY <2>5
    <3> HIDE DEF G
    <3>3. Exact(G, kind[G.journal.txn])
      BY <2>1, <2>3, <3>1, ExactPut
    <3>4. ExactState(G, At("restore"), kind)
      BY <1>a, <2>3, <3>1, <3>3 DEF ExactState, Relies, OfLink
    <3> QED
      BY <1>e, <3>2, <3>4, ChangeExact
  <2>6. CASE /\ fs.disk["done"] = J.after["detail"]
             /\ TakeBack(Link("detail", fs.disk["done"]), At("linked_back"))
    <3> DEFINE G == Link("detail", fs.disk["done"])
    <3>1. /\ G.disk = With(fs.disk, "detail", fs.disk["done"]) /\ G.linked
          /\ G.journal = fs.journal
      BY <1>g
    <3>2. TakeBack(G, At("linked_back"))
      BY <2>6
    <3> HIDE DEF G
    <3>3. ExactState(G, At("linked_back"), kind)
      BY <1>a, <1>h, <2>1, <2>2, <2>3, <2>6, <3>1 DEF ExactState, Exact, Relies, OfMove
    <3> QED
      BY <1>e, <3>2, <3>3, ChangeExact
  <2>7. CASE Goto(Idle)
    BY <1>e, <2>7, GotoExact
  <2> QED
    BY <1>2, <2>4, <2>5, <2>6, <2>7 DEF MoveBack
<1>3. CASE VerifyLinkBack
  <2>1. op.at = "linked_back" /\ op.at \in Undoing
    BY <1>3 DEF VerifyLinkBack, Undoing
  <2>2. fs.linked
    BY <1>h, <2>1 DEF Relies, OfLink
  <2>3. Goto(At("unlink_back"))
    BY <1>3, <2>2 DEF VerifyLinkBack
  <2>4. Relies(fs, At("unlink_back"), Kind)
    BY <1>a, <2>2 DEF Relies, OfMove
  <2> QED
    BY <2>3, <2>4, GotoExact
<1>4. CASE UnlinkBack
  <2> DEFINE G == Unlink("done")
  <2>1. op.at = "unlink_back" /\ op.at \in Publishing \cup Undoing /\ "done" \in Paths
    BY <1>4 DEF UnlinkBack, Undoing, Paths
  <2>2. /\ G.disk = With(fs.disk, "done", Absent) /\ G.journal = fs.journal
        /\ With(fs.disk, "done", Absent)["done"] = Absent
    BY <1>0, <1>g DEF With, FileSystems, Disks, Paths
  <2>3. TakeBack(G, At("restore"))
    BY <1>4 DEF UnlinkBack
  <2> HIDE DEF G
  <2>4. Exact(G, kind[G.journal.txn])
    BY <2>1, <2>2, ExactPut
  <2>5. ExactState(G, At("restore"), kind)
    BY <1>a, <2>2, <2>4 DEF ExactState, Relies, OfLink
  <2> QED
    BY <1>e, <2>3, <2>5, ChangeExact
<1>5. CASE RestoreFile
  <2> DEFINE f == Files(Kind)[op.i]
             b == J.before[f]
             G == [Put(f, b) EXCEPT !.linked = IF f = "detail" THEN FALSE ELSE @]
             P == IF op.i < Len(Files(Kind)) THEN [op EXCEPT !.i = @ + 1]
                  ELSE At(IF J.owns THEN "unmark_back" ELSE "forget_back")
  <2>1. op.at = "restore" /\ op.at \in Undoing /\ op.at \in Publishing \cup Undoing
        /\ op.at \in OfMove
    BY <1>5 DEF RestoreFile, Undoing, OfMove
  <2>2. /\ Kind \in Kinds /\ op.i \in {1, 2} /\ Relies(fs, op, Kind) /\ Kind = kind[fs.journal.txn]
        /\ Kind = "new" => J.before["new"] = Absent
    BY <1>0, <2>1, WorkExact DEF Commands
  <2>3. f \in {"overview", "new", "detail"} /\ (f = "new" => Kind = "new")
    BY <2>2, KindsOfCommand
  <2>4. f \in Paths /\ (Moves(Kind) => fs.disk["done"] = Absent) /\ f # "done"
    BY <2>1, <2>2, <2>3 DEF Paths, Relies
  <2>5. Put(f, b) = Sys(With(fs.disk, f, b), fs.linked, fs.dir, fs.journal)
    BY <1>b DEF Put
  <2>6. /\ G.disk = With(fs.disk, f, b) /\ G.journal = fs.journal
    BY <2>5 DEF Sys
  <2>7. TakeBack(G, P)
    BY <1>5 DEF RestoreFile
  <2>8. P.at \in {"restore", "unmark_back", "forget_back"}
    BY <1>a, <2>1
  <2>9. f = "new" => b = Absent
    BY <2>2, <2>3
  <2>10. With(fs.disk, f, b)["done"] = fs.disk["done"]
    <3> HIDE DEF f, b
    <3> QED
      BY <1>0, <2>4 DEF With, FileSystems, Disks, Paths
  <2> HIDE DEF P, G, b, f
  <2>11. Exact(G, kind[G.journal.txn])
    BY <2>1, <2>4, <2>6, <2>9, ExactPut
  <2>12. ExactState(G, P, kind)
    BY <2>2, <2>4, <2>6, <2>8, <2>10, <2>11 DEF ExactState, Relies, OfLink
  <2> QED
    BY <1>e, <2>7, <2>12, ChangeExact
<1>6. CASE UnmarkDirectory
  <2> DEFINE G == [fs EXCEPT !.dir = None]
  <2>1. G.disk = fs.disk /\ G.linked = fs.linked /\ G.journal = fs.journal
    BY <1>b, <1>c
  <2>2. Goto(At("forget_back")) \/ Goto(Idle) \/ Change(G, At("rmdir"), Idle)
    BY <1>6 DEF UnmarkDirectory
  <2> HIDE DEF G
  <2>3. ExactState(G, At("rmdir"), kind)
    BY <1>a, <1>f, <2>1 DEF OfLink, OfMove
  <2>4. Relies(fs, At("forget_back"), Kind)
    BY <1>a DEF Relies, OfLink, OfMove
  <2> QED
    BY <1>e, <2>2, <2>3, <2>4, ChangeExact, GotoExact
<1>7. CASE RemoveDirectory
  <2> DEFINE G == [fs EXCEPT !.dir = Absent]
  <2>1. G.disk = fs.disk /\ G.linked = fs.linked /\ G.journal = fs.journal
    BY <1>b, <1>c
  <2>2. CASE Change(G, At("forget_back"), Idle)
    <3> HIDE DEF G
    <3>1. ExactState(G, At("forget_back"), kind)
      BY <1>a, <1>f, <2>1 DEF OfLink, OfMove
    <3> QED
      BY <1>e, <2>2, <3>1, ChangeExact
  <2>3. CASE /\ fs' = [fs EXCEPT !.dir = J.txn] /\ op' = Idle
             /\ UNCHANGED <<reader, kind, told, quiet, raced>>
    <3>1. fs'.disk = fs.disk /\ fs'.journal = fs.journal /\ fs'.linked = fs.linked
      BY <1>0, <2>3 DEF FileSystems
    <3>2. op'.at \notin OfLink \cup OfMove
      BY <1>e, <2>3
    <3> QED
      BY <1>f, <2>3, <3>1, <3>2
  <2> QED
    BY <1>7, <2>2, <2>3 DEF RemoveDirectory
<1>8. CASE ForgetRolledBack
  <2> DEFINE G == [fs EXCEPT !.journal = None]
  <2>1. G.journal = None
    BY <1>b, <1>c
  <2>2. Goto(At("report_rolled")) \/ Change(G, At("report_rolled"), Idle)
    BY <1>8 DEF ForgetRolledBack
  <2> HIDE DEF G
  <2>3. ExactState(G, At("report_rolled"), kind)
    BY <1>a, <2>1 DEF ExactState, Exact, Relies, OfLink, OfMove
  <2>4. Relies(fs, At("report_rolled"), Kind)
    BY <1>a DEF Relies, OfLink, OfMove
  <2> QED
    BY <1>e, <2>2, <2>3, <2>4, ChangeExact, GotoExact
<1> QED
  BY <1>1, <1>2, <1>3, <1>4, <1>5, <1>6, <1>7, <1>8 DEF Rollback

\* The other steps: nothing but an edit is an edit.
LEMMA ExactKept == TaskInv /\ ExactInv /\ [Next]_vars => ExactInv'
<1> SUFFICES ASSUME TaskInv, ExactInv, [Next]_vars PROVE ExactInv'
  OBVIOUS
<1>1. CASE UNCHANGED vars
  BY <1>1 DEF vars, ExactInv, Unedited
<1>2. CASE Outside
  <2>1. quiet' \cup raced' # {}
    BY <1>2 DEF Outside, Edit, EditDirectory
  <2> QED
    BY <2>1 DEF ExactInv, Unedited
<1>3. CASE Publish
  <2>1. quiet' = quiet /\ raced' = raced
    BY <1>3 DEF Publish, Prepare, CheckPublish, MakeDirectory, MarkDirectory, WriteFile, FillFile,
                LinkMove, VerifyLink, UnlinkMove, MarkCommitted, RemoveMarker, ForgetJournal,
                Report, Change, Goto
  <2> QED
    BY <1>3, <2>1, PublishExact DEF ExactInv, Unedited
<1>4. CASE Rollback
  <2>1. quiet' = quiet /\ raced' = raced
    BY <1>4 DEF Rollback, CheckRollback, MoveBack, VerifyLinkBack, UnlinkBack, RestoreFile,
                UnmarkDirectory, RemoveDirectory, ForgetRolledBack, Change, TakeBack, Goto
  <2> QED
    BY <1>4, <2>1, RollbackExact DEF ExactInv, Unedited
<1>5. CASE Recover
  <2> DEFINE P == Command(IF J.phase = "committed" THEN "unmark" ELSE "roll_back",
                          J.txn, NoFiles, "recover")
  <2>1. P.at \in {"unmark", "roll_back"} /\ Goto(P)
    BY <1>5 DEF Command, Recover
  <2> HIDE DEF P
  <2>2. Relies(fs, P, Kind)
    BY <2>1 DEF Relies, OfLink, OfMove
  <2>3. quiet' = quiet /\ raced' = raced
    BY <2>1 DEF Goto
  <2> QED
    BY <2>1, <2>2, <2>3, GotoExact DEF ExactInv, Unedited
<1>6. ASSUME NEW t \in Txns, NEW k \in Kinds, Start(t, k)
      PROVE  ExactInv'
  <2>1. op'.at = "prepare" /\ fs' = fs /\ fs.journal = None
    BY <1>6 DEF Start, Command, J
  <2> QED
    BY <2>1 DEF ExactInv, ExactState, Exact, Relies, OfLink, OfMove
<1>7. CASE Read
  <2>1. UNCHANGED <<fs, op, kind, quiet, raced>>
    BY <1>7 DEF Read, BeginRead, ReadOverview, ReadDetails, ReadOverviewAgain, ReadDetailsAgain,
                EndRead, Returned, Reads
  <2> QED
    BY <2>1 DEF ExactInv, Unedited
<1> QED
  BY <1>1, <1>2, <1>3, <1>4, <1>5, <1>6, <1>7 DEF Next

\* Without edits, a file that is like its image is its image.
LEMMA LikeExact ==
    ASSUME NEW f \in {"overview", "detail"}, NEW b, NEW c, Like(b, c, f, {}),
           Content(b) \cap Edits \subseteq {}, Content(c) \cap Edits \subseteq {}
    PROVE  b = c
<1>1. CASE b \in Bodies /\ c \in Bodies /\ b \cap Txns = c \cap Txns
  BY <1>1 DEF Content, Bodies
<1> QED
  BY <1>1 DEF Like

\* What a rollback finds where no edit was made: images, but for a command that
\* died within a step.
LEMMA ExactRecognised ==
    ASSUME TaskInv, ExactInv, Unedited, ~Blind, J # None, J.phase = "prepared"
    PROVE  Recognised
<1>1. /\ J = fs.journal /\ J \in Journals /\ fs \in FileSystems /\ quiet = {} /\ raced = {}
      /\ Owned(fs, op, kind, told) /\ Kind \in Kinds /\ Kind = kind[J.txn]
  BY DEF TaskInv, Good, Typed, FileSystems, Owned, J, Kind, Unedited
<1>2. ImagesSound(J, kind, told, {}) /\ Between(fs, Kind, {})
  BY <1>1 DEF TaskInv, Good, OnDisk
<1>3. /\ EditsOf(fs.disk, {}, {}) /\ EditsOf(J.before, {}, {}) /\ EditsOf(J.after, {}, {})
  BY <1>1 DEF TaskInv, Good, Made
<1>4. Exact(fs, Kind) /\ J.phase = "prepared" /\ fs.journal # None
  BY <1>1 DEF ExactInv, ExactState
<1>5. /\ Kind \in {"new", "claim", "archive", "logbook"}
      /\ Kind = "new" => Second(Kind) = "new" /\ ~Moves(Kind)
      /\ Kind # "new" => Second(Kind) = "detail"
      /\ Kind = "claim" => ~Moves(Kind) /\ "detail" \in Changed(Kind) \ Moved(Kind)
      /\ Moves(Kind) => Kind \in {"archive", "logbook"}
      /\ "overview" \in Changed(Kind) \ Moved(Kind)
      /\ Paths = {"overview", "detail", "new", "done"}
  BY <1>1, KindSets
<1>6. ASSUME NEW f \in {"overview", "detail"}, Old(fs, f, {}) \/ New(fs, f, {})
      PROVE  fs.disk[f] \in {J.before[f], J.after[f]}
  <2> DEFINE b == fs.disk[f]
  <2>1. /\ Content(fs.disk[f]) \cap Edits \subseteq {}
        /\ Content(J.before[f]) \cap Edits \subseteq {}
        /\ Content(J.after[f]) \cap Edits \subseteq {}
    BY <1>3, <1>5 DEF EditsOf, Body
  <2>2. CASE Old(fs, f, {})
    BY <1>1, <2>1, <2>2, LikeExact DEF Old
  <2>3. CASE New(fs, f, {})
    BY <1>1, <2>1, <2>3, LikeExact DEF New
  <2> QED
    BY <1>6, <2>2, <2>3
<1>7. FileRecognised("overview")
  <2>1. Old(fs, "overview", {}) \/ New(fs, "overview", {})
    BY <1>2, <1>5 DEF Between
  <2> QED
    BY <1>6, <2>1 DEF FileRecognised
<1>8. ASSUME Kind = "new"
      PROVE  FileRecognised(Second(Kind))
  <2>1. fs.disk["new"] \in {Absent, J.after["new"]}
    BY <1>1, <1>4, <1>8 DEF Exact, Blind
  <2> QED
    BY <1>5, <1>8, <2>1 DEF FileRecognised
<1>9. ASSUME Kind = "claim"
      PROVE  FileRecognised(Second(Kind))
  <2>1. Old(fs, "detail", {}) \/ New(fs, "detail", {})
    BY <1>2, <1>5, <1>9 DEF Between
  <2> QED
    BY <1>5, <1>6, <1>9, <2>1 DEF FileRecognised
<1>10. ASSUME Moves(Kind)
       PROVE  FileRecognised("detail") /\ MoveRecognised
  <2>1. /\ J.before["detail"] \in Bodies /\ J.after["detail"] \in Bodies
        /\ "done" \in Paths /\ "detail" \in Paths
    <3>1. J.before["detail"] \in Bodies
      BY <1>1, <1>2, <1>5, <1>10 DEF ImagesSound
    <3>2. Kind = "logbook" => "detail" \in Changed(Kind)
      BY <1>1, KindSets
    <3>3. J.after["detail"] \in Bodies
      BY <1>1, <1>2, <1>5, <1>10, <3>1, <3>2 DEF ImagesSound, Adds
    <3> QED
      BY <1>5, <3>1, <3>3
  <2>2. \/ Old(fs, "detail", {}) \/ New(fs, "detail", {})
        \/ fs.disk["detail"] = Absent /\ AtDone(fs, {})
    BY <1>2, <1>10 DEF Between
  <2>3. CASE fs.disk["detail"] # Absent
    <3>1. fs.disk["detail"] \in {J.before["detail"], J.after["detail"]}
      BY <1>6, <2>2, <2>3
    <3>2. MoveRecognised
      BY <1>1, <1>4, <1>10, <2>3, <3>1 DEF Exact, MoveRecognised
    <3> QED
      BY <2>3, <3>1, <3>2 DEF FileRecognised
  <2>4. CASE fs.disk["detail"] = Absent
    <3>1. AtDone(fs, {})
      BY <1>6, <2>1, <2>2, <2>4, Words
    <3>2. /\ Content(fs.disk["done"]) \cap Edits \subseteq {}
          /\ Content(J.after["detail"]) \cap Edits \subseteq {}
      BY <1>3, <2>1 DEF EditsOf, Body
    <3>3. fs.disk["done"] = J.after["detail"]
      BY <1>1, <3>1, <3>2, LikeExact DEF AtDone
    <3> QED
      BY <1>10, <2>4, <3>3 DEF FileRecognised, MoveRecognised
  <2> QED
    BY <2>3, <2>4
<1>11. DirectoryRecognised
  <2>1. fs.dir \in Txns \cup {Absent, None} /\ (J.owns => fs.dir # None)
    BY <1>1 DEF FileSystems, Blind
  <2>2. fs.dir \in Txns => fs.dir = J.txn
    BY <1>1 DEF Owned
  <2> QED
    BY <2>1, <2>2 DEF DirectoryRecognised
<1>12. FileRecognised(Second(Kind)) /\ (Moves(Kind) => MoveRecognised)
  <2>1. Kind \in {"archive", "logbook"} => Moves(Kind)
    BY DEF Moves
  <2> QED
    BY <1>5, <1>8, <1>9, <1>10, <2>1
<1>13. /\ DOMAIN Files(Kind) = {1, 2} /\ Files(Kind)[1] = "overview"
       /\ Files(Kind)[2] = Second(Kind)
  BY <1>1, KindsOfCommand
<1> QED
  BY <1>7, <1>11, <1>12, <1>13 DEF Recognised

\* docs/documentation.md:2065-2069: for any commands and any number of faults,
\* where no edit was made a rollback is refused only if a command died between the
\* creation of a directory or a file and its marker or content, or the removals.
THEOREM RefusedForCauseAlways == Spec => []RefusedForCause
<1>1. Init => ExactInv
  <2>1. Idle.at \notin OfLink \cup OfMove
    BY DEF Idle, Command, OfLink, OfMove
  <2> QED
    BY <2>1 DEF Init, ExactInv, ExactState, Exact, Relies
<1>2. TaskInv /\ ExactInv => RefusedForCause
  BY ExactRecognised DEF RefusedForCause, Recoverable, Unedited
<1> QED
  BY <1>1, <1>2, ExactKept, TaskInvAlways, PTL DEF Spec
=============================================================================
