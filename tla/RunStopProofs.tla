--------------------------- MODULE RunStopProofs ---------------------------
(* No number of sessions, boards, epochs or material events makes a Stop     *)
(* switch the run on, or hold a session longer than its guard allows.        *)
EXTENDS RunStop, TLAPS

Places == {"opened", "captured", "load", "judge", "finalize", "mark", "enter", "guard", "commit"}
             \cup Outcomes
Tasks  == Boards \cup {None}
Runs   == [enabled : BOOLEAN, epoch : Nat, checkpoint : Nat, reason : Tasks \cup {"command_off"}]
OfSession == [material : Nat, nudges : Nat, awaiting : BOOLEAN, progress : Tasks \X Nat, epoch : Nat]
OfStop == [at : Places, run : Runs, task : Tasks, due : BOOLEAN, judged : Tasks,
           cached : BOOLEAN, material : Nat, again : BOOLEAN, epoch : Nat, released : BOOLEAN,
           background : BOOLEAN]
Rows   == [progress : Tasks \X Nat, epoch : Nat, times : Nat]

Types ==
    /\ board \in Boards /\ run \in Runs /\ epochs \in Nat
    /\ session \in [Sessions -> OfSession] /\ stop \in [Sessions -> OfStop]
    /\ held \in [Sessions -> Rows]

\* The guard has counted this Stop, and its continuation is not yet written.
GuardPassed(s) == At(s, "commit") /\ stop[s].task \in Executable

\* The row belongs to the epoch that is on. Another epoch never returns.
Lives(s) == held[s].times > 0 /\ run.enabled /\ run.epoch = held[s].epoch

\* The row of a session that is not in its guard is the one its state counts;
\* one that has passed it is counted already, or is released.
Counted(s) ==
    /\ At(s, "guard") => stop[s].task \in Executable
    /\ held[s].epoch <= epochs /\ stop[s].epoch <= epochs
    /\ s \notin Strict => session[s].nudges < MaxNudges
    /\ held[s].times <= IF s \in Strict THEN 0 ELSE MaxNudges
    /\ GuardPassed(s) => /\ session[s].epoch = stop[s].epoch
                         /\ session[s].awaiting = ~stop[s].released
    /\ Lives(s) /\ At(s, "guard") => stop[s].epoch = held[s].epoch
    /\ Lives(s) /\ ~GuardPassed(s) =>
          /\ session[s].epoch = held[s].epoch /\ session[s].progress = held[s].progress
          /\ session[s].awaiting /\ held[s].times <= session[s].nudges + 1
    /\ Lives(s) /\ GuardPassed(s) =>
          /\ stop[s].epoch = held[s].epoch
          /\ session[s].progress = held[s].progress /\ ~stop[s].released
                => held[s].times <= session[s].nudges

Inv == Types /\ run.epoch <= epochs /\ \A s \in Sessions : Counted(s)

-----------------------------------------------------------------------------
\* What a Stop does to the types: only its own entries change, and the run
\* keeps its epoch or goes off.
OnlyOff == run'.enabled => run.enabled /\ run'.epoch = run.epoch
Fields(s) == /\ session'[s].nudges = session[s].nudges /\ session'[s].epoch = session[s].epoch
             /\ session'[s].awaiting = session[s].awaiting
             /\ session'[s].progress = session[s].progress

USE StopAssumption


LEMMA Entry ==
    ASSUME Types, NEW s \in Sessions, NEW read \in OfStop, Becomes(s, read)
    PROVE  /\ stop' \in [Sessions -> OfStop] /\ stop'[s] = read
           /\ \A t \in Sessions : t # s => stop'[t] = stop[t]
BY DEF Becomes, Types

LEMMA EndTypes ==
    ASSUME Types, NEW s \in Sessions, NEW outcome \in Outcomes, End(s, outcome)
    PROVE  /\ stop' \in [Sessions -> OfStop]
           /\ \A t \in Sessions : t # s => stop'[t] = stop[t]
           /\ stop'[s].at = outcome /\ stop'[s].epoch = 0
<1> DEFINE read == [Idle EXCEPT !.at = outcome]
<1>1. read \in OfStop /\ read.at = outcome /\ read.epoch = 0
  BY DEF Idle, OfStop, Places, Tasks, Runs, Disabled, Boards
<1>2. Becomes(s, read)
  BY DEF End
<1> HIDE DEF read
<1> QED BY <1>1, <1>2, Entry

\* A Stop that is somewhere else in the code is a Stop, of the same epoch and task.
LEMMA Placed ==
    ASSUME Types, NEW s \in Sessions, NEW place \in Places, NEW y,
           y = [stop[s] EXCEPT !.at = place]
    PROVE  y \in OfStop /\ y.at = place /\ y.epoch = stop[s].epoch /\ y.task = stop[s].task
<1>1. stop[s] \in OfStop
  BY DEF Types
<1>2. y \in OfStop
  BY <1>1 DEF OfStop
<1> QED
  BY <1>1, <1>2 DEF OfStop

LEMMA OnwardTypes ==
    ASSUME Types, NEW s \in Sessions, Onward(s)
    PROVE  /\ stop' \in [Sessions -> OfStop]
           /\ \A t \in Sessions : t # s => stop'[t] = stop[t]
           /\ stop'[s].at \in {"enter", "allowed"} /\ stop'[s].epoch \in {0, stop[s].epoch}
<1> DEFINE read == [stop[s] EXCEPT !.at = "enter", !.again = TRUE]
<1>1. End(s, "allowed") \/ Becomes(s, read)
  BY DEF Onward
<1>2. read \in OfStop /\ read.at = "enter" /\ read.epoch = stop[s].epoch
  <2> DEFINE y == [stop[s] EXCEPT !.at = "enter"]
  <2>1. y \in OfStop /\ y.at = "enter" /\ y.epoch = stop[s].epoch
    BY Placed DEF Places
  <2>2. read = [y EXCEPT !.again = TRUE]
    OBVIOUS
  <2> HIDE DEF y, read
  <2> QED
    BY <2>1, <2>2 DEF OfStop
<1> HIDE DEF read
<1> QED BY <1>1, <1>2, Entry, EndTypes DEF Outcomes

LEMMA GoTypes ==
    ASSUME Types, NEW s \in Sessions, NEW place \in Places, Go(s, place)
    PROVE  /\ stop' \in [Sessions -> OfStop]
           /\ \A t \in Sessions : t # s => stop'[t] = stop[t]
           /\ stop'[s].at = place /\ stop'[s].epoch = stop[s].epoch
<1> DEFINE read == [stop[s] EXCEPT !.at = place]
<1>1. read \in OfStop /\ read.at = place /\ read.epoch = stop[s].epoch
  BY DEF Types, OfStop
<1>2. Becomes(s, read)
  BY DEF Go
<1> HIDE DEF read
<1> QED BY <1>1, <1>2, Entry

LEMMA NotHandledTypes ==
    ASSUME Types, NEW s \in Sessions, NotHandled(s)
    PROVE  /\ stop' \in [Sessions -> OfStop]
           /\ \A t \in Sessions : t # s => stop'[t] = stop[t]
           /\ stop'[s].at \in {"load", "allowed"} /\ stop'[s].epoch \in {0, stop[s].epoch}
<1>1. End(s, "allowed") \/ Go(s, "load")
  BY DEF NotHandled
<1> QED BY <1>1, EndTypes, GoTypes DEF Outcomes, Places

-----------------------------------------------------------------------------
\* A step that leaves the guard, or does not reach it.
Quiet(s) ==
    /\ stop' \in [Sessions -> OfStop]
    /\ \A t \in Sessions : t # s => stop'[t] = stop[t]
    /\ stop'[s].at \notin {"guard", "commit"} /\ stop'[s].epoch \in {0, stop[s].epoch}
    /\ session' = session /\ epochs' = epochs /\ board' = board

LEMMA ReadingSteps ==
    ASSUME Types, NEW s \in Sessions, NEW flag \in BOOLEAN,
           Open(s, flag) \/ Weigh(s, flag) \/ Capture(s) \/ Load(s) \/ Clean(s)
           \/ CleanCached(s)
    PROVE  Quiet(s) /\ run' = run
<1>0. /\ session' = session /\ epochs' = epochs /\ board' = board /\ run' = run
  BY DEF Open, Weigh, Capture, Load, Clean, CleanCached
<1> SUFFICES \E read \in OfStop : /\ Becomes(s, read) /\ read.at \notin {"guard", "commit"}
                                  /\ read.epoch \in {0, stop[s].epoch}
  BY <1>0, Entry DEF Quiet
<1>1. CASE Open(s, flag)
  <2> DEFINE read == [Idle EXCEPT !.at = "opened", !.run = run, !.background = flag]
  <2>1. read \in OfStop /\ read.at = "opened" /\ read.epoch = 0
    BY DEF Idle, OfStop, Places, Tasks, Types, Disabled
  <2> QED BY <1>1, <2>1 DEF Open
<1>2. CASE Weigh(s, flag)
  <2> DEFINE applies == stop[s].run.enabled /\ stop[s].task \in Executable
             due     == applies /\ Due(stop[s].run, session[s], flag)
             place   == IF applies /\ ~due /\ ~stop[s].background THEN "enter" ELSE "load"
             read == [stop[s] EXCEPT !.due = due, !.at = place]
  <2>0. place \in {"enter", "load"} /\ due \in BOOLEAN
    BY DEF Due
  <2>3. Becomes(s, read)
    BY <1>2 DEF Weigh
  <2> HIDE DEF due, place
  <2>1. read \in OfStop /\ read.at = place /\ read.epoch = stop[s].epoch
    <3> DEFINE y == [stop[s] EXCEPT !.at = place]
    <3>1. y \in OfStop /\ y.at = place /\ y.epoch = stop[s].epoch /\ y.task = stop[s].task
      BY <2>0, Placed DEF Places
    <3>2. read = [y EXCEPT !.due = due]
      OBVIOUS
    <3> HIDE DEF y, read
    <3> QED
      BY <2>0, <3>1, <3>2 DEF OfStop
  <2> HIDE DEF read
  <2> QED BY <2>0, <2>1, <2>3
<1>3. CASE Capture(s)
  <2> DEFINE read == [stop[s] EXCEPT !.at = "captured", !.task = board]
  <2>0. board \in Tasks /\ run.epoch \in Nat
    BY DEF Types, Runs, Tasks
  <2>1. read \in OfStop /\ read.at = "captured" /\ read.epoch = stop[s].epoch
    <3> DEFINE y == [stop[s] EXCEPT !.at = "captured"]
    <3>1. y \in OfStop /\ y.at = "captured" /\ y.epoch = stop[s].epoch /\ y.task = stop[s].task
      BY Placed DEF Places
    <3>2. read = [y EXCEPT !.task = board]
      OBVIOUS
    <3> HIDE DEF y, read
    <3> QED
      BY <2>0, <3>1, <3>2 DEF OfStop
  <2> QED BY <1>3, <2>1 DEF Capture
<1>4. CASE Clean(s)
  <2>1. PICK judged \in {stop[s].task, board} :
            Becomes(s, [stop[s] EXCEPT !.at = "finalize", !.judged = judged])
    BY <1>4 DEF Clean
  <2> DEFINE read == [stop[s] EXCEPT !.at = "finalize", !.judged = judged]
  <2>2. judged \in Tasks
    BY <2>1 DEF Types, Tasks, OfStop
  <2>3. read \in OfStop /\ read.at = "finalize" /\ read.epoch = stop[s].epoch
    <3> DEFINE y == [stop[s] EXCEPT !.at = "finalize"]
    <3>1. y \in OfStop /\ y.at = "finalize" /\ y.epoch = stop[s].epoch /\ y.task = stop[s].task
      BY Placed DEF Places
    <3>2. read = [y EXCEPT !.judged = judged]
      OBVIOUS
    <3> HIDE DEF y, read
    <3> QED
      BY <2>2, <3>1, <3>2 DEF OfStop
  <2> QED BY <2>1, <2>3
<1>5. CASE CleanCached(s)
  <2> DEFINE read == [stop[s] EXCEPT !.at = "finalize", !.judged = stop[s].task, !.cached = TRUE]
  <2>1. read \in OfStop /\ read.at = "finalize" /\ read.epoch = stop[s].epoch
    <3> DEFINE y == [stop[s] EXCEPT !.at = "finalize"]
    <3>1. y \in OfStop /\ y.at = "finalize" /\ y.epoch = stop[s].epoch /\ y.task = stop[s].task
      BY Placed DEF Places
    <3>2. read = [y EXCEPT !.judged = stop[s].task, !.cached = TRUE]
      OBVIOUS
    <3>3. stop[s].task \in Tasks
      BY DEF Types, OfStop
    <3> HIDE DEF y, read
    <3> QED
      BY <3>1, <3>2, <3>3 DEF OfStop
  <2> QED BY <1>5, <2>1 DEF CleanCached
<1>6. CASE Load(s)
  <2> DEFINE noted == IF stop[s].due THEN session[s].material ELSE 0
             read  == [stop[s] EXCEPT !.at = "judge", !.material = noted]
  <2>1. noted \in Nat
    BY DEF Types, OfSession
  <2>2. Becomes(s, read)
    BY <1>6 DEF Load
  <2> HIDE DEF noted
  <2>3. read \in OfStop /\ read.at = "judge" /\ read.epoch = stop[s].epoch
    <3> DEFINE y == [stop[s] EXCEPT !.at = "judge"]
    <3>1. y \in OfStop /\ y.at = "judge" /\ y.epoch = stop[s].epoch /\ y.task = stop[s].task
      BY Placed DEF Places
    <3>2. read = [y EXCEPT !.material = noted]
      OBVIOUS
    <3> HIDE DEF y, read
    <3> QED
      BY <2>1, <3>1, <3>2 DEF OfStop
  <2> HIDE DEF read
  <2> QED BY <2>2, <2>3
<1> QED BY <1>1, <1>2, <1>3, <1>4, <1>5, <1>6

LEMMA EndingSteps ==
    ASSUME Types, NEW s \in Sessions,
           \/ Interrupt(s) \/ Violates(s) \/ Finalize(s) \/ Moved(s) \/ Overflow(s) \/ Fail(s)
    PROVE  Quiet(s) /\ run' = run
<1>0. /\ session' = session /\ epochs' = epochs /\ board' = board /\ run' = run
  BY DEF Interrupt, Violates, Finalize, Moved, Overflow, Fail
<1>1. (\E outcome \in Outcomes : End(s, outcome)) \/ Go(s, "mark") \/ Onward(s)
  BY DEF Interrupt, Violates, Finalize, Moved, Overflow, Fail, Outcomes
<1>2. CASE \E outcome \in Outcomes : End(s, outcome)
  BY <1>0, <1>2, EndTypes DEF Quiet, Outcomes
<1>3. CASE Go(s, "mark")
  BY <1>0, <1>3, GoTypes DEF Quiet, Places
<1>4. CASE Onward(s)
  BY <1>0, <1>4, OnwardTypes DEF Quiet
<1> QED BY <1>1, <1>2, <1>3, <1>4

LEMMA MarkStep ==
    ASSUME Types, NEW s \in Sessions, Mark(s)
    PROVE  Quiet(s) /\ run' \in Runs /\ OnlyOff
<1>1. Quiet(s)
  BY OnwardTypes DEF Mark, Quiet
<1>2. run' = run \/ run' = [run EXCEPT !.checkpoint = stop[s].material]
  BY DEF Mark
<1> QED BY <1>1, <1>2 DEF Types, Runs, OfStop, OnlyOff

LEMMA EnterStep ==
    ASSUME Types, NEW s \in Sessions, Enter(s)
    PROVE  /\ run' = run /\ session' = session /\ epochs' = epochs /\ board' = board
           /\ stop' \in [Sessions -> OfStop] /\ \A t \in Sessions : t # s => stop'[t] = stop[t]
           /\ \/ Quiet(s)
              \/ /\ run.enabled /\ stop'[s].epoch = run.epoch /\ stop'[s].task = stop[s].task
                 /\ stop'[s].at = IF stop[s].task \in Executable THEN "guard" ELSE "commit"
<1>0. /\ run' = run /\ session' = session /\ epochs' = epochs /\ board' = board
  BY DEF Enter
<1>1. CASE run.enabled
  <2> DEFINE place == IF stop[s].task \in Executable THEN "guard" ELSE "commit"
             read == [stop[s] EXCEPT !.epoch = run.epoch, !.at = place]
  <2>0. place \in {"guard", "commit"} /\ run.epoch \in Nat
    BY DEF Types, Runs
  <2>1. Becomes(s, read)
    BY <1>1 DEF Enter
  <2>2. place = IF stop[s].task \in Executable THEN "guard" ELSE "commit"
    OBVIOUS
  <2> HIDE DEF place
  <2>3. /\ read \in OfStop /\ read.at = place
        /\ read.epoch = run.epoch /\ read.task = stop[s].task
    <3> DEFINE y == [stop[s] EXCEPT !.at = place]
    <3>1. y \in OfStop /\ y.at = place /\ y.task = stop[s].task
      BY <2>0, Placed DEF Places
    <3>2. read = [y EXCEPT !.epoch = run.epoch]
      OBVIOUS
    <3> HIDE DEF y, read
    <3> QED
      BY <2>0, <3>1, <3>2 DEF OfStop
  <2> HIDE DEF read
  <2> QED BY <1>0, <1>1, <2>1, <2>2, <2>3, Entry
<1>2. CASE ~run.enabled
  <2>1. NotHandled(s)
    BY <1>2 DEF Enter
  <2> QED BY <1>0, <2>1, NotHandledTypes DEF Quiet
<1> QED BY <1>1, <1>2

LEMMA GuardStep ==
    ASSUME Types, NEW s \in Sessions, Guard(s)
    PROVE  /\ At(s, "guard") /\ run' = run /\ epochs' = epochs /\ board' = board
           /\ stop' \in [Sessions -> OfStop] /\ session' \in [Sessions -> OfSession]
           /\ \A t \in Sessions : t # s => stop'[t] = stop[t] /\ session'[t] = session[t]
           /\ stop'[s].at = "commit" /\ stop'[s].released = Releases(s)
           /\ stop'[s].epoch = stop[s].epoch /\ stop'[s].task = stop[s].task
           /\ session'[s].nudges = IF Releases(s) THEN 0 ELSE Nudges(s)
           /\ session'[s].awaiting = ~Releases(s) /\ session'[s].epoch = stop[s].epoch
           /\ session'[s].progress = <<stop[s].task, session[s].material>>
<1>0. At(s, "guard") /\ run' = run /\ epochs' = epochs /\ board' = board
  BY DEF Guard
<1>1. Releases(s) \in BOOLEAN /\ Nudges(s) \in Nat
  BY DEF Releases, Nudges, Types, OfSession
<1> DEFINE read == [stop[s] EXCEPT !.at = "commit", !.released = Releases(s)]
           count == IF Releases(s) THEN 0 ELSE Nudges(s)
           own  == [session[s] EXCEPT !.nudges = count, !.awaiting = ~Releases(s),
                       !.progress = <<stop[s].task, session[s].material>>, !.epoch = stop[s].epoch]
<1>2. /\ read \in OfStop /\ read.at = "commit" /\ read.released = Releases(s)
      /\ read.epoch = stop[s].epoch /\ read.task = stop[s].task
  <2> DEFINE y == [stop[s] EXCEPT !.at = "commit"]
             released == Releases(s)
  <2>1. /\ y \in OfStop /\ y.at = "commit"
        /\ y.epoch = stop[s].epoch /\ y.task = stop[s].task
    BY Placed DEF Places
  <2>2. read = [y EXCEPT !.released = released] /\ released \in BOOLEAN
    BY <1>1
  <2> HIDE DEF y, read, released
  <2>3. read \in OfStop /\ read.at = y.at /\ read.epoch = y.epoch /\ read.task = y.task
    BY <2>1, <2>2 DEF OfStop
  <2>4. read.released = released
    BY <2>1, <2>2 DEF OfStop
  <2> QED
    BY <2>1, <2>3, <2>4 DEF released
<1>3. Becomes(s, read) /\ session' = [session EXCEPT ![s] = own]
  BY DEF Guard, Guarded
<1>4. /\ count \in Nat /\ (~Releases(s)) \in BOOLEAN /\ stop[s].epoch \in Nat
      /\ <<stop[s].task, session[s].material>> \in Tasks \X Nat
      /\ session[s] \in OfSession
  BY <1>1 DEF Types, OfStop, OfSession
<1>5. count = IF Releases(s) THEN 0 ELSE Nudges(s)
  OBVIOUS
<1> HIDE DEF count
<1>6. /\ own \in OfSession /\ own.nudges = count /\ own.awaiting = ~Releases(s)
      /\ own.epoch = stop[s].epoch /\ own.progress = <<stop[s].task, session[s].material>>
  BY <1>4 DEF OfSession
<1> HIDE DEF own, read
<1>7. /\ session' \in [Sessions -> OfSession] /\ session'[s] = own
      /\ \A t \in Sessions : t # s => session'[t] = session[t]
  BY <1>3, <1>6 DEF Types
<1> QED BY <1>0, <1>2, <1>3, <1>5, <1>6, <1>7, Entry

LEMMA CommitStep ==
    ASSUME Types, NEW s \in Sessions, Commit(s)
    PROVE  /\ At(s, "commit") /\ Quiet(s) /\ run' \in Runs /\ OnlyOff
           /\ \/ ~Continues(s, run) /\ run' = run /\ stop'[s].at \in {"load", "allowed"}
              \/ /\ Continues(s, run) /\ stop[s].task \notin Executable
                 /\ ~run'.enabled /\ stop'[s].at \in {"allowed", "failed"}
              \/ /\ Continues(s, run) /\ stop[s].task \in Executable
                 /\ stop'[s].at \in {"failed", IF stop[s].released THEN "released" ELSE "held"}
<1>0. At(s, "commit") /\ session' = session /\ epochs' = epochs /\ board' = board
  BY DEF Commit
<1>1. CASE ~Continues(s, run)
  <2>1. NotHandled(s) /\ run' = run
    BY <1>1 DEF Commit
  <2> QED BY <1>0, <1>1, <2>1, NotHandledTypes DEF Quiet, Types, OnlyOff
<1>2. CASE Continues(s, run) /\ stop[s].task \notin Executable
  <2>1. (End(s, "allowed") \/ End(s, "failed")) /\ run' = Disabled(stop[s].task)
    BY <1>2 DEF Commit, EndLogged
  <2>2. run' \in Runs /\ ~run'.enabled
    BY <2>1 DEF Disabled, Runs, Types, OfStop
  <2> QED BY <1>0, <1>2, <2>1, <2>2, EndTypes DEF Quiet, OnlyOff, Outcomes
<1>3. CASE Continues(s, run) /\ stop[s].task \in Executable
  <2> DEFINE outcome == IF stop[s].released THEN "released" ELSE "held"
  <2>1. /\ End(s, outcome) \/ End(s, "failed")
        /\ run' = [run EXCEPT !.enabled = TRUE, !.reason = None]
    BY <1>3 DEF Commit, EndLogged
  <2>2. run' \in Runs /\ OnlyOff
    BY <1>3, <2>1 DEF Runs, Types, OnlyOff, Continues, Tasks
  <2>3. outcome \in Outcomes \cap {"released", "held"} /\ outcome = IF stop[s].released THEN "released" ELSE "held"
    BY DEF Outcomes
  <2>4. "failed" \in Outcomes
    BY DEF Outcomes
  <2> HIDE DEF outcome
  <2> QED BY <1>0, <1>3, <2>1, <2>2, <2>3, <2>4, EndTypes DEF Quiet
<1> QED BY <1>1, <1>2, <1>3

-----------------------------------------------------------------------------
\* The row changes only where the continuation of its own session is answered.
LEMMA Rows1 ==
    ASSUME Types, History, NEW s \in Sessions
    PROVE  /\ held'[s] = Delivered(s) /\ held'[s] \in Rows
           /\ (~At(s, "commit") \/ stop'[s].at \notin {"held", "released", "failed"})
                 => held'[s] = held[s]
           /\ stop'[s] = stop[s] => held'[s] = held[s]
<1>1. held'[s] = Delivered(s)
  BY DEF History
<1>2. Nothing \in Rows
  BY DEF Nothing, Rows, Tasks
<1>3. [progress |-> session[s].progress, epoch |-> stop[s].epoch,
       times |-> IF Repeats(s) THEN held[s].times + 1 ELSE 1] \in Rows
  BY DEF Types, OfSession, OfStop, Rows
<1>4. held[s] \in Rows
  BY DEF Types
<1>5. Delivered(s) \in Rows
  BY <1>2, <1>3, <1>4 DEF Delivered
<1>6. (~At(s, "commit") \/ stop'[s].at \notin {"held", "released", "failed"})
         => Delivered(s) = held[s]
  BY DEF Delivered, Answered
<1>7. stop'[s] = stop[s] => Delivered(s) = held[s]
  BY DEF Delivered, Answered, At
<1> QED BY <1>1, <1>5, <1>6, <1>7

LEMMA RowsType ==
    ASSUME Types, History
    PROVE  held' \in [Sessions -> Rows]
<1>1. \A s \in Sessions : Delivered(s) \in Rows
  BY Rows1
<1> QED BY <1>1 DEF History

\* A session that does not take the step.
LEMMA Elsewhere ==
    ASSUME NEW s \in Sessions, Counted(s), stop'[s] = stop[s], Fields(s), held'[s] = held[s],
           epochs' = epochs, OnlyOff
    PROVE  Counted(s)'
BY DEF Counted, Fields, OnlyOff, Lives, GuardPassed, At

\* A Stop that has not passed its guard leaves the row as it is counted.
LEMMA Leaves ==
    ASSUME Types, NEW s \in Sessions, Counted(s), Quiet(s), held'[s] = held[s],
           OnlyOff, ~GuardPassed(s)
    PROVE  Counted(s)'
<1>1. session'[s] = session[s] /\ epochs' = epochs /\ epochs \in Nat
  BY DEF Quiet, Types
<1>2. ~At(s, "guard")' /\ ~GuardPassed(s)' /\ stop'[s].epoch <= epochs
  BY <1>1 DEF Quiet, At, GuardPassed, Counted
<1>3. Lives(s)' => Lives(s)
  BY DEF Lives, OnlyOff
<1> QED BY <1>1, <1>2, <1>3 DEF Counted

\* A row that begins anew, or belongs to an epoch that is over.
LEMMA Over ==
    ASSUME Types, NEW s \in Sessions, Counted(s), Quiet(s), ~Lives(s)', held'[s] = held[s] \/ held'[s] = Nothing
    PROVE  Counted(s)'
<1>1. session'[s] = session[s] /\ epochs' = epochs /\ epochs \in Nat
  BY DEF Quiet, Types
<1>2. ~At(s, "guard")' /\ ~GuardPassed(s)' /\ stop'[s].epoch <= epochs
  BY <1>1 DEF Quiet, At, GuardPassed, Counted
<1>3. /\ held'[s].epoch <= epochs
      /\ held'[s].times <= IF s \in Strict THEN 0 ELSE MaxNudges
  BY <1>1 DEF Counted, Nothing
<1> QED BY <1>1, <1>2, <1>3 DEF Counted

LEMMA GuardCounts ==
    ASSUME Types, History, NEW s \in Sessions, Counted(s), Guard(s)
    PROVE  Counted(s)'
<1>1. /\ At(s, "guard") /\ run' = run /\ epochs' = epochs
      /\ stop'[s].at = "commit" /\ stop'[s].released = Releases(s)
      /\ stop'[s].epoch = stop[s].epoch /\ stop'[s].task = stop[s].task
      /\ session'[s].nudges = IF Releases(s) THEN 0 ELSE Nudges(s)
      /\ session'[s].awaiting = ~Releases(s) /\ session'[s].epoch = stop[s].epoch
      /\ session'[s].progress = <<stop[s].task, session[s].material>>
  BY GuardStep
<1>2. held'[s] = held[s]
  BY <1>1, Rows1 DEF At
<1>3. ~At(s, "guard")' /\ GuardPassed(s)' /\ (Lives(s)' <=> Lives(s)) /\ ~GuardPassed(s)
  BY <1>1, <1>2 DEF At, GuardPassed, Lives, Counted
<1>4. Nudges(s) \in Nat /\ held[s].times \in Nat
  BY DEF Nudges, Types, OfSession, Rows
<1>5. s \notin Strict => session'[s].nudges < MaxNudges
  BY <1>1, <1>4 DEF Releases
<1>6. ASSUME Lives(s), session'[s].progress = held[s].progress, ~Releases(s)
      PROVE  held[s].times <= session'[s].nudges
  <2>1. /\ session[s].epoch = stop[s].epoch /\ session[s].awaiting
        /\ session[s].progress = <<stop[s].task, session[s].material>>
        /\ held[s].times <= session[s].nudges + 1
    BY <1>1, <1>3, <1>6 DEF Counted
  <2>0. s \notin Strict
    BY <1>4, <1>6 DEF Counted, Lives
  <2>2. Nudges(s) = session[s].nudges + 1
    BY <2>0, <2>1 DEF Nudges
  <2> QED BY <1>1, <1>6, <2>1, <2>2
<1> QED BY <1>1, <1>2, <1>3, <1>5, <1>6 DEF Counted

LEMMA CommitCounts ==
    ASSUME Types, run.epoch <= epochs, History, NEW s \in Sessions, Counted(s), Commit(s)
    PROVE  Counted(s)'
<1>1. At(s, "commit") /\ Quiet(s) /\ OnlyOff
  BY CommitStep
<1>2. CASE ~Continues(s, run) /\ run' = run /\ stop'[s].at \in {"load", "allowed"}
  <2>1. held'[s] = held[s]
    BY <1>2, Rows1
  <2>2. CASE GuardPassed(s)
    <3>1. ~Lives(s)
      BY <1>2, <2>2 DEF Counted, Lives, Continues
    <3> QED BY <1>1, <1>2, <2>1, <3>1, Over DEF Lives
  <2>3. CASE ~GuardPassed(s)
    BY <1>1, <2>1, <2>3, Leaves
  <2> QED BY <2>2, <2>3
<1>3. CASE ~run'.enabled /\ stop'[s].at = "allowed"
  <2>1. held'[s] = held[s] /\ ~Lives(s)'
    BY <1>3, Rows1 DEF Lives
  <2> QED BY <1>1, <2>1, Over
<1>4. CASE stop'[s].at = "failed"
  <2>1. held'[s] = Nothing
    BY <1>1, <1>4, Rows1 DEF Delivered, Answered
  <2> QED BY <1>1, <2>1, Over DEF Lives, Nothing
<1>5. CASE /\ Continues(s, run) /\ stop[s].task \in Executable
           /\ stop'[s].at = IF stop[s].released THEN "released" ELSE "held"
  <2>1. GuardPassed(s)
    BY <1>1, <1>5 DEF GuardPassed
  <2>2. CASE stop[s].released
    <3>1. held'[s] = Nothing
      BY <1>1, <1>5, <2>2, Rows1 DEF Delivered, Answered
    <3> QED BY <1>1, <3>1, Over DEF Lives, Nothing
  <2>3. CASE ~stop[s].released /\ s \in Strict
    <3>1. held'[s] = held[s]
      BY <1>1, <1>5, <2>3, Rows1 DEF Delivered, Answered
    <3>2. ~Lives(s)'
      BY <2>3, <3>1 DEF Counted, Lives, Types, Rows
    <3> QED BY <1>1, <3>1, <3>2, Over
  <2>4. CASE ~stop[s].released /\ s \notin Strict
    <3>1. held'[s] = [progress |-> session[s].progress, epoch |-> stop[s].epoch,
                      times |-> IF Repeats(s) THEN held[s].times + 1 ELSE 1]
      BY <1>1, <1>5, <2>4, Rows1 DEF Delivered, Answered
    <3>2. /\ session[s].nudges \in Nat /\ held[s].times \in Nat /\ epochs \in Nat
          /\ stop[s].epoch \in Nat /\ MaxNudges \in Nat
      BY DEF Types, OfSession, OfStop, Rows
    <3>3. /\ session[s].nudges < MaxNudges /\ stop[s].epoch <= epochs
          /\ session[s].epoch = stop[s].epoch /\ session[s].awaiting
      BY <2>1, <2>4 DEF Counted
    <3>4. ASSUME Repeats(s) PROVE held[s].times <= session[s].nudges
      <4>1. CASE held[s].times = 0
        BY <3>2, <4>1
      <4>2. CASE held[s].times > 0
        <5>1. Lives(s)
          BY <1>5, <3>4, <4>2 DEF Lives, Repeats, Continues
        <5> QED BY <2>1, <2>4, <3>4, <5>1 DEF Counted, Repeats
      <4> QED BY <3>2, <4>1, <4>2
    <3>5. held'[s].times <= session[s].nudges + 1 /\ held'[s].times <= MaxNudges
      BY <3>1, <3>2, <3>3, <3>4
    <3>6. held'[s].progress = session[s].progress /\ held'[s].epoch = stop[s].epoch
      BY <3>1
    <3>7. /\ ~At(s, "guard")' /\ ~GuardPassed(s)' /\ stop'[s].epoch <= epochs
          /\ session'[s] = session[s] /\ epochs' = epochs
      BY <1>1, <3>2, <3>3 DEF Quiet, At, GuardPassed
    <3> HIDE <1>5, <2>1
    <3> QED BY <2>4, <3>3, <3>5, <3>6, <3>7 DEF Counted
  <2> QED BY <2>2, <2>3, <2>4
<1> QED BY <1>2, <1>3, <1>4, <1>5, CommitStep

\* Only the session of a Stop, its entry and its row change.
LEMMA StopKeeps ==
    ASSUME Inv, History, NEW s \in Sessions, Stops(s)
    PROVE  Inv' /\ OnlyOff
<1>0. Types /\ run.epoch <= epochs /\ \A t \in Sessions : Counted(t)
  BY DEF Inv
<1> DEFINE Sound == /\ OnlyOff /\ epochs' = epochs /\ board' = board /\ run' \in Runs
                    /\ stop' \in [Sessions -> OfStop] /\ session' \in [Sessions -> OfSession]
                    /\ \A t \in Sessions : t # s => stop'[t] = stop[t] /\ session'[t] = session[t]
                    /\ run'.epoch <= epochs
                    /\ Counted(s)'
<1>1. ASSUME Sound PROVE Inv' /\ OnlyOff
  <2>1. ASSUME NEW t \in Sessions, t # s PROVE Counted(t)'
    <3>1. stop'[t] = stop[t] /\ Fields(t) /\ held'[t] = held[t]
      BY <1>0, <1>1, <2>1, Rows1 DEF Fields
    <3> QED BY <1>0, <1>1, <3>1, Elsewhere
  <2>2. Types'
    BY <1>0, <1>1, RowsType DEF Types
  <2> QED BY <1>0, <1>1, <2>1, <2>2 DEF Inv
<1>2. ASSUME Quiet(s), run' = run, ~At(s, "commit") \/ stop'[s].at = "failed" PROVE Sound
  <2>1. CASE At(s, "commit") /\ stop'[s].at = "failed"
    <3>1. held'[s] = Nothing
      BY <1>0, <2>1, Rows1 DEF Delivered, Answered
    <3>2. Counted(s)'
      BY <1>0, <1>2, <3>1, Over DEF Lives, Nothing
    <3> QED BY <1>0, <1>2, <3>2 DEF Quiet, Types, OnlyOff
  <2>2. CASE ~At(s, "commit")
    <3>1. held'[s] = held[s] /\ ~GuardPassed(s)
      BY <1>0, <2>2, Rows1 DEF GuardPassed
    <3>2. Counted(s)'
      BY <1>0, <1>2, <3>1, Leaves DEF OnlyOff
    <3> QED BY <1>0, <1>2, <3>2 DEF Quiet, Types, OnlyOff
  <2> QED BY <1>2, <2>1, <2>2
<1>3. ASSUME NEW flag \in BOOLEAN,
             \/ Open(s, flag) \/ Weigh(s, flag) \/ Capture(s) \/ Load(s) \/ Clean(s)
             \/ CleanCached(s)
      PROVE  Sound
  <2>1. ~At(s, "commit")
    BY <1>3 DEF Open, Weigh, Capture, Load, Clean, CleanCached, At, Outcomes
  <2> QED BY <1>0, <1>2, <1>3, <2>1, ReadingSteps
<1>4. ASSUME Interrupt(s) \/ Violates(s) \/ Finalize(s) \/ Moved(s) \/ Overflow(s)
      PROVE  Sound
  <2>1. ~At(s, "commit")
    BY <1>4 DEF Interrupt, Violates, Finalize, Moved, Overflow, At
  <2> QED BY <1>0, <1>2, <1>4, <2>1, EndingSteps
<1>5. ASSUME Fail(s) PROVE Sound
  <2>1. stop'[s].at = "failed"
    BY <1>0, <1>5, EndTypes DEF Fail, Outcomes
  <2> QED BY <1>0, <1>2, <1>5, <2>1, EndingSteps
<1>6. ASSUME Mark(s) PROVE Sound
  <2>1. Quiet(s) /\ run' \in Runs /\ OnlyOff /\ run'.epoch <= epochs
    BY <1>0, <1>6, MarkStep DEF Mark
  <2>2. ~At(s, "commit") /\ held'[s] = held[s]
    BY <1>0, <1>6, Rows1 DEF Mark, At
  <2>3. Counted(s)'
    BY <1>0, <2>1, <2>2, Leaves DEF GuardPassed
  <2> QED BY <1>0, <2>1, <2>3 DEF Quiet, Types
<1>7. ASSUME Enter(s) PROVE Sound
  <2>1. At(s, "enter") /\ ~At(s, "commit") /\ held'[s] = held[s]
    BY <1>0, <1>7, Rows1 DEF Enter, At
  <2>2. CASE Quiet(s)
    BY <1>0, <1>2, <1>7, <2>1, <2>2, EnterStep
  <2>3. CASE /\ run.enabled /\ stop'[s].epoch = run.epoch /\ stop'[s].task = stop[s].task
             /\ stop'[s].at = IF stop[s].task \in Executable THEN "guard" ELSE "commit"
    <3>1. /\ run' = run /\ session' = session /\ epochs' = epochs /\ board' = board
          /\ stop' \in [Sessions -> OfStop] /\ \A t \in Sessions : t # s => stop'[t] = stop[t]
      BY <1>0, <1>7, EnterStep
    <3>2. ~GuardPassed(s) /\ ~GuardPassed(s)' /\ (Lives(s)' <=> Lives(s))
      BY <2>1, <2>3, <3>1 DEF GuardPassed, At, Lives
    <3>3. At(s, "guard")' => stop'[s].task \in Executable
      BY <2>3 DEF At
    <3>4. Counted(s)'
      BY <1>0, <2>1, <2>3, <3>1, <3>2, <3>3 DEF Counted, Lives
    <3> QED BY <1>0, <3>1, <3>4 DEF Types, OnlyOff
  <2> QED BY <1>0, <1>7, <2>2, <2>3, EnterStep
<1>8. ASSUME Guard(s) PROVE Sound
  <2>1. Counted(s)'
    BY <1>0, <1>8, GuardCounts
  <2> QED BY <1>0, <1>8, <2>1, GuardStep DEF Types, OnlyOff
<1>9. ASSUME Commit(s) PROVE Sound
  <2>1. Counted(s)' /\ Quiet(s) /\ run' \in Runs /\ OnlyOff
    BY <1>0, <1>9, CommitCounts, CommitStep
  <2>2. run'.epoch <= epochs
    <3>1. \/ run' = run \/ run' = Disabled(stop[s].task)
          \/ run' = [run EXCEPT !.enabled = TRUE, !.reason = None]
      BY <1>9 DEF Commit
    <3>2. run \in Runs /\ Disabled(stop[s].task).epoch = 0
          /\ [run EXCEPT !.enabled = TRUE, !.reason = None].epoch = run.epoch
      BY <1>0 DEF Types, Runs, Disabled
    <3>3. run'.epoch = run.epoch \/ run'.epoch = 0
      BY <3>1, <3>2
    <3>4. epochs \in Nat
      BY <1>0 DEF Types
    <3> QED BY <1>0, <3>3, <3>4
  <2> QED BY <1>0, <2>1, <2>2 DEF Quiet, Types
<1> HIDE DEF Sound
<1> QED BY <1>1, <1>3, <1>4, <1>5, <1>6, <1>7, <1>8, <1>9 DEF Stops

LEMMA OperatesKeeps ==
    ASSUME Inv, History, Operates
    PROVE  Inv' /\ stop' = stop
<1>0. Types /\ run.epoch <= epochs /\ \A t \in Sessions : Counted(t)
  BY DEF Inv
<1>1. stop' = stop /\ \A t \in Sessions : held'[t] = held[t]
  <2>1. stop' = stop
    BY DEF Operates, On, SwitchOff, EditBoard, Tool
  <2> QED BY <1>0, <2>1, Rows1
<1>2. CASE On
  <2>1. /\ epochs' = epochs + 1 /\ run' \in Runs /\ run'.epoch = epochs + 1 /\ session' = session /\ board' = board
    BY <1>0, <1>2 DEF On, Runs, Types, Tasks
  <2>2. ASSUME NEW t \in Sessions PROVE Counted(t)'
    <3>1. /\ held[t].epoch <= epochs /\ stop[t].epoch <= epochs /\ epochs \in Nat
          /\ held[t].epoch \in Nat /\ stop[t].epoch \in Nat
      BY <1>0 DEF Counted, Types, Rows, OfStop
    <3>2. ~Lives(t)'
      BY <1>1, <2>1, <3>1 DEF Lives
    <3>3. /\ (At(t, "guard")' <=> At(t, "guard")) /\ (GuardPassed(t)' <=> GuardPassed(t))
          /\ held[t].epoch <= epochs + 1 /\ stop[t].epoch <= epochs + 1
      BY <1>1, <3>1 DEF At, GuardPassed
    <3> QED BY <1>0, <1>1, <2>1, <3>2, <3>3 DEF Counted
  <2> QED BY <1>0, <1>1, <2>1, <2>2, RowsType DEF Inv, Types
<1>3. CASE SwitchOff \/ EditBoard \/ \E s \in Sessions : Tool(s)
  <2>1. /\ epochs' = epochs /\ run' \in Runs /\ OnlyOff /\ run'.epoch <= epochs /\ board' \in Boards
    <3>1. /\ epochs' = epochs /\ run' \in {run, Disabled("command_off")} /\ board' \in Boards
      BY <1>0, <1>3 DEF SwitchOff, EditBoard, Tool, Types
    <3>2. Disabled("command_off") \in Runs /\ ~Disabled("command_off").enabled
          /\ Disabled("command_off").epoch = 0
      BY DEF Disabled, Runs
    <3> QED BY <1>0, <3>1, <3>2 DEF Types, OnlyOff
  <2>2. session' \in [Sessions -> OfSession] /\ \A t \in Sessions : Fields(t)
    <3>1. CASE session' = session
      BY <1>0, <3>1 DEF Types, Fields
    <3>2. CASE \E s \in Sessions : Tool(s)
      <4>1. PICK s \in Sessions : session' = [session EXCEPT ![s].material = @ + 1]
        BY <3>2 DEF Tool
      <4> QED BY <1>0, <4>1 DEF Types, OfSession, Fields
    <3> QED BY <1>3, <3>1, <3>2 DEF SwitchOff, EditBoard
  <2>3. \A t \in Sessions : Counted(t)'
    BY <1>0, <1>1, <2>1, <2>2, Elsewhere
  <2> QED BY <1>0, <1>1, <2>1, <2>2, <2>3, RowsType DEF Inv, Types
<1> QED BY <1>1, <1>2, <1>3 DEF Operates

LEMMA InitInv == Init => Inv
<1> SUFFICES ASSUME Init PROVE Inv
  OBVIOUS
<1>1. Idle \in OfStop /\ Idle.at = "allowed" /\ Idle.epoch = 0
  BY DEF Idle, OfStop, Places, Outcomes, Tasks, Runs, Disabled
<1>2. Nothing \in Rows /\ Nothing.times = 0 /\ Nothing.epoch = 0
  BY DEF Nothing, Rows, Tasks
<1>3. run \in Runs /\ run.epoch = 0 /\ epochs = 0 /\ ~run.enabled /\ board \in Boards
  BY DEF Init, Disabled, Runs, Tasks
<1>4. \A s \in Sessions : stop[s] = Idle /\ held[s] = Nothing /\ session[s].nudges = 0
  BY DEF Init
<1>5. /\ session \in [Sessions -> OfSession] /\ stop \in [Sessions -> OfStop]
      /\ held \in [Sessions -> Rows]
  BY <1>1, <1>2 DEF Init, OfSession, Tasks
<1>6. ASSUME NEW s \in Sessions PROVE Counted(s)
  BY <1>1, <1>2, <1>3, <1>4 DEF Counted, At, GuardPassed, Lives
<1> QED BY <1>3, <1>5, <1>6 DEF Inv, Types

LEMMA NextKeeps == Inv /\ [Next]_vars => Inv'
<1> SUFFICES ASSUME Inv, [Next]_vars PROVE Inv'
  OBVIOUS
<1>1. CASE UNCHANGED vars
  BY <1>1 DEF vars, Inv, Types, Counted, Lives, GuardPassed, At
<1>2. CASE Next
  BY <1>2, StopKeeps, OperatesKeeps DEF Next
<1> QED BY <1>1, <1>2

\* docs/documentation.md:5796: whatever the other sessions and the operator do,
\* the same TASK and material events of a session hold it MaxNudges times in a
\* row at most.
THEOREM HoldsAreBounded == Spec => []HeldAtMost
<1>1. Inv => HeldAtMost
  BY DEF Inv, Counted, HeldAtMost
<1> QED BY <1>1, InitInv, NextKeeps, PTL DEF Spec

\* docs/documentation.md:5739-5748: only `run on` switches the run on.
THEOREM StopsNeverEnable == Spec => StopNeverEnables
<1>1. Inv /\ [Next]_vars =>
        [(\E s \in Sessions : StopOf(s)) /\ run'.enabled => run.enabled /\ run'.epoch = run.epoch]_vars
  <2> SUFFICES ASSUME Inv, Next, NEW s \in Sessions, StopOf(s), run'.enabled
               PROVE  run.enabled /\ run'.epoch = run.epoch
    OBVIOUS
  <2>1. CASE Operates
    BY <2>1, OperatesKeeps DEF Next, StopOf
  <2>2. CASE \E t \in Sessions : Stops(t)
    BY <2>2, StopKeeps DEF Next, OnlyOff
  <2> QED BY <2>1, <2>2 DEF Next
<1> QED BY <1>1, InitInv, NextKeeps, PTL DEF Spec, StopNeverEnables

LEMMA StopEntries ==
    ASSUME Types, NEW s \in Sessions, Stops(s)
    PROVE  \A t \in Sessions : t # s => stop'[t] = stop[t]
<1>1. CASE \E flag \in BOOLEAN : Open(s, flag) \/ Weigh(s, flag)
  BY <1>1, ReadingSteps DEF Quiet
<1>2. CASE Capture(s) \/ Load(s) \/ Clean(s) \/ CleanCached(s)
  BY <1>2, ReadingSteps DEF Quiet
<1>3. CASE \/ Interrupt(s) \/ Violates(s) \/ Finalize(s) \/ Moved(s) \/ Overflow(s) \/ Fail(s)
  BY <1>3, EndingSteps DEF Quiet
<1>4. CASE Mark(s) \/ Enter(s) \/ Guard(s) \/ Commit(s)
  BY <1>4, MarkStep, EnterStep, GuardStep, CommitStep DEF Quiet
<1> QED BY <1>1, <1>2, <1>3, <1>4 DEF Stops

-----------------------------------------------------------------------------
LEMMA Domains ==
    ASSUME Types, NEW s \in Sessions
    PROVE  /\ stop[s] \in OfStop /\ board \in Tasks /\ run \in Runs /\ run.epoch \in Nat
           /\ stop[s].task \in Tasks /\ session[s].material \in Nat
BY DEF Types, OfStop, OfSession, Tasks, Runs

\* What a Stop under way has read while the run is on and a TASK is executable.
Reads(read, state) ==
    /\ read.run.enabled
    /\ read.at = "opened" \/ read.task \in Executable
    /\ read.at \in {"guard", "commit"} => read.epoch = state.epoch
    /\ read.at \in {"load", "judge"} => read.due \/ read.background
    /\ read.cached => read.at = "finalize" /\ read.background
Watched(s) ==
    stop[s].at \notin Outcomes /\ ~excused[s] =>
        run.enabled /\ board \in Executable /\ Reads(stop[s], run)

\* The Stop ends in "allowed" for a reason.
Reasoned(s) == stop[s].at \notin Outcomes /\ stop'[s].at = "allowed" => excused[s] \/ stop[s].background

\* What the history says of a Stop that is not excused after the step.
LEMMA NotExcused ==
    ASSUME History, NEW s \in Sessions, stop'[s].at \notin Outcomes, ~excused'[s], board' \in Boards
    PROVE  /\ run'.enabled /\ board' \in Executable
           /\ stop[s].at \in Outcomes \/ ~excused[s]
BY DEF History, Boards

\* A step of the operator or of another session.
LEMMA Beside ==
    ASSUME Types', History, NEW s \in Sessions, Watched(s), stop'[s] = stop[s],
           run.enabled /\ run'.enabled => run'.epoch = run.epoch
    PROVE  Watched(s)'
BY NotExcused DEF Watched, Reads, Types

\* A step of the Stop that does not end it.
LEMMA Proceeds ==
    ASSUME Types, Types', History, NEW s \in Sessions, NEW read \in OfStop, Becomes(s, read),
           read.at \notin Outcomes,
           (stop[s].at \in Outcomes \/ ~excused[s]) /\ run'.enabled => Reads(read, run')
    PROVE  Watched(s)' /\ Reasoned(s)
<1>1. stop'[s] = read /\ board' \in Boards /\ "allowed" \in Outcomes
  BY Entry DEF Types, Outcomes
<1> QED BY <1>1, NotExcused DEF Watched, Reasoned

\* A step that ends it.
LEMMA Ends ==
    ASSUME Types, NEW s \in Sessions, NEW outcome \in Outcomes, End(s, outcome),
           outcome = "allowed" => excused[s] \/ stop[s].background
    PROVE  Watched(s)' /\ Reasoned(s)
BY EndTypes DEF Watched, Reasoned

\* The ways on from a clean policy.
LEMMA OnwardReasoned ==
    ASSUME Types, Types', History, NEW s \in Sessions, Watched(s), Onward(s),
           stop[s].at \in {"finalize", "mark"}, ~stop[s].cached
    PROVE  Watched(s)' /\ Reasoned(s)
<1>0. stop[s].at \notin Outcomes /\ "allowed" \in Outcomes
  BY DEF Outcomes
<1>1. CASE ~stop[s].background /\ stop[s].run.enabled
  <2> DEFINE read == [stop[s] EXCEPT !.at = "enter", !.again = TRUE]
  <2>1. /\ read \in OfStop /\ read.at = "enter" /\ read.run = stop[s].run
        /\ read.task = stop[s].task /\ read.cached = stop[s].cached
    BY Domains DEF OfStop, Places
  <2>2. Becomes(s, read)
    BY <1>1 DEF Onward
  <2> HIDE DEF read
  <2>3. ~excused[s] => Reads(read, run') 
    BY <1>0, <2>1 DEF Watched, Reads
  <2>4. read.at \notin Outcomes
    BY <2>1 DEF Outcomes
  <2> QED BY <1>0, <2>1, <2>2, <2>3, <2>4, Proceeds
<1>2. CASE stop[s].background \/ ~stop[s].run.enabled
  <2>1. End(s, "allowed") /\ (excused[s] \/ stop[s].background)
    BY <1>0, <1>2 DEF Onward, Watched, Reads
  <2> QED BY <1>0, <2>1, Ends
<1> QED BY <1>1, <1>2

\* The steps that only read.
LEMMA ReadingWatched ==
    ASSUME Types, Types', History, NEW s \in Sessions, Watched(s), NEW flag \in BOOLEAN,
           \/ Open(s, flag) \/ Capture(s) \/ Weigh(s, flag) \/ Load(s) \/ Clean(s)
           \/ CleanCached(s)
    PROVE  Watched(s)' /\ Reasoned(s)
<1>1. run' = run /\ board' = board
  BY DEF Open, Capture, Weigh, Load, Clean, CleanCached
<1> SUFFICES \E read \in OfStop :
                /\ Becomes(s, read)
                /\ read.at \in {"opened", "captured", "load", "judge", "finalize", "enter"}
                /\ (stop[s].at \in Outcomes \/ ~excused[s]) /\ run'.enabled => Reads(read, run')
  BY Proceeds DEF Outcomes
<1>2. CASE Open(s, flag)
  <2> DEFINE read == [Idle EXCEPT !.at = "opened", !.run = run, !.background = flag]
  <2>1. read \in OfStop /\ read.at = "opened" /\ read.run = run /\ ~read.cached
    BY Domains DEF Idle, OfStop, Places, Tasks, Disabled
  <2>2. Becomes(s, read)
    BY <1>2 DEF Open
  <2> HIDE DEF read
  <2> QED BY <1>1, <2>1, <2>2 DEF Reads
<1>3. CASE Capture(s)
  <2> DEFINE read == [stop[s] EXCEPT !.at = "captured", !.task = board]
  <2>1. /\ read \in OfStop /\ read.at = "captured" /\ read.run = stop[s].run
        /\ read.task = board /\ read.cached = stop[s].cached
    BY Domains DEF OfStop, Places
  <2>2. Becomes(s, read) /\ stop[s].at = "opened" /\ stop[s].at \notin Outcomes
    BY <1>3 DEF Capture, At, Outcomes
  <2> HIDE DEF read
  <2>3. ~excused[s] => Reads(read, run')
    BY <2>1, <2>2 DEF Watched, Reads
  <2> QED BY <2>1, <2>2, <2>3
<1>4. CASE Weigh(s, flag)
  <2> DEFINE applies == stop[s].run.enabled /\ stop[s].task \in Executable
             due   == applies /\ Due(stop[s].run, session[s], flag)
             place == IF applies /\ ~due /\ ~stop[s].background THEN "enter" ELSE "load"
             read  == [stop[s] EXCEPT !.due = due, !.at = place]
  <2>1. /\ due \in BOOLEAN /\ place \in {"enter", "load"}
        /\ applies => place = "enter" \/ due \/ stop[s].background
    BY DEF Due
  <2>2. Becomes(s, read) /\ stop[s].at = "captured" /\ stop[s].at \notin Outcomes
    BY <1>4 DEF Weigh, At, Outcomes
  <2> HIDE DEF due, place
  <2>3. /\ read \in OfStop /\ read.at = place /\ read.run = stop[s].run /\ read.due = due
        /\ read.task = stop[s].task /\ read.background = stop[s].background
        /\ read.cached = stop[s].cached
    BY <2>1, Domains DEF OfStop, Places
  <2> HIDE DEF read
  <2>4. ~excused[s] => Reads(read, run')
    BY <2>1, <2>2, <2>3 DEF Watched, Reads
  <2> QED BY <2>1, <2>2, <2>3, <2>4
<1>5. CASE Clean(s)
  <2>1. PICK judged \in {stop[s].task, board} :
            Becomes(s, [stop[s] EXCEPT !.at = "finalize", !.judged = judged])
    BY <1>5 DEF Clean
  <2> DEFINE read == [stop[s] EXCEPT !.at = "finalize", !.judged = judged]
  <2>2. judged \in Tasks
    BY <2>1, Domains
  <2>3. /\ read \in OfStop /\ read.at = "finalize" /\ read.run = stop[s].run
        /\ read.task = stop[s].task /\ read.cached = stop[s].cached
    BY <2>2, Domains DEF OfStop, Places
  <2>4. stop[s].at = "judge" /\ stop[s].at \notin Outcomes /\ Becomes(s, read)
    BY <1>5, <2>1 DEF Clean, At, Outcomes
  <2> HIDE DEF read
  <2>5. ~excused[s] => Reads(read, run')
    BY <2>3, <2>4 DEF Watched, Reads
  <2> QED BY <2>3, <2>4, <2>5
<1>6. CASE CleanCached(s)
  <2> DEFINE read == [stop[s] EXCEPT !.at = "finalize", !.judged = stop[s].task, !.cached = TRUE]
  <2>1. /\ read \in OfStop /\ read.at = "finalize" /\ read.run = stop[s].run
        /\ read.task = stop[s].task /\ read.background = stop[s].background
    BY Domains DEF OfStop, Places
  <2>2. Becomes(s, read) /\ stop[s].at = "judge" /\ ~stop[s].due /\ stop[s].at \notin Outcomes
    BY <1>6 DEF CleanCached, At, Outcomes
  <2> HIDE DEF read
  <2>3. ~excused[s] => Reads(read, run')
    BY <2>1, <2>2 DEF Watched, Reads
  <2> QED BY <2>1, <2>2, <2>3
<1>7. CASE Load(s)
  <2> DEFINE noted == IF stop[s].due THEN session[s].material ELSE 0
             read  == [stop[s] EXCEPT !.at = "judge", !.material = noted]
  <2>1. noted \in Nat
    BY Domains
  <2>2. Becomes(s, read) /\ stop[s].at = "load" /\ stop[s].at \notin Outcomes
    BY <1>7 DEF Load, At, Outcomes
  <2> HIDE DEF noted
  <2>3. /\ read \in OfStop /\ read.at = "judge" /\ read.run = stop[s].run /\ read.due = stop[s].due
        /\ read.task = stop[s].task /\ read.background = stop[s].background
        /\ read.cached = stop[s].cached
    BY <2>1, Domains DEF OfStop, Places
  <2> HIDE DEF read
  <2>4. ~excused[s] => Reads(read, run')
    BY <1>1, <2>2, <2>3 DEF Watched, Reads
  <2> QED BY <2>2, <2>3, <2>4
<1> QED BY <1>2, <1>3, <1>4, <1>5, <1>6, <1>7

\* From the entry of the continuation to its write.
LEMMA ContinuationWatched ==
    ASSUME Types, Types', History, NEW s \in Sessions, Watched(s), Enter(s) \/ Guard(s)
    PROVE  Watched(s)' /\ Reasoned(s)
<1>0. run' = run /\ stop[s].at \in {"enter", "guard"} /\ stop[s].at \notin Outcomes
  BY DEF Enter, Guard, At, Outcomes
<1>1. CASE Enter(s) /\ run.enabled
  <2> DEFINE place == IF stop[s].task \in Executable THEN "guard" ELSE "commit"
             read == [stop[s] EXCEPT !.epoch = run.epoch, !.at = place]
  <2>1. place \in {"guard", "commit"} /\ run.epoch \in Nat
    BY Domains
  <2>2. Becomes(s, read)
    BY <1>1 DEF Enter
  <2> HIDE DEF place
  <2>3. /\ read \in OfStop /\ read.at = place /\ read.epoch = run.epoch /\ read.run = stop[s].run
        /\ read.task = stop[s].task /\ read.cached = stop[s].cached
    BY <2>1, Domains DEF OfStop, Places
  <2> HIDE DEF read
  <2>4. (~excused[s] => Reads(read, run')) /\ read.at \notin Outcomes
    BY <1>0, <2>1, <2>3 DEF Watched, Reads, Outcomes
  <2> QED BY <1>0, <2>2, <2>3, <2>4, Proceeds
<1>2. CASE Enter(s) /\ ~run.enabled
  <2>1. excused[s] /\ NotHandled(s)
    BY <1>0, <1>2 DEF Watched, Enter
  <2>2. CASE End(s, "allowed")
    BY <2>1, <2>2, Ends DEF Outcomes
  <2>3. CASE Go(s, "load")
    <3>1. stop'[s].at = "load" /\ board' \in Boards
      BY <2>3, GoTypes DEF Places, Types
    <3> QED BY <1>0, <2>1, <3>1, NotExcused DEF Watched, Reasoned
  <2> QED BY <2>1, <2>2, <2>3 DEF NotHandled
<1>3. CASE Guard(s)
  <2> DEFINE read == [stop[s] EXCEPT !.at = "commit", !.released = Releases(s)]
  <2>1. Releases(s) \in BOOLEAN
    BY DEF Releases, Nudges, Types, OfSession
  <2>2. /\ read \in OfStop /\ read.at = "commit" /\ read.epoch = stop[s].epoch
        /\ read.run = stop[s].run /\ read.task = stop[s].task /\ read.cached = stop[s].cached
    BY <2>1, Domains DEF OfStop, Places
  <2>3. Becomes(s, read) /\ stop[s].at = "guard"
    BY <1>3 DEF Guard, At
  <2> HIDE DEF read
  <2>4. (~excused[s] => Reads(read, run')) /\ read.at \notin Outcomes
    BY <1>0, <2>2, <2>3 DEF Watched, Reads, Outcomes
  <2> QED BY <1>0, <2>2, <2>3, <2>4, Proceeds
<1> QED BY <1>1, <1>2, <1>3

LEMMA StopWatched ==
    ASSUME Types, Types', History, NEW s \in Sessions, Watched(s), Stops(s)
    PROVE  Watched(s)' /\ Reasoned(s)
<1>1. CASE \E flag \in BOOLEAN : Open(s, flag) \/ Weigh(s, flag)
  BY <1>1, ReadingWatched
<1>2. CASE Capture(s) \/ Load(s) \/ Clean(s) \/ CleanCached(s)
  BY <1>2, ReadingWatched
<1>3. CASE Enter(s) \/ Guard(s)
  BY <1>3, ContinuationWatched
<1>4. CASE Interrupt(s) \/ Violates(s) \/ Overflow(s) \/ Fail(s)
  <2>1. PICK outcome \in {"waived", "blocked", "failed"} : End(s, outcome)
    BY <1>4 DEF Interrupt, Violates, Overflow, Fail
  <2>2. outcome \in Outcomes /\ outcome # "allowed"
    BY DEF Outcomes
  <2> QED BY <2>1, <2>2, Ends
<1>5. CASE Moved(s)
  <2>1. PICK outcome \in {"waived", "blocked", "allowed"} :
            End(s, outcome) /\ (outcome = "allowed" => stop[s].background)
    BY <1>5 DEF Moved
  <2>2. outcome \in Outcomes
    BY DEF Outcomes
  <2> QED BY <2>1, <2>2, Ends
<1>6. CASE Finalize(s)
  <2>0. stop[s].at = "finalize" /\ stop[s].at \notin Outcomes
    BY <1>6 DEF Finalize, At, Outcomes
  <2>1. CASE End(s, "blocked")
    BY <2>1, Ends DEF Outcomes
  <2>2. CASE stop[s].cached /\ End(s, "allowed")
    <3>1. excused[s] \/ stop[s].background
      BY <2>0, <2>2 DEF Watched, Reads
    <3> QED BY <2>2, <3>1, Ends DEF Outcomes
  <2>3. CASE ~stop[s].cached /\ Go(s, "mark")
    <3> DEFINE read == [stop[s] EXCEPT !.at = "mark"]
    <3>1. /\ read \in OfStop /\ read.at = "mark" /\ read.run = stop[s].run
          /\ read.task = stop[s].task /\ read.cached = stop[s].cached
      BY Domains DEF OfStop, Places
    <3>2. Becomes(s, read)
      BY <2>3 DEF Go
    <3> HIDE DEF read
    <3>3. (~excused[s] => Reads(read, run')) /\ read.at \notin Outcomes
      BY <2>0, <2>3, <3>1 DEF Watched, Reads, Outcomes
    <3> QED BY <2>0, <3>1, <3>2, <3>3, Proceeds
  <2>4. CASE ~stop[s].cached /\ Onward(s)
    BY <2>0, <2>4, OnwardReasoned
  <2> QED BY <1>6, <2>1, <2>2, <2>3, <2>4 DEF Finalize
<1>7. CASE Mark(s)
  <2>1. Onward(s) /\ stop[s].at = "mark" /\ stop[s].at \notin Outcomes
    BY <1>7 DEF Mark, At, Outcomes
  <2>2. CASE excused[s]
    <3>1. stop'[s].at \in {"enter", "allowed"} /\ board' \in Boards
      BY <2>1, OnwardTypes DEF Types
    <3>2. stop'[s].at \notin Outcomes => excused'[s]
      BY <2>1, <2>2, <3>1, NotExcused
    <3> QED BY <2>2, <3>2 DEF Watched, Reasoned
  <2>3. CASE ~excused[s]
    <3>1. ~stop[s].cached
      BY <2>1, <2>3 DEF Watched, Reads
    <3> QED BY <2>1, <3>1, OnwardReasoned
  <2> QED BY <2>2, <2>3
<1>8. CASE Commit(s)
  <2>0. stop[s].at = "commit" /\ stop[s].at \notin Outcomes
    BY <1>8 DEF Commit, At, Outcomes
  <2>1. CASE excused[s]
    <3>1. board' \in Boards
      BY DEF Types
    <3>2. stop'[s].at \notin Outcomes => excused'[s]
      BY <2>0, <2>1, <3>1, NotExcused
    <3> QED BY <2>1, <3>2 DEF Watched, Reasoned
  <2>2. CASE ~excused[s]
    <3>1. Continues(s, run) /\ stop[s].task \in Executable
      BY <2>0, <2>2 DEF Watched, Reads, Continues
    <3>2. PICK outcome \in {"released", "held", "failed"} : End(s, outcome)
      BY <1>8, <3>1 DEF Commit, EndLogged
    <3>3. outcome \in Outcomes /\ outcome # "allowed"
      BY DEF Outcomes
    <3> QED BY <3>2, <3>3, Ends
  <2> QED BY <2>1, <2>2
<1> QED BY <1>1, <1>2, <1>3, <1>4, <1>5, <1>6, <1>7, <1>8 DEF Stops

AllWatched == \A s \in Sessions : Watched(s)

LEMMA NextWatches ==
    ASSUME Inv, Inv', AllWatched, Next
    PROVE  AllWatched' /\ \A s \in Sessions : Reasoned(s)
<1>0. Types /\ Types' /\ History
  BY DEF Inv, Next
<1>1. CASE Operates
  <2>1. stop' = stop
    BY <1>0, <1>1, OperatesKeeps
  <2>2. run.enabled /\ run'.enabled => run'.epoch = run.epoch
    BY <1>1 DEF Operates, On, SwitchOff, EditBoard, Tool, Disabled
  <2>3. AllWatched'
    BY <1>0, <2>1, <2>2, Beside DEF AllWatched
  <2> QED BY <2>1, <2>3 DEF Reasoned, Outcomes
<1>2. ASSUME NEW s \in Sessions, Stops(s) PROVE AllWatched' /\ \A t \in Sessions : Reasoned(t)
  <2>1. Watched(s)' /\ Reasoned(s)
    BY <1>0, <1>2, StopWatched DEF AllWatched
  <2>2. OnlyOff
    BY <1>0, <1>2, StopKeeps
  <2>3. ASSUME NEW t \in Sessions, t # s PROVE Watched(t)' /\ Reasoned(t)
    <3>1. stop'[t] = stop[t]
      BY <1>0, <1>2, <2>3, StopEntries
    <3> QED BY <1>0, <2>2, <3>1, Beside DEF AllWatched, OnlyOff, Reasoned, Outcomes
  <2> QED BY <2>1, <2>3 DEF AllWatched
<1> QED BY <1>1, <1>2 DEF Next

\* docs/documentation.md:5753-5761: for every session, as long as the run is
\* on and a TASK can be executed, a Stop is let go for a named reason only.
THEOREM NeverJustAllowed == Spec => NoEarlyRelease
<1>1. Init => AllWatched
  BY DEF Init, AllWatched, Watched, Idle, Outcomes
<1>2. Inv /\ Inv' /\ AllWatched /\ [Next]_vars => AllWatched'
  <2>1. CASE UNCHANGED vars
    BY <2>1 DEF vars, AllWatched, Watched, Reads
  <2>2. CASE Next
    BY <2>2, NextWatches
  <2> QED BY <2>1, <2>2
<1>3. Inv /\ Inv' /\ AllWatched /\ [Next]_vars =>
        [\A s \in Sessions : stop[s].at \notin Outcomes /\ stop'[s].at = "allowed"
                                => excused[s] \/ stop[s].background]_vars
  BY NextWatches DEF Reasoned
<1> QED BY <1>1, <1>2, <1>3, InitInv, NextKeeps, PTL DEF Spec, NoEarlyRelease
=============================================================================
