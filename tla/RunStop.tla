------------------------------ MODULE RunStop ------------------------------
(* The Stop hook of internal/runtime/agentsession while `reconc run` holds   *)
(* an agent at its TASK. Hooks of several sessions, the agents' tools, the   *)
(* operator's switch and edits of the TASK board interleave: a Stop reads    *)
(* the switch, the board and its session's state at different times and acts *)
(* on them later. The switch itself is one atomic state here (see RunSlots). *)
EXTENDS Naturals

CONSTANTS
    Sessions,
    Strict,           \* sessions whose host never releases a Stop
    Executable,       \* boards with a TASK to continue or claim
    Terminal,         \* boards that are blocked, complete or absent
    Complete,
    None,
    MaxNudges,        \* no-progress Stops until a release (6)
    CheckpointEvents, \* repositoryRunCheckpointEvents (64)
    MaxMaterial,      \* exploration bound: material events of a session
    MaxEpochs         \* exploration bound: times the run is switched on

ASSUME StopAssumption ==
    /\ Strict \subseteq Sessions /\ Complete \in Terminal
    /\ Executable \cap Terminal = {} /\ None \notin Executable \cup Terminal
    /\ MaxNudges \in Nat \ {0} /\ CheckpointEvents \in Nat \ {0}

VARIABLES
    board,      \* what captureStopTaskSnapshot would read now
    run,        \* repositoryRunState
    epochs,     \* the last EnabledAt
    session,    \* what the external state of each session keeps
    stop,       \* each session's Stop: where it is and what it has read
    \* History, read by no action.
    excused,    \* during this Stop the run was off or nothing was executable
    held        \* follow-ups in a row for the same board, events and epoch

vars == <<board, run, epochs, session, stop, excused, held>>

Boards   == Executable \cup Terminal
\* What the host is told: "held" is the continuation prompt, "released" the
\* no-progress release, "waived" a release by an interrupt or in spite of
\* violations, "failed" an error.
Outcomes == {"held", "blocked", "released", "waived", "allowed", "failed"}

Disabled(reason) == [enabled |-> FALSE, epoch |-> 0, checkpoint |-> 0, reason |-> reason]
Idle == [at |-> "allowed", run |-> Disabled(None), task |-> None, due |-> FALSE,
         judged |-> None, cached |-> FALSE, material |-> 0, again |-> FALSE, epoch |-> 0,
         released |-> FALSE, background |-> FALSE]

At(s, place)     == stop[s].at = place
Becomes(s, read) == stop' = [stop EXCEPT ![s] = read]
Go(s, place)     == Becomes(s, [stop[s] EXCEPT !.at = place])
End(s, outcome)  == Becomes(s, [Idle EXCEPT !.at = outcome])

-----------------------------------------------------------------------------
\* SetRepositoryRun. `on` leaves an enabled run as it is.
On ==
    /\ ~run.enabled /\ epochs < MaxEpochs
    /\ epochs' = epochs + 1
    /\ run' = [enabled |-> TRUE, epoch |-> epochs + 1, checkpoint |-> 0, reason |-> None]
    /\ UNCHANGED <<board, session, stop>>

SwitchOff ==
    /\ run' = Disabled("command_off")
    /\ UNCHANGED <<board, epochs, session, stop>>

\* The TASK board is edited, by a task command or by hand.
EditBoard ==
    /\ board' \in Boards
    /\ UNCHANGED <<run, epochs, session, stop>>

\* RecordMaterialEvent: a write or a command of the agent.
Tool(s) ==
    /\ session[s].material < MaxMaterial
    /\ session' = [session EXCEPT ![s].material = @ + 1]
    /\ UNCHANGED <<board, run, epochs, stop>>

-----------------------------------------------------------------------------
\* The run state is read first, the board after it.
Open(s, background) ==
    /\ stop[s].at \in Outcomes
    /\ Becomes(s, [Idle EXCEPT !.at = "opened", !.run = run, !.background = background])
    /\ UNCHANGED <<board, run, epochs, session>>

Interrupt(s) ==
    /\ At(s, "opened") /\ End(s, "waived")
    /\ UNCHANGED <<board, run, epochs, session>>

Capture(s) ==
    /\ At(s, "opened")
    /\ Becomes(s, [stop[s] EXCEPT !.at = "captured", !.task = board])
    /\ UNCHANGED <<board, run, epochs, session>>

\* repoRunPolicyCheckpointDue; late: the last command failed, or the interval
\* since the last checkpoint is over.
Due(state, own, late) ==
    /\ state.enabled /\ own.material > state.checkpoint
    /\ own.material - state.checkpoint >= CheckpointEvents \/ late

\* An executable TASK goes straight to the continuation, unless the policy is
\* due or background work keeps the session.
Weigh(s, late) ==
    LET applies == stop[s].run.enabled /\ stop[s].task \in Executable
        due     == applies /\ Due(stop[s].run, session[s], late)
    IN  /\ At(s, "captured")
        /\ Becomes(s, [stop[s] EXCEPT !.due = due,
              !.at = IF applies /\ ~due /\ ~stop[s].background THEN "enter" ELSE "load"])
        /\ UNCHANGED <<board, run, epochs, session>>

\* The session's state is read again before the policy is evaluated. A checkpoint
\* that is due will write the material events of now.
Load(s) ==
    /\ At(s, "load")
    /\ Becomes(s, [stop[s] EXCEPT !.at = "judge",
                      !.material = IF stop[s].due THEN session[s].material ELSE 0])
    /\ UNCHANGED <<board, run, epochs, session>>

\* The policy holds. runStopPolicyCheckLockedAttempt judges the board that was
\* captured, or captures it anew when its inputs moved.
Clean(s) ==
    /\ At(s, "judge")
    /\ \E judged \in {stop[s].task, board} :
          Becomes(s, [stop[s] EXCEPT !.at = "finalize", !.judged = judged])
    /\ UNCHANGED <<board, run, epochs, session>>

\* The clean report of an earlier Stop, for a host that is already continuing.
CleanCached(s) ==
    /\ At(s, "judge") /\ ~stop[s].due /\ s \notin Strict
    /\ Becomes(s, [stop[s] EXCEPT !.at = "finalize", !.judged = stop[s].task, !.cached = TRUE])
    /\ UNCHANGED <<board, run, epochs, session>>

\* Violations block, and are waived for a host that is already continuing, or
\* that was told the same before.
Violates(s) ==
    /\ At(s, "judge")
    /\ \/ End(s, "blocked")
       \/ s \notin Strict /\ End(s, "waived")
    /\ UNCHANGED <<board, run, epochs, session>>

-----------------------------------------------------------------------------
\* After a clean policy: wait for background work, or continue the TASK.
DoneWhenDue(s) ==
    IF ~stop[s].background /\ stop[s].run.enabled /\ ~stop[s].due
    THEN Becomes(s, [stop[s] EXCEPT !.at = "enter", !.again = TRUE])
    ELSE End(s, "allowed")
Onward(s) ==
    IF ~stop[s].background /\ stop[s].run.enabled
    THEN Becomes(s, [stop[s] EXCEPT !.at = "enter", !.again = TRUE])
    ELSE End(s, "allowed")

\* finalizeCleanStop: the board is captured again, and a completion that is not
\* committed is blocked.
Finalize(s) ==
    /\ At(s, "finalize") /\ board = stop[s].judged
    /\ \/ board = Complete /\ End(s, "blocked")
       \/ stop[s].cached /\ End(s, "allowed")
       \/ ~stop[s].cached /\ stop[s].due /\ Go(s, "mark")
       \/ ~stop[s].cached /\ ~stop[s].due /\ Onward(s)
    /\ UNCHANGED <<board, run, epochs, session>>

\* The inputs of the policy moved in every evaluation, or by now the board has, or
\* what Git shows of the work tree: unverifiable.
Moved(s) ==
    /\ stop[s].at \in {"judge", "finalize"}
    /\ \/ stop[s].background /\ End(s, "allowed")
       \/ ~stop[s].background /\ End(s, "blocked")
       \/ ~stop[s].background /\ s \notin Strict /\ End(s, "waived")
    /\ UNCHANGED <<board, run, epochs, session>>

\* markRepoPolicyCheckpoint
Mark(s) ==
    /\ At(s, "mark")
    /\ run' = IF run.enabled THEN [run EXCEPT !.checkpoint = stop[s].material] ELSE run
    /\ Onward(s)
    /\ UNCHANGED <<board, epochs, session>>

-----------------------------------------------------------------------------
\* runRepositoryContinuation. When it does not handle a Stop, the policy is
\* evaluated, or the Stop is allowed when it has been.
NotHandled(s) == IF stop[s].again THEN End(s, "allowed") ELSE Go(s, "load")

Enter(s) ==
    /\ At(s, "enter")
    /\ IF run.enabled
       THEN Becomes(s, [stop[s] EXCEPT
               !.epoch = run.epoch,
               !.at    = IF stop[s].task \in Executable THEN "guard" ELSE "commit"])
       ELSE NotHandled(s)
    /\ UNCHANGED <<board, run, epochs, session>>

\* The guard of the session against a loop without progress.
Nudges(s) ==
    LET own == session[s] IN
    IF /\ s \notin Strict /\ own.epoch = stop[s].epoch /\ own.awaiting
       /\ own.progress = <<stop[s].task, own.material>>
    THEN own.nudges + 1 ELSE 0
Guarded(s, released, nudges) ==
    [session[s] EXCEPT !.nudges = IF released THEN 0 ELSE nudges, !.awaiting = ~released,
                       !.progress = <<stop[s].task, session[s].material>>, !.epoch = stop[s].epoch]

ReleasesLate(s) == s \notin Strict /\ Nudges(s) > MaxNudges
Releases(s)     == s \notin Strict /\ Nudges(s) >= MaxNudges

Guard(s) ==
    /\ At(s, "guard")
    /\ session' = [session EXCEPT ![s] = Guarded(s, Releases(s), Nudges(s))]
    /\ Becomes(s, [stop[s] EXCEPT !.at = "commit", !.released = Releases(s)])
    /\ UNCHANGED <<board, run, epochs>>

\* The transition under the lock, on the state as it is by then.
AlwaysContinues(s, state) == TRUE
Continues(s, state) == state.enabled /\ state.epoch = stop[s].epoch

\* The record of the decision is appended after the write, and may fail.
EndLogged(s, outcome) == End(s, outcome) \/ End(s, "failed")

Commit(s) ==
    /\ At(s, "commit")
    /\ IF ~Continues(s, run)
       THEN NotHandled(s) /\ UNCHANGED run
       ELSE IF stop[s].task \notin Executable
       THEN EndLogged(s, "allowed") /\ run' = Disabled(stop[s].task)
       ELSE /\ EndLogged(s, IF stop[s].released THEN "released" ELSE "held")
            /\ run' = [run EXCEPT !.enabled = TRUE, !.reason = None]
    /\ UNCHANGED <<board, epochs, session>>

\* An evidence chain that overflowed holds an autonomous session for good.
Overflow(s) ==
    /\ stop[s].at \in {"captured", "load"}
    /\ End(s, IF stop[s].run.enabled THEN "blocked" ELSE "waived")
    /\ UNCHANGED <<board, run, epochs, session>>

\* A state that cannot be read, locked or written.
Fail(s) ==
    /\ stop[s].at \notin Outcomes /\ End(s, "failed")
    /\ UNCHANGED <<board, run, epochs, session>>

-----------------------------------------------------------------------------
Nothing == [progress |-> <<None, 0>>, epoch |-> 0, times |-> 0]

Repeats(s) == held[s].progress = session[s].progress /\ held[s].epoch = stop[s].epoch
Answered(s, outcomes) == At(s, "commit") /\ stop'[s].at \in outcomes
Delivered(s) ==
    IF Answered(s, {"held"}) /\ s \notin Strict
    THEN [progress |-> session[s].progress, epoch |-> stop[s].epoch,
          times |-> IF Repeats(s) THEN held[s].times + 1 ELSE 1]
    ELSE IF Answered(s, {"released", "failed"}) THEN Nothing
    ELSE held[s]

History ==
    /\ excused' = [s \in Sessions |->
          /\ stop'[s].at \notin Outcomes
          /\ \/ excused[s] /\ stop[s].at \notin Outcomes
             \/ ~run'.enabled \/ board' \in Terminal]
    /\ held' = [s \in Sessions |-> Delivered(s)]

Init ==
    /\ board \in Boards /\ run = Disabled(None) /\ epochs = 0
    /\ session = [s \in Sessions |-> [material |-> 0, nudges |-> 0,
                     awaiting |-> FALSE, progress |-> <<None, 0>>, epoch |-> 0]]
    /\ stop = [s \in Sessions |-> Idle]
    /\ excused = [s \in Sessions |-> FALSE]
    /\ held = [s \in Sessions |-> Nothing]

Stops(s) ==
    \/ \E flag \in BOOLEAN : Open(s, flag) \/ Weigh(s, flag)
    \/ Interrupt(s) \/ Capture(s) \/ Load(s) \/ Clean(s) \/ CleanCached(s) \/ Violates(s)
    \/ Finalize(s) \/ Moved(s) \/ Mark(s) \/ Enter(s) \/ Guard(s) \/ Commit(s)
    \/ Overflow(s) \/ Fail(s)

Operates ==
    \/ On \/ SwitchOff \/ EditBoard
    \/ \E s \in Sessions : Tool(s)

Next == (Operates \/ \E s \in Sessions : Stops(s)) /\ History

Spec == Init /\ [][Next]_vars

-----------------------------------------------------------------------------
StopOf(s) == stop'[s] # stop[s]

\* docs/documentation.md:5739-5748: a Stop never switches the run on, nor
\* into another epoch, however late it writes.
StopNeverEnables ==
    [][(\E s \in Sessions : StopOf(s)) /\ run'.enabled => run.enabled /\ run'.epoch = run.epoch]_vars

\* docs/documentation.md:5796: "After six no-progress Stops, repository mode
\* releases one invocation". The same TASK and material events hold a session
\* no more often in a row, whatever other sessions and the operator do. A Stop
\* that fails after its guard has used up the release begins a new row.
HeldAtMost == \A s \in Sessions \ Strict : held[s].times <= MaxNudges

\* docs/documentation.md:5753-5761: with the run on and an executable TASK all
\* along, a Stop that ends is held, blocked, waived or released after the
\* nudges, or waits for background work: it is never just allowed.
NoEarlyRelease ==
    [][\A s \in Sessions :
          stop[s].at \notin Outcomes /\ stop'[s].at = "allowed" => excused[s] \/ stop[s].background]_vars

=============================================================================
