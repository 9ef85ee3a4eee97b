---------------------------- MODULE VersionedLog ----------------------------
(***************************************************************************)
(* What the state file of internal/actionstate promises the processes that *)
(* share it: one log of operations, each appended at most once and only by *)
(* a process that had seen the whole log (compare-and-swap on its version).*)
(* A power failure may take away its last operations, never one that was   *)
(* acknowledged.                                                           *)
(***************************************************************************)
EXTENDS Naturals, Sequences, SequencesExt

CONSTANTS
    Procs,      \* the processes that share the state
    Ops,        \* the operations they may append
    Nothing     \* the version of a process that has not read yet

VARIABLES log, acked, seen
vars == <<log, acked, seen>>

Init == /\ log = <<>>
        /\ acked = <<>>
        /\ seen = [p \in Procs |-> Nothing]

\* p learns the version of the log.
Observe(p) == /\ seen' = [seen EXCEPT ![p] = log]
              /\ UNCHANGED <<log, acked>>

Extend(p, op) == /\ seen[p] = log
                  /\ op \notin Range(log)
                  /\ log' = Append(log, op)
                  /\ UNCHANGED <<acked, seen>>

\* p is told that its operation is in the log for good.
Acknowledge(p) == /\ seen' = [seen EXCEPT ![p] = log]
                  /\ acked' = log
                  /\ UNCHANGED log

PowerLoss == /\ log' \in {SubSeq(log, 1, n) : n \in Len(acked) .. Len(log)}
             /\ seen' = [p \in Procs |-> Nothing]
             /\ UNCHANGED acked

Next == \/ \E p \in Procs : \/ Observe(p) \/ Acknowledge(p)
                            \/ \E op \in Ops : Extend(p, op)
        \/ PowerLoss

Spec == Init /\ [][Next]_vars
=============================================================================
