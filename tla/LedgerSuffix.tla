------------------------------ MODULE LedgerSuffix ------------------------------
(***************************************************************************)
(* One call in a ledger that rotates. Files hold whole records, so the     *)
(* oldest archive ends between two records of whatever calls were running  *)
(* when its file was full; when protectActiveCallsFromRotation finds those *)
(* calls complete the archive is removed and every later reader starts     *)
(* with the rest of such a call. The module follows the call twice: as the *)
(* writer, who read it from its acceptance, and as a reader of the ledger  *)
(* after the archive is gone. Appends of other calls change neither.       *)
(***************************************************************************)
EXTENDS LedgerLifecycle

VARIABLES
    full,      \* the call as its writer knows it
    boundary,  \* the oldest archive ends before the next record of the call
    kept,      \* the call as a reader of the records behind the boundary has it
    verifies   \* BuildCallStatuses has accepted each of those records

vars == <<full, boundary, kept, verifies>>

TypeOK == /\ full \in LifecycleStates
          /\ kept \in LifecycleStates
          /\ boundary \in BOOLEAN
          /\ verifies \in BOOLEAN

Init == /\ full = Fresh(FALSE)
        /\ boundary = FALSE
        /\ kept = Fresh(TRUE)
        /\ verifies = TRUE

\* Append of a record the writer's lifecycle accepts.
Append(e) ==
    /\ AppendAccepts(full, e)
    /\ full' = Apply(full, e)
    /\ IF boundary
       THEN /\ verifies' = (verifies /\ Accepts(kept, e))
            /\ kept' = IF verifies' THEN Apply(kept, e) ELSE kept
       ELSE UNCHANGED <<kept, verifies>>
    /\ UNCHANGED boundary

\* The live file is full: the next record opens a new file.
FileFull == /\ ~boundary /\ full.started
            /\ boundary' = TRUE
            /\ UNCHANGED <<full, kept, verifies>>

Next == FileFull \/ \E e \in Events : Append(e)

Spec == Init /\ [][Next]_vars

\* protectActiveCallsFromRotation prunes a call once it is complete, and
\* TestStoreReportsDroppedHistoryAfterBoundedRotation
\* (actionledger/store_test.go:397) expects the ledger to verify after that:
\* wherever the file boundary falls in a complete call, the records behind it
\* are accepted when they are read without those before it.
PrunedCallVerifies == boundary /\ TerminalComplete(full) => verifies
=============================================================================
