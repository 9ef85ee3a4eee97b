------------------------------ MODULE RunSlots ------------------------------
(* The switch of `reconc run`, as it is stored: state.bin with two slots    *)
(* that are written in turn, each with a sequence and a checksum, and with   *)
(* the lock of the file itself (internal/runtime/agentsession). A process    *)
(* may die, a write may come out short, a sync may fail and power may go at  *)
(* every step.                                                               *)
EXTENDS Naturals, FiniteSets

CONSTANTS
    Procs,        \* commands and Stop hooks under way
    States,       \* what a repositoryRunState may be
    Zero,         \* the state of a repository without a file
    Off,          \* what `reconc run reset` writes
    None, Empty, Torn,
    MaxSequence,  \* math.MaxUint64
    MaxWrites,    \* exploration bound
    MaxFaults     \* exploration bound: errors, deaths and power losses

ASSUME StatesAssumption == Zero \in States /\ Off \in States
ASSUME SequenceAssumption == MaxSequence \in Nat /\ MaxWrites \in Nat /\ MaxFaults \in Nat
ASSUME NamesAssumption == None \notin Procs /\ Empty # Torn

Slots   == {0, 1}
\* The record of the nth write. The file does not hold nth; it tells apart the
\* writes that carry the same sequence after a reset.
Records == [seq : Nat, nth : Nat, state : States]

ASSUME ContentsAssumption == Empty \notin Records /\ Torn \notin Records

Contents == Records \cup {Empty, Torn}

VARIABLES
    slot,       \* what every process reads
    ondisk,     \* the contents of each slot that a power loss may leave
    lock,       \* the process that holds the exclusive lock, or None
    writes,     \* number of writes
    told,       \* the newest write that a caller was told of (0: none)
    abandoned,  \* a whole record was left behind without a sync
    faults

vars == <<slot, ondisk, lock, writes, told, abandoned, faults>>

-----------------------------------------------------------------------------
\* readRepositoryRunSnapshotFile: the valid slot with the higher sequence, the
\* first on a tie. A file without content is a disabled run, one without a
\* valid slot an error.
Valid(file)    == {i \in Slots : file[i] \in Records}
Newest(file)   == IF 0 \in Valid(file) /\ (1 \in Valid(file) => file[0].seq >= file[1].seq)
                  THEN 0 ELSE 1
Fresh(file)    == \A i \in Slots : file[i] = Empty
Readable(file) == Fresh(file) \/ Valid(file) # {}
Snapshot(file) == IF Fresh(file) THEN [seq |-> 0, nth |-> 0, state |-> Zero]
                  ELSE file[Newest(file)]

\* commitRepositoryRunSnapshotFile: never the slot that was read.
InFirstSlot(file) == 0
Target(file) == IF ~Fresh(file) /\ Newest(file) = 0 THEN 1 ELSE 0

Next1(file, state) == [seq |-> Snapshot(file).seq + 1, nth |-> writes + 1, state |-> state]

\* Every file that a power loss may leave.
Disks == {file \in [Slots -> ondisk[0] \cup ondisk[1]] : \A i \in Slots : file[i] \in ondisk[i]}

-----------------------------------------------------------------------------
\* WriteAt: the record, or less of it when the write is short or the process
\* dies in it. ondisk is what was there before the write.
Put(i, file, disk, record) ==
    /\ slot' = [file EXCEPT ![i] = record]
    /\ ondisk' = [disk EXCEPT ![i] = @ \cup {record, Torn}]

Spend == faults < MaxFaults /\ faults' = faults + 1

Writing(p, state) ==
    /\ lock = None /\ writes < MaxWrites
    /\ Readable(slot) /\ Snapshot(slot).seq < MaxSequence
    /\ state # Snapshot(slot).state

\* mutateRepositoryRunStateLockedFile, up to the sync, with the lock taken.
Write(p, state) ==
    /\ Writing(p, state)
    /\ Put(Target(slot), slot, ondisk, Next1(slot, state))
    /\ lock' = p /\ writes' = writes + 1
    /\ UNCHANGED <<told, abandoned, faults>>

\* A short write, or a death in the write: nothing valid is in that slot.
ShortWrite(p, state) ==
    /\ Writing(p, state) /\ Spend
    /\ slot' = [slot EXCEPT ![Target(slot)] = Torn]
    /\ ondisk' = [ondisk EXCEPT ![Target(slot)] = @ \cup {Torn}]
    /\ UNCHANGED <<lock, writes, told, abandoned>>

\* before == after: neither written nor synced, and no error. The identity of
\* the root makes the first state of a file a change.
ConfirmUnchanged(p) ==
    /\ lock = None /\ Readable(slot) /\ ~Fresh(slot)
    /\ told' = Snapshot(slot).nth
    /\ UNCHANGED <<slot, ondisk, lock, writes, abandoned, faults>>

\* The sync before the lock is released; the caller is told of the transition. It
\* is taken to keep the name of a new file, whose directory is never synced.
Sync(p) ==
    /\ lock = p
    /\ ondisk' = [i \in Slots |-> {slot[i]}]
    /\ lock' = None
    /\ told' = Snapshot(slot).nth
    /\ abandoned' = FALSE
    /\ UNCHANGED <<slot, writes, faults>>

\* The sync fails, or the process dies before it.
Abandon(p) ==
    /\ lock = p /\ Spend
    /\ lock' = None
    /\ abandoned' = TRUE
    /\ UNCHANGED <<slot, ondisk, writes, told>>

\* ResetRepositoryRun: truncate, then the first write of an empty file. What
\* was told before is given up on request.
Truncated == [i \in Slots |-> Empty]
TruncatedDisk == [i \in Slots |-> ondisk[i] \cup {Empty}]

Reset(p) ==
    /\ lock = None /\ writes < MaxWrites
    /\ Put(0, Truncated, TruncatedDisk, [seq |-> 1, nth |-> writes + 1, state |-> Off])
    /\ lock' = p /\ writes' = writes + 1 /\ told' = 0
    /\ UNCHANGED <<abandoned, faults>>

\* It dies, or fails, between the two or in the write.
ResetStops(p) ==
    /\ lock = None /\ Spend
    /\ \E content \in {Empty, Torn} :
          /\ slot' = [Truncated EXCEPT ![0] = content]
          /\ ondisk' = [TruncatedDisk EXCEPT ![0] = @ \cup {content}]
    /\ told' = 0
    /\ UNCHANGED <<lock, writes, abandoned>>

\* What was told while a record lay abandoned is told no longer.
Least(a, b) == IF a <= b THEN a ELSE b
PowerLoss ==
    /\ Spend
    /\ \E file \in Disks :
          /\ slot' = file
          /\ ondisk' = [i \in Slots |-> {file[i]}]
          /\ told' = IF ~abandoned THEN told
                     ELSE IF Readable(file) THEN Least(told, Snapshot(file).nth) ELSE 0
    /\ lock' = None /\ abandoned' = FALSE
    /\ UNCHANGED writes

Init ==
    /\ slot = Truncated /\ ondisk = [i \in Slots |-> {Empty}]
    /\ lock = None /\ writes = 0 /\ told = 0 /\ abandoned = FALSE /\ faults = 0

Next ==
    \/ \E p \in Procs : \/ \E state \in States : Write(p, state) \/ ShortWrite(p, state)
                        \/ ConfirmUnchanged(p) \/ Sync(p) \/ Abandon(p)
                        \/ Reset(p) \/ ResetStops(p)
    \/ PowerLoss

Spec == Init /\ [][Next]_vars

-----------------------------------------------------------------------------
\* docs/documentation.md:5774-5780: a torn newest slot falls back to the
\* previous valid one. Deaths, short writes and failed syncs take nothing back
\* that a caller was told, and a power loss neither, except where a record was
\* abandoned before its sync.
Holds(file) == told > 0 => Readable(file) /\ Snapshot(file).nth >= told

ToldSurvives ==
    /\ Holds(slot)
    /\ ~abandoned => \A file \in Disks : Holds(file)
=============================================================================
