-------------------------- MODULE StateStoreProofs --------------------------
(***************************************************************************)
(* Proofs about StateStore for any set of processes, operations and number *)
(* of faults: recovery never finds the two files diverged, an acknowledged *)
(* write survives every power failure, and the store implements the atomic *)
(* log of VersionedLog.                                                    *)
(*                                                                         *)
(* The inductive invariant says what each step of the publication protocol *)
(* may rely on while it holds the lock, and that every disk a power failure*)
(* may leave lies between the acknowledged log and the visible one.        *)
(***************************************************************************)
EXTENDS StateStore, SequenceTheorems, TLAPS

\* The exclusive lock excludes every other holder of the lock.
LockInv == \A p \in Exclusive : \A q \in Exclusive \cup Shared : p = q

\* What holds while p is at a label.
AtTransaction(p) == /\ want[p] \in Ops /\ seen[p] \in Versions
                    /\ disk.state = seen[p]
                    /\ disk.transaction = [before |-> seen[p], after |-> Append(seen[p], want[p])]
LabelInv(p) ==
    /\ pc[p] \in {"load", "cleaned", "operate", "journal", "finished"} => ~Transacting
    /\ pc[p] = "journal" => /\ want[p] \in Ops
                            /\ seen[p] = disk.state
                            /\ ~Applied(p)
    /\ pc[p] \in {"journaled", "publish"} => AtTransaction(p)
    /\ pc[p] = "restate" => Transacting
    /\ pc[p] \in {"restated", "clean", "published", "finish"} =>
          Transacting /\ disk.state = disk.transaction.after

\* A transaction leads from one of its two states to the other by one operation.
DiskInv(d) ==
    d.transaction # Nothing =>
        /\ \E op \in Ops : d.transaction.after = Append(d.transaction.before, op)
        /\ d.state \in {d.transaction.before, d.transaction.after}

\* A power failure loses unacknowledged operations at most.
SurvivorInv(d) == /\ DiskInv(d)
                  /\ IsPrefix(acked, LogOf(d))
                  /\ IsPrefix(LogOf(d), LogOf(disk))

Types == /\ survivors \subseteq Disks
         /\ disk \in survivors
         /\ pc \in [Procs -> Labels]
         /\ want \in [Procs -> Ops \cup {Nothing}]
         /\ seen \in [Procs -> Versions \cup {Nothing}]
         /\ acked \in Versions
         /\ faults \in 0 .. MaxFaults

StoreInv == /\ Types
            /\ LockInv
            /\ \A p \in Procs : LabelInv(p)
            /\ \A d \in survivors : SurvivorInv(d)
-----------------------------------------------------------------------------
(* Prefixes.                                                               *)

\* A sequence is a prefix of itself.
LEMMA PrefixReflexive == ASSUME NEW S, NEW s \in Seq(S) PROVE IsPrefix(s, s)
BY DEF IsPrefix

\* The prefix order is transitive.
LEMMA PrefixTransitive ==
    ASSUME NEW S, NEW s \in Seq(S), NEW t \in Seq(S), NEW u \in Seq(S),
           IsPrefix(s, t), IsPrefix(t, u)
    PROVE  IsPrefix(s, u)
<1>1. Len(s) \in Nat /\ Len(t) \in Nat /\ Len(u) \in Nat
  OBVIOUS
<1>2. Len(s) <= Len(t) /\ Len(t) <= Len(u)
  BY DEF IsPrefix
<1>3. \A i \in 1 .. Len(s) : s[i] = t[i]
  <2>1. SubSeq(s, 1, Len(s)) = SubSeq(t, 1, Len(s))
    BY DEF IsPrefix
  <2> TAKE i \in 1 .. Len(s)
  <2>2. SubSeq(s, 1, Len(s))[i] = s[i] /\ SubSeq(t, 1, Len(s))[i] = t[i]
    BY <1>1, <1>2
  <2> QED  BY <2>1, <2>2
<1>4. \A i \in 1 .. Len(t) : t[i] = u[i]
  <2>1. SubSeq(t, 1, Len(t)) = SubSeq(u, 1, Len(t))
    BY DEF IsPrefix
  <2> TAKE i \in 1 .. Len(t)
  <2>2. SubSeq(t, 1, Len(t))[i] = t[i] /\ SubSeq(u, 1, Len(t))[i] = u[i]
    BY <1>1, <1>2
  <2> QED  BY <2>1, <2>2
<1>5. SubSeq(s, 1, Len(s)) = SubSeq(u, 1, Len(s))
  BY <1>1, <1>2, <1>3, <1>4
<1> QED  BY <1>1, <1>2, <1>5 DEF IsPrefix

\* Appending to a sequence keeps it as a prefix.
LEMMA PrefixOfAppend ==
    ASSUME NEW S, NEW s \in Seq(S), NEW e \in S
    PROVE  IsPrefix(s, Append(s, e))
<1>1. Len(Append(s, e)) = Len(s) + 1 /\ Len(s) \in Nat
  OBVIOUS
<1>2. SubSeq(s, 1, Len(s)) = SubSeq(Append(s, e), 1, Len(s))
  OBVIOUS
<1> QED  BY <1>1, <1>2 DEF IsPrefix

\* A prefix is an initial segment.
LEMMA PrefixIsSegment ==
    ASSUME NEW S, NEW s \in Seq(S), NEW t \in Seq(S), IsPrefix(s, t)
    PROVE  s = SubSeq(t, 1, Len(s)) /\ Len(s) \in Nat /\ Len(s) <= Len(t)
<1>1. SubSeq(s, 1, Len(s)) = s /\ Len(s) \in Nat
  OBVIOUS
<1> QED  BY <1>1 DEF IsPrefix

-----------------------------------------------------------------------------
(* The invariant is inductive.                                             *)

\* The log of a well-typed disk is a sequence of operations.
LEMMA LogType == ASSUME NEW d \in Disks PROVE LogOf(d) \in Versions
BY DEF Disks, Transactions, LogOf

\* A written transaction is one, and is not the absence of one.
LEMMA TransactionType ==
    ASSUME NEW s \in Seq(Ops), NEW op \in Ops
    PROVE  LET t == [before |-> s, after |-> Append(s, op)]
           IN  t \in Transactions /\ t # Nothing
<1> DEFINE t == [before |-> s, after |-> Append(s, op)]
<1>1. Append(s, op) \in Seq(Ops)
  OBVIOUS
<1>2. t \in [before : Seq(Ops), after : Seq(Ops)]
  BY <1>1
<1>3. t # Nothing
  <2> HIDE DEF t
  <2> QED  BY <1>2, NothingAssumption, Zenon
<1> QED  BY <1>2, <1>3 DEF Transactions, Versions

\* While p holds the exclusive lock, every other operation is outside of it.
LEMMA OthersOutside ==
    ASSUME StoreInv, NEW p \in Exclusive, NEW q \in Procs, q # p
    PROVE  pc[q] \in {"idle", "share", "lock"}
BY DEF StoreInv, Types, LockInv, Exclusive, Shared, Labels, LockedLabels

\* A step of p that leaves the files alone.
LEMMA QuietStep ==
    ASSUME StoreInv, Types', NEW p \in Procs, NEW l \in Labels, To(p, l),
           UNCHANGED <<disk, survivors, acked>>,
           \A q \in Procs \ {p} : want'[q] = want[q] /\ seen'[q] = seen[q],
           l \in LockedLabels => \/ pc[p] \in LockedLabels
                                 \/ Exclusive = {} /\ Shared = {},
           l \in {"check", "load"} => pc[p] \in {"check", "load"} \/ Exclusive = {},
           LabelInv(p)'
    PROVE  StoreInv'
<1>1. /\ pc'[p] = l
      /\ \A q \in Procs \ {p} : pc'[q] = pc[q]
  BY DEF To, StoreInv, Types
<1>2. LockInv'
  BY <1>1 DEF StoreInv, LockInv, Exclusive, Shared, LockedLabels
<1>3. \A q \in Procs : LabelInv(q)'
  <2> SUFFICES ASSUME NEW q \in Procs, q # p PROVE LabelInv(q)'
    OBVIOUS
  <2>1. pc'[q] = pc[q] /\ want'[q] = want[q] /\ seen'[q] = seen[q] /\ disk' = disk
    BY <1>1
  <2>2. LabelInv(q)
    BY DEF StoreInv
  <2> QED  BY <2>1, <2>2 DEF LabelInv, AtTransaction, Applied, Transacting
<1>4. \A d \in survivors' : SurvivorInv(d)'
  BY DEF StoreInv, SurvivorInv, DiskInv, LogOf
<1> QED  BY <1>2, <1>3, <1>4 DEF StoreInv

\* A step of the lock holder p that changes a file.
LEMMA ChangingStep ==
    ASSUME StoreInv, NEW p \in Exclusive, NEW l \in LockedLabels, To(p, l),
           NEW d \in Disks, Change(d), UNCHANGED <<want, seen, acked, faults>>,
           DiskInv(d), IsPrefix(LogOf(disk), LogOf(d)), LabelInv(p)'
    PROVE  StoreInv'
<1>0. p \in Procs
  BY DEF Exclusive
<1>1. /\ pc'[p] = l
      /\ \A q \in Procs \ {p} : pc'[q] = pc[q]
  BY <1>0 DEF To, StoreInv, Types
<1>2. Types'
  BY <1>0 DEF StoreInv, Types, To, Change, Labels
<1>3. LockInv'
  BY <1>0, <1>1 DEF StoreInv, LockInv, Exclusive, Shared, LockedLabels
<1>4. \A q \in Procs : LabelInv(q)'
  <2> SUFFICES ASSUME NEW q \in Procs, q # p PROVE LabelInv(q)'
    OBVIOUS
  <2>1. pc'[q] \in {"idle", "share", "lock"}
    BY <1>1, OthersOutside
  <2> QED  BY <2>1 DEF LabelInv
<1>5. \A e \in survivors' : SurvivorInv(e)'
  <2> SUFFICES ASSUME NEW e \in survivors \cup {d} PROVE SurvivorInv(e)'
    BY DEF Change
  <2>1. disk' = d /\ acked' = acked
    BY DEF Change
  <2>2. /\ disk \in Disks /\ e \in Disks /\ acked \in Seq(Ops)
        /\ SurvivorInv(disk)
    BY DEF StoreInv, Types, Versions
  <2>3. LogOf(disk) \in Seq(Ops) /\ LogOf(e) \in Seq(Ops) /\ LogOf(d) \in Seq(Ops)
    BY <2>2, LogType DEF Versions
  <2>4. DiskInv(e) /\ IsPrefix(acked, LogOf(e)) /\ IsPrefix(LogOf(e), LogOf(d))
    <3>1. CASE e = d
      <4>1. IsPrefix(acked, LogOf(disk))
        BY <2>2 DEF SurvivorInv
      <4> QED  BY <3>1, <4>1, <2>2, <2>3, PrefixTransitive, PrefixReflexive
    <3>2. CASE e \in survivors
      <4>1. SurvivorInv(e)
        BY <3>2 DEF StoreInv
      <4> QED  BY <4>1, <2>2, <2>3, PrefixTransitive DEF SurvivorInv
    <3> QED  BY <3>1, <3>2
  <2> QED  BY <2>1, <2>4 DEF SurvivorInv, DiskInv, LogOf
<1> QED  BY <1>2, <1>3, <1>4, <1>5 DEF StoreInv

\* Syncing the directory leaves the visible disk as the only survivor.
LEMMA SyncingStep ==
    ASSUME StoreInv, Types', NEW p \in Exclusive, NEW l \in Labels, To(p, l),
           l \in LockedLabels \cup {"idle"}, Synced, UNCHANGED <<disk, want>>,
           \A q \in Procs \ {p} : seen'[q] = seen[q],
           acked' \in {acked, LogOf(disk)}, LabelInv(p)'
    PROVE  StoreInv'
<1>0. p \in Procs
  BY DEF Exclusive
<1>1. /\ pc'[p] = l
      /\ \A q \in Procs \ {p} : pc'[q] = pc[q]
  BY <1>0 DEF To, StoreInv, Types
<1>2. LockInv'
  BY <1>0, <1>1 DEF StoreInv, LockInv, Exclusive, Shared, LockedLabels
<1>3. \A q \in Procs : LabelInv(q)'
  <2> SUFFICES ASSUME NEW q \in Procs, q # p PROVE LabelInv(q)'
    OBVIOUS
  <2>1. pc'[q] \in {"idle", "share", "lock"}
    BY <1>1, OthersOutside
  <2> QED  BY <2>1 DEF LabelInv
<1>4. \A e \in survivors' : SurvivorInv(e)'
  <2> SUFFICES SurvivorInv(disk)'
    BY DEF Synced
  <2>1. disk \in Disks /\ LogOf(disk) \in Seq(Ops) /\ SurvivorInv(disk)
    BY LogType DEF StoreInv, Types, Versions
  <2>2. IsPrefix(acked', LogOf(disk))
    BY <2>1, PrefixReflexive DEF SurvivorInv
  <2> QED  BY <2>1, <2>2 DEF SurvivorInv, DiskInv, LogOf
<1> QED  BY <1>2, <1>3, <1>4 DEF StoreInv

\* The initial state meets the invariant.
LEMMA StoreInvInit == Init => StoreInv
<1> SUFFICES ASSUME Init PROVE StoreInv
  OBVIOUS
<1>1. Types
  BY BoundAssumption DEF Init, Types, Disks, Versions, Labels
<1>2. LockInv
  BY DEF Init, LockInv, Exclusive, LockedLabels
<1>3. \A p \in Procs : LabelInv(p)
  BY DEF Init, LabelInv
<1>4. \A d \in survivors : SurvivorInv(d)
  <2>1. LogOf(disk) = <<>> /\ acked = <<>> /\ survivors = {disk}
    BY DEF Init, LogOf
  <2>2. IsPrefix(<<>>, <<>>)
    BY DEF IsPrefix
  <2> QED  BY <2>1, <2>2 DEF Init, SurvivorInv, DiskInv
<1> QED  BY <1>1, <1>2, <1>3, <1>4 DEF StoreInv

\* The steps of a reader keep the invariant.
LEMMA ReaderStep ==
    ASSUME StoreInv, NEW p \in Procs,
           BeginRead(p) \/ AcquireShared(p) \/ CheckRecovery(p) \/ Load(p)
    PROVE  StoreInv'
<1>1. CASE BeginRead(p)
  <2>1. Types' /\ LabelInv(p)'
    BY <1>1 DEF BeginRead, From, To, StoreInv, Types, Labels, LabelInv
  <2> QED  BY <1>1, <2>1, QuietStep, "share" \in Labels DEF BeginRead, From, Labels, LockedLabels, StoreInv, Types
<1>2. CASE AcquireShared(p)
  <2>1. Types' /\ LabelInv(p)'
    BY <1>2 DEF AcquireShared, From, To, StoreInv, Types, Labels, LabelInv
  <2> QED  BY <1>2, <2>1, QuietStep, "check" \in Labels DEF AcquireShared, From, Labels, LockedLabels
<1>3. CASE CheckRecovery(p)
  <2> DEFINE l == IF Transacting THEN "lock" ELSE "load"
  <2>1. Types' /\ LabelInv(p)' /\ l \in Labels
    BY <1>3 DEF CheckRecovery, From, To, StoreInv, Types, Labels, LabelInv, Transacting
  <2> QED  BY <1>3, <2>1, QuietStep DEF CheckRecovery, From, Labels, LockedLabels
<1>4. CASE Load(p)
  <2>1. Types' /\ LabelInv(p)'
    BY <1>4 DEF Load, From, To, StoreInv, Types, Disks, Labels, LabelInv
  <2> QED  BY <1>4, <2>1, QuietStep, "idle" \in Labels DEF Load, From, Labels, LockedLabels, StoreInv, Types
<1> QED  BY <1>1, <1>2, <1>3, <1>4

\* The steps of a writer that leave the files alone keep the invariant.
LEMMA WriterStep ==
    ASSUME StoreInv, NEW p \in Procs,
           \/ \E op \in Ops : BeginWrite(p, op)
           \/ Acquire(p) \/ Recover(p) \/ Operate(p) \/ Interrupt(p)
    PROVE  StoreInv'
<1>1. CASE \E op \in Ops : BeginWrite(p, op)
  <2>1. Types' /\ LabelInv(p)'
    BY <1>1 DEF BeginWrite, From, To, StoreInv, Types, Labels, LabelInv
  <2> QED  BY <1>1, <2>1, QuietStep, "lock" \in Labels DEF BeginWrite, From, Labels, LockedLabels, StoreInv, Types
<1>2. CASE Acquire(p)
  <2>1. Types' /\ LabelInv(p)'
    BY <1>2 DEF Acquire, From, To, StoreInv, Types, Labels, LockedLabels, LabelInv
  <2> QED  BY <1>2, <2>1, QuietStep, "recover" \in Labels DEF Acquire, From, Labels, LockedLabels
<1>3. CASE Recover(p)
  <2>1. SurvivorInv(disk)
    BY DEF StoreInv, Types
  <2>2. ~Diverged
    BY <2>1 DEF Diverged, SurvivorInv, DiskInv, Transacting
  <2> DEFINE l == IF ~Transacting THEN "operate"
                  ELSE IF disk.state = disk.transaction.after THEN "clean" ELSE "restate"
  <2>3. To(p, l) /\ pc[p] = "recover"
    BY <1>3, <2>2 DEF Recover, From, To
  <2>4. Types' /\ LabelInv(p)' /\ l \in Labels
    BY <1>3, <2>3 DEF Recover, To, StoreInv, Types, Labels, LockedLabels, LabelInv, Transacting
  <2> QED  BY <1>3, <2>3, <2>4, QuietStep DEF Recover, Labels, LockedLabels
<1>4. CASE Operate(p)
  <2> DEFINE writes == want[p] # Nothing /\ seen[p] = disk.state /\ ~Applied(p)
             l == IF writes THEN "journal" ELSE "idle"
  <2>1. To(p, l) /\ pc[p] = "operate" /\ l \in Labels
    BY <1>4 DEF Operate, From, To, Labels, LockedLabels
  <2>2. Types'
    BY <1>4, <2>1 DEF Operate, To, StoreInv, Types, Disks
  <2>3. ~Transacting
    BY <2>1 DEF StoreInv, LabelInv
  <2>4. LabelInv(p)'
    BY <1>4, <2>1, <2>3 DEF Operate, To, StoreInv, Types, LabelInv, Transacting, Applied
  <2> QED  BY <1>4, <2>1, <2>2, <2>4, QuietStep DEF Operate, LockedLabels, StoreInv, Types
<1>5. CASE Interrupt(p)
  <2>1. Types' /\ LabelInv(p)'
    BY <1>5, BoundAssumption DEF Interrupt, From, To, StoreInv, Types, Labels, LabelInv
  <2> QED  BY <1>5, <2>1, QuietStep, "idle" \in Labels DEF Interrupt, Labels, LockedLabels
<1> QED  BY <1>1, <1>2, <1>3, <1>4, <1>5

\* Restating, journaling, publishing and removing keep the invariant.
LEMMA FileStep ==
    ASSUME StoreInv, NEW p \in Procs,
           Restate(p) \/ Journal(p) \/ Publish(p) \/ RemoveTransaction(p)
    PROVE  StoreInv'
<1>0. /\ disk \in Disks /\ DiskInv(disk) /\ LabelInv(p)
      /\ LogOf(disk) \in Seq(Ops)
  BY LogType DEF StoreInv, Types, SurvivorInv, Versions
<1>1. CASE Restate(p)
  <2> DEFINE d == [disk EXCEPT !.state = disk.transaction.after]
  <2>1. Transacting /\ p \in Exclusive
    BY <1>0, <1>1 DEF Restate, From, LabelInv, Exclusive, LockedLabels
  <2>2. d \in Disks /\ DiskInv(d) /\ LogOf(d) = LogOf(disk)
    BY <1>0, <2>1 DEF Disks, Transactions, DiskInv, LogOf, Transacting
  <2>3. Change(d) /\ To(p, "restated") /\ UNCHANGED <<want, seen, acked, faults>>
    BY <1>1 DEF Restate
  <2>4. LabelInv(p)'
    BY <1>0, <2>1, <2>3 DEF To, Change, LabelInv, Transacting, Disks, StoreInv, Types
  <2>5. IsPrefix(LogOf(disk), LogOf(d))
    BY <1>0, <2>2, PrefixReflexive
  <2> HIDE DEF d
  <2> QED  BY <2>1, <2>2, <2>3, <2>4, <2>5, ChangingStep, "restated" \in LockedLabels DEF LockedLabels
<1>2. CASE Journal(p)
  <2> DEFINE t == [before |-> seen[p], after |-> Append(seen[p], want[p])]
             d == [disk EXCEPT !.transaction = t]
  <2>1. /\ p \in Exclusive /\ ~Transacting
        /\ want[p] \in Ops /\ seen[p] = disk.state
    BY <1>0, <1>2 DEF Journal, From, LabelInv, Exclusive, LockedLabels
  <2>2. disk.state \in Seq(Ops) /\ LogOf(disk) = disk.state
    BY <1>0, <2>1 DEF Disks, Versions, LogOf, Transacting
  <2>3. t \in Transactions /\ t # Nothing
    BY <2>1, <2>2, TransactionType
  <2>4. d \in Disks /\ DiskInv(d) /\ LogOf(d) = Append(disk.state, want[p])
    <3> HIDE DEF t
    <3>1. d.transaction = t /\ d.state = disk.state /\ d \in Disks
      BY <1>0, <2>3 DEF Disks
    <3>2. t.before = disk.state /\ t.after = Append(disk.state, want[p])
      BY <2>1 DEF t
    <3> HIDE DEF d
    <3> QED  BY <2>1, <2>3, <3>1, <3>2 DEF DiskInv, LogOf
  <2>5. Change(d) /\ To(p, "journaled") /\ UNCHANGED <<want, seen, acked, faults>>
    BY <1>2 DEF Journal
  <2>6. LabelInv(p)'
    <3>1. pc'[p] = "journaled"
      BY <2>5 DEF To, StoreInv, Types
    <3>2. AtTransaction(p)'
      BY <1>0, <2>1, <2>2, <2>5 DEF AtTransaction, Change, Disks, Versions
    <3> QED  BY <3>1, <3>2 DEF LabelInv
  <2>7. IsPrefix(LogOf(disk), LogOf(d))
    BY <2>1, <2>2, <2>4, PrefixOfAppend
  <2> HIDE DEF d
  <2> QED  BY <2>1, <2>4, <2>5, <2>6, <2>7, ChangingStep, "journaled" \in LockedLabels DEF LockedLabels
<1>3. CASE Publish(p)
  <2> DEFINE d == [disk EXCEPT !.state = Append(seen[p], want[p])]
  <2>1. p \in Exclusive /\ AtTransaction(p)
    BY <1>0, <1>3 DEF Publish, From, LabelInv, Exclusive, LockedLabels
  <2>2. /\ disk.transaction.after = Append(seen[p], want[p])
        /\ disk.transaction \in Transactions /\ disk.transaction # Nothing
    BY <2>1, TransactionType DEF AtTransaction, Versions
  <2>3. d \in Disks /\ DiskInv(d) /\ LogOf(d) = LogOf(disk)
    BY <1>0, <2>2 DEF Disks, Transactions, DiskInv, LogOf
  <2>4. Change(d) /\ To(p, "published") /\ UNCHANGED <<want, seen, acked, faults>>
    BY <1>3 DEF Publish
  <2>5. LabelInv(p)'
    BY <1>0, <2>2, <2>4 DEF To, Change, LabelInv, Transacting, Disks, StoreInv, Types
  <2>6. IsPrefix(LogOf(disk), LogOf(d))
    BY <1>0, <2>3, PrefixReflexive
  <2> HIDE DEF d
  <2> QED  BY <2>1, <2>3, <2>4, <2>5, <2>6, ChangingStep, "published" \in LockedLabels DEF LockedLabels
<1>4. CASE RemoveTransaction(p)
  <2> DEFINE d == [disk EXCEPT !.transaction = Nothing]
  <2>1. p \in Exclusive /\ Transacting /\ disk.state = disk.transaction.after
    BY <1>0, <1>4 DEF RemoveTransaction, From, LabelInv, Exclusive, LockedLabels
  <2>2. d \in Disks /\ DiskInv(d) /\ LogOf(d) = LogOf(disk)
    BY <1>0, <2>1 DEF Disks, DiskInv, LogOf, Transacting
  <2>3. PICK l \in {"cleaned", "finished"} : To(p, l)
    BY <1>4 DEF RemoveTransaction
  <2>4. Change(d) /\ UNCHANGED <<want, seen, acked, faults>>
    BY <1>4 DEF RemoveTransaction
  <2>5. LabelInv(p)'
    BY <1>0, <2>3, <2>4 DEF To, Change, LabelInv, Transacting, Disks, StoreInv, Types
  <2>6. IsPrefix(LogOf(disk), LogOf(d))
    BY <1>0, <2>2, PrefixReflexive
  <2> HIDE DEF d
  <2> QED  BY <2>1, <2>2, <2>3, <2>4, <2>5, <2>6, ChangingStep DEF LockedLabels
<1> QED  BY <1>1, <1>2, <1>3, <1>4

\* The syncs of the directory keep the invariant.
LEMMA SyncStep ==
    ASSUME StoreInv, NEW p \in Procs, Sync(p) \/ Acknowledge(p)
    PROVE  StoreInv'
<1>0. LabelInv(p)
  BY DEF StoreInv
<1>1. CASE Sync(p)
  <2>1. PICK l \in {"clean", "operate", "publish", "finish"} :
            /\ To(p, l)
            /\ pc[p] = CASE l = "clean" -> "restated" [] l = "operate" -> "cleaned"
                         [] l = "publish" -> "journaled" [] l = "finish" -> "published"
    BY <1>1 DEF Sync, From
  <2>2. p \in Exclusive /\ l \in Labels /\ l \in LockedLabels
    BY <2>1 DEF Exclusive, Labels, LockedLabels
  <2>3. Synced /\ UNCHANGED <<disk, want, seen, acked, faults>>
    BY <1>1 DEF Sync
  <2>4. Types'
    BY <2>1, <2>2, <2>3 DEF To, Synced, StoreInv, Types
  <2>5. LabelInv(p)'
    BY <1>0, <2>1, <2>3 DEF To, LabelInv, AtTransaction, Transacting, StoreInv, Types
  <2> QED  BY <2>1, <2>2, <2>3, <2>4, <2>5, SyncingStep
<1>2. CASE Acknowledge(p)
  <2>1. p \in Exclusive /\ ~Transacting
    BY <1>0, <1>2 DEF Acknowledge, From, LabelInv, Exclusive, LockedLabels
  <2>2. /\ To(p, "idle") /\ Synced /\ UNCHANGED <<disk, want, faults>>
        /\ acked' = LogOf(disk)
    BY <1>2, <2>1 DEF Acknowledge, LogOf, Transacting
  <2>3. Types'
    BY <1>2, <2>2 DEF Acknowledge, To, Synced, StoreInv, Types, Disks, Labels
  <2>4. LabelInv(p)'
    BY <2>2 DEF To, LabelInv, StoreInv, Types
  <2>5. \A q \in Procs \ {p} : seen'[q] = seen[q]
    BY <1>2 DEF Acknowledge, StoreInv, Types
  <2> QED  BY <2>1, <2>2, <2>3, <2>4, <2>5, SyncingStep DEF Labels
<1> QED  BY <1>1, <1>2

\* A power failure keeps the invariant.
LEMMA PowerLossStep == ASSUME StoreInv, PowerLoss PROVE StoreInv'
<1>1. Types'
  BY BoundAssumption DEF PowerLoss, StoreInv, Types, Labels
<1>2. \A p \in Procs : pc'[p] = "idle"
  BY DEF PowerLoss
<1>3. LockInv' /\ \A p \in Procs : LabelInv(p)'
  BY <1>2 DEF LockInv, Exclusive, LockedLabels, LabelInv
<1>4. \A d \in survivors' : SurvivorInv(d)'
  <2>1. survivors' = {disk'} /\ disk' \in survivors /\ acked' = acked
    BY DEF PowerLoss
  <2>2. SurvivorInv(disk') /\ LogOf(disk') \in Seq(Ops)
    BY <2>1, LogType DEF StoreInv, Types, Versions
  <2>3. DiskInv(disk') /\ IsPrefix(acked, LogOf(disk')) /\ IsPrefix(LogOf(disk'), LogOf(disk'))
    BY <2>2, PrefixReflexive DEF SurvivorInv
  <2> QED  BY <2>1, <2>3 DEF SurvivorInv, DiskInv, LogOf
<1> QED  BY <1>1, <1>3, <1>4 DEF StoreInv

\* Every step keeps the invariant.
LEMMA StoreInvStep == ASSUME StoreInv, [Next]_vars PROVE StoreInv'
<1>1. CASE PowerLoss
  BY <1>1, PowerLossStep
<1>2. ASSUME NEW p \in Procs, Advance(p) \/ BeginRead(p) \/ Interrupt(p) \/ \E op \in Ops : BeginWrite(p, op)
      PROVE  StoreInv'
  BY <1>2, ReaderStep, WriterStep, FileStep, SyncStep DEF Advance
<1>3. CASE UNCHANGED vars
  BY <1>3 DEF vars, StoreInv, Types, LockInv, Exclusive, Shared, LabelInv, AtTransaction,
              Applied, Transacting, SurvivorInv, DiskInv, LogOf
<1> QED  BY <1>1, <1>2, <1>3 DEF Next

\* The store's invariant holds for any number of processes, operations and faults.
THEOREM StoreInvariant == Spec => []StoreInv
<1>1. Init => StoreInv
  BY StoreInvInit
<1>2. StoreInv /\ [Next]_vars => StoreInv'
  BY StoreInvStep
<1> QED  BY <1>1, <1>2, PTL DEF Spec

\* Recovery never finds the two files diverged (store.go:491).
THEOREM StoreNeverDiverges == Spec => []NeverDiverges
<1>1. StoreInv => NeverDiverges
  BY DEF StoreInv, Types, SurvivorInv, DiskInv, NeverDiverges, Diverged, Transacting
<1> QED  BY <1>1, StoreInvariant, PTL

\* A write that was acknowledged survives every power failure.
THEOREM AcknowledgedIsDurable == Spec => []AcknowledgedSurvives
<1>1. StoreInv => AcknowledgedSurvives
  BY DEF StoreInv, SurvivorInv, AcknowledgedSurvives
<1> QED  BY <1>1, StoreInvariant, PTL

-----------------------------------------------------------------------------
(* The store implements the abstract log.                                  *)

\* Journaling a write is the moment it takes effect.
LEMMA JournalExtends ==
    ASSUME StoreInv, NEW p \in Procs, Journal(p)
    PROVE  Log!Extend(p, want[p]) /\ want[p] \in Ops
<1>1. /\ disk \in Disks /\ ~Transacting /\ want[p] \in Ops
      /\ seen[p] = disk.state /\ ~Applied(p)
  BY DEF Journal, From, StoreInv, Types, LabelInv
<1> DEFINE t == [before |-> seen[p], after |-> Append(seen[p], want[p])]
<1>2. t # Nothing
  BY <1>1, TransactionType DEF Disks, Versions
<1>3. disk'.transaction = t /\ UNCHANGED <<acked, seen>>
  BY <1>1 DEF Journal, Change, Disks
<1>4. LogOf(disk) = disk.state
  BY <1>1 DEF LogOf, Transacting
<1>5. LogOf(disk)' = Append(disk.state, want[p])
  <2>1. LogOf(disk)' = disk'.transaction.after
    BY <1>2, <1>3 DEF LogOf
  <2>2. t.after = Append(disk.state, want[p])
    BY <1>1
  <2> HIDE DEF t
  <2> QED  BY <2>1, <2>2, <1>3
<1> QED  BY <1>1, <1>3, <1>4, <1>5 DEF Log!Extend, Applied, Range, Log!Range

\* Completing a transaction, by its writer or by a recovery, changes nothing
\* that the abstract log shows.
LEMMA CompletionIsInvisible ==
    ASSUME StoreInv, NEW p \in Procs, Restate(p) \/ Publish(p) \/ RemoveTransaction(p)
    PROVE  UNCHANGED <<LogOf(disk), acked, seen>>
<1>0. disk \in Disks /\ LabelInv(p)
  BY DEF StoreInv, Types
<1>1. CASE Restate(p) \/ Publish(p)
  <2>1. disk.transaction # Nothing
    <3>1. CASE Restate(p)
      BY <3>1, <1>0 DEF Restate, From, LabelInv, Transacting
    <3>2. CASE Publish(p)
      <4>1. AtTransaction(p)
        BY <3>2, <1>0 DEF Publish, From, LabelInv
      <4> QED  BY <4>1, TransactionType DEF AtTransaction, Versions
    <3> QED  BY <1>1, <3>1, <3>2
  <2>2. disk'.transaction = disk.transaction /\ UNCHANGED <<acked, seen>>
    BY <1>0, <1>1 DEF Restate, Publish, Change, Disks
  <2> QED  BY <2>1, <2>2 DEF LogOf
<1>2. CASE RemoveTransaction(p)
  <2>1. disk.transaction # Nothing /\ disk.state = disk.transaction.after
    BY <1>0, <1>2 DEF RemoveTransaction, From, LabelInv, Transacting
  <2>2. /\ disk'.transaction = Nothing /\ disk'.state = disk.state
        /\ UNCHANGED <<acked, seen>>
    BY <1>0, <1>2 DEF RemoveTransaction, Change, Disks
  <2> QED  BY <2>1, <2>2 DEF LogOf
<1> QED  BY <1>1, <1>2

\* A caller learns a version only under a lock and with no transaction pending.
LEMMA LoadingObserves ==
    ASSUME StoreInv, NEW p \in Procs, Load(p) \/ Operate(p)
    PROVE  Log!Observe(p) \/ UNCHANGED <<LogOf(disk), acked, seen>>
<1>1. LogOf(disk) = disk.state
  BY DEF Load, Operate, From, StoreInv, LabelInv, LogOf, Transacting
<1>2. UNCHANGED <<LogOf(disk), acked>>
  BY DEF Load, Operate, LogOf
<1>3. seen' = seen \/ seen' = [seen EXCEPT ![p] = disk.state]
  BY DEF Load, Operate
<1> QED  BY <1>1, <1>2, <1>3 DEF Log!Observe

\* The last sync acknowledges the log that is visible then.
LEMMA AcknowledgeAcknowledges ==
    ASSUME StoreInv, NEW p \in Procs, Acknowledge(p)
    PROVE  Log!Acknowledge(p)
<1>1. LogOf(disk) = disk.state
  BY DEF Acknowledge, From, StoreInv, LabelInv, LogOf, Transacting
<1> QED  BY <1>1 DEF Acknowledge, Log!Acknowledge, LogOf

\* A power failure keeps a prefix of the log that includes what was acknowledged.
LEMMA PowerLossTruncates ==
    ASSUME StoreInv, PowerLoss
    PROVE  Log!PowerLoss
<1> DEFINE t == LogOf(disk')
           s == LogOf(disk)
<1>1. t \in Seq(Ops) /\ s \in Seq(Ops) /\ acked \in Seq(Ops)
  BY LogType DEF PowerLoss, StoreInv, Types, Versions
<1>2. IsPrefix(acked, t) /\ IsPrefix(t, s)
  BY DEF PowerLoss, StoreInv, SurvivorInv
<1>3. /\ t = SubSeq(s, 1, Len(t)) /\ Len(t) \in Nat /\ Len(t) <= Len(s)
      /\ Len(acked) \in Nat /\ Len(acked) <= Len(t) /\ Len(s) \in Nat
  <2> HIDE DEF s, t
  <2> QED  BY <1>1, <1>2, PrefixIsSegment
<1>4. Len(t) \in Len(acked) .. Len(s)
  <2> HIDE DEF s, t
  <2> QED  BY <1>3
<1>5. t \in {SubSeq(s, 1, n) : n \in Len(acked) .. Len(s)}
  BY <1>3, <1>4
<1>6. LogOf(disk)' = t
  BY DEF LogOf
<1> QED  BY <1>5, <1>6 DEF PowerLoss, Log!PowerLoss

\* Every step of the store is a step of the abstract log or invisible to it.
LEMMA StoreRefinesStep ==
    ASSUME StoreInv, [Next]_vars
    PROVE  [Log!Next]_(Log!vars)
<1>1. CASE PowerLoss
  BY <1>1, PowerLossTruncates DEF Log!Next
<1>2. ASSUME NEW p \in Procs, Advance(p)
      PROVE  [Log!Next]_(Log!vars)
  <2>1. CASE AcquireShared(p) \/ CheckRecovery(p) \/ Acquire(p) \/ Recover(p) \/ Sync(p)
    BY <2>1 DEF AcquireShared, CheckRecovery, Acquire, Recover, Sync, LogOf, Log!vars
  <2>2. CASE Load(p) \/ Operate(p)
    BY <2>2, LoadingObserves DEF Log!Next, Log!vars
  <2>3. CASE Restate(p) \/ Publish(p) \/ RemoveTransaction(p)
    BY <2>3, CompletionIsInvisible DEF Log!vars
  <2>4. CASE Journal(p)
    BY <2>4, JournalExtends DEF Log!Next
  <2>5. CASE Acknowledge(p)
    BY <2>5, AcknowledgeAcknowledges DEF Log!Next
  <2> QED  BY <1>2, <2>1, <2>2, <2>3, <2>4, <2>5 DEF Advance
<1>3. ASSUME NEW p \in Procs, BeginRead(p) \/ Interrupt(p) \/ \E op \in Ops : BeginWrite(p, op)
      PROVE  [Log!Next]_(Log!vars)
  BY <1>3 DEF BeginRead, Interrupt, BeginWrite, LogOf, Log!vars
<1>4. CASE UNCHANGED vars
  BY <1>4 DEF vars, LogOf, Log!vars
<1> QED  BY <1>1, <1>2, <1>3, <1>4 DEF Next

\* Whatever process dies wherever, the state file with its transaction file,
\* its lock and its recovery is one atomic log with compare-and-swap.
THEOREM StoreImplementsLog == Spec => ImplementsVersionedLog
<1>1. Init => Log!Init
  BY DEF Init, Log!Init, LogOf
<1>2. StoreInv /\ [Next]_vars => [Log!Next]_(Log!vars)
  BY StoreRefinesStep
<1> QED  BY <1>1, <1>2, StoreInvariant, PTL DEF Spec, ImplementsVersionedLog, Log!Spec

\* Types are kept, and every transaction a failure may leave names two
\* consecutive revisions.
THEOREM StoreTypeCorrect == Spec => []TypeOK
<1>1. StoreInv => TypeOK
  <2> SUFFICES ASSUME StoreInv, NEW d \in survivors, d.transaction # Nothing
               PROVE  Len(d.transaction.after) = Len(d.transaction.before) + 1
    BY DEF StoreInv, Types, TypeOK
  <2>1. d.transaction \in Transactions
    BY DEF StoreInv, Types, Disks
  <2>2. PICK op \in Ops : d.transaction.after = Append(d.transaction.before, op)
    BY DEF StoreInv, SurvivorInv, DiskInv
  <2> QED  BY <2>1, <2>2 DEF Transactions, Versions
<1> QED  BY <1>1, StoreInvariant, PTL
=============================================================================
