--------------------------- MODULE RunSlotsProofs ---------------------------
(* What a caller was told of the run switch survives, for any number of      *)
(* processes, states, writes and faults.                                     *)
EXTENDS RunSlots, TLAPS

Types ==
    /\ slot \in [Slots -> Contents]
    /\ ondisk \in [Slots -> SUBSET Contents]
    /\ lock \in Procs \cup {None}
    /\ writes \in Nat /\ told \in Nat /\ faults \in Nat /\ abandoned \in BOOLEAN

\* What is read is among what may be left, and no record is younger than the
\* last write.
Bounded ==
    /\ told <= writes
    /\ \A i \in Slots : /\ slot[i] \in ondisk[i]
                        /\ \A c \in ondisk[i] : c \in Records => c.nth <= writes

Other(i) == IF i = 0 THEN 1 ELSE 0
\* A reader prefers record a in slot i to content c of the other slot.
Preferred(a, i, c) == c \in Records => IF i = 0 THEN a.seq >= c.seq ELSE a.seq > c.seq

\* Slot i is durable, and whatever the other slot holds after a power loss
\* loses to it ...
Anchor(i) == /\ slot[i] \in Records /\ ondisk[i] = {slot[i]}
             /\ \A c \in ondisk[Other(i)] : Preferred(slot[i], i, c)
\* ... or is no older than what was told.
Guard(i)  == /\ slot[i] \in Records /\ ondisk[i] = {slot[i]} /\ slot[i].nth >= told
             /\ \A c \in ondisk[Other(i)] :
                    (c \in Records /\ c.nth >= told) \/ Preferred(slot[i], i, c)

Inv ==
    /\ Types /\ Bounded
    /\ lock # None => Valid(slot) # {}
    /\ Holds(slot)
    /\ (~abandoned /\ lock = None /\ Valid(slot) # {}) => Anchor(Newest(slot))
    /\ (~abandoned /\ told > 0) => \E i \in Slots : Guard(i)

-----------------------------------------------------------------------------
\* readRepositoryRunSnapshotFile returns the record of a valid slot, unless the
\* file is empty or nothing in it is valid.
LEMMA ReadsRecord ==
    ASSUME NEW file \in [Slots -> Contents], Valid(file) # {}
    PROVE  /\ ~Fresh(file) /\ Readable(file)
           /\ Newest(file) \in Slots /\ file[Newest(file)] \in Records
           /\ Snapshot(file) = file[Newest(file)]
           /\ Preferred(file[Newest(file)], Newest(file), file[Other(Newest(file))])
BY ContentsAssumption DEF Valid, Fresh, Readable, Newest, Snapshot, Preferred, Other, Slots, Contents, Records

LEMMA FreshOrValid ==
    ASSUME NEW file \in [Slots -> Contents], Readable(file)
    PROVE  /\ Fresh(file) => Valid(file) = {} /\ Snapshot(file).nth = 0 /\ Snapshot(file).seq = 0
           /\ ~Fresh(file) => Valid(file) # {}
           /\ Snapshot(file).seq \in Nat /\ Snapshot(file).nth \in Nat
<1>1. CASE Fresh(file)
  BY <1>1, ContentsAssumption DEF Fresh, Valid, Snapshot
<1>2. CASE ~Fresh(file)
  <2>1. Valid(file) # {}
    BY <1>2 DEF Readable
  <2>2. Snapshot(file) \in Records
    BY <2>1, ReadsRecord
  <2> QED BY <1>2, <2>1, <2>2 DEF Records
<1> QED BY <1>1, <1>2

\* commitRepositoryRunSnapshotFile spares the slot that was read, and its record
\* is the newest.
LEMMA TargetSparesNewest ==
    ASSUME NEW file \in [Slots -> Contents], Readable(file)
    PROVE  /\ Target(file) \in Slots
           /\ Valid(file) # {} => Target(file) = Other(Newest(file))
           /\ Fresh(file) => Target(file) = 0
BY ReadsRecord, FreshOrValid DEF Target, Newest, Other, Slots

LEMMA WriteIsNewest ==
    ASSUME NEW file \in [Slots -> Contents], Readable(file), NEW record \in Records,
           record.seq = Snapshot(file).seq + 1
    PROVE  LET after == [file EXCEPT ![Target(file)] = record]
           IN  /\ Valid(after) # {} /\ Newest(after) = Target(file)
<1> DEFINE after == [file EXCEPT ![Target(file)] = record]
<1>1. Target(file) \in Slots /\ after[Target(file)] = record /\ after \in [Slots -> Contents]
  BY TargetSparesNewest DEF Contents
<1>2. Target(file) \in Valid(after)
  BY <1>1 DEF Valid
<1>3. CASE Fresh(file)
  <2>1. Target(file) = 0 /\ after[1] \notin Records
    BY <1>3, TargetSparesNewest, ContentsAssumption DEF Fresh, Slots
  <2> QED BY <1>2, <2>1 DEF Newest, Valid
<1>4. CASE ~Fresh(file)
  <2> DEFINE b == Newest(file)
  <2>1. Valid(file) # {} /\ b \in Slots /\ file[b] \in Records /\ Snapshot(file) = file[b]
        /\ Target(file) = Other(b)
    BY <1>4, FreshOrValid, ReadsRecord, TargetSparesNewest
  <2>2. after[b] = file[b] /\ record.seq \in Nat /\ file[b].seq \in Nat /\ record.seq > file[b].seq
    BY <2>1 DEF Records, Other, Slots
  <2>3. CASE b = 0
    <3>1. Target(file) = 1 /\ after[0] = file[0] /\ after[1] = record
      BY <2>1, <2>2, <2>3, <1>1 DEF Other
    <3> QED BY <3>1, <2>2, <2>3, <1>2 DEF Newest, Valid, Slots
  <2>4. CASE b = 1
    <3>1. Target(file) = 0 /\ after[1] = file[1] /\ after[0] = record
      BY <2>1, <2>2, <2>4, <1>1 DEF Other
    <3> QED BY <3>1, <2>2, <2>4, <1>2 DEF Newest, Valid, Slots
  <2> QED BY <2>1, <2>3, <2>4 DEF Slots
<1> QED BY <1>2, <1>3, <1>4

\* A torn slot that is not the newest changes nothing that is read.
LEMMA TearingSparesNewest ==
    ASSUME NEW file \in [Slots -> Contents], Readable(file)
    PROVE  LET after == [file EXCEPT ![Target(file)] = Torn]
           IN  /\ Valid(file) # {} => /\ Valid(after) # {} /\ Newest(after) = Newest(file)
                                      /\ Snapshot(after) = Snapshot(file)
                                      /\ after[Newest(file)] = file[Newest(file)]
               /\ Valid(file) = {} => Valid(after) = {}
<1> DEFINE after == [file EXCEPT ![Target(file)] = Torn]
<1>1. Target(file) \in Slots /\ after \in [Slots -> Contents]
  BY TargetSparesNewest DEF Contents
<1>2. ASSUME Valid(file) # {}
      PROVE  /\ Valid(after) # {} /\ Newest(after) = Newest(file) /\ Snapshot(after) = Snapshot(file)
             /\ after[Newest(file)] = file[Newest(file)]
  <2> DEFINE b == Newest(file)
  <2>1. b \in Slots /\ file[b] \in Records /\ Target(file) = Other(b) /\ Snapshot(file) = file[b]
    BY <1>2, ReadsRecord, TargetSparesNewest
  <2>2. after[b] = file[b] /\ after[Other(b)] = Torn
    BY <2>1, <1>1 DEF Other, Slots
  <2>3. Valid(after) = {b}
    BY <2>1, <2>2, ContentsAssumption DEF Valid, Slots, Other
  <2>4. Newest(after) = b
    BY <2>1, <2>3 DEF Newest, Slots
  <2>5. Snapshot(after) = after[b]
    BY <2>3, <2>4, <1>1, ReadsRecord
  <2> QED BY <2>1, <2>2, <2>3, <2>4, <2>5
<1>3. Valid(file) = {} => Valid(after) = {}
  BY <1>1, ContentsAssumption DEF Valid, Slots
<1> QED BY <1>2, <1>3

\* With what a power loss left durable, what is read is anchored.
LEMMA SettledIsAnchored ==
    ASSUME NEW file \in [Slots -> Contents], slot = file, Valid(file) # {},
           ondisk = [i \in Slots |-> {file[i]}]
    PROVE  Anchor(Newest(file))
<1>1. Newest(file) \in Slots /\ Other(Newest(file)) \in Slots
  BY ReadsRecord DEF Other, Slots
<1> QED BY <1>1, ReadsRecord DEF Anchor

LEMMA AnchorGuards ==
    ASSUME NEW i \in Slots, Anchor(i), slot[i].nth >= told
    PROVE  Guard(i)
BY DEF Anchor, Guard

\* A guard holds on every disk.
LEMMA GuardHolds ==
    ASSUME Types, NEW i \in Slots, Guard(i), NEW file \in Disks
    PROVE  Holds(file)
<1>1. file \in [Slots -> Contents] /\ file[i] = slot[i] /\ file[Other(i)] \in ondisk[Other(i)]
  BY DEF Disks, Guard, Types, Slots, Other
<1>2. Valid(file) # {}
  BY <1>1 DEF Valid, Guard
<1> DEFINE b == Newest(file)
<1>3. Readable(file) /\ Snapshot(file) = file[b] /\ b \in Slots /\ file[b] \in Records
      /\ Preferred(file[b], b, file[Other(b)])
  BY <1>1, <1>2, ReadsRecord
<1>4. CASE b = i
  BY <1>1, <1>3, <1>4 DEF Holds, Guard
<1>5. CASE b # i
  <2>1. b = Other(i) /\ Other(b) = i
    BY <1>3, <1>5 DEF Slots, Other
  <2>2. ~Preferred(slot[i], i, file[b])
    BY <1>1, <1>3, <2>1 DEF Preferred, Guard, Records, Slots, Other
  <2>3. file[b].nth >= told
    BY <1>1, <2>1, <2>2 DEF Guard
  <2> QED BY <1>3, <2>3 DEF Holds
<1> QED BY <1>4, <1>5

-----------------------------------------------------------------------------
LEMMA InitInv == Init => Inv
<1> SUFFICES ASSUME Init PROVE Inv
  OBVIOUS
<1>1. Types
  BY SequenceAssumption DEF Init, Types, Truncated, Contents
<1>2. Valid(slot) = {}
  BY ContentsAssumption DEF Init, Valid, Truncated
<1>3. Bounded
  BY ContentsAssumption DEF Init, Bounded, Truncated
<1> QED BY <1>1, <1>2, <1>3 DEF Init, Inv, Holds

LEMMA WriteKeeps ==
    ASSUME Inv, NEW p \in Procs, NEW state \in States, Write(p, state)
    PROVE  Inv'
<1> DEFINE k == Target(slot)
           record == Next1(slot, state)
<1>0. Types /\ Bounded /\ Holds(slot) /\ Readable(slot) /\ slot \in [Slots -> Contents] /\ lock = None
  BY DEF Inv, Types, Write, Writing
<1>1. k \in Slots /\ record \in Records /\ record.seq = Snapshot(slot).seq + 1 /\ record.nth = writes + 1
  BY <1>0, FreshOrValid, TargetSparesNewest DEF Next1, Records, Types
<1>2. slot' = [slot EXCEPT ![k] = record] /\ ondisk' = [ondisk EXCEPT ![k] = @ \cup {record, Torn}]
  BY DEF Write, Put
<1>3. Types'
  BY <1>0, <1>1, <1>2 DEF Types, Write, Contents
<1>4. Bounded'
  <2>1. told' = told /\ writes' = writes + 1 /\ told <= writes /\ writes \in Nat /\ told \in Nat
    BY <1>0 DEF Write, Types, Bounded
  <2>2. ASSUME NEW i \in Slots PROVE slot'[i] \in ondisk'[i]
    BY <1>0, <1>1, <1>2 DEF Types, Bounded
  <2>3. ASSUME NEW i \in Slots, NEW c \in ondisk'[i], c \in Records PROVE c.nth <= writes'
    <3>1. c = record \/ c \in ondisk[i]
      BY <1>0, <1>1, <1>2, <2>3, ContentsAssumption DEF Types
    <3> QED BY <3>1, <2>1, <2>3, <1>0, <1>1 DEF Bounded, Records
  <2> QED BY <2>1, <2>2, <2>3 DEF Bounded
<1>5. Valid(slot') # {} /\ Newest(slot') = k
  BY <1>0, <1>1, <1>2, WriteIsNewest
<1>6. Holds(slot)'
  <2>1. Readable(slot') /\ Snapshot(slot') = record
    BY <1>1, <1>2, <1>3, <1>5, <1>0, ReadsRecord DEF Types
  <2> QED BY <2>1, <1>0, <1>1 DEF Holds, Write, Bounded, Types
<1>7. ASSUME ~abandoned', told' > 0 PROVE \E i \in Slots : Guard(i)'
  <2>0. PICK b \in Slots : b = Newest(slot)
    BY DEF Newest, Slots
  <2>1. ~abandoned /\ told > 0 /\ told' = told
    BY <1>7 DEF Write
  <2>2. Valid(slot) # {}
    BY <2>1, <1>0, FreshOrValid DEF Holds, Types
  <2>3. Anchor(b) /\ b \in Slots /\ k = Other(b) /\ k # b /\ Snapshot(slot) = slot[b]
    BY <1>0, <2>0, <2>1, <2>2, ReadsRecord, TargetSparesNewest DEF Inv, Other, Slots
  <2>4. slot'[b] = slot[b] /\ ondisk'[b] = ondisk[b]
    BY <1>0, <1>1, <1>2, <2>3 DEF Types
  <2>5. slot[b].nth >= told
    BY <2>1, <2>3, <1>0 DEF Holds
  <2>6. ASSUME NEW c \in ondisk'[k], c \in Records
        PROVE  c.nth >= told \/ Preferred(slot[b], b, c)
    <3>1. c = record \/ c \in ondisk[k]
      BY <1>0, <1>1, <1>2, <2>6, ContentsAssumption DEF Types
    <3> QED BY <3>1, <1>0, <1>1, <2>3 DEF Anchor, Bounded, Types
  <2>7. ASSUME NEW c \in ondisk'[k]
        PROVE  (c \in Records /\ c.nth >= told) \/ Preferred(slot[b], b, c)
    BY <2>6 DEF Preferred
  <2>8. /\ slot'[b] \in Records /\ ondisk'[b] = {slot'[b]} /\ slot'[b].nth >= told'
        /\ \A c \in ondisk'[Other(b)] : (c \in Records /\ c.nth >= told') \/ Preferred(slot'[b], b, c)
    BY <2>1, <2>3, <2>4, <2>5, <2>7 DEF Anchor
  <2>9. Guard(b)'
    BY <2>8 DEF Guard
  <2> QED BY <2>3, <2>9
<1>8. lock' # None
  BY NamesAssumption DEF Write
<1> QED BY <1>3, <1>4, <1>5, <1>6, <1>7, <1>8 DEF Inv

LEMMA ShortWriteKeeps ==
    ASSUME Inv, NEW p \in Procs, NEW state \in States, ShortWrite(p, state)
    PROVE  Inv'
<1> DEFINE k == Target(slot)
<1>0. /\ Types /\ Bounded /\ Holds(slot) /\ Readable(slot) /\ slot \in [Slots -> Contents]
      /\ lock = None /\ lock' = None /\ told' = told /\ writes' = writes /\ abandoned' = abandoned
      /\ faults' = faults + 1
  BY DEF Inv, Types, ShortWrite, Writing, Spend
<1>1. k \in Slots
  BY <1>0, TargetSparesNewest
<1>2. slot' = [slot EXCEPT ![k] = Torn] /\ ondisk' = [ondisk EXCEPT ![k] = @ \cup {Torn}]
  BY DEF ShortWrite
<1>3. Types'
  BY <1>0, <1>1, <1>2 DEF Types, Contents
<1>4. Bounded'
  BY <1>0, <1>1, <1>2, ContentsAssumption DEF Types, Bounded
<1>5. /\ Valid(slot) # {} => /\ Valid(slot') # {} /\ Newest(slot') = Newest(slot)
                             /\ Snapshot(slot') = Snapshot(slot)
                             /\ slot'[Newest(slot)] = slot[Newest(slot)]
      /\ Valid(slot) = {} => Valid(slot') = {}
  BY <1>0, <1>2, TearingSparesNewest
<1>6. Holds(slot)'
  <2>1. ASSUME told > 0 PROVE Valid(slot) # {}
    BY <1>0, <2>1, FreshOrValid DEF Holds, Types
  <2>2. Valid(slot') # {} => Readable(slot')
    BY DEF Readable
  <2> QED BY <1>0, <1>5, <2>1, <2>2 DEF Holds
<1>7. ASSUME ~abandoned, Valid(slot) # {}
      PROVE  \E i \in Slots : i = Newest(slot) /\ Anchor(i)'
  <2>0. PICK b \in Slots : b = Newest(slot)
    BY DEF Newest, Slots
  <2>1. Anchor(b) /\ k = Other(b) /\ k # b
    BY <1>0, <1>7, <2>0, TargetSparesNewest DEF Inv, Other, Slots
  <2>2. slot'[b] = slot[b] /\ ondisk'[b] = ondisk[b] /\ ondisk'[k] = ondisk[k] \cup {Torn}
    BY <1>0, <1>1, <1>2, <2>1 DEF Types
  <2>3. Anchor(b)'
    BY <2>1, <2>2, ContentsAssumption DEF Anchor, Preferred
  <2> QED BY <2>0, <2>3
<1>8. ASSUME ~abandoned', lock' = None, Valid(slot') # {} PROVE Anchor(Newest(slot))'
  <2>1. ~abandoned /\ Valid(slot) # {} /\ Newest(slot') = Newest(slot)
    BY <1>0, <1>5, <1>8
  <2>2. PICK i \in Slots : i = Newest(slot) /\ Anchor(i)'
    BY <1>7, <2>1
  <2>3. i = Newest(slot')
    BY <2>1, <2>2
  <2> QED BY <2>2, <2>3 DEF Anchor
<1>9. ASSUME ~abandoned', told' > 0 PROVE \E i \in Slots : Guard(i)'
  <2>1. ~abandoned /\ told > 0 /\ Valid(slot) # {}
    BY <1>0, <1>9, FreshOrValid DEF Holds, Types
  <2>2. PICK i \in Slots : i = Newest(slot) /\ Anchor(i)'
    BY <1>7, <2>1
  <2>3. slot'[i] = slot[i] /\ Snapshot(slot) = slot[i]
    BY <1>0, <1>5, <2>1, <2>2, ReadsRecord
  <2>4. slot'[i].nth >= told'
    BY <1>0, <2>1, <2>3 DEF Holds
  <2>5. Guard(i)'
    BY <2>2, <2>4 DEF Anchor, Guard
  <2> QED BY <2>5
<1> QED BY <1>0, <1>3, <1>4, <1>6, <1>8, <1>9 DEF Inv

LEMMA ConfirmUnchangedKeeps ==
    ASSUME Inv, NEW p \in Procs, ConfirmUnchanged(p)
    PROVE  Inv'
<1>0. /\ Types /\ Bounded /\ Readable(slot) /\ slot \in [Slots -> Contents] /\ lock = None
      /\ told' = Snapshot(slot).nth
      /\ UNCHANGED <<slot, ondisk, lock, writes, abandoned, faults>>
  BY DEF Inv, Types, ConfirmUnchanged
<1>1. Types'
  BY <1>0, FreshOrValid DEF Types
<1>2. Bounded'
  <2>1. CASE Fresh(slot)
    BY <1>0, <2>1, FreshOrValid DEF Bounded, Types
  <2>2. CASE ~Fresh(slot)
    <3>1. Newest(slot) \in Slots /\ slot[Newest(slot)] \in Records /\ Snapshot(slot) = slot[Newest(slot)]
      BY <1>0, <2>2, FreshOrValid, ReadsRecord
    <3> QED BY <1>0, <3>1 DEF Bounded
  <2> QED BY <2>1, <2>2
<1>3. Holds(slot)'
  BY <1>0, FreshOrValid DEF Holds
<1>4. ASSUME ~abandoned', told' > 0 PROVE \E i \in Slots : Guard(i)'
  <2>0. PICK b \in Slots : b = Newest(slot)
    BY DEF Newest, Slots
  <2>1. Valid(slot) # {} /\ ~abandoned
    BY <1>0, <1>4, FreshOrValid
  <2>2. Anchor(b) /\ Snapshot(slot) = slot[b]
    BY <1>0, <2>0, <2>1, ReadsRecord DEF Inv
  <2>3. slot[b].nth \in Nat
    BY <2>2 DEF Anchor, Records
  <2>4. Guard(b)'
    BY <1>0, <2>2, <2>3 DEF Anchor, Guard
  <2> QED BY <2>4
<1>5. (~abandoned' /\ lock' = None /\ Valid(slot') # {}) => Anchor(Newest(slot))'
  BY <1>0 DEF Inv, Anchor
<1> QED BY <1>0, <1>1, <1>2, <1>3, <1>4, <1>5, NamesAssumption DEF Inv

\* After a sync, or a power loss, the disk holds what is read.
LEMMA SettledKeeps ==
    ASSUME Types, slot' \in [Slots -> Contents],
           ondisk' = [i \in Slots |-> {slot'[i]}],
           \A i \in Slots : slot'[i] \in Records => slot'[i].nth <= writes,
           writes' = writes, lock' = None, told' \in Nat, told' <= writes, faults' \in Nat,
           abandoned' \in BOOLEAN, Holds(slot)'
    PROVE  Inv'
<1>1. Types' /\ Bounded'
  BY DEF Types, Bounded
<1>2. ASSUME Valid(slot') # {} PROVE \E i \in Slots : i = Newest(slot') /\ Anchor(i)'
  <2>0. PICK b \in Slots : b = Newest(slot')
    BY DEF Newest, Slots
  <2>1. slot'[b] \in Records /\ Preferred(slot'[b], b, slot'[Other(b)])
    BY <1>2, <2>0, ReadsRecord
  <2>2. ondisk'[b] = {slot'[b]} /\ ondisk'[Other(b)] = {slot'[Other(b)]}
    BY DEF Other, Slots
  <2>3. Anchor(b)'
    BY <2>1, <2>2 DEF Anchor
  <2> QED BY <2>0, <2>3
<1>3. Valid(slot') # {} => Anchor(Newest(slot))'
  <2> SUFFICES ASSUME Valid(slot') # {} PROVE Anchor(Newest(slot))'
    OBVIOUS
  <2>1. PICK i \in Slots : i = Newest(slot') /\ Anchor(i)'
    BY <1>2
  <2> QED BY <2>1 DEF Anchor
<1>4. ASSUME told' > 0 PROVE \E i \in Slots : Guard(i)'
  <2>1. Readable(slot') /\ Snapshot(slot').nth >= told'
    BY <1>4 DEF Holds
  <2>2. Valid(slot') # {}
    BY <1>4, <2>1, FreshOrValid
  <2>3. PICK i \in Slots : i = Newest(slot') /\ Anchor(i)'
    BY <1>2, <2>2
  <2>4. slot'[i].nth >= told'
    BY <2>1, <2>2, <2>3, ReadsRecord
  <2>5. Guard(i)'
    BY <2>3, <2>4 DEF Anchor, Guard
  <2> QED BY <2>5
<1> QED BY <1>1, <1>3, <1>4, NamesAssumption DEF Inv

LEMMA SyncKeeps ==
    ASSUME Inv, NEW p \in Procs, Sync(p)
    PROVE  Inv'
<1>0. /\ Types /\ Bounded /\ slot \in [Slots -> Contents] /\ Valid(slot) # {}
      /\ slot' = slot /\ writes' = writes /\ faults' = faults /\ lock' = None /\ abandoned' = FALSE
      /\ ondisk' = [i \in Slots |-> {slot[i]}] /\ told' = Snapshot(slot).nth
  BY NamesAssumption DEF Inv, Types, Sync
<1>1. /\ Newest(slot) \in Slots /\ slot[Newest(slot)] \in Records
      /\ Snapshot(slot) = slot[Newest(slot)] /\ Readable(slot)
  BY <1>0, ReadsRecord
<1>2. \A i \in Slots : slot[i] \in Records => slot[i].nth <= writes
  BY <1>0 DEF Bounded
<1>3. told' \in Nat /\ told' <= writes
  BY <1>0, <1>1, <1>2 DEF Records
<1>4. Holds(slot)'
  BY <1>0, <1>1, <1>3 DEF Holds
<1> QED BY <1>0, <1>2, <1>3, <1>4, SettledKeeps DEF Types

LEMMA PowerLossKeeps ==
    ASSUME Inv, PowerLoss
    PROVE  Inv'
<1>1. PICK file \in Disks :
          /\ slot' = file /\ ondisk' = [i \in Slots |-> {file[i]}]
          /\ told' = IF ~abandoned THEN told
                     ELSE IF Readable(file) THEN Least(told, Snapshot(file).nth) ELSE 0
  BY DEF PowerLoss
<1>2. /\ Types /\ Bounded /\ lock' = None /\ abandoned' = FALSE /\ writes' = writes
      /\ faults' = faults + 1
  BY DEF Inv, PowerLoss, Spend
<1>3. file \in [Slots -> Contents] /\ \A i \in Slots : file[i] \in ondisk[i]
  BY <1>2 DEF Disks, Types, Slots
<1>4. \A i \in Slots : file[i] \in Records => file[i].nth <= writes
  BY <1>2, <1>3 DEF Bounded
<1>5. told' \in Nat /\ told' <= writes /\ Holds(slot)'
  <2>1. CASE ~abandoned
    <3>1. told' = told
      BY <1>1, <2>1
    <3>2. Holds(file)
      <4>1. CASE told > 0
        <5>1. PICK i \in Slots : Guard(i)
          BY <2>1, <4>1 DEF Inv
        <5> QED BY <5>1, <1>2, GuardHolds
      <4>2. CASE ~(told > 0)
        BY <4>2 DEF Holds
      <4> QED BY <4>1, <4>2
    <3> QED BY <1>1, <1>2, <3>1, <3>2 DEF Types, Bounded, Holds
  <2>2. CASE abandoned
    <3>1. CASE Readable(file)
      <4>1. Snapshot(file).nth \in Nat
        BY <1>3, <3>1, FreshOrValid
      <4>2. told' = Least(told, Snapshot(file).nth)
        BY <1>1, <2>2, <3>1
      <4> QED BY <1>1, <1>2, <3>1, <4>1, <4>2 DEF Least, Holds, Types, Bounded
    <3>2. CASE ~Readable(file)
      BY <1>1, <1>2, <2>2, <3>2 DEF Holds, Types
    <3> QED BY <3>1, <3>2
  <2> QED BY <2>1, <2>2
<1>6. faults' \in Nat
  BY <1>2 DEF Types
<1> QED BY <1>1, <1>2, <1>3, <1>4, <1>5, <1>6, SettledKeeps

LEMMA AbandonKeeps ==
    ASSUME Inv, NEW p \in Procs, Abandon(p)
    PROVE  Inv'
BY NamesAssumption DEF Inv, Abandon, Spend, Types, Bounded, Holds

LEMMA ResetKeeps ==
    ASSUME Inv, NEW p \in Procs, Reset(p)
    PROVE  Inv'
<1> DEFINE record == [seq |-> 1, nth |-> writes + 1, state |-> Off]
<1>0. /\ Types /\ Bounded /\ record \in Records /\ 0 \in Slots
      /\ slot' = [Truncated EXCEPT ![0] = record]
      /\ ondisk' = [TruncatedDisk EXCEPT ![0] = @ \cup {record, Torn}]
      /\ lock' = p /\ writes' = writes + 1 /\ told' = 0 /\ abandoned' = abandoned /\ faults' = faults
  BY StatesAssumption DEF Inv, Types, Reset, Put, Records, Slots
<1>1. slot'[0] = record /\ slot'[1] = Empty
  BY <1>0 DEF Truncated, Slots
<1>2. /\ ondisk'[0] = ondisk[0] \cup {Empty, record, Torn} /\ ondisk'[1] = ondisk[1] \cup {Empty}
      /\ slot' \in [Slots -> Contents] /\ ondisk' \in [Slots -> SUBSET Contents]
  BY <1>0 DEF Truncated, TruncatedDisk, Types, Contents, Slots
<1>3. Types'
  BY <1>0, <1>2 DEF Types
<1>4. Bounded'
  <2>1. ASSUME NEW i \in Slots PROVE slot'[i] \in ondisk'[i]
    BY <1>1, <1>2 DEF Slots
  <2>2. ASSUME NEW i \in Slots, NEW c \in ondisk'[i], c \in Records PROVE c.nth <= writes'
    <3>1. c = record \/ c \in ondisk[i]
      BY <1>2, <2>2, ContentsAssumption DEF Slots
    <3> QED BY <1>0, <2>2, <3>1 DEF Bounded, Records, Types
  <2> QED BY <1>0, <2>1, <2>2 DEF Bounded, Types
<1>5. Valid(slot') # {} /\ lock' # None
  BY <1>0, <1>1, NamesAssumption DEF Valid
<1>6. lock' # None /\ ~(told' > 0)
  BY <1>0, <1>5
<1> HIDE DEF record
<1> QED BY <1>3, <1>4, <1>5, <1>6 DEF Inv, Holds

LEMMA ResetStopsKeeps ==
    ASSUME Inv, NEW p \in Procs, ResetStops(p)
    PROVE  Inv'
<1>1. PICK content \in {Empty, Torn} :
          /\ slot' = [Truncated EXCEPT ![0] = content]
          /\ ondisk' = [TruncatedDisk EXCEPT ![0] = @ \cup {content}]
  BY DEF ResetStops
<1>0. /\ Types /\ Bounded /\ lock = None /\ lock' = None /\ writes' = writes /\ told' = 0
      /\ abandoned' = abandoned /\ faults' = faults + 1
  BY DEF Inv, ResetStops, Spend
<1>2. /\ slot'[0] = content /\ slot'[1] = Empty
      /\ ondisk'[0] = ondisk[0] \cup {Empty, content} /\ ondisk'[1] = ondisk[1] \cup {Empty}
      /\ slot' \in [Slots -> Contents] /\ ondisk' \in [Slots -> SUBSET Contents]
  BY <1>0, <1>1 DEF Truncated, TruncatedDisk, Types, Contents, Slots
<1>3. Types'
  BY <1>0, <1>2 DEF Types
<1>4. Bounded'
  <2>1. ASSUME NEW i \in Slots PROVE slot'[i] \in ondisk'[i]
    BY <1>2 DEF Slots
  <2>2. ASSUME NEW i \in Slots, NEW c \in ondisk'[i], c \in Records PROVE c.nth <= writes'
    <3>1. c \in ondisk[i]
      BY <1>1, <1>2, <2>2, ContentsAssumption DEF Slots
    <3> QED BY <1>0, <2>2, <3>1 DEF Bounded
  <2> QED BY <1>0, <2>1, <2>2 DEF Bounded, Types
<1>5. Valid(slot') = {}
  BY <1>1, <1>2, ContentsAssumption DEF Valid, Slots
<1> QED BY <1>0, <1>3, <1>4, <1>5 DEF Inv, Holds

\* One step per action; the rest is a stutter.
LEMMA NextKeeps == Inv /\ [Next]_vars => Inv'
<1> SUFFICES ASSUME Inv, [Next]_vars PROVE Inv'
  OBVIOUS
<1>1. ASSUME NEW p \in Procs, NEW state \in States, Write(p, state) PROVE Inv'
  BY <1>1, WriteKeeps
<1>2. ASSUME NEW p \in Procs, NEW state \in States, ShortWrite(p, state) PROVE Inv'
  BY <1>2, ShortWriteKeeps
<1>3. ASSUME NEW p \in Procs, ConfirmUnchanged(p) PROVE Inv'
  BY <1>3, ConfirmUnchangedKeeps
<1>4. ASSUME NEW p \in Procs, Sync(p) PROVE Inv'
  BY <1>4, SyncKeeps
<1>5. ASSUME NEW p \in Procs, Abandon(p) PROVE Inv'
  BY <1>5, AbandonKeeps
<1>6. ASSUME NEW p \in Procs, Reset(p) PROVE Inv'
  BY <1>6, ResetKeeps
<1>7. ASSUME NEW p \in Procs, ResetStops(p) PROVE Inv'
  BY <1>7, ResetStopsKeeps
<1>8. CASE PowerLoss
  BY <1>8, PowerLossKeeps
<1>9. CASE UNCHANGED vars
  BY <1>9 DEF vars, Inv, Types, Bounded, Holds, Anchor, Guard
<1> QED BY <1>1, <1>2, <1>3, <1>4, <1>5, <1>6, <1>7, <1>8, <1>9 DEF Next

\* docs/documentation.md:5774-5780 and the two slots of
\* commitRepositoryRunSnapshotFile: what a caller was told of the switch survives
\* every death, short write and failed sync, and every power loss unless a
\* record lay abandoned before its sync.
THEOREM SwitchSurvives == Spec => []ToldSurvives
<1>1. Inv => ToldSurvives
  <2> SUFFICES ASSUME Inv PROVE ToldSurvives
    OBVIOUS
  <2>1. ASSUME ~abandoned, NEW file \in Disks PROVE Holds(file)
    <3>1. CASE told > 0
      <4>1. PICK i \in Slots : Guard(i)
        BY <2>1, <3>1 DEF Inv
      <4> QED BY <4>1, GuardHolds DEF Inv
    <3>2. CASE ~(told > 0)
      BY <3>2 DEF Holds
    <3> QED BY <3>1, <3>2
  <2> QED BY <2>1 DEF ToldSurvives, Inv
<1> QED BY <1>1, InitInv, NextKeeps, PTL DEF Spec
=============================================================================
