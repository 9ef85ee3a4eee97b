-------------------------- MODULE AppendJournalProofs --------------------------
(***************************************************************************)
(* The transactional append keeps its promises for every number of         *)
(* archives, file size, number of appends and number of faults: recovery   *)
(* is refused only where the undoing of a failed journal write was cut     *)
(* short, a backup is never orphaned, what is read verifies, and the       *)
(* append implements AppendRing, which keeps what it acknowledged.         *)
(*                                                                         *)
(* The invariant speaks of every disk a power loss may leave, not only of  *)
(* the one the processes see (Image), and of where the operation is in its *)
(* work on the last of them (Fits). What recovery makes of a disk is a log *)
(* with its head until the record is published, and from then on one whose *)
(* head may be a record behind. Most steps leave what recovery makes of    *)
(* the disk as it is (Quietly); the publication adds a record, and the     *)
(* rollback of a publication that reported an error takes it back          *)
(* (Backward), which is allowed because a power loss could still have done *)
(* so (Revocable).                                                         *)
(*                                                                         *)
(* The chain of the files is a recursive fold of the library. What the     *)
(* rotation does to it is proved by induction over the slots, in the form  *)
(* of the least number principle.                                          *)
(***************************************************************************)
EXTENDS AppendJournal, WellFoundedInduction, TLAPS

--------------------------------------------------------------------------------
(* Induction, and the chain of the files.                                  *)

\* A set of naturals has a least member.
LEMMA Least ==
    ASSUME NEW T, T \subseteq Nat, T # {}
    PROVE  \E x \in T : \A y \in T : x <= y
<1> DEFINE R == OpToRel(<, Nat)
<1>1. IsWellFoundedOn(R, Nat)
  BY NatLessThanWellFounded
<1>2. \A x, y \in Nat : x < y => <<x, y>> \in R
  BY DEF OpToRel
<1> HIDE DEF R
<1>3. PICK x \in T : \A y \in T : ~(<<y, x>> \in R)
  BY <1>1, WFMin
<1>4. x \in Nat /\ \A y \in T : y \in Nat
  OBVIOUS
<1>5. \A y \in T : ~(y < x)
  BY <1>2, <1>3, <1>4
<1> QED
  BY <1>4, <1>5

\* What holds at zero, and at n + 1 when at n, holds everywhere: the set form of induction,
\* which asks no operator of the provers.
LEMMA Induct ==
    ASSUME NEW S, S \subseteq Nat, 0 \in S, \A n \in S : n + 1 \in S
    PROVE  S = Nat
<1> SUFFICES ASSUME Nat \ S # {} PROVE FALSE
  OBVIOUS
<1> DEFINE T == Nat \ S
<1>1. T \subseteq Nat /\ T # {}
  OBVIOUS
<1> HIDE DEF T
<1>2. PICK x \in T : \A y \in T : x <= y
  BY <1>1, Least
<1>3. x \in Nat /\ x # 0 /\ x - 1 \in Nat /\ x - 1 \notin T
  BY <1>2 DEF T
<1>4. x - 1 \in S
  BY <1>3 DEF T
<1> QED
  BY <1>3, <1>4 DEF T

\* A sequence of sequences is put together from the left.
Joins(g, s, n) == g = [i \in 1 .. n |-> IF i = 1 THEN s[1] ELSE g[i - 1] \o s[i]]

\* There is always such a function, for it is defined by the one before.
LEMMA JoinExists ==
    ASSUME NEW s
    PROVE  \A n \in Nat : \E g : Joins(g, s, n)
<1> DEFINE S == {n \in Nat : \E g : Joins(g, s, n)}
<1>1. 0 \in S
  <2>1. Joins(<<>>, s, 0)
    BY DEF Joins
  <2> QED
    BY <2>1
<1>2. ASSUME NEW n \in S PROVE n + 1 \in S
  <2>1. PICK g : Joins(g, s, n)
    BY <1>2
  <2> DEFINE h == [i \in 1 .. n + 1 |-> IF i = 1 THEN s[1] ELSE g[i - 1] \o s[i]]
  <2>2. n \in Nat /\ n + 1 \in Nat
    BY DEF S
  <2>3. ASSUME NEW i \in 1 .. n + 1, i # 1
        PROVE  h[i - 1] = g[i - 1]
    <3>1. i - 1 \in 1 .. n /\ i - 1 \in 1 .. n + 1
      BY <2>2, <2>3
    <3>2. g[i - 1] = IF i - 1 = 1 THEN s[1] ELSE g[(i - 1) - 1] \o s[i - 1]
      BY <2>1, <3>1 DEF Joins
    <3>3. h[i - 1] = IF i - 1 = 1 THEN s[1] ELSE g[(i - 1) - 1] \o s[i - 1]
      BY <3>1
    <3> QED
      BY <3>2, <3>3
  <2>4. h = [i \in 1 .. n + 1 |-> IF i = 1 THEN s[1] ELSE h[i - 1] \o s[i]]
    BY <2>3
  <2>5. Joins(h, s, n + 1)
    BY <2>4 DEF Joins
  <2> QED
    BY <2>2, <2>5 DEF S
<1> HIDE DEF S
<1>3. S = Nat
  <2>1. S \subseteq Nat
    BY DEF S
  <2> QED
    BY <1>1, <1>2, <2>1, Induct
<1> QED
  BY <1>3 DEF S

\* FlattenSeq is the last of the joins.
LEMMA FlattenJoins ==
    ASSUME NEW s, NEW n \in Nat \ {0}, Len(s) = n
    PROVE  \E g : Joins(g, s, n) /\ FlattenSeq(s) = g[n]
<1> DEFINE G == CHOOSE g : g = [i \in 1 .. n |-> IF i = 1 THEN s[i] ELSE g[i - 1] \o s[i]]
<1>1. \E g : g = [i \in 1 .. n |-> IF i = 1 THEN s[i] ELSE g[i - 1] \o s[i]]
  <2>1. PICK g : Joins(g, s, n)
    BY JoinExists
  <2>2. g = [i \in 1 .. n |-> IF i = 1 THEN s[i] ELSE g[i - 1] \o s[i]]
    BY <2>1 DEF Joins
  <2> QED
    BY <2>2
<1>2. G = [i \in 1 .. n |-> IF i = 1 THEN s[i] ELSE G[i - 1] \o s[i]]
  BY <1>1
<1>3. FlattenSeq(s) = G[n]
  BY DEF FlattenSeq
<1> HIDE DEF G
<1>4. Joins(G, s, n)
  BY <1>2 DEF Joins
<1> QED
  BY <1>3, <1>4

Held(F, i) == IF F[i] = None THEN <<>> ELSE F[i]
Parts(F)   == [k \in 1 .. MaxArchives + 1 |-> Held(F, MaxArchives + 1 - k)]
Pile(F)    == CHOOSE g : Joins(g, Parts(F), MaxArchives + 1) /\ Chain(F) = g[MaxArchives + 1]

\* The pile grows by one file at a time, and the last is the chain.
LEMMA PileRule ==
    ASSUME NEW F
    PROVE  /\ Pile(F)[1] = Held(F, MaxArchives)
           /\ \A i \in 2 .. MaxArchives + 1 :
                 Pile(F)[i] = Pile(F)[i - 1] \o Held(F, MaxArchives + 1 - i)
           /\ Chain(F) = Pile(F)[MaxArchives + 1]
<1> DEFINE n == MaxArchives + 1
           s == Parts(F)
<1>1. n \in Nat \ {0} /\ MaxArchives \in Nat
  BY JournalAssumption
<1>2. Len(s) = n
  BY <1>1 DEF Parts
<1>3. Chain(F) = FlattenSeq(s)
  BY DEF Chain, Parts, Held
<1> HIDE DEF s
<1>4. \E g : Joins(g, s, n) /\ Chain(F) = g[n]
  BY <1>1, <1>2, <1>3, FlattenJoins
<1>5. Joins(Pile(F), s, n) /\ Chain(F) = Pile(F)[n]
  BY <1>4 DEF Pile, s
<1>6. s[1] = Held(F, MaxArchives)
  BY <1>1 DEF s, Parts
<1>7. \A i \in 2 .. MaxArchives + 1 :
         Pile(F)[i] = Pile(F)[i - 1] \o Held(F, MaxArchives + 1 - i)
  <2> TAKE i \in 2 .. MaxArchives + 1
  <2>1. i \in 1 .. n /\ i # 1
    BY <1>1
  <2>2. s[i] = Held(F, MaxArchives + 1 - i)
    BY <1>1, <2>1 DEF s, Parts
  <2> QED
    BY <1>5, <2>1, <2>2 DEF Joins
<1>8. Pile(F)[1] = s[1]
  <2>1. 1 \in 1 .. n
    BY <1>1
  <2> QED
    BY <1>5, <2>1 DEF Joins
<1> QED
  BY <1>5, <1>6, <1>7, <1>8

\* The files are sequences, and so is what they are put together to.
LEMMA PileType ==
    ASSUME NEW X, NEW F, \A i \in Slots : Held(F, i) \in Seq(X)
    PROVE  \A i \in 1 .. MaxArchives + 1 : Pile(F)[i] \in Seq(X)
<1> DEFINE S == {i \in Nat : i + 1 \in 1 .. MaxArchives + 1 => Pile(F)[i + 1] \in Seq(X)}
<1>0. MaxArchives \in Nat
  BY JournalAssumption
<1>1. 0 \in S
  <2>1. Pile(F)[1] = Held(F, MaxArchives)
    BY PileRule
  <2>2. MaxArchives \in Slots
    BY <1>0 DEF Slots
  <2>3. Pile(F)[0 + 1] \in Seq(X)
    BY <2>1, <2>2
  <2> QED
    BY <2>3
<1>2. ASSUME NEW i \in S PROVE i + 1 \in S
  <2>1. i \in Nat /\ (i + 1 \in 1 .. MaxArchives + 1 => Pile(F)[i + 1] \in Seq(X))
    OBVIOUS
  <2>2. ASSUME (i + 1) + 1 \in 1 .. MaxArchives + 1
        PROVE  Pile(F)[(i + 1) + 1] \in Seq(X)
    <3> DEFINE k == (i + 1) + 1
    <3>1. /\ k \in 2 .. MaxArchives + 1 /\ k - 1 = i + 1 /\ i + 1 \in 1 .. MaxArchives + 1
          /\ MaxArchives + 1 - k \in Slots
      BY <1>0, <2>1, <2>2 DEF Slots
    <3> HIDE DEF k
    <3>2. Pile(F)[k] = Pile(F)[k - 1] \o Held(F, MaxArchives + 1 - k)
      BY <3>1, PileRule
    <3>3. Pile(F)[k - 1] \in Seq(X) /\ Held(F, MaxArchives + 1 - k) \in Seq(X)
      BY <2>1, <3>1
    <3> QED
      BY <3>2, <3>3 DEF k
  <2> QED
    BY <2>1, <2>2
<1>3. S \subseteq Nat
  OBVIOUS
<1> HIDE DEF S
<1>4. S = Nat
  BY <1>1, <1>2, <1>3, Induct
<1> QED
  <2> TAKE i \in 1 .. MaxArchives + 1
  <2>1. i - 1 \in S /\ (i - 1) + 1 = i
    BY <1>0, <1>4
  <2> QED
    BY <2>1 DEF S

\* Sequences put together.
LEMMA Joined ==
    ASSUME NEW X, NEW s \in Seq(X), NEW t \in Seq(X), NEW u \in Seq(X)
    PROVE  /\ s \o t \in Seq(X) /\ Len(s \o t) = Len(s) + Len(t)
           /\ \A k \in 1 .. Len(s) : (s \o t)[k] = s[k]
           /\ \A k \in 1 .. Len(t) : (s \o t)[Len(s) + k] = t[k]
           /\ (s \o t) \o u = s \o (t \o u)
           /\ s \o <<>> = s /\ <<>> \o s = s
OBVIOUS

\* Files with the same archives have the same pile of them.
LEMMA PilesAgree ==
    ASSUME NEW F, NEW G, \A i \in 1 .. MaxArchives : F[i] = G[i]
    PROVE  \A i \in 1 .. MaxArchives : Pile(F)[i] = Pile(G)[i]
<1> DEFINE S == {i \in Nat : i + 1 \in 1 .. MaxArchives => Pile(F)[i + 1] = Pile(G)[i + 1]}
<1>0. MaxArchives \in Nat
  BY JournalAssumption
<1>a. \A i \in 1 .. MaxArchives : Held(F, i) = Held(G, i)
  BY DEF Held
<1>1. 0 \in S
  <2>1. Pile(F)[1] = Held(F, MaxArchives) /\ Pile(G)[1] = Held(G, MaxArchives)
    BY PileRule
  <2>2. 0 + 1 \in 1 .. MaxArchives => Pile(F)[0 + 1] = Pile(G)[0 + 1]
    BY <1>0, <1>a, <2>1
  <2> QED
    BY <2>2
<1>2. ASSUME NEW i \in S PROVE i + 1 \in S
  <2>1. i \in Nat /\ (i + 1 \in 1 .. MaxArchives => Pile(F)[i + 1] = Pile(G)[i + 1])
    OBVIOUS
  <2>2. ASSUME (i + 1) + 1 \in 1 .. MaxArchives
        PROVE  Pile(F)[(i + 1) + 1] = Pile(G)[(i + 1) + 1]
    <3> DEFINE k == (i + 1) + 1
    <3>1. /\ k \in 2 .. MaxArchives + 1 /\ k - 1 = i + 1 /\ i + 1 \in 1 .. MaxArchives
          /\ MaxArchives + 1 - k \in 1 .. MaxArchives
      BY <1>0, <2>1, <2>2
    <3> HIDE DEF k
    <3>2. /\ Pile(F)[k] = Pile(F)[k - 1] \o Held(F, MaxArchives + 1 - k)
          /\ Pile(G)[k] = Pile(G)[k - 1] \o Held(G, MaxArchives + 1 - k)
      BY <3>1, PileRule
    <3>3. /\ Pile(F)[k - 1] = Pile(G)[k - 1]
          /\ Held(F, MaxArchives + 1 - k) = Held(G, MaxArchives + 1 - k)
      BY <1>a, <2>1, <3>1
    <3> QED
      BY <3>2, <3>3 DEF k
  <2> QED
    BY <2>1, <2>2
<1>3. S \subseteq Nat
  OBVIOUS
<1> HIDE DEF S
<1>4. S = Nat
  BY <1>1, <1>2, <1>3, Induct
<1> QED
  <2> TAKE i \in 1 .. MaxArchives
  <2>1. i - 1 \in S /\ (i - 1) + 1 = i
    BY <1>0, <1>4
  <2> QED
    BY <2>1 DEF S

\* The records of the archives, before those of the live file.
Archived(F) == IF MaxArchives = 0 THEN <<>> ELSE Pile(F)[MaxArchives]

\* The live file ends the chain.
LEMMA ChainLive ==
    ASSUME NEW X, NEW F, \A i \in Slots : Held(F, i) \in Seq(X)
    PROVE  /\ Archived(F) \in Seq(X) /\ Chain(F) \in Seq(X)
           /\ Chain(F) = Archived(F) \o Held(F, 0)
<1>0. MaxArchives \in Nat /\ 0 \in Slots
  BY JournalAssumption DEF Slots
<1>1. CASE MaxArchives = 0
  <2>1. Chain(F) = Held(F, 0) /\ Archived(F) = <<>>
    BY <1>1, PileRule DEF Archived
  <2>2. Held(F, 0) \in Seq(X)
    BY <1>0
  <2>3. <<>> \o Held(F, 0) = Held(F, 0) /\ <<>> \in Seq(X)
    BY <2>2
  <2> QED
    BY <2>1, <2>2, <2>3
<1>2. CASE MaxArchives # 0
  <2>1. Archived(F) = Pile(F)[MaxArchives] /\ Chain(F) = Pile(F)[MaxArchives + 1]
    BY <1>2, PileRule DEF Archived
  <2>2. /\ MaxArchives \in 1 .. MaxArchives + 1 /\ MaxArchives + 1 \in 2 .. MaxArchives + 1
        /\ MaxArchives + 1 \in 1 .. MaxArchives + 1
        /\ (MaxArchives + 1) - 1 = MaxArchives /\ MaxArchives + 1 - (MaxArchives + 1) = 0
    BY <1>0, <1>2
  <2>3. /\ Pile(F)[MaxArchives] \in Seq(X) /\ Pile(F)[MaxArchives + 1] \in Seq(X)
    BY <2>2, PileType
  <2>4. Pile(F)[MaxArchives + 1] = Pile(F)[(MaxArchives + 1) - 1]
                                      \o Held(F, MaxArchives + 1 - (MaxArchives + 1))
    BY <2>2, PileRule
  <2> QED
    BY <2>1, <2>2, <2>3, <2>4
<1> QED
  BY <1>1, <1>2

\* Files that differ in the live one have the same archived records.
LEMMA ArchivedAgrees ==
    ASSUME NEW F, NEW G, \A i \in Slots : i # 0 => F[i] = G[i]
    PROVE  Archived(F) = Archived(G)
<1>0. MaxArchives \in Nat
  BY JournalAssumption
<1>1. \A i \in 1 .. MaxArchives : F[i] = G[i]
  BY <1>0 DEF Slots
<1>2. MaxArchives # 0 => MaxArchives \in 1 .. MaxArchives
  BY <1>0
<1> QED
  BY <1>1, <1>2, PilesAgree DEF Archived

\* A rotation takes the oldest file off the beginning, and nothing else: G has
\* in each archive what F has one slot below.
LEMMA ChainRotates ==
    ASSUME NEW X, NEW F, \A i \in Slots : Held(F, i) \in Seq(X),
           NEW G, \A i \in Slots : Held(G, i) \in Seq(X),
           \A i \in 1 .. MaxArchives : G[i] = F[i - 1]
    PROVE  Chain(F) = Held(F, MaxArchives) \o Archived(G)
<1> DEFINE S == {i \in Nat : i + 1 \in 1 .. MaxArchives =>
                    Pile(F)[i + 2] = Held(F, MaxArchives) \o Pile(G)[i + 1]}
           first == Held(F, MaxArchives)
<1>0. MaxArchives \in Nat /\ MaxArchives \in Slots
  BY JournalAssumption DEF Slots
<1>a. \A i \in 1 .. MaxArchives : Held(G, i) = Held(F, i - 1)
  BY DEF Held
<1>b. first \in Seq(X) /\ first = Held(F, MaxArchives)
  BY <1>0
<1>c. \A i \in 1 .. MaxArchives + 1 : Pile(G)[i] \in Seq(X)
  BY PileType
<1> HIDE DEF first
<1>1. 0 \in S
  <2>1. ASSUME 0 + 1 \in 1 .. MaxArchives
        PROVE  Pile(F)[0 + 2] = Held(F, MaxArchives) \o Pile(G)[0 + 1]
    <3>1. /\ 2 \in 2 .. MaxArchives + 1 /\ MaxArchives \in 1 .. MaxArchives
          /\ MaxArchives + 1 - 2 = MaxArchives - 1
      BY <1>0, <2>1
    <3>2. Pile(F)[2] = Pile(F)[2 - 1] \o Held(F, MaxArchives + 1 - 2)
      BY <3>1, PileRule
    <3>3. Pile(F)[1] = Held(F, MaxArchives) /\ Pile(G)[1] = Held(G, MaxArchives)
      BY PileRule
    <3>4. Held(G, MaxArchives) = Held(F, MaxArchives + 1 - 2)
      BY <1>a, <3>1
    <3> DEFINE k == 2
    <3>5. k - 1 = 1 /\ k = 0 + 2
      OBVIOUS
    <3> HIDE DEF k
    <3>6. Pile(F)[k] = Pile(F)[k - 1] \o Held(F, MaxArchives + 1 - k)
      BY <3>2 DEF k
    <3>7. Held(F, MaxArchives + 1 - k) = Pile(G)[1]
      BY <3>3, <3>4 DEF k
    <3>8. Pile(F)[k] = Held(F, MaxArchives) \o Pile(G)[1]
      BY <3>3, <3>5, <3>6, <3>7
    <3> QED
      BY <3>5, <3>8
  <2> QED
    BY <2>1
<1>2. ASSUME NEW i \in S PROVE i + 1 \in S
  <2>1. i \in Nat /\ (i + 1 \in 1 .. MaxArchives =>
                         Pile(F)[i + 2] = Held(F, MaxArchives) \o Pile(G)[i + 1])
    OBVIOUS
  <2>2. ASSUME (i + 1) + 1 \in 1 .. MaxArchives
        PROVE  Pile(F)[(i + 1) + 2] = Held(F, MaxArchives) \o Pile(G)[(i + 1) + 1]
    <3> DEFINE k == (i + 1) + 2
               m == (i + 1) + 1
               p == Pile(G)[i + 1]
               q == Held(G, MaxArchives + 1 - m)
    <3>1. /\ k \in 2 .. MaxArchives + 1 /\ k - 1 = i + 2 /\ i + 1 \in 1 .. MaxArchives
          /\ i + 1 \in 1 .. MaxArchives + 1
          /\ m \in 2 .. MaxArchives + 1 /\ m - 1 = i + 1
          /\ MaxArchives + 1 - m \in 1 .. MaxArchives
          /\ MaxArchives + 1 - m \in Slots
          /\ MaxArchives + 1 - k = (MaxArchives + 1 - m) - 1
      BY <1>0, <2>1, <2>2 DEF Slots
    <3>2. Held(F, MaxArchives + 1 - k) = q
      BY <1>a, <3>1
    <3>3. p \in Seq(X) /\ q \in Seq(X)
      BY <1>c, <3>1
    <3> HIDE DEF k, m
    <3>4. /\ Pile(F)[k] = Pile(F)[k - 1] \o Held(F, MaxArchives + 1 - k)
          /\ Pile(G)[m] = Pile(G)[m - 1] \o Held(G, MaxArchives + 1 - m)
      BY <3>1, PileRule
    <3>5. Pile(F)[k - 1] = first \o p
      BY <1>b, <2>1, <3>1
    <3>6. Pile(G)[m] = p \o q
      BY <3>1, <3>4
    <3>7. Pile(F)[k] = (first \o p) \o q
      BY <3>2, <3>4, <3>5
    <3> HIDE DEF p, q
    <3>8. Pile(F)[k] = first \o Pile(G)[m]
      BY <1>b, <3>3, <3>6, <3>7, Joined
    <3> QED
      BY <1>b, <3>8 DEF k, m
  <2> QED
    BY <2>1, <2>2
<1>3. S \subseteq Nat
  OBVIOUS
<1> HIDE DEF S
<1>4. S = Nat
  BY <1>1, <1>2, <1>3, Induct
<1>5. CASE MaxArchives = 0
  <2>1. Chain(F) = Held(F, MaxArchives) /\ Archived(G) = <<>>
    BY <1>5, PileRule DEF Archived
  <2> QED
    BY <1>b, <2>1
<1>6. CASE MaxArchives # 0
  <2>1. MaxArchives - 1 \in S /\ (MaxArchives - 1) + 1 = MaxArchives
        /\ (MaxArchives - 1) + 2 = MaxArchives + 1 /\ MaxArchives \in 1 .. MaxArchives
    BY <1>0, <1>4, <1>6
  <2>2. Pile(F)[MaxArchives + 1] = Held(F, MaxArchives) \o Pile(G)[MaxArchives]
    BY <2>1 DEF S
  <2> QED
    BY <1>6, <2>2, PileRule DEF Archived
<1> QED
  BY <1>5, <1>6

\* How many records the archives have.
LEMMA ArchivedLength ==
    ASSUME NEW X, NEW F, \A i \in Slots : Held(F, i) \in Seq(X),
           \A i \in Slots : i # 0 => Len(Held(F, i)) <= RecordsPerFile
    PROVE  /\ Len(Archived(F)) \in Nat /\ Len(Archived(F)) <= MaxArchives * RecordsPerFile
           /\ (\A i \in Slots : i # 0 => Len(Held(F, i)) = RecordsPerFile)
                 => Len(Archived(F)) = MaxArchives * RecordsPerFile
<1> DEFINE Whole == \A i \in Slots : i # 0 => Len(Held(F, i)) = RecordsPerFile
           S == {i \in Nat : i + 1 \in 1 .. MaxArchives =>
                    /\ Len(Pile(F)[i + 1]) <= (i + 1) * RecordsPerFile
                    /\ Whole => Len(Pile(F)[i + 1]) = (i + 1) * RecordsPerFile}
<1>0. MaxArchives \in Nat /\ MaxArchives \in Slots /\ RecordsPerFile \in Nat
  BY JournalAssumption DEF Slots
<1>a. \A i \in 1 .. MaxArchives : i \in Slots /\ i # 0
  BY <1>0 DEF Slots
<1>c. \A i \in 1 .. MaxArchives + 1 : Pile(F)[i] \in Seq(X)
  BY PileType
<1>1. 0 \in S
  <2>1. Pile(F)[1] = Held(F, MaxArchives)
    BY PileRule
  <2>2. MaxArchives # 0 => Len(Held(F, MaxArchives)) <= RecordsPerFile
                           /\ (Whole => Len(Held(F, MaxArchives)) = RecordsPerFile)
    BY <1>0
  <2>3. (0 + 1) * RecordsPerFile = RecordsPerFile /\ (0 + 1 \in 1 .. MaxArchives => MaxArchives # 0)
    BY <1>0
  <2> QED
    BY <2>1, <2>2, <2>3
<1>2. ASSUME NEW i \in S PROVE i + 1 \in S
  <2> HIDE DEF Whole
  <2>1. i \in Nat /\ (i + 1 \in 1 .. MaxArchives =>
                        /\ Len(Pile(F)[i + 1]) <= (i + 1) * RecordsPerFile
                        /\ Whole => Len(Pile(F)[i + 1]) = (i + 1) * RecordsPerFile)
    OBVIOUS
  <2>2. ASSUME (i + 1) + 1 \in 1 .. MaxArchives
        PROVE  /\ Len(Pile(F)[(i + 1) + 1]) <= ((i + 1) + 1) * RecordsPerFile
               /\ Whole => Len(Pile(F)[(i + 1) + 1]) = ((i + 1) + 1) * RecordsPerFile
    <3> DEFINE m == (i + 1) + 1
               p == Pile(F)[i + 1]
               q == Held(F, MaxArchives + 1 - m)
    <3>1. /\ i + 1 \in 1 .. MaxArchives /\ i + 1 \in 1 .. MaxArchives + 1
          /\ m \in 2 .. MaxArchives + 1 /\ m - 1 = i + 1
          /\ MaxArchives + 1 - m \in Slots /\ MaxArchives + 1 - m # 0
      BY <1>0, <2>1, <2>2 DEF Slots
    <3>2. p \in Seq(X) /\ q \in Seq(X) /\ Len(q) <= RecordsPerFile
      BY <1>c, <3>1
    <3>3. Whole => Len(q) = RecordsPerFile
      BY <3>1 DEF Whole
    <3> HIDE DEF m
    <3>4. Pile(F)[m] = p \o q
      BY <3>1, PileRule
    <3>5. Len(p) <= (i + 1) * RecordsPerFile /\ (Whole => Len(p) = (i + 1) * RecordsPerFile)
      BY <2>1, <3>1
    <3>6. m * RecordsPerFile = (i + 1) * RecordsPerFile + RecordsPerFile
      BY <1>0, <2>1 DEF m
    <3> DEFINE a == (i + 1) * RecordsPerFile
    <3>7. a \in Nat /\ Len(p) <= a /\ (Whole => Len(p) = a)
      BY <1>0, <2>1, <3>5
    <3> HIDE DEF p, q, a
    <3>8. Len(Pile(F)[m]) = Len(p) + Len(q) /\ Len(p) \in Nat /\ Len(q) \in Nat
      BY <3>2, <3>4
    <3>9. Len(Pile(F)[m]) <= a + RecordsPerFile /\ (Whole => Len(Pile(F)[m]) = a + RecordsPerFile)
      BY <1>0, <3>2, <3>3, <3>7, <3>8
    <3> QED
      BY <3>6, <3>9 DEF a, m
  <2> QED
    BY <2>1, <2>2
<1>3. S \subseteq Nat
  OBVIOUS
<1> HIDE DEF S
<1>4. S = Nat
  BY <1>1, <1>2, <1>3, Induct
<1>5. CASE MaxArchives = 0
  BY <1>0, <1>5 DEF Archived
<1>6. CASE MaxArchives # 0
  <2>1. MaxArchives - 1 \in S /\ (MaxArchives - 1) + 1 = MaxArchives
        /\ MaxArchives \in 1 .. MaxArchives /\ MaxArchives \in 1 .. MaxArchives + 1
    BY <1>0, <1>4, <1>6
  <2>2. /\ Len(Pile(F)[MaxArchives]) <= MaxArchives * RecordsPerFile
        /\ Whole => Len(Pile(F)[MaxArchives]) = MaxArchives * RecordsPerFile
    BY <2>1 DEF S
  <2>3. Len(Pile(F)[MaxArchives]) \in Nat
    BY <1>c, <2>1
  <2> QED
    BY <1>6, <2>2, <2>3 DEF Archived
<1> QED
  BY <1>5, <1>6

--------------------------------------------------------------------------------
(* The invariant.                                                          *)

Files    == [Slots -> Some(Records)]
Disks    == [files : Files, backups : Files, journal : Journals \cup {None}, head : Records]
Labels   == {"idle", "recover", "prepare", "read", "begin", "backup", "backup_journal",
             "prepared", "rotate", "write", "publish", "committing", "commit", "resolve",
             "finish", "abort", "rollback", "mark", "recover_commit", "refused"}
Ops      == [pc : Labels, then : {"idle", "prepare", "read", "ack"}, i : Nat, bad : BOOLEAN,
             record : Records]

\* The archives are full, and there is none without the file before it.
Stacked(F) ==
    /\ \A i \in Slots : F[i] # None => Len(F[i]) \in 1 .. RecordsPerFile
    /\ \A i \in Slots : i # 0 /\ F[i] # None => Len(F[i]) = RecordsPerFile
    /\ \A i, j \in Slots : j < i /\ F[i] # None => F[j] # None

\* The files of a log with head h, of which n records were begun.
Known(r, n) == r \in Records /\ r.seq <= n /\ r.id <= n
Sealed(F, h, n) ==
    /\ Stacked(F) /\ Continuous(Chain(F)) /\ Known(h, n)
    /\ Chain(F) = <<>> => h = NoHead
    /\ Chain(F) # <<>> => h = Last(Chain(F)) /\ h.seq > 0

\* The same with a last record that the head may not have.
Open(F, h, n) ==
    /\ Stacked(F) /\ Continuous(Chain(F)) /\ Known(h, n)
    /\ Chain(F) # <<>> /\ Known(Last(Chain(F)), n) /\ Last(Chain(F)).seq > 0
    /\ Last(Chain(F)) = h \/ Advances(h, Chain(F))

\* What every disk is, and every one that a power loss may leave.
Unsealed(d) == d.journal # None /\ d.journal.state \in {"published", "committing"} /\ ~Stranded(d)
Intact(d)   == \A i \in Slots : d.backups[i] = d.journal.backups[i + 1]
Shorter(d)  == d.journal.liveExisted => d.files[0] # None /\ d.journal.liveSize <= Len(d.files[0])
Image(d, n) ==
    /\ d \in Disks
    /\ d.journal = None \/ ~d.journal.rotated => d.backups = Empty
    /\ IF Unsealed(d) THEN Open(d.files, d.head, n) ELSE Sealed(Recovered(d), d.head, n)
    /\ d.journal # None /\ d.journal.state = "preparing" => d.journal.rotated
    /\ d.journal # None /\ d.journal.state = "prepared" =>
          IF d.journal.rotated
          THEN Len(d.journal.backups) = MaxArchives + 1 /\ (Intact(d) \/ d.files = Undone(d))
          ELSE Shorter(d)

\* Where an operation is: the state of the journal, what of its work is done.
In(d, s)         == d.journal # None /\ d.journal.state = s
Succeeds(r, h, n) == r = [seq |-> h.seq + 1, id |-> n, prev |-> h.id] /\ h.seq < n
Begun(d, r, n) ==
    /\ In(d, "preparing") /\ d.journal.rotated /\ Succeeds(r, d.head, n)
    /\ d.files[0] # None /\ Len(d.files[0]) = RecordsPerFile
Backed(d, c, b) ==
    /\ Len(d.journal.backups) = c
    /\ \A k \in Slots : /\ k < c => d.journal.backups[k + 1] = d.files[k]
                        /\ k < b => d.backups[k] = d.files[k]
Moving(d, i) ==
    LET O == Recovered(d) IN
    /\ O[0] # None /\ Len(O[0]) = RecordsPerFile
    /\ \A k \in Slots : d.files[k] = IF k < i THEN O[k] ELSE IF k = i THEN None ELSE O[k - 1]
Roomy(d)      == d.files = Recovered(d) /\ (d.files[0] # None => Len(d.files[0]) < RecordsPerFile)
Written(d, r) == /\ Stacked(d.files) /\ Continuous(Chain(d.files))
                 /\ Chain(d.files) = Append(Ring!Bounded(Chain(Recovered(d))), r)
LastIs(d, r)  == Chain(d.files) # <<>> /\ Last(Chain(d.files)) = r

Restored(d, i) ==
    /\ i <= MaxArchives + 1
    /\ d.journal.rotated => \A k \in Slots : k < i => d.files[k] = d.journal.backups[k + 1]
    /\ ~d.journal.rotated => i = 0 \/ (i = MaxArchives + 1 /\ d.files = Recovered(d))
Removed(d, i) == \A k \in Slots : k < i => d.backups[k] = None

\* The rotation is done, and the live file is new.
Moved(d) == /\ d.journal.backups[1] # None
            /\ \A k \in Slots : k > 0 => d.files[k] = d.journal.backups[k]

\* A rollback of a published record: i files are what they were.
Withdrawn(d, i, n) ==
    /\ Sealed(Undone(d), d.head, n) /\ i <= MaxArchives + 1
    /\ d.journal.rotated =>
          /\ Len(d.journal.backups) = MaxArchives + 1 /\ Intact(d) /\ d.journal.backups[1] # None
          /\ \A k \in Slots :
                k + i > 0 => d.files[k] = d.journal.backups[IF k < i THEN k + 1 ELSE k]
    /\ ~d.journal.rotated =>
          Shorter(d) /\ (i = 0 \/ (i = MaxArchives + 1 /\ d.files = Undone(d)))

Fits(d, o, n) ==
    /\ o.pc = "recover" => o.then \in {"prepare", "read"}
    /\ o.pc \in {"prepare", "read"} => d.journal = None /\ o.then = o.pc
    /\ o.then = "prepare" => n < MaxAttempts
    /\ o.pc = "begin" => d.journal = None /\ Succeeds(o.record, d.head, n)
    /\ o.pc = "backup" => Begun(d, o.record, n) /\ o.i \in Slots /\ Backed(d, o.i, o.i)
    /\ o.pc = "backup_journal" => Begun(d, o.record, n) /\ o.i \in Slots /\ Backed(d, o.i, o.i + 1)
    /\ o.pc = "prepared" => Begun(d, o.record, n) /\ Backed(d, MaxArchives + 1, MaxArchives + 1)
    /\ o.pc \in {"rotate", "write", "publish"} =>
          /\ In(d, "prepared") /\ Succeeds(o.record, d.head, n)
          /\ d.journal.rotated => Intact(d)
    /\ o.pc = "rotate" => d.journal.rotated /\ o.i \in Slots /\ Moving(d, o.i + 1)
    /\ o.pc = "write"  => IF d.journal.rotated THEN Moving(d, 0) ELSE Roomy(d)
    /\ o.pc = "publish" => Written(d, o.record) /\ (d.journal.rotated => Moved(d))
    /\ o.pc = "committing" => In(d, "published") /\ LastIs(d, o.record)
    /\ o.pc = "commit" => In(d, "committing") /\ LastIs(d, o.record)
    /\ o.pc = "resolve" => /\ In(d, "committing") /\ Sealed(d.files, d.head, n)
                           /\ o.record # Torn => LastIs(d, o.record)
    /\ o.pc \in {"committing", "commit", "resolve"} => ~Stranded(d)
    /\ o.pc = "finish" => In(d, "resolved") /\ (d.journal.rotated /\ ~o.bad => Removed(d, o.i))
    /\ o.pc = "abort" => /\ \/ d.journal = None \/ In(d, "preparing")
                            \/ In(d, "prepared") /\ d.files = Undone(d)
                         /\ ~o.bad => Removed(d, o.i)
    /\ o.pc = "rollback" => \/ In(d, "prepared") /\ Restored(d, o.i)
                            \/ In(d, "published") /\ Withdrawn(d, o.i, n)
    /\ o.pc = "mark" => In(d, "published")
    /\ o.pc = "recover_commit" => In(d, "committing")
    /\ o.pc = "refused" => Stranded(d)
    /\ o.pc \in {"mark", "recover_commit"} => o.then \in {"prepare", "read"}
    /\ o.then \in {"prepare", "read"} => o.record = Torn
    /\ o.then = "ack" => o.pc = "finish" /\ LastIs(d, o.record)

Imaged(ims, n)     == /\ ims \in Seq(Disks) /\ Len(ims) > 0
                      /\ \A k \in 1 .. Len(ims) : Image(ims[k], n)
Kept(ims, o, n, f) == /\ n \in 0 .. MaxAttempts /\ f \in Nat
                      /\ Imaged(ims, n) /\ o \in Ops /\ Fits(Last(ims), o, n)
JournalInv         == Kept(images, op, attempts, faults)

\* When a rollback of a published record begins, what it goes back to is still an image.
Revocable == op.pc = "rollback" /\ In(disk, "published") /\ op.i = 0 =>
                Chain(Undone(disk)) \in {Chain(Recovered(images[k])) : k \in DOMAIN images}

--------------------------------------------------------------------------------
(* Files and their chain.                                                  *)

\* Files hold sequences of records.
LEMMA FilesHold ==
    ASSUME NEW F \in Files
    PROVE  \A i \in Slots : /\ Held(F, i) \in Seq(Records)
                            /\ F[i] # None => F[i] \in Seq(Records) /\ Held(F, i) = F[i]
                            /\ F[i] = None => Held(F, i) = <<>>
BY DEF Files, Some, Held

\* An append that rotates the files: what the ring drops is the oldest file.
LEMMA RotatedChain ==
    ASSUME NEW O \in Files, Stacked(O), O[0] # None, Len(O[0]) = RecordsPerFile,
           NEW G \in Files, \A i \in 1 .. MaxArchives : G[i] = O[i - 1]
    PROVE  Ring!Bounded(Chain(O)) = Archived(G)
<1>0. /\ MaxArchives \in Nat /\ RecordsPerFile \in Nat \ {0} /\ MaxArchives \in Slots
      /\ 0 \in Slots
  BY JournalAssumption DEF Slots
<1>1. /\ \A i \in Slots : Held(O, i) \in Seq(Records)
      /\ \A i \in Slots : Held(G, i) \in Seq(Records)
  BY FilesHold
<1>2. Chain(O) = Held(O, MaxArchives) \o Archived(G)
  BY <1>1, ChainRotates
<1>3. Archived(G) \in Seq(Records)
  BY <1>1, ChainLive
<1>4. \A i \in Slots : Len(Held(O, i)) <= RecordsPerFile
  <2> TAKE i \in Slots
  <2>1. Held(O, i) = <<>> \/ (Held(O, i) = O[i] /\ O[i] # None)
    BY FilesHold
  <2>2. O[i] # None => Len(O[i]) \in 1 .. RecordsPerFile
    BY DEF Stacked
  <2> QED
    BY <1>0, <2>1, <2>2
<1>5. ASSUME NEW i \in Slots, i # 0 PROVE Held(G, i) = Held(O, i - 1) /\ i - 1 \in Slots
  BY <1>0, <1>5 DEF Slots, Held
<1>6. \A i \in Slots : i # 0 => Len(Held(G, i)) <= RecordsPerFile
  BY <1>4, <1>5
<1> DEFINE a == Archived(G)
           h == Held(O, MaxArchives)
           p == MaxArchives * RecordsPerFile
           q == (MaxArchives + 1) * RecordsPerFile
<1>7. p \in Nat /\ q = p + RecordsPerFile
  BY <1>0
<1>8. Len(a) \in Nat /\ Len(a) <= p
  BY <1>1, <1>6, ArchivedLength
<1>9. h \in Seq(Records)
  BY <1>0, <1>1
<1>10. Ring!Bounded(Chain(O)) = IF Len(Chain(O)) < q THEN Chain(O)
                                ELSE SubSeq(Chain(O), RecordsPerFile + 1, Len(Chain(O)))
  BY DEF Ring!Bounded
<1>11. a \in Seq(Records)
  BY <1>3
<1>12. Chain(O) = h \o a
  BY <1>2
<1>13. CASE O[MaxArchives] = None
  <2>1. h = <<>>
    BY <1>0, <1>13, FilesHold
  <2> HIDE DEF a, h, p, q
  <2>2. Chain(O) = a
    BY <1>11, <1>12, <2>1
  <2> QED
    BY <1>0, <1>7, <1>8, <1>10, <2>2 DEF a
<1>14. CASE O[MaxArchives] # None
  <2>1. \A i \in Slots : O[i] # None
    <3> TAKE i \in Slots
    <3>1. i < MaxArchives \/ i = MaxArchives
      BY <1>0 DEF Slots
    <3> QED
      BY <1>0, <1>14, <3>1 DEF Stacked
  <2>2. \A i \in Slots : Len(Held(O, i)) = RecordsPerFile
    BY <2>1, FilesHold DEF Stacked
  <2>3. \A i \in Slots : i # 0 => Len(Held(G, i)) = RecordsPerFile
    BY <1>5, <2>2
  <2>4. Len(a) = p
    BY <1>1, <1>6, <2>3, ArchivedLength
  <2>5. Len(h) = RecordsPerFile
    BY <1>0, <2>2
  <2> HIDE DEF a, h, p, q
  <2>6. Len(Chain(O)) = q /\ Chain(O) \in Seq(Records)
    <3>1. Len(h \o a) = Len(h) + Len(a) /\ h \o a \in Seq(Records)
      BY <1>9, <1>11
    <3> QED
      BY <1>0, <1>7, <1>12, <2>4, <2>5, <3>1
  <2>7. SubSeq(h \o a, Len(h) + 1, Len(h \o a)) = a
    BY <1>9, <1>11
  <2> QED
    BY <1>0, <1>7, <1>10, <1>12, <2>5, <2>6, <2>7 DEF a
<1> QED
  BY <1>13, <1>14

\* A ring whose live file is not full is not full.
LEMMA RoomyChain ==
    ASSUME NEW F \in Files, Stacked(F), F[0] # None => Len(F[0]) < RecordsPerFile
    PROVE  Ring!Bounded(Chain(F)) = Chain(F)
<1>0. MaxArchives \in Nat /\ RecordsPerFile \in Nat \ {0} /\ 0 \in Slots
  BY JournalAssumption DEF Slots
<1>1. \A i \in Slots : Held(F, i) \in Seq(Records)
  BY FilesHold
<1>2. \A i \in Slots : i # 0 => Len(Held(F, i)) <= RecordsPerFile
  BY <1>0, FilesHold DEF Stacked
<1> DEFINE p == MaxArchives * RecordsPerFile
           q == (MaxArchives + 1) * RecordsPerFile
           a == Archived(F)
           h == Held(F, 0)
<1>3. Len(a) \in Nat /\ Len(a) <= p
  BY <1>1, <1>2, ArchivedLength
<1>4. p \in Nat /\ q = p + RecordsPerFile
  BY <1>0
<1>5. Chain(F) = a \o h /\ a \in Seq(Records) /\ h \in Seq(Records)
  BY <1>0, <1>1, ChainLive
<1>6. Len(h) < RecordsPerFile
  BY <1>0, FilesHold
<1> HIDE DEF p, q, a, h
<1>7. Len(Chain(F)) < q
  BY <1>0, <1>3, <1>4, <1>5, <1>6
<1> QED
  BY <1>7 DEF q, Ring!Bounded

--------------------------------------------------------------------------------
(* The ring.                                                               *)

Rec(d)        == Chain(Recovered(d))
Readings(ims) == {Rec(ims[k]) : k \in DOMAIN ims}
log           == Rec(disk)
fallbacks     == Readings(images)

RingAssumption == /\ MaxArchives \in Nat
                  /\ RecordsPerFile \in Nat \ {0}
                  /\ \A r \in Records : r.seq \in Nat

Contiguous(s) == /\ s \in Seq(Records)
                 /\ \A k \in 1 .. Len(s) : s[k].seq = s[1].seq + k - 1

RingInv == /\ acked \subseteq Records
           /\ \A s \in fallbacks \cup {log} : Contiguous(s)
           /\ \A r \in acked, s \in fallbacks \cup {log} : Ring!Keeps(s, r)

\* Records count from zero.
LEMMA RecordsCount == RingAssumption
BY JournalAssumption DEF RingAssumption, Records

\* The abstract ring, in the terms of the journal.
LEMMA RingMeans ==
    /\ Ring!Init <=> log = <<>> /\ fallbacks = {<<>>} /\ acked = {}
    /\ Ring!Publish <=>
          /\ Len(log') > 0
          /\ log'[Len(log')] \in Records /\ Ring!Follows(log'[Len(log')], log)
          /\ log' = Append(Ring!Bounded(log), log'[Len(log')])
          /\ fallbacks' = fallbacks \cup {log'}
          /\ UNCHANGED acked
    /\ Ring!TakeBack <=>
          /\ log' \in fallbacks
          /\ fallbacks' \in {{log'}, fallbacks}
          /\ UNCHANGED acked
    /\ Ring!Flush <=> fallbacks' = {log} /\ UNCHANGED <<log, acked>>
    /\ Ring!Acknowledge <=>
          /\ log # <<>>
          /\ fallbacks' = {log}
          /\ acked' = acked \cup {log[Len(log)]}
          /\ UNCHANGED log
    /\ (UNCHANGED Ring!vars) <=> (UNCHANGED <<log, fallbacks, acked>>)
    /\ Ring!AcknowledgedKept <=> \A r \in acked, s \in fallbacks \cup {log} : Ring!Keeps(s, r)
<1>1. Ring!Init <=> log = <<>> /\ fallbacks = {<<>>} /\ acked = {}
  BY DEF Ring!Init, log, fallbacks, Rec, Readings
<1>2. Ring!Publish <=>
          /\ Len(log') > 0
          /\ log'[Len(log')] \in Records /\ Ring!Follows(log'[Len(log')], log)
          /\ log' = Append(Ring!Bounded(log), log'[Len(log')])
          /\ fallbacks' = fallbacks \cup {log'}
          /\ UNCHANGED acked
  BY DEF Ring!Publish, log, fallbacks, Rec, Readings
<1>3. Ring!TakeBack <=>
          /\ log' \in fallbacks
          /\ fallbacks' \in {{log'}, fallbacks}
          /\ UNCHANGED acked
  BY DEF Ring!TakeBack, log, fallbacks, Rec, Readings
<1>4. Ring!Flush <=> fallbacks' = {log} /\ UNCHANGED <<log, acked>>
  BY DEF Ring!Flush, log, fallbacks, Rec, Readings
<1>5. Ring!Acknowledge <=>
          /\ log # <<>>
          /\ fallbacks' = {log}
          /\ acked' = acked \cup {log[Len(log)]}
          /\ UNCHANGED log
  BY DEF Ring!Acknowledge, log, fallbacks, Rec, Readings
<1>6. (UNCHANGED Ring!vars) <=> (UNCHANGED <<log, fallbacks, acked>>)
  BY DEF Ring!vars, log, fallbacks, Rec, Readings
<1>7. Ring!AcknowledgedKept <=> \A r \in acked, s \in fallbacks \cup {log} : Ring!Keeps(s, r)
  BY DEF Ring!AcknowledgedKept, log, fallbacks, Rec, Readings
<1> QED
  BY <1>1, <1>2, <1>3, <1>4, <1>5, <1>6, <1>7

\* Bounded drops whole files from the beginning, and never more than there is.
LEMMA BoundedDrops ==
    ASSUME NEW s \in Seq(Records)
    PROVE  \E d \in Nat : /\ d <= Len(s)
                          /\ Ring!Bounded(s) \in Seq(Records)
                          /\ Len(Ring!Bounded(s)) = Len(s) - d
                          /\ \A k \in 1 .. Len(s) - d : Ring!Bounded(s)[k] = s[k + d]
<1>0. RingAssumption
  BY RecordsCount
<1>1. CASE Len(s) < (MaxArchives + 1) * RecordsPerFile
  <2>1. Ring!Bounded(s) = s
    BY <1>1 DEF Ring!Bounded
  <2> QED
    BY <2>1
<1>2. CASE ~(Len(s) < (MaxArchives + 1) * RecordsPerFile)
  <2> DEFINE d == RecordsPerFile
  <2>1. d \in Nat /\ d > 0 /\ MaxArchives \in Nat /\ Len(s) \in Nat
    BY <1>0 DEF RingAssumption
  <2>2. MaxArchives * d \in Nat /\ (MaxArchives + 1) * d = MaxArchives * d + d
    BY <2>1
  <2>3. (MaxArchives + 1) * d <= Len(s)
    BY <1>2, <2>1, <2>2
  <2>4. d <= Len(s)
    BY <2>1, <2>2, <2>3
  <2>5. Ring!Bounded(s) = SubSeq(s, d + 1, Len(s))
    BY <1>2 DEF Ring!Bounded
  <2> HIDE DEF d
  <2>6. /\ SubSeq(s, d + 1, Len(s)) \in Seq(Records)
        /\ Len(SubSeq(s, d + 1, Len(s))) = Len(s) - d
        /\ \A k \in 1 .. Len(s) - d : SubSeq(s, d + 1, Len(s))[k] = s[k + d]
    BY <2>1, <2>4
  <2> QED
    BY <2>1, <2>4, <2>5, <2>6
<1> QED
  BY <1>1, <1>2

\* A publication keeps the sequence contiguous and every record that was kept.
LEMMA PublishKeeps ==
    ASSUME NEW s, Contiguous(s),
           NEW r \in Records, Ring!Follows(r, s)
    PROVE  LET t == Append(Ring!Bounded(s), r) IN
              /\ Contiguous(t)
              /\ \A a \in Records : Ring!Keeps(s, a) => Ring!Keeps(t, a)
<1> DEFINE b == Ring!Bounded(s)
           t == Append(b, r)
<1>0. RingAssumption
  BY RecordsCount
<1>1. s \in Seq(Records) /\ \A k \in 1 .. Len(s) : s[k].seq = s[1].seq + k - 1
  BY DEF Contiguous
<1>2. PICK d \in Nat : /\ d <= Len(s)
                       /\ b \in Seq(Records)
                       /\ Len(b) = Len(s) - d
                       /\ \A k \in 1 .. Len(s) - d : b[k] = s[k + d]
  BY <1>1, BoundedDrops
<1> HIDE DEF b
<1>3. /\ t \in Seq(Records)
      /\ Len(t) = Len(b) + 1
      /\ t[Len(t)] = r
      /\ \A k \in 1 .. Len(b) : t[k] = b[k]
  BY <1>2
<1> HIDE DEF t
<1>4. r.seq \in Nat /\ \A k \in 1 .. Len(s) : s[k].seq \in Nat
  BY <1>0, <1>1 DEF RingAssumption
<1>5. s = <<>> \/ (Len(s) > 0 /\ r.seq = s[1].seq + Len(s) /\ s[1].seq \in Nat)
  <2>1. CASE s # <<>>
    <3>1. Len(s) \in Nat /\ Len(s) > 0
      BY <1>1, <2>1
    <3>2. r.seq = s[Len(s)].seq + 1
      BY <2>1 DEF Ring!Follows
    <3>3. s[Len(s)].seq = s[1].seq + Len(s) - 1
      BY <1>1, <3>1
    <3> QED
      BY <1>4, <3>1, <3>2, <3>3
  <2> QED
    BY <2>1
<1>6. \A k \in 1 .. Len(b) : t[k].seq = s[1].seq + d + k - 1
  <2> TAKE k \in 1 .. Len(b)
  <2>1. k + d \in 1 .. Len(s) /\ t[k] = s[k + d] /\ k \in Nat
    BY <1>1, <1>2, <1>3
  <2>2. s[k + d].seq = s[1].seq + (k + d) - 1
    BY <1>1, <2>1
  <2>3. s[1].seq \in Nat
    BY <1>1, <1>4, <2>1
  <2> QED
    BY <2>1, <2>2, <2>3
<1>7. CASE Len(b) = 0
  <2>1. Len(t) = 1 /\ t[1] = r /\ t # <<>>
    BY <1>3, <1>7
  <2>2. Contiguous(t)
    <3>1. \A k \in 1 .. Len(t) : k = 1
      BY <2>1
    <3>2. t[1].seq = t[1].seq + 1 - 1
      BY <1>4, <2>1
    <3> QED
      BY <1>3, <3>1, <3>2 DEF Contiguous
  <2>3. ASSUME NEW a \in Records, Ring!Keeps(s, a)
        PROVE  Ring!Keeps(t, a)
    <3>1. s # <<>> /\ s[Len(s)].seq >= a.seq
      BY <2>3 DEF Ring!Keeps
    <3>2. Len(s) > 0 /\ r.seq = s[Len(s)].seq + 1 /\ s[Len(s)].seq \in Nat
      BY <1>1, <1>4, <1>5, <3>1 DEF Ring!Follows
    <3>3. a.seq \in Nat
      BY <1>0 DEF RingAssumption
    <3>4. r.seq > a.seq
      BY <3>1, <3>2, <3>3
    <3> QED
      BY <1>4, <2>1, <3>3, <3>4 DEF Ring!Keeps
  <2> QED
    BY <2>2, <2>3 DEF t, b
<1>8. CASE Len(b) # 0
  <2>1. Len(b) \in Nat /\ Len(b) > 0 /\ Len(s) = Len(b) + d /\ s # <<>>
    BY <1>1, <1>2, <1>8
  <2>2. t[1].seq = s[1].seq + d /\ s[1].seq \in Nat /\ t # <<>>
    BY <1>3, <1>5, <1>6, <2>1
  <2>3. r.seq = t[1].seq + Len(b)
    BY <1>5, <2>1, <2>2
  <2>4. Contiguous(t)
    <3>1. ASSUME NEW k \in 1 .. Len(t)
          PROVE  t[k].seq = t[1].seq + k - 1
      <4>1. CASE k \in 1 .. Len(b)
        BY <1>6, <2>1, <2>2, <4>1
      <4>2. CASE k = Len(t)
        BY <1>3, <2>1, <2>2, <2>3, <4>2
      <4> QED
        BY <1>3, <2>1, <4>1, <4>2
    <3> QED
      BY <1>3, <3>1 DEF Contiguous
  <2>5. ASSUME NEW a \in Records, Ring!Keeps(s, a)
        PROVE  Ring!Keeps(t, a)
    <3>1. a.seq \in Nat
      BY <1>0 DEF RingAssumption
    <3>2. s[Len(s)].seq >= a.seq /\ s[Len(s)].seq = s[1].seq + Len(s) - 1
      BY <1>1, <2>1, <2>5 DEF Ring!Keeps
    <3>3. t[Len(t)].seq >= a.seq
      BY <1>3, <2>1, <2>2, <2>3, <3>1, <3>2
    <3>4. ASSUME a.seq >= t[1].seq
          PROVE  \E k \in 1 .. Len(t) : t[k] = a
      <4>1. a.seq >= s[1].seq
        BY <2>2, <3>1, <3>4
      <4>2. PICK j \in 1 .. Len(s) : s[j] = a
        BY <2>5, <4>1 DEF Ring!Keeps
      <4>3. a.seq = s[1].seq + j - 1
        BY <1>1, <4>2
      <4>4. j - d \in 1 .. Len(b)
        BY <2>1, <2>2, <3>4, <4>2, <4>3
      <4>5. t[j - d] = s[(j - d) + d] /\ (j - d) + d = j
        BY <1>2, <1>3, <2>1, <4>4
      <4> QED
        BY <1>3, <2>1, <4>2, <4>4, <4>5
    <3> QED
      BY <2>2, <3>3, <3>4 DEF Ring!Keeps
  <2> QED
    BY <2>4, <2>5 DEF t, b
<1> QED
  BY <1>7, <1>8

\* Every step of the ring preserves its invariant.
LEMMA RingStep ==
    ASSUME RingInv, [Ring!Next]_(Ring!vars)
    PROVE  RingInv'
<1>0. RingAssumption
  BY RecordsCount
<1>1. CASE Ring!Publish
  <2> DEFINE r == log'[Len(log')]
  <2>1. /\ r \in Records /\ Ring!Follows(r, log) /\ log' = Append(Ring!Bounded(log), r)
        /\ fallbacks' = fallbacks \cup {log'} /\ acked' = acked
    BY <1>1, RingMeans
  <2>2. Contiguous(log) /\ acked \subseteq Records
    BY DEF RingInv
  <2> HIDE DEF r
  <2>3. Contiguous(log') /\ \A a \in Records : Ring!Keeps(log, a) => Ring!Keeps(log', a)
    BY <2>1, <2>2, PublishKeeps
  <2>4. ASSUME NEW s \in fallbacks' \cup {log'}
        PROVE  Contiguous(s) /\ \A a \in acked : Ring!Keeps(s, a)
    <3>1. CASE s = log'
      <4>1. \A a \in acked : Ring!Keeps(log, a) /\ a \in Records
        BY <2>2 DEF RingInv
      <4> QED
        BY <2>3, <3>1, <4>1
    <3>2. CASE s \in fallbacks
      BY <3>2 DEF RingInv
    <3> QED
      BY <2>1, <2>4, <3>1, <3>2
  <2> QED
    BY <2>1, <2>2, <2>4 DEF RingInv
<1>2. CASE Ring!TakeBack
  <2>1. log' \in fallbacks /\ fallbacks' \in {{log'}, fallbacks} /\ acked' = acked
    BY <1>2, RingMeans
  <2>2. fallbacks' \cup {log'} \subseteq fallbacks \cup {log}
    BY <2>1
  <2> QED
    BY <2>1, <2>2 DEF RingInv
<1>3. CASE Ring!Flush
  BY <1>3, RingMeans DEF RingInv
<1>4. CASE Ring!Acknowledge
  <2> DEFINE r == log[Len(log)]
  <2>1. /\ log # <<>> /\ fallbacks' = {log} /\ log' = log /\ acked' = acked \cup {r}
        /\ log \in Seq(Records)
    BY <1>4, RingMeans DEF RingInv, Contiguous
  <2>2. Len(log) \in 1 .. Len(log) /\ r \in Records
    BY <2>1
  <2>3. Ring!Keeps(log, r)
    BY <1>0, <2>1, <2>2 DEF Ring!Keeps, RingAssumption
  <2> HIDE DEF r
  <2> QED
    BY <2>1, <2>2, <2>3 DEF RingInv
<1>5. CASE UNCHANGED Ring!vars
  <2>1. log' = log /\ fallbacks' = fallbacks /\ acked' = acked
    BY <1>5, RingMeans
  <2> QED
    BY <2>1 DEF RingInv
<1> QED
  BY <1>1, <1>2, <1>3, <1>4, <1>5 DEF Ring!Next

--------------------------------------------------------------------------------
(* The record after a chain.                                               *)

Continues(r, s) == s # <<>> => r.seq = Last(s).seq + 1 /\ r.prev = Last(s).id

\* A chain goes on with a record that follows its last.
LEMMA ContinuousGrows ==
    ASSUME NEW s \in Seq(Records), Continuous(s), NEW r \in Records, Continues(r, s)
    PROVE  /\ Append(s, r) \in Seq(Records) /\ Append(s, r) # <<>>
           /\ Last(Append(s, r)) = r /\ Continuous(Append(s, r))
<1> DEFINE t == Append(s, r)
<1>1. /\ t \in Seq(Records) /\ t # <<>> /\ Len(t) = Len(s) + 1 /\ t[Len(t)] = r
      /\ \A k \in 1 .. Len(s) : t[k] = s[k]
  OBVIOUS
<1>2. Len(s) \in Nat
  OBVIOUS
<1> HIDE DEF t
<1>3. ASSUME NEW k \in 1 .. Len(t) - 1
      PROVE  t[k + 1].seq = t[k].seq + 1 /\ t[k + 1].prev = t[k].id
  <2>1. CASE k = Len(s)
    <3>1. k \in 1 .. Len(s) /\ k + 1 = Len(t) /\ s # <<>>
      BY <1>1, <1>2, <1>3, <2>1
    <3>2. t[k] = s[Len(s)] /\ t[k + 1] = r
      BY <1>1, <2>1, <3>1
    <3> QED
      BY <3>1, <3>2 DEF Continues, Last
  <2>2. CASE k # Len(s)
    <3>1. k \in 1 .. Len(s) - 1 /\ k \in 1 .. Len(s) /\ k + 1 \in 1 .. Len(s)
      BY <1>1, <1>2, <1>3, <2>2
    <3>2. t[k] = s[k] /\ t[k + 1] = s[k + 1]
      BY <1>1, <3>1
    <3> QED
      BY <3>1, <3>2 DEF Continuous
  <2> QED
    BY <2>1, <2>2
<1>4. Continuous(t)
  BY <1>3 DEF Continuous
<1>5. Last(t) = r
  BY <1>1 DEF Last
<1> QED
  BY <1>1, <1>4, <1>5 DEF t

\* What a full ring drops leaves a chain with the same end.
LEMMA BoundedKeepsEnd ==
    ASSUME NEW s \in Seq(Records), Continuous(s)
    PROVE  /\ Ring!Bounded(s) \in Seq(Records) /\ Continuous(Ring!Bounded(s))
           /\ Ring!Bounded(s) # <<>> => s # <<>> /\ Last(Ring!Bounded(s)) = Last(s)
<1> DEFINE b == Ring!Bounded(s)
<1>1. PICK d \in Nat : /\ d <= Len(s)
                       /\ b \in Seq(Records)
                       /\ Len(b) = Len(s) - d
                       /\ \A k \in 1 .. Len(s) - d : b[k] = s[k + d]
  BY BoundedDrops
<1>2. Len(s) \in Nat
  OBVIOUS
<1> HIDE DEF b
<1>3. ASSUME NEW k \in 1 .. Len(b) - 1
      PROVE  b[k + 1].seq = b[k].seq + 1 /\ b[k + 1].prev = b[k].id
  <2>1. /\ k \in 1 .. Len(s) - d /\ k + 1 \in 1 .. Len(s) - d /\ k + d \in 1 .. Len(s) - 1
        /\ (k + 1) + d = (k + d) + 1
    BY <1>1, <1>2, <1>3
  <2>2. b[k] = s[k + d] /\ b[k + 1] = s[(k + d) + 1]
    BY <1>1, <2>1
  <2> QED
    BY <2>1, <2>2 DEF Continuous
<1>4. Continuous(b)
  BY <1>3 DEF Continuous
<1>5. ASSUME b # <<>> PROVE s # <<>> /\ Last(b) = Last(s)
  <2>1. Len(b) \in Nat /\ Len(b) > 0
    BY <1>1, <1>5
  <2>2. Len(b) \in 1 .. Len(s) - d /\ Len(b) + d = Len(s)
    BY <1>1, <1>2, <2>1
  <2>3. b[Len(b)] = s[Len(s)]
    BY <1>1, <2>2
  <2> QED
    BY <1>1, <1>2, <2>1, <2>3 DEF Last
<1> QED
  BY <1>1, <1>4, <1>5 DEF b

\* The records of a chain count up.
LEMMA ChainCounts ==
    ASSUME NEW s \in Seq(Records), Continuous(s)
    PROVE  \A k \in 1 .. Len(s) : s[k].seq = s[1].seq + k - 1
<1> DEFINE S == {n \in Nat : n + 1 \in 1 .. Len(s) => s[n + 1].seq = s[1].seq + n}
<1>0. Len(s) \in Nat /\ \A k \in 1 .. Len(s) : s[k].seq \in Nat
  <2>1. \A k \in 1 .. Len(s) : s[k] \in Records
    OBVIOUS
  <2> QED
    BY <2>1, RecordsCount DEF RingAssumption
<1>1. 0 \in S
  BY <1>0
<1>2. ASSUME NEW n \in S PROVE n + 1 \in S
  <2>1. n \in Nat /\ (n + 1 \in 1 .. Len(s) => s[n + 1].seq = s[1].seq + n)
    OBVIOUS
  <2>2. ASSUME (n + 1) + 1 \in 1 .. Len(s)
        PROVE  s[(n + 1) + 1].seq = s[1].seq + (n + 1)
    <3>1. n + 1 \in 1 .. Len(s) - 1 /\ n + 1 \in 1 .. Len(s) /\ 1 \in 1 .. Len(s)
      BY <1>0, <2>1, <2>2
    <3>2. s[(n + 1) + 1].seq = s[n + 1].seq + 1
      BY <3>1 DEF Continuous
    <3>3. s[n + 1].seq = s[1].seq + n
      BY <2>1, <3>1
    <3>4. s[1].seq \in Nat
      BY <1>0, <3>1
    <3> HIDE DEF S
    <3> QED
      BY <2>1, <3>2, <3>3, <3>4
  <2> QED
    BY <2>1, <2>2
<1>3. S \subseteq Nat
  OBVIOUS
<1> HIDE DEF S
<1>4. S = Nat
  BY <1>1, <1>2, <1>3, Induct
<1> QED
  <2> TAKE k \in 1 .. Len(s)
  <2>1. k - 1 \in S /\ (k - 1) + 1 = k
    BY <1>0, <1>4
  <2>2. s[k].seq = s[1].seq + (k - 1)
    BY <2>1 DEF S
  <2>3. s[1].seq \in Nat
    BY <1>0
  <2> QED
    BY <1>0, <2>2, <2>3

\* What is put together first stays at the beginning.
LEMMA PilePrefix ==
    ASSUME NEW F \in Files, NEW i \in 1 .. MaxArchives + 1
    PROVE  /\ Pile(F)[i] \in Seq(Records) /\ Chain(F) \in Seq(Records)
           /\ Len(Pile(F)[i]) <= Len(Chain(F))
           /\ \A k \in 1 .. Len(Pile(F)[i]) : Chain(F)[k] = Pile(F)[i][k]
<1> DEFINE Starts(s, t) == Len(s) <= Len(t) /\ \A k \in 1 .. Len(s) : t[k] = s[k]
           S == {n \in Nat : i + n <= MaxArchives + 1 => Starts(Pile(F)[i], Pile(F)[i + n])}
<1>0. MaxArchives \in Nat /\ i \in Nat /\ i >= 1 /\ i <= MaxArchives + 1
  BY JournalAssumption
<1>1. \A j \in Slots : Held(F, j) \in Seq(Records)
  BY FilesHold
<1>2. \A j \in 1 .. MaxArchives + 1 : Pile(F)[j] \in Seq(Records)
  BY <1>1, PileType
<1>3. 0 \in S
  <2>1. i + 0 = i
    BY <1>0
  <2>2. Len(Pile(F)[i]) \in Nat
    BY <1>2
  <2> QED
    BY <2>1, <2>2
<1>4. ASSUME NEW n \in S PROVE n + 1 \in S
  <2>0. n \in Nat
    OBVIOUS
  <2>1. i + n <= MaxArchives + 1 => Starts(Pile(F)[i], Pile(F)[i + n])
    OBVIOUS
  <2>2. ASSUME i + (n + 1) <= MaxArchives + 1
        PROVE  Starts(Pile(F)[i], Pile(F)[i + (n + 1)])
    <3> DEFINE j == i + n
               h == Held(F, MaxArchives - j)
               s == Pile(F)[j]
    <3>1. /\ j \in 1 .. MaxArchives + 1 /\ j + 1 \in 2 .. MaxArchives + 1
          /\ i + (n + 1) = j + 1 /\ (j + 1) - 1 = j /\ MaxArchives - j \in Slots
          /\ MaxArchives + 1 - (j + 1) = MaxArchives - j /\ i + n <= MaxArchives + 1
      BY <1>0, <2>0, <2>2 DEF Slots
    <3>2. Starts(Pile(F)[i], s)
      BY <2>1, <3>1
    <3> HIDE DEF j
    <3>3. Pile(F)[j + 1] = Pile(F)[(j + 1) - 1] \o Held(F, MaxArchives + 1 - (j + 1))
      BY <3>1, PileRule
    <3>4. Pile(F)[j + 1] = s \o h /\ s \in Seq(Records) /\ h \in Seq(Records)
      BY <1>1, <1>2, <3>1, <3>3
    <3>5. Pile(F)[i] \in Seq(Records)
      BY <1>2
    <3> HIDE DEF s, h
    <3>6. Len(s \o h) = Len(s) + Len(h) /\ Len(s) \in Nat /\ Len(h) \in Nat
          /\ \A k \in 1 .. Len(s) : (s \o h)[k] = s[k]
      BY <3>4
    <3>7. Len(Pile(F)[i]) \in Nat
      BY <3>5
    <3> DEFINE p == Pile(F)[i]
               t == s \o h
    <3>8. Starts(p, s) /\ Len(p) \in Nat
      BY <3>2, <3>7
    <3>9. Len(t) = Len(s) + Len(h) /\ \A k \in 1 .. Len(s) : t[k] = s[k]
      BY <3>6
    <3> HIDE DEF p, t
    <3>10. Starts(p, t)
      BY <3>6, <3>8, <3>9
    <3> QED
      BY <3>1, <3>4, <3>10 DEF p, t
  <2> QED
    BY <2>0, <2>2
<1>5. S \subseteq Nat
  OBVIOUS
<1> HIDE DEF S
<1>6. S = Nat
  BY <1>3, <1>4, <1>5, Induct
<1>7. MaxArchives + 1 - i \in S /\ i + (MaxArchives + 1 - i) = MaxArchives + 1
  BY <1>0, <1>6
<1>8. Starts(Pile(F)[i], Pile(F)[MaxArchives + 1])
  BY <1>0, <1>7 DEF S
<1>9. Chain(F) = Pile(F)[MaxArchives + 1] /\ MaxArchives + 1 \in 1 .. MaxArchives + 1
  <2>1. MaxArchives + 1 \in 1 .. MaxArchives + 1
    BY <1>0
  <2> QED
    BY <2>1, PileRule
<1>10. Pile(F)[i] \in Seq(Records) /\ Chain(F) \in Seq(Records)
  BY <1>2, <1>9
<1>11. Starts(Pile(F)[i], Chain(F))
  BY <1>8, <1>9
<1> QED
  BY <1>10, <1>11

\* A file that is found twice breaks the chain.
LEMMA DoubledBreaks ==
    ASSUME NEW F \in Files, NEW k \in 1 .. MaxArchives,
           F[k] # None, Len(F[k]) > 0, F[k - 1] = F[k]
    PROVE  ~Continuous(Chain(F))
<1> SUFFICES ASSUME Continuous(Chain(F))
             PROVE  FALSE
  OBVIOUS
<1> DEFINE i == MaxArchives + 2 - k
           s == Pile(F)[i - 1]
           h == F[k]
           c == Chain(F)
<1>0. MaxArchives \in Nat /\ k \in Nat /\ k >= 1 /\ k <= MaxArchives
  BY JournalAssumption
<1>1. /\ i \in 2 .. MaxArchives + 1 /\ i \in 1 .. MaxArchives + 1 /\ i - 1 \in 1 .. MaxArchives + 1
      /\ MaxArchives + 1 - i = k - 1 /\ k \in Slots /\ k - 1 \in Slots
  BY <1>0 DEF Slots
<1>2. h \in Seq(Records) /\ Held(F, k) = h /\ Held(F, k - 1) = h
  BY <1>1, FilesHold
<1> HIDE DEF i
<1>3. Pile(F)[i] = s \o h
  BY <1>1, <1>2, PileRule
<1>4. \E p \in Seq(Records) : s = p \o h
  <2>1. CASE i = 2
    <3>1. k = MaxArchives /\ i - 1 = 1
      BY <1>0, <2>1 DEF i
    <3>2. s = h
      BY <1>2, <3>1, PileRule
    <3>3. <<>> \in Seq(Records) /\ <<>> \o h = h
      BY <1>2
    <3> QED
      BY <3>2, <3>3
  <2>2. CASE i # 2
    <3>1. /\ i - 1 \in 2 .. MaxArchives + 1 /\ (i - 1) - 1 \in 1 .. MaxArchives + 1
          /\ MaxArchives + 1 - (i - 1) = k
      BY <1>0, <1>1, <2>2 DEF i
    <3>2. Pile(F)[i - 1] = Pile(F)[(i - 1) - 1] \o Held(F, MaxArchives + 1 - (i - 1))
      BY <3>1, PileRule
    <3>3. Pile(F)[(i - 1) - 1] \in Seq(Records)
      BY <3>1, PilePrefix
    <3> QED
      BY <1>2, <3>1, <3>2, <3>3
  <2> QED
    BY <2>1, <2>2
<1>5. PICK p \in Seq(Records) : s = p \o h
  BY <1>4
<1>6. /\ Pile(F)[i] \in Seq(Records) /\ c \in Seq(Records)
      /\ Len(Pile(F)[i]) <= Len(c)
      /\ \A j \in 1 .. Len(Pile(F)[i]) : c[j] = Pile(F)[i][j]
  BY <1>1, PilePrefix
<1>7. \A j \in 1 .. Len(c) : c[j].seq = c[1].seq + j - 1 /\ c[1].seq \in Nat
  <2>1. \A j \in 1 .. Len(c) : c[j].seq = c[1].seq + j - 1
    BY <1>6, ChainCounts
  <2>2. \A j \in 1 .. Len(c) : 1 \in 1 .. Len(c)
    BY <1>6
  <2>3. \A j \in 1 .. Len(c) : c[j].seq \in Nat
    <3>1. \A j \in 1 .. Len(c) : c[j] \in Records
      BY <1>6
    <3> QED
      BY <3>1, RecordsCount DEF RingAssumption
  <2> QED
    BY <2>1, <2>2, <2>3
<1> HIDE DEF s, h, c
<1>8. /\ Len(p) \in Nat /\ Len(h) \in Nat /\ Len(h) > 0
      /\ Len(s) = Len(p) + Len(h) /\ s \in Seq(Records)
      /\ s[Len(p) + 1] = h[1]
  <2>1. Len(h) > 0
    BY DEF h
  <2>2. Len(s) = Len(p) + Len(h) /\ s \in Seq(Records)
        /\ \A j \in 1 .. Len(h) : s[Len(p) + j] = h[j]
    BY <1>2, <1>5, Joined
  <2>3. 1 \in 1 .. Len(h)
    BY <1>2, <2>1
  <2> QED
    BY <1>2, <1>5, <2>1, <2>2, <2>3
<1> DEFINE t == s \o h
<1>9. /\ Len(t) = Len(s) + Len(h)
      /\ t[Len(s) + 1] = h[1] /\ t[Len(p) + 1] = h[1]
  <2>1. /\ Len(t) = Len(s) + Len(h)
        /\ \A j \in 1 .. Len(s) : t[j] = s[j]
        /\ \A j \in 1 .. Len(h) : t[Len(s) + j] = h[j]
    <3>1. s \in Seq(Records) /\ h \in Seq(Records)
      BY <1>2, <1>8
    <3> QED
      BY <3>1
  <2>2. 1 \in 1 .. Len(h) /\ Len(p) + 1 \in 1 .. Len(s)
    BY <1>8
  <2> QED
    BY <1>8, <2>1, <2>2
<1>10. Pile(F)[i] = t
  BY <1>3
<1> HIDE DEF t
<1>11. /\ Len(s) + 1 \in 1 .. Len(t) /\ Len(p) + 1 \in 1 .. Len(t)
       /\ Len(s) + 1 \in 1 .. Len(c) /\ Len(p) + 1 \in 1 .. Len(c)
  BY <1>6, <1>8, <1>9, <1>10
<1>12. c[Len(s) + 1] = c[Len(p) + 1]
  BY <1>6, <1>9, <1>10, <1>11
<1>13. c[1].seq + (Len(s) + 1) - 1 = c[1].seq + (Len(p) + 1) - 1 /\ c[1].seq \in Nat
  BY <1>7, <1>11, <1>12
<1> QED
  BY <1>8, <1>13

--------------------------------------------------------------------------------
(* The images of the disk.                                                 *)

\* A disk content that was begun earlier is one that was begun by now.
LEMMA ImageLater ==
    ASSUME NEW d, NEW n \in Nat, NEW m \in Nat, n <= m, Image(d, n)
    PROVE  Image(d, m)
<1>1. \A r : Known(r, n) => Known(r, m)
  BY DEF Known, Records
<1>2. \A F, h : Sealed(F, h, n) => Sealed(F, h, m)
  BY <1>1 DEF Sealed
<1>3. \A F, h : Open(F, h, n) => Open(F, h, m)
  BY <1>1 DEF Open
<1> QED
  BY <1>2, <1>3 DEF Image

\* The last image is what the processes see.
LEMMA LastImage ==
    ASSUME NEW ims, NEW n, Imaged(ims, n)
    PROVE  Image(Last(ims), n) /\ Rec(Last(ims)) \in Readings(ims)
<1>1. Len(ims) \in 1 .. Len(ims) /\ DOMAIN ims = 1 .. Len(ims)
  BY DEF Imaged
<1> QED
  BY <1>1 DEF Imaged, Readings, Last

\* A change that is ordered.
LEMMA ImageAdded ==
    ASSUME NEW ims, NEW n, Imaged(ims, n), NEW d, Image(d, n)
    PROVE  /\ Imaged(Append(ims, d), n) /\ Last(Append(ims, d)) = d
           /\ Readings(Append(ims, d)) = Readings(ims) \cup {Rec(d)}
<1> DEFINE t == Append(ims, d)
<1>1. ims \in Seq(Disks) /\ d \in Disks
  BY DEF Imaged, Image
<1>2. /\ t \in Seq(Disks) /\ Len(t) = Len(ims) + 1 /\ t[Len(t)] = d
      /\ \A k \in 1 .. Len(ims) : t[k] = ims[k]
      /\ Len(ims) \in Nat /\ DOMAIN ims = 1 .. Len(ims) /\ DOMAIN t = 1 .. Len(t)
  BY <1>1
<1> HIDE DEF t
<1>3. \A k \in 1 .. Len(t) : k = Len(t) \/ k \in 1 .. Len(ims)
  BY <1>2
<1>4. \A k \in 1 .. Len(t) : Image(t[k], n)
  BY <1>2, <1>3 DEF Imaged
<1>5. Imaged(t, n)
  BY <1>2, <1>4 DEF Imaged
<1>6. Readings(t) = Readings(ims) \cup {Rec(d)}
  <2>1. \A k \in 1 .. Len(ims) : k \in 1 .. Len(t) /\ Rec(t[k]) = Rec(ims[k])
    BY <1>2
  <2>2. Len(t) \in 1 .. Len(t) /\ Rec(t[Len(t)]) = Rec(d)
    BY <1>2
  <2>3. Readings(t) = {Rec(t[k]) : k \in 1 .. Len(t)}
        /\ Readings(ims) = {Rec(ims[k]) : k \in 1 .. Len(ims)}
    BY <1>2 DEF Readings
  <2>4. \A x \in Readings(t) : x \in Readings(ims) \cup {Rec(d)}
    BY <1>3, <2>1, <2>2, <2>3
  <2>5. \A x \in Readings(ims) \cup {Rec(d)} : x \in Readings(t)
    BY <2>1, <2>2, <2>3
  <2> QED
    BY <2>4, <2>5
<1> QED
  BY <1>2, <1>5, <1>6 DEF t, Last

\* A change that is synced.
LEMMA ImageAlone ==
    ASSUME NEW n, NEW d, Image(d, n)
    PROVE  Imaged(<<d>>, n) /\ Last(<<d>>) = d /\ Readings(<<d>>) = {Rec(d)}
<1>1. d \in Disks
  BY DEF Image
<1>2. <<d>> \in Seq(Disks) /\ Len(<<d>>) = 1 /\ <<d>>[1] = d /\ DOMAIN <<d>> = 1 .. 1
  BY <1>1
<1>3. \A k \in 1 .. 1 : k = 1
  OBVIOUS
<1>4. Imaged(<<d>>, n)
  BY <1>2, <1>3 DEF Imaged
<1>5. Readings(<<d>>) = {Rec(d)}
  BY <1>2, <1>3 DEF Readings
<1> QED
  BY <1>2, <1>4, <1>5 DEF Last

--------------------------------------------------------------------------------
(* A step is one change of the disk.                                       *)

\* No operation: nothing is owed.
LEMMA IdleFits ==
    ASSUME NEW d, NEW n
    PROVE  Idle \in Ops /\ Fits(d, Idle, n)
<1>1. Torn \in Records
  BY JournalAssumption DEF Torn, Records
<1>2. Idle \in Ops
  BY <1>1 DEF Idle, Ops, Labels
<1> QED
  BY <1>2 DEF Fits, Idle

\* An ordered change leaves everything to fall back to.
LEMMA FallsBack ==
    ASSUME JournalInv, NEW new, images' \in {images, Append(images, new)}
    PROVE  fallbacks \subseteq fallbacks'
<1> DEFINE S == Disks \cup {new}
<1>1. images \in Seq(S) /\ new \in S
  BY DEF JournalInv, Kept, Imaged
<1> HIDE DEF S
<1>2. \A k \in DOMAIN images : k \in DOMAIN images' /\ images'[k] = images[k]
  BY <1>1
<1>3. \A k \in DOMAIN images : Rec(images[k]) = Rec(images'[k])
  BY <1>2
<1> QED
  BY <1>2, <1>3 DEF fallbacks, Readings

\* What the invariant says of the disk.
LEMMA DiskKnown ==
    ASSUME JournalInv
    PROVE  /\ attempts \in Nat /\ attempts <= MaxAttempts /\ faults \in Nat
           /\ Imaged(images, attempts) /\ Image(disk, attempts) /\ disk \in Disks
           /\ log \in fallbacks /\ op \in Ops /\ Fits(disk, op, attempts)
<1>1. /\ attempts \in 0 .. MaxAttempts /\ faults \in Nat /\ Imaged(images, attempts)
      /\ op \in Ops /\ Fits(Last(images), op, attempts)
  BY DEF JournalInv, Kept
<1>2. Image(Last(images), attempts) /\ Rec(Last(images)) \in Readings(images)
  BY <1>1, LastImage
<1>3. disk = Last(images)
  BY DEF disk
<1>4. disk \in Disks
  BY <1>2, <1>3 DEF Image
<1>5. log \in fallbacks
  BY <1>2, <1>3 DEF log, fallbacks
<1>6. attempts \in Nat /\ attempts <= MaxAttempts
  BY <1>1, JournalAssumption
<1> QED
  BY <1>1, <1>2, <1>3, <1>4, <1>5, <1>6

\* The invariant of the next state, image by image.
LEMMA Reached ==
    ASSUME NEW ims, NEW o \in Ops, NEW n \in Nat, n <= MaxAttempts, NEW f \in Nat,
           images' = ims, op' = o, attempts' = n, faults' = f,
           Imaged(ims, n), Fits(Last(ims), o, n)
    PROVE  JournalInv' /\ disk' = Last(ims) /\ log' = Rec(Last(ims)) /\ fallbacks' = Readings(ims)
<1>1. Kept(images', op', attempts', faults')
  BY JournalAssumption DEF Kept
<1>2. JournalInv'
  BY <1>1 DEF JournalInv
<1>3. disk' = Last(ims)
  BY DEF disk
<1>4. log' = Rec(Last(ims))
  BY <1>3 DEF log
<1>5. fallbacks' = Readings(ims)
  BY DEF fallbacks
<1> QED
  BY <1>2, <1>3, <1>4, <1>5

\* A change that does not show is followed by another point of the operation.
LEMMA NoChangeKeeps ==
    ASSUME JournalInv, images' = images, attempts' = attempts, faults' \in Nat,
           NEW o \in Ops, op' = o, Fits(disk, o, attempts)
    PROVE  JournalInv' /\ disk' = disk /\ log' = log /\ fallbacks' = fallbacks
<1>1. /\ attempts \in Nat /\ attempts <= MaxAttempts /\ Imaged(images, attempts)
  BY DiskKnown
<1>2. disk = Last(images) /\ log = Rec(Last(images)) /\ fallbacks = Readings(images)
  BY DEF disk, log, fallbacks
<1>3. Fits(Last(images), o, attempts)
  BY <1>2
<1>4. /\ JournalInv' /\ disk' = Last(images)
      /\ log' = Rec(Last(images)) /\ fallbacks' = Readings(images)
  BY <1>1, <1>3, Reached
<1> QED
  BY <1>2, <1>4

\* A change that a power loss may undo leads to another point of the operation.
LEMMA AddKeeps ==
    ASSUME JournalInv, NEW new, Image(new, attempts), images' = Append(images, new),
           attempts' = attempts, faults' \in Nat,
           NEW o \in Ops, op' = o, Fits(new, o, attempts)
    PROVE  /\ JournalInv' /\ disk' = new /\ log' = Rec(new)
           /\ fallbacks' = fallbacks \cup {Rec(new)}
<1>1. /\ attempts \in Nat /\ attempts <= MaxAttempts /\ Imaged(images, attempts)
  BY DiskKnown
<1>2. /\ Imaged(Append(images, new), attempts) /\ Last(Append(images, new)) = new
      /\ Readings(Append(images, new)) = Readings(images) \cup {Rec(new)}
  BY <1>1, ImageAdded
<1> DEFINE ims == Append(images, new)
<1>3. ims = Append(images, new)
  OBVIOUS
<1> HIDE DEF ims
<1>4. Imaged(ims, attempts) /\ Last(ims) = new /\ images' = ims
      /\ Readings(ims) = fallbacks \cup {Rec(new)} /\ Fits(Last(ims), o, attempts)
  BY <1>2, <1>3 DEF fallbacks
<1>5. JournalInv' /\ disk' = Last(ims) /\ log' = Rec(Last(ims)) /\ fallbacks' = Readings(ims)
  BY <1>1, <1>4, Reached
<1> QED
  BY <1>4, <1>5

\* So does a change that a full sync follows: nothing else is left to fall back to.
LEMMA AloneKeeps ==
    ASSUME JournalInv, NEW new, Image(new, attempts), images' = <<new>>,
           attempts' = attempts, faults' \in Nat,
           NEW o \in Ops, op' = o, Fits(new, o, attempts)
    PROVE  JournalInv' /\ disk' = new /\ log' = Rec(new) /\ fallbacks' = {Rec(new)}
<1>1. attempts \in Nat /\ attempts <= MaxAttempts
  BY DiskKnown
<1>2. Imaged(<<new>>, attempts) /\ Last(<<new>>) = new /\ Readings(<<new>>) = {Rec(new)}
  BY ImageAlone
<1> DEFINE ims == <<new>>
<1>3. ims = <<new>>
  OBVIOUS
<1> HIDE DEF ims
<1>4. Imaged(ims, attempts) /\ Last(ims) = new /\ images' = ims
      /\ Readings(ims) = {Rec(new)} /\ Fits(Last(ims), o, attempts)
  BY <1>2, <1>3
<1>5. JournalInv' /\ disk' = Last(ims) /\ log' = Rec(Last(ims)) /\ fallbacks' = Readings(ims)
  BY <1>1, <1>4, Reached
<1> QED
  BY <1>4, <1>5

\* What a fault counts.
LEMMA FaultCounts ==
    ASSUME JournalInv
    PROVE  Faulty => faults' \in Nat /\ faults' # faults
BY DiskKnown DEF Faulty

\* The log is what it was, and nothing but it or what it could fall back to is left.
Steady == log' = log /\ (fallbacks' = fallbacks \/ fallbacks' = {log})

\* A reader finds the changed disk: it may fall back to nothing else, or to what it could.
Shows(new) == log' = Rec(new) /\ fallbacks' \in {{Rec(new)}, fallbacks \cup {Rec(new)}}

\* A change of the disk that a full sync follows.
LEMMA SyncedKeeps ==
    ASSUME JournalInv, NEW new, NEW next \in Ops, NEW otherwise \in Ops,
           Full(new, next, otherwise), attempts' = attempts,
           Image(new, attempts), Fits(new, next, attempts),
           Fits(disk, otherwise, attempts), Fits(new, otherwise, attempts)
    PROVE  /\ JournalInv' /\ (Steady \/ Shows(new))
           /\ new # disk /\ faults' = faults => log' = Rec(new) /\ fallbacks' = {Rec(new)}
<1>0. faults \in Nat /\ log \in fallbacks
  BY DiskKnown
<1>1. \/ images' = (IF new = disk THEN images ELSE <<new>>) /\ op' = next /\ faults' = faults
      \/ /\ Faulty /\ op' \in {otherwise, Idle}
         /\ images' \in {images} \cup (IF new = disk THEN {} ELSE {Append(images, new)})
  BY DEF Full
<1>2. CASE images' = (IF new = disk THEN images ELSE <<new>>) /\ op' = next /\ faults' = faults
  <2>0. faults' \in Nat /\ op' = next
    BY <1>0, <1>2
  <2>1. CASE new = disk
    <3>1. images' = images /\ Fits(disk, next, attempts)
      BY <1>2, <2>1
    <3>2. JournalInv' /\ log' = log /\ fallbacks' = fallbacks
      BY <2>0, <3>1, NoChangeKeeps
    <3> QED
      BY <2>1, <3>2 DEF Steady
  <2>2. CASE new # disk
    <3>1. images' = <<new>>
      BY <1>2, <2>2
    <3>2. JournalInv' /\ log' = Rec(new) /\ fallbacks' = {Rec(new)}
      BY <2>0, <3>1, AloneKeeps
    <3> QED
      BY <3>2 DEF Shows
  <2> QED
    BY <2>1, <2>2
<1>3. ASSUME Faulty, op' \in {otherwise, Idle},
             images' \in {images} \cup (IF new = disk THEN {} ELSE {Append(images, new)})
      PROVE  /\ JournalInv' /\ (Steady \/ Shows(new))
             /\ new # disk /\ faults' = faults => log' = Rec(new) /\ fallbacks' = {Rec(new)}
  <2>0. faults' \in Nat /\ faults' # faults
    BY <1>3, FaultCounts
  <2>1. PICK o \in {otherwise, Idle} : op' = o
    BY <1>3
  <2>2. o \in Ops /\ Fits(disk, o, attempts) /\ Fits(new, o, attempts)
    BY <2>1, IdleFits
  <2>3. ASSUME images' = images PROVE JournalInv' /\ Steady
    <3>1. JournalInv' /\ log' = log /\ fallbacks' = fallbacks
      BY <2>0, <2>1, <2>2, <2>3, NoChangeKeeps
    <3> QED
      BY <3>1 DEF Steady
  <2>4. ASSUME images' = Append(images, new) PROVE JournalInv' /\ Shows(new)
    <3>1. JournalInv' /\ log' = Rec(new) /\ fallbacks' = fallbacks \cup {Rec(new)}
      BY <2>0, <2>1, <2>2, <2>4, AddKeeps
    <3> QED
      BY <3>1 DEF Shows
  <2>5. images' = images \/ images' = Append(images, new)
    BY <1>3
  <2> QED
    BY <2>0, <2>3, <2>4, <2>5
<1> QED
  BY <1>1, <1>2, <1>3

\* One that a reader does not see.
LEMMA FullKeeps ==
    ASSUME JournalInv, NEW new, NEW next \in Ops, NEW otherwise \in Ops,
           Full(new, next, otherwise), attempts' = attempts,
           Image(new, attempts), Rec(new) = log,
           Fits(new, next, attempts),
           Fits(disk, otherwise, attempts), Fits(new, otherwise, attempts)
    PROVE  /\ JournalInv' /\ Steady
           /\ new # disk /\ faults' = faults => fallbacks' = {log}
<1>1. /\ JournalInv' /\ (Steady \/ Shows(new))
      /\ new # disk /\ faults' = faults => log' = Rec(new) /\ fallbacks' = {Rec(new)}
  BY SyncedKeeps
<1>2. log \in fallbacks
  BY DiskKnown
<1> QED
  BY <1>1, <1>2 DEF Steady, Shows

\* A change of the disk that is only ordered.
LEMMA OrderedKeeps ==
    ASSUME JournalInv, NEW new, NEW next \in Ops, NEW otherwise \in Ops,
           Ordered(new, next, otherwise), attempts' = attempts,
           Image(new, attempts), Fits(new, next, attempts),
           Fits(disk, otherwise, attempts), Fits(new, otherwise, attempts)
    PROVE  /\ JournalInv'
           /\ Steady \/ (log' = Rec(new) /\ fallbacks' = fallbacks \cup {Rec(new)})
<1>0. faults \in Nat
  BY DiskKnown
<1>1. \/ images' = Append(images, new) /\ op' = next /\ faults' = faults
      \/ Faulty /\ op' \in {otherwise, Idle} /\ images' \in {images, Append(images, new)}
  BY DEF Ordered
<1>2. CASE images' = Append(images, new) /\ op' = next /\ faults' = faults
  <2>1. faults' \in Nat /\ op' = next /\ images' = Append(images, new)
    BY <1>0, <1>2
  <2>2. JournalInv' /\ log' = Rec(new) /\ fallbacks' = fallbacks \cup {Rec(new)}
    BY <2>1, AddKeeps
  <2> QED
    BY <2>2
<1>3. ASSUME Faulty, op' \in {otherwise, Idle}, images' \in {images, Append(images, new)}
      PROVE  /\ JournalInv'
             /\ Steady \/ (log' = Rec(new) /\ fallbacks' = fallbacks \cup {Rec(new)})
  <2>0. faults' \in Nat
    BY <1>3, FaultCounts
  <2>1. PICK o \in {otherwise, Idle} : op' = o
    BY <1>3
  <2>2. o \in Ops /\ Fits(disk, o, attempts) /\ Fits(new, o, attempts)
    BY <2>1, IdleFits
  <2>3. CASE images' = images
    <3>1. JournalInv' /\ log' = log /\ fallbacks' = fallbacks
      BY <2>0, <2>1, <2>2, <2>3, NoChangeKeeps
    <3> QED
      BY <3>1 DEF Steady
  <2>4. CASE images' = Append(images, new)
    BY <2>0, <2>1, <2>2, <2>4, AddKeeps
  <2> QED
    BY <1>3, <2>3, <2>4
<1> QED
  BY <1>1, <1>2, <1>3

\* An ordered change that a reader does not see.
LEMMA QuietKeeps ==
    ASSUME JournalInv, NEW new, NEW next \in Ops, NEW otherwise \in Ops,
           Ordered(new, next, otherwise), attempts' = attempts,
           Image(new, attempts), Fits(new, next, attempts),
           Fits(disk, otherwise, attempts), Fits(new, otherwise, attempts), Rec(new) = log
    PROVE  JournalInv' /\ Steady
<1>1. /\ JournalInv'
      /\ Steady \/ (log' = Rec(new) /\ fallbacks' = fallbacks \cup {Rec(new)})
  BY OrderedKeeps
<1>2. log \in fallbacks
  BY DiskKnown
<1> QED
  BY <1>1, <1>2 DEF Steady

--------------------------------------------------------------------------------
(* The changes, field by field.                                            *)

Command(pc, then, i, bad, record) ==
    [pc |-> pc, then |-> then, i |-> i, bad |-> bad, record |-> record]

\* An operation that goes on at another point.
LEMMA Points ==
    ASSUME NEW o \in Ops
    PROVE  \A p, i : [o EXCEPT !.pc = p, !.i = i] = Command(p, o.then, i, o.bad, o.record)
<1> TAKE p, i
<1> DEFINE x == [o EXCEPT !.pc = p, !.i = i]
<1>1. x = [o EXCEPT !.pc = p, !.i = i]
  OBVIOUS
<1> HIDE DEF x
<1>2. x = Command(p, o.then, i, o.bad, o.record)
  BY <1>1 DEF Ops, Command
<1> QED
  BY <1>1, <1>2, Zenon

\* The same for the points that start a piece of work.
LEMMA Starts ==
    ASSUME op \in Ops
    PROVE  /\ \A p : At(p) = Command(p, op.then, 0, op.bad, op.record)
           /\ \A p, i : [At(p) EXCEPT !.i = i] = Command(p, op.then, i, op.bad, op.record)
           /\ \A p, t : [At(p) EXCEPT !.then = t] = Command(p, t, 0, op.bad, op.record)
           /\ \A p, t : [Idle EXCEPT !.pc = p, !.then = t] = Command(p, t, 0, FALSE, Torn)
<1>1. ASSUME NEW p PROVE At(p) = Command(p, op.then, 0, op.bad, op.record)
  BY Points, Zenon DEF At
<1>2. ASSUME NEW p, NEW i
      PROVE  [At(p) EXCEPT !.i = i] = Command(p, op.then, i, op.bad, op.record)
  <2>1. [At(p) EXCEPT !.i = i] = [Command(p, op.then, 0, op.bad, op.record) EXCEPT !.i = i]
    BY <1>1, Zenon
  <2>2. [Command(p, op.then, 0, op.bad, op.record) EXCEPT !.i = i]
            = Command(p, op.then, i, op.bad, op.record)
    BY DEF Command
  <2> QED
    BY <2>1, <2>2, Zenon
<1>3. ASSUME NEW p, NEW t
      PROVE  [At(p) EXCEPT !.then = t] = Command(p, t, 0, op.bad, op.record)
  <2>1. [At(p) EXCEPT !.then = t] = [Command(p, op.then, 0, op.bad, op.record) EXCEPT !.then = t]
    BY <1>1, Zenon
  <2>2. [Command(p, op.then, 0, op.bad, op.record) EXCEPT !.then = t]
            = Command(p, t, 0, op.bad, op.record)
    BY DEF Command
  <2> QED
    BY <2>1, <2>2, Zenon
<1>4. ASSUME NEW p, NEW t PROVE [Idle EXCEPT !.pc = p, !.then = t] = Command(p, t, 0, FALSE, Torn)
  <2> DEFINE x == [Idle EXCEPT !.pc = p, !.then = t]
  <2>1. x = [Idle EXCEPT !.pc = p, !.then = t]
    OBVIOUS
  <2> HIDE DEF x
  <2>2. x = Command(p, t, 0, FALSE, Torn)
    BY <2>1 DEF Idle, Command
  <2> QED
    BY <2>1, <2>2, Zenon
<1> QED
  BY <1>1, <1>2, <1>3, <1>4, Zenon

\* A point of an operation, and its parts.
LEMMA CommandOp ==
    ASSUME NEW p \in Labels, NEW t \in {"idle", "prepare", "read", "ack"}, NEW i \in Nat,
           NEW b \in BOOLEAN, NEW r \in Records
    PROVE  /\ Command(p, t, i, b, r) \in Ops
           /\ Command(p, t, i, b, r).pc = p /\ Command(p, t, i, b, r).then = t
           /\ Command(p, t, i, b, r).i = i /\ Command(p, t, i, b, r).bad = b
           /\ Command(p, t, i, b, r).record = r
BY DEF Command, Ops

--------------------------------------------------------------------------------
(* What the disk is at each state of the journal.                          *)

\* A ring without files.
LEMMA NoFiles == Empty \in Files /\ \A i \in Slots : Empty[i] = None
BY DEF Empty, Files, Some

\* The parts of a disk.
LEMMA PartsOf ==
    ASSUME NEW d, NEW n, Image(d, n)
    PROVE  /\ d \in Disks
           /\ d.files \in Files /\ d.backups \in Files /\ d.head \in Records
           /\ d.journal # None =>
                 /\ d.journal \in Journals
                 /\ d.journal.rotated \in BOOLEAN /\ d.journal.liveExisted \in BOOLEAN
                 /\ d.journal.liveSize \in Nat /\ d.journal.backups \in Seq(Some(Records))
           /\ d.journal = None \/ ~d.journal.rotated => d.backups = Empty
<1>1. d \in Disks
  BY DEF Image
<1>3. /\ d.files \in Files /\ d.backups \in Files /\ d.head \in Records
      /\ d.journal \in Journals \cup {None}
  BY <1>1 DEF Disks
<1>4. d.journal # None =>
         /\ d.journal \in Journals
         /\ d.journal.rotated \in BOOLEAN /\ d.journal.liveExisted \in BOOLEAN
         /\ d.journal.liveSize \in Nat /\ d.journal.backups \in Seq(Some(Records))
  BY <1>3 DEF Journals
<1>5. d.journal = None \/ ~d.journal.rotated => d.backups = Empty
  BY DEF Image
<1> QED
  BY <1>1, <1>3, <1>4, <1>5

\* No transaction.
LEMMA NoJournal ==
    ASSUME NEW d, NEW n, Image(d, n), d.journal = None
    PROVE  Recovered(d) = d.files /\ Rec(d) = Chain(d.files) /\ Sealed(d.files, d.head, n)
<1>1. Recovered(d) = d.files
  BY DEF Recovered
<1>2. ~Unsealed(d)
  BY DEF Unsealed
<1> QED
  BY <1>1, <1>2 DEF Image, Rec

\* A log without files is empty.
LEMMA NoRecords == Chain(Empty) = <<>>
<1>1. \A i \in Slots : Held(Empty, i) \in Seq({})
  BY NoFiles DEF Held
<1>2. Chain(Empty) \in Seq({})
  BY <1>1, ChainLive
<1>3. \A s \in Seq({}) : s = <<>>
  OBVIOUS
<1> QED
  BY <1>2, <1>3

\* Half of a rollback is no chain: the disk is stranded only when a reader could tell.
LEMMA Sound ==
    ASSUME NEW d \in Disks, In(d, "published") \/ In(d, "committing"), Stranded(d),
           Stacked(d.files) \/ Stacked(Undone(d))
    PROVE  Chain(d.files) = <<>> \/ ~Continuous(Chain(d.files))
<1>0. MaxArchives \in Nat
  BY JournalAssumption
<1>1. d.journal # None /\ d.journal.state \in {"published", "committing"} /\ PartlyUndone(d)
  BY DEF In, Stranded, BackupsGone
<1>2. CASE d.journal.rotated
  <2>1. PICK k \in 1 .. MaxArchives :
           /\ d.journal.backups[k] # None
           /\ \A i \in Slots : d.files[i] = d.journal.backups[IF i < k THEN i + 1 ELSE i]
    BY <1>1, <1>2 DEF PartlyUndone
  <2>2. k \in Slots /\ k - 1 \in Slots /\ k - 1 < k /\ ~(k < k) /\ (k - 1) + 1 = k
    BY <1>0 DEF Slots
  <2>3. d.files[k] = d.journal.backups[k] /\ d.files[k - 1] = d.journal.backups[k]
    BY <2>1, <2>2
  <2>4. d.files \in Files
    BY DEF Disks
  <2>5. Len(d.files[k]) > 0
    <3>1. CASE Stacked(d.files)
      BY <2>1, <2>2, <2>3, <3>1, JournalAssumption DEF Stacked
    <3>2. CASE Stacked(Undone(d))
      <4>1. Undone(d)[k - 1] = d.journal.backups[k]
        BY <1>2, <2>2 DEF Undone
      <4>2. Len(Undone(d)[k - 1]) \in 1 .. RecordsPerFile
        BY <2>1, <2>2, <3>2, <4>1 DEF Stacked
      <4> QED
        BY <2>3, <4>1, <4>2, JournalAssumption
    <3> QED
      BY <3>1, <3>2
  <2> QED
    BY <2>1, <2>3, <2>4, <2>5, DoubledBreaks
<1>3. CASE ~d.journal.rotated
  <2>1. d.files = Empty
    BY <1>1, <1>3 DEF PartlyUndone
  <2> QED
    BY <2>1, NoRecords
<1> QED
  BY <1>2, <1>3

\* What a rollback restores, of a transaction that rotates.
Before(bs) == [i \in Slots |-> bs[i + 1]]

\* Of one that does not: the live file is cut to what it was.
Cut(F, e, z) == [F EXCEPT ![0] = IF e THEN SubSeq(F[0], 1, z) ELSE None]

\* What a reader finds is what is there, or what a rollback restores.
LEMMA FoundIs ==
    ASSUME NEW d, d.journal # None
    PROVE  /\ Undone(d) = IF d.journal.rotated THEN Before(d.journal.backups)
                          ELSE Cut(d.files, d.journal.liveExisted, d.journal.liveSize)
           /\ d.journal.state = "prepared" \/ Stranded(d) => Recovered(d) = Undone(d)
           /\ ~(d.journal.state = "prepared" \/ Stranded(d)) => Recovered(d) = d.files
           /\ Stranded(d) => d.journal.state \in {"prepared", "published", "committing"}
<1>1. Undone(d) = IF d.journal.rotated THEN Before(d.journal.backups)
                  ELSE Cut(d.files, d.journal.liveExisted, d.journal.liveSize)
  BY DEF Undone, Before, Cut
<1>2. /\ d.journal.state = "prepared" \/ Stranded(d) => Recovered(d) = Undone(d)
      /\ ~(d.journal.state = "prepared" \/ Stranded(d)) => Recovered(d) = d.files
  BY DEF Recovered
<1>3. Stranded(d) => d.journal.state \in {"prepared", "published", "committing"}
  BY DEF Stranded, BackupsGone, PartlyUndone
<1> QED
  BY <1>1, <1>2, <1>3

\* A transaction whose files are what a reader finds, and have their head.
LEMMA Quiet ==
    ASSUME NEW d, NEW n, Image(d, n), d.journal # None,
           d.journal.state \in {"preparing", "resolved"}
    PROVE  /\ Recovered(d) = d.files /\ Rec(d) = Chain(d.files) /\ Sealed(d.files, d.head, n)
           /\ d.journal.state = "preparing" => d.journal.rotated
<1>1. Recovered(d) = d.files
  BY FoundIs
<1>2. ~Unsealed(d)
  BY DEF Unsealed
<1> QED
  BY <1>1, <1>2 DEF Image, Rec

\* A transaction whose last record may have no head yet.
LEMMA Publishing ==
    ASSUME NEW d, NEW n, Image(d, n), d.journal # None,
           d.journal.state \in {"published", "committing"}, ~Stranded(d)
    PROVE  Recovered(d) = d.files /\ Rec(d) = Chain(d.files) /\ Open(d.files, d.head, n)
<1>1. Recovered(d) = d.files
  BY FoundIs
<1>2. Unsealed(d)
  BY DEF Unsealed
<1> QED
  BY <1>1, <1>2 DEF Image, Rec

\* One whose record was taken back in part: a reader finds nothing of it.
LEMMA TakenBack ==
    ASSUME NEW d, NEW n, Image(d, n), d.journal # None, Stranded(d)
    PROVE  Recovered(d) = Undone(d) /\ Rec(d) = Chain(Undone(d)) /\ Sealed(Undone(d), d.head, n)
<1>1. Recovered(d) = Undone(d)
  BY FoundIs
<1>2. ~Unsealed(d)
  BY DEF Unsealed
<1> QED
  BY <1>1, <1>2 DEF Image, Rec

\* A transaction that has rotated the files: the backups are what a reader finds.
LEMMA RotatedBack ==
    ASSUME NEW d, NEW n, Image(d, n), d.journal # None, d.journal.state = "prepared",
           d.journal.rotated
    PROVE  /\ Recovered(d) = Before(d.journal.backups) /\ Rec(d) = Chain(Before(d.journal.backups))
           /\ Sealed(Before(d.journal.backups), d.head, n)
           /\ Len(d.journal.backups) = MaxArchives + 1
           /\ Intact(d) \/ d.files = Before(d.journal.backups)
<1>1. Recovered(d) = Before(d.journal.backups) /\ Undone(d) = Before(d.journal.backups)
  BY FoundIs
<1>2. ~Unsealed(d)
  BY DEF Unsealed
<1> QED
  BY <1>1, <1>2 DEF Image, Rec

\* The backups the journal names are files.
LEMMA BeforeFiles ==
    ASSUME NEW bs \in Seq(Some(Records)), Len(bs) = MaxArchives + 1
    PROVE  Before(bs) \in Files /\ \A i \in Slots : Before(bs)[i] = bs[i + 1]
<1>1. ASSUME NEW i \in Slots PROVE i + 1 \in 1 .. Len(bs)
  BY <1>1, JournalAssumption DEF Slots
<1>2. \A i \in Slots : bs[i + 1] \in Some(Records)
  BY <1>1
<1> QED
  BY <1>2 DEF Before, Files

\* What a prepared transaction that does not rotate says of the disk.
LEMMA CutBack ==
    ASSUME NEW d, NEW n, Image(d, n), d.journal # None, d.journal.state = "prepared",
           ~d.journal.rotated
    PROVE  LET j == d.journal IN
           /\ Recovered(d) = Cut(d.files, j.liveExisted, j.liveSize)
           /\ Rec(d) = Chain(Cut(d.files, j.liveExisted, j.liveSize))
           /\ Sealed(Cut(d.files, j.liveExisted, j.liveSize), d.head, n)
           /\ j.liveExisted => d.files[0] # None /\ j.liveSize <= Len(d.files[0])
           /\ d.backups = Empty
<1>1. Recovered(d) = Cut(d.files, d.journal.liveExisted, d.journal.liveSize)
  BY FoundIs
<1>2. ~Unsealed(d)
  BY DEF Unsealed
<1> QED
  BY <1>1, <1>2 DEF Image, Rec, Shorter

\* A disk without a transaction is an image.
LEMMA IsNoJournal ==
    ASSUME NEW d \in Disks, NEW n, d.journal = None, d.backups = Empty, Sealed(d.files, d.head, n)
    PROVE  Image(d, n) /\ Rec(d) = Chain(d.files) /\ Recovered(d) = d.files
<1>1. Recovered(d) = d.files /\ ~Unsealed(d)
  BY DEF Recovered, Unsealed
<1> QED
  BY <1>1 DEF Image, Rec

\* So is one whose transaction is preparing or over.
LEMMA IsQuiet ==
    ASSUME NEW d \in Disks, NEW n, In(d, "preparing") \/ In(d, "resolved"),
           In(d, "preparing") => d.journal.rotated,
           Sealed(d.files, d.head, n), ~d.journal.rotated => d.backups = Empty
    PROVE  Image(d, n) /\ Rec(d) = Chain(d.files) /\ Recovered(d) = d.files
<1>1. d.journal # None /\ d.journal.state \in {"preparing", "resolved"}
  BY DEF In
<1>2. Recovered(d) = d.files /\ ~Unsealed(d)
  BY <1>1, FoundIs DEF Unsealed
<1>3. d.journal.state = "preparing" => d.journal.rotated
  BY <1>1 DEF In
<1> QED
  BY <1>1, <1>2, <1>3 DEF Image, Rec

\* So is one whose record is published.
LEMMA IsLive ==
    ASSUME NEW d \in Disks, NEW n, In(d, "published") \/ In(d, "committing"),
           Open(d.files, d.head, n), ~d.journal.rotated => d.backups = Empty
    PROVE  Image(d, n) /\ Rec(d) = Chain(d.files) /\ Recovered(d) = d.files
<1>1. d.journal # None /\ d.journal.state \in {"published", "committing"}
  BY DEF In
<1>2. ~Stranded(d)
  BY Sound DEF Open
<1>3. Recovered(d) = d.files /\ Unsealed(d)
  BY <1>1, <1>2, FoundIs DEF Unsealed
<1> QED
  BY <1>1, <1>3 DEF Image, Rec

\* So is one whose record was taken back in part.
LEMMA IsTakenBack ==
    ASSUME NEW d \in Disks, NEW n, In(d, "published") \/ In(d, "committing"), Stranded(d),
           Sealed(Undone(d), d.head, n), ~d.journal.rotated => d.backups = Empty
    PROVE  Image(d, n) /\ Rec(d) = Chain(Undone(d))
<1>1. d.journal # None /\ d.journal.state \in {"published", "committing"}
  BY DEF In
<1>2. Recovered(d) = Undone(d) /\ ~Unsealed(d)
  BY <1>1, FoundIs DEF Unsealed
<1> QED
  BY <1>1, <1>2 DEF Image, Rec

\* So is one whose backups are what the journal names.
LEMMA IsRotated ==
    ASSUME NEW d \in Disks, NEW n, In(d, "prepared"), d.journal.rotated,
           NEW O, O = Before(d.journal.backups), Len(d.journal.backups) = MaxArchives + 1,
           Intact(d) \/ d.files = O, Sealed(O, d.head, n)
    PROVE  Image(d, n) /\ Rec(d) = Chain(O) /\ Recovered(d) = O
<1>1. d.journal # None /\ d.journal.state = "prepared"
  BY DEF In
<1>2. Recovered(d) = O /\ Undone(d) = O /\ ~Unsealed(d)
  BY <1>1, FoundIs DEF Unsealed
<1> QED
  BY <1>1, <1>2 DEF Image, Rec

\* So is one whose live file can be cut to what it was.
LEMMA IsCut ==
    ASSUME NEW d \in Disks, NEW n, In(d, "prepared"), ~d.journal.rotated, d.backups = Empty,
           NEW O, O = Cut(d.files, d.journal.liveExisted, d.journal.liveSize),
           d.journal.liveExisted => d.files[0] # None /\ d.journal.liveSize <= Len(d.files[0]),
           Sealed(O, d.head, n)
    PROVE  Image(d, n) /\ Rec(d) = Chain(O) /\ Recovered(d) = O
<1>1. d.journal # None /\ d.journal.state = "prepared"
  BY DEF In
<1>2. Recovered(d) = O /\ ~Unsealed(d)
  BY <1>1, FoundIs DEF Unsealed
<1> QED
  BY <1>1, <1>2 DEF Image, Rec, Shorter

\* The disk with another part.
Restated(d, s)      == [d EXCEPT !.journal.state = s]
Named(d, x)         == [d EXCEPT !.journal.backups = Append(@, x)]
WithFiles(d, F)     == [d EXCEPT !.files = F]
WithFile(d, i, x)   == [d EXCEPT !.files[i] = x]
WithBackup(d, i, x) == [d EXCEPT !.backups[i] = x]
WithJournal(d, j)   == [d EXCEPT !.journal = j]
WithHead(d, h)      == [d EXCEPT !.head = h]

\* The journal's state changes, and nothing else.
LEMMA StateChanges ==
    ASSUME NEW d \in Disks, d.journal # None,
           NEW s \in {"preparing", "prepared", "published", "committing", "resolved"},
           NEW w, w = Restated(d, s)
    PROVE  /\ w \in Disks /\ In(w, s)
           /\ w.files = d.files /\ w.backups = d.backups /\ w.head = d.head
           /\ w.journal.rotated = d.journal.rotated /\ w.journal.liveExisted = d.journal.liveExisted
           /\ w.journal.liveSize = d.journal.liveSize /\ w.journal.backups = d.journal.backups
<1>0. w = [d EXCEPT !.journal.state = s]
  BY DEF Restated
<1>1. d.journal \in Journals
  BY DEF Disks
<1>2. w.journal = [d.journal EXCEPT !.state = s]
  BY <1>0 DEF Disks
<1>3. w.files = d.files /\ w.backups = d.backups /\ w.head = d.head
  BY <1>0 DEF Disks
<1> DEFINE j == w.journal
<1>4. j \in Journals /\ j.state = s /\ j.rotated = d.journal.rotated
      /\ j.liveExisted = d.journal.liveExisted
      /\ j.liveSize = d.journal.liveSize /\ j.backups = d.journal.backups
  <2>1. j = [d.journal EXCEPT !.state = s]
    BY <1>2
  <2> HIDE DEF j
  <2> QED
    BY <1>1, <2>1 DEF Journals
<1>5. w \in Disks
  <2>1. w = [files |-> d.files, backups |-> d.backups, journal |-> j, head |-> d.head]
    BY <1>0, <1>2 DEF Disks
  <2> HIDE DEF j
  <2> QED
    BY <1>4, <2>1 DEF Disks
<1>6. In(w, s)
  BY <1>4, JournalAssumption DEF In
<1> QED
  BY <1>3, <1>4, <1>5, <1>6

\* The journal names one more backup.
LEMMA BackupNamed ==
    ASSUME NEW d \in Disks, d.journal # None, NEW u \in Some(Records),
           NEW w, w = Named(d, u)
    PROVE  /\ w \in Disks /\ w.journal # None /\ w.journal.state = d.journal.state
           /\ w.files = d.files /\ w.backups = d.backups /\ w.head = d.head
           /\ w.journal.rotated = d.journal.rotated
           /\ w.journal.backups = Append(d.journal.backups, u)
<1>0. w = [d EXCEPT !.journal.backups = Append(@, u)]
  BY DEF Named
<1>1. d.journal \in Journals
  BY DEF Disks
<1> DEFINE x == Append(d.journal.backups, u)
<1>2. x \in Seq(Some(Records))
  BY <1>1 DEF Journals
<1>3. w = [d EXCEPT !.journal.backups = x]
  BY <1>0
<1>4. x = Append(d.journal.backups, u)
  OBVIOUS
<1> HIDE DEF x
<1>5. w.journal = [d.journal EXCEPT !.backups = x]
  BY <1>3 DEF Disks
<1>6. w.files = d.files /\ w.backups = d.backups /\ w.head = d.head
  BY <1>3 DEF Disks
<1> DEFINE j == w.journal
<1>7. j \in Journals /\ j.state = d.journal.state /\ j.rotated = d.journal.rotated /\ j.backups = x
  <2>1. j = [d.journal EXCEPT !.backups = x]
    BY <1>5
  <2> HIDE DEF j
  <2> QED
    BY <1>1, <1>2, <2>1 DEF Journals
<1>8. w \in Disks
  <2>1. w = [files |-> d.files, backups |-> d.backups, journal |-> j, head |-> d.head]
    BY <1>3, <1>5 DEF Disks
  <2> HIDE DEF j
  <2> QED
    BY <1>7, <2>1 DEF Disks
<1> QED
  BY <1>4, <1>6, <1>7, <1>8, JournalAssumption

\* The files change, all of them or one.
LEMMA FilesChange ==
    ASSUME NEW d \in Disks, NEW F \in Files, NEW w, w = WithFiles(d, F)
    PROVE  /\ w \in Disks /\ w.files = F
           /\ w.backups = d.backups /\ w.journal = d.journal /\ w.head = d.head
BY DEF Disks, WithFiles

\* One file changes.
LEMMA FileChanges ==
    ASSUME NEW d \in Disks, NEW i \in Slots, NEW x \in Some(Records),
           NEW w, w = WithFile(d, i, x)
    PROVE  /\ w \in Disks /\ w.files \in Files
           /\ w.files[i] = x /\ \A k \in Slots : k # i => w.files[k] = d.files[k]
           /\ w.backups = d.backups /\ w.journal = d.journal /\ w.head = d.head
<1>0. w = [d EXCEPT !.files[i] = x]
  BY DEF WithFile
<1> DEFINE F == [d.files EXCEPT ![i] = x]
<1>1. F \in Files
  BY DEF Disks, Files
<1>2. w = [d EXCEPT !.files = F]
  BY <1>0
<1> HIDE DEF F
<1>3. /\ w \in Disks /\ w.files = F
      /\ w.backups = d.backups /\ w.journal = d.journal /\ w.head = d.head
  BY <1>1, <1>2 DEF Disks
<1>4. F[i] = x /\ \A k \in Slots : k # i => F[k] = d.files[k]
  BY DEF F, Disks, Files
<1> QED
  BY <1>1, <1>3, <1>4

\* One backup changes.
LEMMA BackupChanges ==
    ASSUME NEW d \in Disks, NEW i \in Slots, NEW x \in Some(Records),
           NEW w, w = WithBackup(d, i, x)
    PROVE  /\ w \in Disks /\ w.backups \in Files
           /\ w.backups[i] = x /\ \A k \in Slots : k # i => w.backups[k] = d.backups[k]
           /\ w.files = d.files /\ w.journal = d.journal /\ w.head = d.head
<1>0. w = [d EXCEPT !.backups[i] = x]
  BY DEF WithBackup
<1> DEFINE F == [d.backups EXCEPT ![i] = x]
<1>1. F \in Files
  BY DEF Disks, Files
<1>2. w = [d EXCEPT !.backups = F]
  BY <1>0
<1> HIDE DEF F
<1>3. /\ w \in Disks /\ w.backups = F
      /\ w.files = d.files /\ w.journal = d.journal /\ w.head = d.head
  BY <1>1, <1>2 DEF Disks
<1>4. F[i] = x /\ \A k \in Slots : k # i => F[k] = d.backups[k]
  BY DEF F, Disks, Files
<1> QED
  BY <1>1, <1>3, <1>4

\* The journal or the head changes.
LEMMA JournalChanges ==
    ASSUME NEW d \in Disks, NEW j \in Journals \cup {None}, NEW w, w = WithJournal(d, j)
    PROVE  /\ w \in Disks /\ w.journal = j
           /\ w.files = d.files /\ w.backups = d.backups /\ w.head = d.head
BY DEF Disks, WithJournal

\* The head changes.
LEMMA HeadChanges ==
    ASSUME NEW d \in Disks, NEW h \in Records, NEW w, w = WithHead(d, h)
    PROVE  /\ w \in Disks /\ w.head = h
           /\ w.files = d.files /\ w.backups = d.backups /\ w.journal = d.journal
BY DEF Disks, WithHead

--------------------------------------------------------------------------------
(* Where an operation may be.                                              *)

\* What an operation carries along until its transaction ends.
Carried(t, r, n) == /\ t \in {"idle", "prepare", "read"} /\ r \in Records
                    /\ t \in {"prepare", "read"} => r = Torn
                    /\ t = "prepare" => n < MaxAttempts

\* Until it ends, a transaction has no one to acknowledge to; a recovery has no record.
LEMMA Carries ==
    ASSUME JournalInv, op.pc # "finish"
    PROVE  /\ Carried(op.then, op.record, attempts)
           /\ op.i \in Nat /\ op.bad \in BOOLEAN
           /\ op.then \in {"idle", "prepare", "read", "ack"} /\ op.record \in Records
<1>1. op \in Ops /\ Fits(disk, op, attempts)
  BY DiskKnown
<1>2. /\ op.i \in Nat /\ op.bad \in BOOLEAN /\ op.record \in Records
      /\ op.then \in {"idle", "prepare", "read", "ack"}
  BY <1>1 DEF Ops
<1>3. /\ op.then # "ack"
      /\ op.then \in {"prepare", "read"} => op.record = Torn
      /\ op.then = "prepare" => attempts < MaxAttempts
  BY <1>1 DEF Fits
<1> QED
  BY <1>2, <1>3 DEF Carried

\* The points of the recovery and of a read.
LEMMA PlacesOfRecovery ==
    ASSUME NEW d, NEW n, NEW t, NEW i, NEW b, NEW r, Carried(t, r, n)
    PROVE  /\ t \in {"prepare", "read"} => Fits(d, Command("recover", t, i, b, r), n)
           /\ t = "prepare" /\ d.journal = None => Fits(d, Command("prepare", t, i, b, r), n)
           /\ t = "read" /\ d.journal = None => Fits(d, Command("read", t, i, b, r), n)
           /\ (\/ d.journal = None \/ In(d, "preparing")
               \/ In(d, "prepared") /\ d.files = Undone(d)) /\ (~b => Removed(d, i))
                 => Fits(d, Command("abort", t, i, b, r), n)
           /\ In(d, "resolved") /\ (d.journal.rotated /\ ~b => Removed(d, i))
                 => Fits(d, Command("finish", t, i, b, r), n)
           /\ In(d, "prepared") /\ Restored(d, i) => Fits(d, Command("rollback", t, i, b, r), n)
           /\ In(d, "published") /\ Withdrawn(d, i, n)
                 => Fits(d, Command("rollback", t, i, b, r), n)
           /\ Stranded(d) => Fits(d, Command("refused", t, i, b, r), n)
           /\ t \in {"prepare", "read"} /\ In(d, "published")
                 => Fits(d, Command("mark", t, i, b, r), n)
           /\ t \in {"prepare", "read"} /\ In(d, "committing")
                 => Fits(d, Command("recover_commit", t, i, b, r), n)
BY DEF Fits, Command, Carried

\* The points of the transaction.
LEMMA PlacesOfAppend ==
    ASSUME NEW d, NEW n, NEW t, NEW i, NEW b, NEW r, Carried(t, r, n)
    PROVE  /\ d.journal = None /\ Succeeds(r, d.head, n) => Fits(d, Command("begin", t, i, b, r), n)
           /\ Begun(d, r, n) /\ i \in Slots /\ Backed(d, i, i)
                 => Fits(d, Command("backup", t, i, b, r), n)
           /\ Begun(d, r, n) /\ i \in Slots /\ Backed(d, i, i + 1)
                 => Fits(d, Command("backup_journal", t, i, b, r), n)
           /\ Begun(d, r, n) /\ Backed(d, MaxArchives + 1, MaxArchives + 1)
                 => Fits(d, Command("prepared", t, i, b, r), n)
           /\ In(d, "prepared") /\ Succeeds(r, d.head, n) /\ d.journal.rotated /\ Intact(d)
                 /\ i \in Slots /\ Moving(d, i + 1) => Fits(d, Command("rotate", t, i, b, r), n)
           /\ In(d, "prepared") /\ Succeeds(r, d.head, n) /\ (d.journal.rotated => Intact(d))
                 /\ (IF d.journal.rotated THEN Moving(d, 0) ELSE Roomy(d))
                 => Fits(d, Command("write", t, i, b, r), n)
           /\ In(d, "prepared") /\ Succeeds(r, d.head, n) /\ Written(d, r)
                 /\ (d.journal.rotated => Intact(d) /\ Moved(d))
                 => Fits(d, Command("publish", t, i, b, r), n)
           /\ In(d, "published") /\ LastIs(d, r) /\ ~Stranded(d)
                 => Fits(d, Command("committing", t, i, b, r), n)
           /\ In(d, "committing") /\ LastIs(d, r) /\ ~Stranded(d)
                 => Fits(d, Command("commit", t, i, b, r), n)
           /\ In(d, "committing") /\ Sealed(d.files, d.head, n) /\ (r # Torn => LastIs(d, r))
                 /\ ~Stranded(d) => Fits(d, Command("resolve", t, i, b, r), n)
BY DEF Fits, Command, Carried

\* Nothing has been restored or removed yet.
LEMMA NothingYet ==
    ASSUME NEW d
    PROVE  Restored(d, 0) /\ Removed(d, 0)
BY JournalAssumption DEF Restored, Removed, Slots

--------------------------------------------------------------------------------
(* The actions.                                                            *)

Quietly == JournalInv' /\ Steady /\ acked' = acked

\* An operation goes on at another point.
LEMMA GoesOn ==
    ASSUME JournalInv, images' = images, attempts' = attempts, faults' = faults, acked' = acked,
           NEW p \in Labels, NEW t \in {"idle", "prepare", "read", "ack"}, NEW i \in Nat,
           NEW b \in BOOLEAN, NEW r \in Records, op' = Command(p, t, i, b, r),
           Fits(disk, Command(p, t, i, b, r), attempts)
    PROVE  Quietly
<1> DEFINE o == Command(p, t, i, b, r)
<1>1. o \in Ops
  BY CommandOp
<1>2. op' = o /\ Fits(disk, o, attempts)
  OBVIOUS
<1>3. faults' \in Nat
  BY DiskKnown
<1> HIDE DEF o
<1>4. JournalInv' /\ log' = log /\ fallbacks' = fallbacks
  BY <1>1, <1>2, <1>3, NoChangeKeeps
<1> QED
  BY <1>4 DEF Quietly, Steady

\* The same, with nothing to do.
LEMMA GoesIdle ==
    ASSUME JournalInv, images' = images, attempts' = attempts, faults' = faults, acked' = acked,
           op' = Idle
    PROVE  Quietly
<1>1. faults' \in Nat
  BY DiskKnown
<1>2. Idle \in Ops /\ Fits(disk, Idle, attempts)
  BY IdleFits
<1>3. JournalInv' /\ log' = log /\ fallbacks' = fallbacks
  BY <1>1, <1>2, NoChangeKeeps
<1> QED
  BY <1>3 DEF Quietly, Steady

\* An append or a read begins with the recovery.
LEMMA BeginStep ==
    ASSUME JournalInv, NEW t \in {"prepare", "read"}, Begin(t),
           t = "prepare" => attempts < MaxAttempts
    PROVE  Quietly
<1> DEFINE b == FALSE
<1>1. op' = Command("recover", t, 0, FALSE, Torn)
  BY DiskKnown, Starts DEF Begin
<1>2. /\ images' = images /\ attempts' = attempts /\ acked' = acked /\ faults' = faults
  BY DEF Begin
<1>3. Torn \in Records /\ b \in BOOLEAN /\ 0 \in Nat /\ "recover" \in Labels
  BY JournalAssumption DEF Torn, Records, Labels
<1>4. Carried(t, Torn, attempts)
  BY <1>3 DEF Carried
<1>5. op' = Command("recover", t, 0, b, Torn)
  BY <1>1
<1> HIDE DEF b
<1>6. Fits(disk, Command("recover", t, 0, b, Torn), attempts)
  BY <1>4, PlacesOfRecovery
<1>7. t \in {"idle", "prepare", "read", "ack"}
  OBVIOUS
<1> QED
  BY <1>2, <1>3, <1>5, <1>6, <1>7, GoesOn

\* A point of the operation that starts at its first file.
LEMMA StartsAt ==
    ASSUME JournalInv, op.pc # "finish", NEW p \in Labels,
           images' = images, attempts' = attempts, faults' = faults, acked' = acked,
           op' = At(p), Fits(disk, Command(p, op.then, 0, op.bad, op.record), attempts)
    PROVE  Quietly
<1>1. op.then \in {"idle", "prepare", "read", "ack"} /\ op.bad \in BOOLEAN /\ op.record \in Records
  BY Carries
<1>2. op' = Command(p, op.then, 0, op.bad, op.record)
  BY DiskKnown, Starts
<1>3. 0 \in Nat
  OBVIOUS
<1> QED
  BY <1>1, <1>2, <1>3, GoesOn

\* Recovery goes on by the state of the journal it finds.
LEMMA RecoverStep ==
    ASSUME JournalInv, Recover
    PROVE  Quietly
<1>1. /\ op.pc = "recover" /\ op' = At(RecoveryStep)
      /\ images' = images /\ attempts' = attempts /\ acked' = acked /\ faults' = faults
  BY DEF Recover
<1>2. /\ Carried(op.then, op.record, attempts) /\ op.bad \in BOOLEAN
  BY <1>1, Carries
<1>3. op.then \in {"prepare", "read"}
  BY <1>1, DiskKnown DEF Fits
<1>4. Restored(disk, 0) /\ Removed(disk, 0)
  BY NothingYet
<1>5. ASSUME NEW p \in Labels, RecoveryStep = p,
             Fits(disk, Command(p, op.then, 0, op.bad, op.record), attempts)
      PROVE  Quietly
  BY <1>1, <1>5, StartsAt
<1>6. CASE disk.journal = None
  <2>1. RecoveryStep = op.then
    BY <1>6 DEF RecoveryStep
  <2>2. CASE op.then = "prepare"
    <3>1. "prepare" \in Labels /\ RecoveryStep = "prepare"
      BY <2>1, <2>2 DEF Labels
    <3>2. Fits(disk, Command("prepare", op.then, 0, op.bad, op.record), attempts)
      BY <1>2, <1>6, <2>2, PlacesOfRecovery
    <3> QED
      BY <1>5, <3>1, <3>2
  <2>3. CASE op.then = "read"
    <3>1. "read" \in Labels /\ RecoveryStep = "read"
      BY <2>1, <2>3 DEF Labels
    <3>2. Fits(disk, Command("read", op.then, 0, op.bad, op.record), attempts)
      BY <1>2, <1>6, <2>3, PlacesOfRecovery
    <3> QED
      BY <1>5, <3>1, <3>2
  <2> QED
    BY <1>3, <2>2, <2>3
<1>7. CASE disk.journal # None
  <2>1. disk.journal.state \in {"preparing", "prepared", "published", "committing", "resolved"}
    BY <1>7, DiskKnown DEF Disks, Journals
  <2>2. CASE disk.journal.state = "preparing"
    <3>1. "abort" \in Labels /\ RecoveryStep = "abort"
      BY <1>7, <2>2 DEF Labels, RecoveryStep
    <3>2. Fits(disk, Command("abort", op.then, 0, op.bad, op.record), attempts)
      BY <1>2, <1>4, <1>7, <2>2, PlacesOfRecovery DEF In
    <3> QED
      BY <1>5, <3>1, <3>2
  <2>3. CASE disk.journal.state = "prepared"
    <3>1. "rollback" \in Labels /\ RecoveryStep = "rollback"
      BY <1>7, <2>3 DEF Labels, RecoveryStep
    <3>2. Fits(disk, Command("rollback", op.then, 0, op.bad, op.record), attempts)
      BY <1>2, <1>4, <1>7, <2>3, PlacesOfRecovery DEF In
    <3> QED
      BY <1>5, <3>1, <3>2
  <2>4. CASE disk.journal.state = "published"
    <3>1. "mark" \in Labels /\ RecoveryStep = "mark"
      BY <1>7, <2>4 DEF Labels, RecoveryStep
    <3>2. Fits(disk, Command("mark", op.then, 0, op.bad, op.record), attempts)
      BY <1>2, <1>3, <1>7, <2>4, PlacesOfRecovery DEF In
    <3> QED
      BY <1>5, <3>1, <3>2
  <2>5. CASE disk.journal.state = "committing"
    <3>1. "recover_commit" \in Labels /\ RecoveryStep = "recover_commit"
      BY <1>7, <2>5 DEF Labels, RecoveryStep
    <3>2. Fits(disk, Command("recover_commit", op.then, 0, op.bad, op.record), attempts)
      BY <1>2, <1>3, <1>7, <2>5, PlacesOfRecovery DEF In
    <3> QED
      BY <1>5, <3>1, <3>2
  <2>6. CASE disk.journal.state = "resolved"
    <3>1. "finish" \in Labels /\ RecoveryStep = "finish"
      BY <1>7, <2>6 DEF Labels, RecoveryStep
    <3>2. Fits(disk, Command("finish", op.then, 0, op.bad, op.record), attempts)
      BY <1>2, <1>4, <1>7, <2>6, PlacesOfRecovery DEF In
    <3> QED
      BY <1>5, <3>1, <3>2
  <2> QED
    BY <2>1, <2>2, <2>3, <2>4, <2>5, <2>6
<1> QED
  BY <1>6, <1>7

\* A read changes nothing.
LEMMA ReadStep ==
    ASSUME JournalInv, Read
    PROVE  Quietly
BY GoesIdle DEF Read

\* What has its head verifies.
LEMMA SealedVerifies ==
    ASSUME NEW d, NEW n, Sealed(d.files, d.head, n)
    PROVE  Verified(d)
BY DEF Sealed, Verified

\* The record is built: the chain it follows verifies.
LEMMA PrepareStep ==
    ASSUME JournalInv, Prepare
    PROVE  Quietly
<1>1. op.pc = "prepare" /\ images' = images /\ acked' = acked /\ faults' = faults
  BY DEF Prepare
<1>2. /\ Image(disk, attempts) /\ attempts \in Nat /\ op \in Ops /\ Fits(disk, op, attempts)
      /\ Imaged(images, attempts) /\ faults \in Nat /\ log \in fallbacks
  BY DiskKnown
<1>3. disk.journal = None /\ op.then = "prepare" /\ attempts < MaxAttempts
  BY <1>1, <1>2 DEF Fits
<1>4. Sealed(disk.files, disk.head, attempts)
  BY <1>2, <1>3, NoJournal
<1>5. Verified(disk)
  BY <1>4, SealedVerifies
<1> DEFINE n == attempts + 1
           r == [seq |-> disk.head.seq + 1, id |-> n, prev |-> disk.head.id]
<1>6. attempts' = n /\ op' = [op EXCEPT !.pc = "begin", !.then = "idle", !.record = r]
  BY <1>5 DEF Prepare
<1>7. op' = Command("begin", "idle", op.i, op.bad, r) /\ op.i \in Nat /\ op.bad \in BOOLEAN
  <2>1. op' = Command("begin", "idle", op.i, op.bad, r)
    BY <1>2, <1>6 DEF Ops, Command
  <2> QED
    BY <1>1, <2>1, Carries
<1>8. disk.head.seq \in Nat /\ disk.head.id \in 0 .. MaxAttempts /\ disk.head.seq <= attempts
  BY <1>4, JournalAssumption DEF Sealed, Known, Records
<1>9. r \in Records /\ Succeeds(r, disk.head, n)
  BY <1>2, <1>3, <1>8, JournalAssumption DEF Records, Succeeds
<1>10. n \in Nat /\ n <= MaxAttempts /\ attempts <= n
  BY <1>2, <1>3, JournalAssumption
<1> HIDE DEF n, r
<1>11. Carried("idle", r, n)
  BY <1>9 DEF Carried
<1> DEFINE o == Command("begin", "idle", op.i, op.bad, r)
<1>12. o \in Ops
  BY <1>7, <1>9, CommandOp DEF Labels
<1>13. Fits(disk, o, n)
  BY <1>3, <1>9, <1>11, PlacesOfAppend
<1> HIDE DEF o
<1>14. Imaged(images, n)
  BY <1>2, <1>10, ImageLater DEF Imaged
<1>15. disk = Last(images) /\ log = Rec(Last(images)) /\ fallbacks = Readings(images)
  BY DEF disk, log, fallbacks
<1>16. op' = o /\ faults' \in Nat /\ Fits(Last(images), o, n)
  BY <1>1, <1>2, <1>7, <1>13, <1>15 DEF o
<1>17. JournalInv' /\ log' = Rec(Last(images)) /\ fallbacks' = Readings(images)
  BY <1>1, <1>6, <1>10, <1>12, <1>14, <1>16, Reached
<1> QED
  BY <1>1, <1>15, <1>17 DEF Quietly, Steady

\* A live file that is cut to its length is what it was.
LEMMA CutNothing ==
    ASSUME NEW F \in Files, NEW e \in BOOLEAN, NEW z \in Nat, e <=> F[0] # None,
           e => z = Len(F[0])
    PROVE  Cut(F, e, z) = F
<1>0. 0 \in Slots
  BY JournalAssumption DEF Slots
<1>1. F[0] # None => F[0] \in Seq(Records)
  BY <1>0, FilesHold
<1>2. e => SubSeq(F[0], 1, z) = F[0]
  BY <1>1
<1>3. (IF e THEN SubSeq(F[0], 1, z) ELSE None) = F[0]
  BY <1>2
<1>4. [F EXCEPT ![0] = F[0]] = F
  BY <1>0 DEF Files
<1> QED
  BY <1>3, <1>4 DEF Cut

\* A point that starts a piece of work is one.
LEMMA AtIs ==
    ASSUME JournalInv, op.pc # "finish", NEW p \in Labels
    PROVE  At(p) = Command(p, op.then, 0, op.bad, op.record) /\ At(p) \in Ops
<1>1. op.then \in {"idle", "prepare", "read", "ack"} /\ op.bad \in BOOLEAN /\ op.record \in Records
  BY Carries
<1>2. At(p) = Command(p, op.then, 0, op.bad, op.record)
  BY DiskKnown, Starts
<1>3. 0 \in Nat
  OBVIOUS
<1> QED
  BY <1>1, <1>2, <1>3, CommandOp

\* The journal is written. A file that is not full is not backed up, and is prepared at once.
LEMMA BeginJournalStep ==
    ASSUME JournalInv, BeginJournal
    PROVE  Quietly
<1> DEFINE journal == [state |-> IF Rotates THEN "preparing" ELSE "prepared",
                       rotated |-> Rotates, liveExisted |-> Live # None,
                       liveSize |-> IF Live = None THEN 0 ELSE Len(Live), backups |-> <<>>]
           new == [disk EXCEPT !.journal = journal]
           next == At(IF Rotates THEN "backup" ELSE "write")
           otherwise == IF Rotates THEN Idle ELSE At("abort")
           F == disk.files
<1>1. /\ op.pc = "begin" /\ attempts' = attempts /\ acked' = acked /\ op.pc # "finish"
      /\ Ordered(new, next, otherwise)
  BY DEF BeginJournal
<1>2. /\ Image(disk, attempts) /\ disk \in Disks /\ Fits(disk, op, attempts) /\ log = Rec(disk)
  BY DiskKnown DEF log
<1>3. disk.journal = None /\ Succeeds(op.record, disk.head, attempts)
  BY <1>1, <1>2 DEF Fits
<1>4. Carried(op.then, op.record, attempts)
  BY <1>1, Carries
<1>5. /\ F \in Files /\ disk.backups = Empty
      /\ Sealed(F, disk.head, attempts) /\ Rec(disk) = Chain(F)
  BY <1>2, <1>3, PartsOf, NoJournal
<1>6. 0 \in Slots /\ RecordsPerFile \in Nat
  BY JournalAssumption DEF Slots
<1>7. /\ F[0] # None => F[0] \in Seq(Records) /\ Len(F[0]) \in Nat /\ Len(F[0]) <= RecordsPerFile
      /\ Live = F[0]
  BY <1>5, <1>6, FilesHold DEF Sealed, Stacked, Live
<1>8. /\ journal \in Journals /\ journal # None /\ journal.backups = <<>>
      /\ journal.state = IF Rotates THEN "preparing" ELSE "prepared"
      /\ journal.rotated = Rotates /\ (journal.liveExisted <=> F[0] # None)
      /\ journal.liveSize = IF F[0] = None THEN 0 ELSE Len(F[0])
      /\ journal.liveExisted \in BOOLEAN /\ journal.liveSize \in Nat
  <2>1. journal \in Journals
    BY <1>7 DEF Journals, Rotates
  <2>2. /\ journal.backups = <<>>
        /\ journal.state = IF Rotates THEN "preparing" ELSE "prepared"
        /\ journal.rotated = Rotates /\ (journal.liveExisted <=> F[0] # None)
        /\ journal.liveSize = IF F[0] = None THEN 0 ELSE Len(F[0])
        /\ journal.liveExisted \in BOOLEAN
    BY <1>7
  <2> QED
    BY <1>7, <2>1, <2>2, JournalAssumption
<1>9. /\ new \in Disks /\ new.journal = journal
      /\ new.files = F /\ new.backups = Empty /\ new.head = disk.head
  <2>1. new = WithJournal(disk, journal)
    BY DEF WithJournal
  <2> HIDE DEF new, journal
  <2> QED
    BY <1>2, <1>5, <1>8, <2>1, JournalChanges
<1>10. /\ At("backup") = Command("backup", op.then, 0, op.bad, op.record) /\ At("backup") \in Ops
       /\ At("write") = Command("write", op.then, 0, op.bad, op.record) /\ At("write") \in Ops
       /\ At("abort") = Command("abort", op.then, 0, op.bad, op.record) /\ At("abort") \in Ops
  BY <1>1, AtIs DEF Labels
<1>11. Fits(disk, At("abort"), attempts)
  BY <1>3, <1>4, <1>10, NothingYet, PlacesOfRecovery
<1>12. Idle \in Ops /\ \A d : Fits(d, Idle, attempts)
  BY IdleFits
<1> HIDE DEF new, journal
<1>13. CASE Rotates
  <2>1. new.journal # None /\ new.journal.rotated /\ In(new, "preparing") /\ ~In(new, "prepared")
    BY <1>8, <1>9, <1>13 DEF In
  <2>2. Image(new, attempts) /\ Rec(new) = Chain(F)
    BY <1>5, <1>9, <2>1, IsQuiet
  <2>3. F[0] # None /\ Len(F[0]) = RecordsPerFile
    BY <1>7, <1>13 DEF Rotates
  <2>4. Begun(new, op.record, attempts)
    BY <1>3, <1>9, <2>1, <2>3 DEF Begun
  <2>5. Backed(new, 0, 0)
    BY <1>8, <1>9, JournalAssumption DEF Backed, Slots
  <2>6. Fits(new, At("backup"), attempts)
    BY <1>4, <1>6, <1>10, <2>4, <2>5, PlacesOfAppend
  <2>7. Ordered(new, At("backup"), Idle)
    BY <1>1, <1>13
  <2>8. JournalInv' /\ Steady
    BY <1>1, <1>2, <1>5, <1>10, <1>12, <2>2, <2>6, <2>7, QuietKeeps
  <2> QED
    BY <1>1, <2>8 DEF Quietly
<1>14. CASE ~Rotates
  <2>1. new.journal # None /\ ~new.journal.rotated /\ In(new, "prepared")
    BY <1>8, <1>9, <1>14 DEF In
  <2>2. Cut(new.files, new.journal.liveExisted, new.journal.liveSize) = F
    BY <1>5, <1>8, <1>9, CutNothing
  <2>3. new.journal.liveExisted => new.files[0] # None /\ new.journal.liveSize <= Len(new.files[0])
    BY <1>7, <1>8, <1>9
  <2>4. Image(new, attempts) /\ Rec(new) = Chain(F) /\ Recovered(new) = F
    BY <1>5, <1>9, <2>1, <2>2, <2>3, IsCut
  <2>5. F[0] # None => Len(F[0]) < RecordsPerFile
    BY <1>6, <1>7, <1>14 DEF Rotates
  <2>6. Roomy(new)
    BY <1>9, <2>4, <2>5 DEF Roomy
  <2>7. Fits(new, At("write"), attempts)
    BY <1>3, <1>4, <1>9, <1>10, <2>1, <2>6, PlacesOfAppend
  <2>8. Ordered(new, At("write"), At("abort"))
    BY <1>1, <1>14
  <2>9. Fits(new, At("abort"), attempts)
    <3>1. new.files = Undone(new)
      BY <1>9, <2>1, <2>2, FoundIs
    <3> QED
      BY <1>4, <1>10, <2>1, <3>1, NothingYet, PlacesOfRecovery
  <2>10. JournalInv' /\ Steady
    BY <1>1, <1>2, <1>5, <1>10, <1>11, <2>4, <2>7, <2>8, <2>9, QuietKeeps
  <2> QED
    BY <1>1, <2>10 DEF Quietly
<1> QED
  BY <1>13, <1>14

\* A transaction that is preparing its backups.
LEMMA Preparing ==
    ASSUME JournalInv, NEW r, Begun(disk, r, attempts)
    PROVE  /\ disk \in Disks /\ disk.journal # None /\ disk.journal.rotated
           /\ In(disk, "preparing") /\ ~In(disk, "prepared")
           /\ disk.files \in Files /\ disk.backups \in Files
           /\ disk.journal.backups \in Seq(Some(Records))
           /\ Sealed(disk.files, disk.head, attempts) /\ log = Chain(disk.files)
           /\ Removed(disk, 0)
<1>1. disk.journal # None /\ disk.journal.state = "preparing" /\ disk.journal.rotated
  BY DEF Begun, In
<1>2. Image(disk, attempts) /\ disk \in Disks
  BY DiskKnown
<1>3. Rec(disk) = Chain(disk.files) /\ Sealed(disk.files, disk.head, attempts)
  BY <1>1, <1>2, Quiet
<1>4. /\ disk.files \in Files /\ disk.backups \in Files
      /\ disk.journal.backups \in Seq(Some(Records))
  BY <1>1, <1>2, PartsOf
<1> QED
  BY <1>1, <1>2, <1>3, <1>4, NothingYet DEF In, log

\* A file is backed up.
LEMMA BackupStep ==
    ASSUME JournalInv, Backup
    PROVE  Quietly
<1> DEFINE new == [disk EXCEPT !.backups[op.i] = disk.files[op.i]]
           next == [op EXCEPT !.pc = "backup_journal"]
           i == op.i
<1>1. /\ op.pc = "backup" /\ attempts' = attempts /\ acked' = acked /\ op.pc # "finish"
      /\ Full(new, next, At("abort"))
  BY DEF Backup
<1>2. Fits(disk, op, attempts)
  BY DiskKnown
<1>3. Begun(disk, op.record, attempts) /\ i \in Slots /\ Backed(disk, i, i)
  BY <1>1, <1>2 DEF Fits
<1>4. Carried(op.then, op.record, attempts) /\ i \in Nat
  BY <1>1, Carries
<1>5. /\ disk \in Disks /\ disk.journal # None /\ disk.journal.rotated
      /\ In(disk, "preparing") /\ ~In(disk, "prepared")
      /\ disk.files \in Files /\ disk.backups \in Files
      /\ Sealed(disk.files, disk.head, attempts) /\ log = Chain(disk.files)
  BY <1>3, Preparing
<1>6. disk.files[i] \in Some(Records)
  BY <1>3, <1>5 DEF Files
<1>7. /\ new \in Disks /\ new.backups[i] = disk.files[i]
      /\ \A k \in Slots : k # i => new.backups[k] = disk.backups[k]
      /\ new.files = disk.files /\ new.journal = disk.journal /\ new.head = disk.head
  <2>1. new = WithBackup(disk, i, disk.files[i])
    BY DEF WithBackup
  <2> HIDE DEF new, i
  <2> QED
    BY <1>3, <1>5, <1>6, <2>1, BackupChanges
<1> HIDE DEF new
<1>8. new.journal # None /\ new.journal.rotated /\ In(new, "preparing") /\ ~In(new, "prepared")
  BY <1>5, <1>7 DEF In
<1>9. Image(new, attempts) /\ Rec(new) = log
  BY <1>5, <1>7, <1>8, IsQuiet
<1>10. Begun(new, op.record, attempts)
  BY <1>3, <1>7, <1>8 DEF Begun
<1>11. Backed(new, i, i + 1)
  <2>1. Len(new.journal.backups) = i
    BY <1>3, <1>7 DEF Backed
  <2>2. ASSUME NEW k \in Slots
        PROVE  /\ k < i => new.journal.backups[k + 1] = new.files[k]
               /\ k < i + 1 => new.backups[k] = new.files[k]
    <3>1. k < i => disk.journal.backups[k + 1] = disk.files[k] /\ disk.backups[k] = disk.files[k]
      BY <1>3 DEF Backed
    <3>2. k = i => new.backups[k] = disk.files[k]
      BY <1>7
    <3>3. k # i => new.backups[k] = disk.backups[k]
      BY <1>7
    <3>4. k < i + 1 => k < i \/ k = i
      BY <1>4 DEF Slots
    <3> QED
      BY <1>7, <3>1, <3>2, <3>3, <3>4
  <2> QED
    BY <2>1, <2>2 DEF Backed
<1>12. "backup_journal" \in Labels /\ "abort" \in Labels
  BY DEF Labels
<1>13. next = Command("backup_journal", op.then, i, op.bad, op.record) /\ next \in Ops
  <2>1. next = Command("backup_journal", op.then, i, op.bad, op.record)
    BY DiskKnown DEF Ops, Command
  <2> HIDE DEF next
  <2> QED
    BY <1>1, <1>4, <1>12, <2>1, Carries, CommandOp
<1>14. /\ At("abort") = Command("abort", op.then, 0, op.bad, op.record) /\ At("abort") \in Ops
  BY <1>1, <1>12, AtIs
<1>15. Fits(new, next, attempts)
  BY <1>3, <1>4, <1>10, <1>11, <1>13, PlacesOfAppend
<1>16. Fits(new, At("abort"), attempts) /\ Fits(disk, At("abort"), attempts)
  BY <1>4, <1>5, <1>8, <1>14, NothingYet, PlacesOfRecovery
<1> HIDE DEF next
<1>17. JournalInv' /\ Steady
  BY <1>1, <1>9, <1>13, <1>14, <1>15, <1>16, FullKeeps
<1> QED
  BY <1>1, <1>17 DEF Quietly

\* The journal names the backup.
LEMMA BackupJournalStep ==
    ASSUME JournalInv, BackupJournal
    PROVE  Quietly
<1> DEFINE new == [disk EXCEPT !.journal.backups = Append(@, disk.files[op.i])]
           next == IF op.i < MaxArchives THEN [op EXCEPT !.pc = "backup", !.i = op.i + 1]
                   ELSE At("prepared")
           i == op.i
<1>1. /\ op.pc = "backup_journal" /\ attempts' = attempts /\ acked' = acked /\ op.pc # "finish"
      /\ Ordered(new, next, At("abort"))
  BY DEF BackupJournal
<1>2. Fits(disk, op, attempts)
  BY DiskKnown
<1>3. Begun(disk, op.record, attempts) /\ i \in Slots /\ Backed(disk, i, i + 1)
  BY <1>1, <1>2 DEF Fits
<1>4. Carried(op.then, op.record, attempts) /\ i \in Nat /\ i + 1 \in Nat
  BY <1>1, Carries
<1>5. /\ disk \in Disks /\ disk.journal # None /\ disk.journal.rotated
      /\ In(disk, "preparing") /\ ~In(disk, "prepared")
      /\ disk.files \in Files /\ disk.backups \in Files
      /\ disk.journal.backups \in Seq(Some(Records))
      /\ Sealed(disk.files, disk.head, attempts) /\ log = Chain(disk.files)
  BY <1>3, Preparing
<1>6. disk.files[i] \in Some(Records)
  BY <1>3, <1>5 DEF Files
<1>7. /\ new \in Disks /\ new.journal # None /\ new.journal.state = disk.journal.state
      /\ new.files = disk.files /\ new.backups = disk.backups /\ new.head = disk.head
      /\ new.journal.rotated = disk.journal.rotated
      /\ new.journal.backups = Append(disk.journal.backups, disk.files[i])
  <2>1. new = Named(disk, disk.files[i])
    BY DEF Named
  <2> HIDE DEF new, i, next
  <2> DEFINE u == disk.files[i]
             d == disk
  <2>2. d \in Disks /\ d.journal # None /\ u \in Some(Records) /\ new = Named(d, u)
    BY <1>5, <1>6, <2>1
  <2>3. u = disk.files[i] /\ d = disk
    OBVIOUS
  <2> HIDE DEF u, d
  <2>4. /\ new \in Disks /\ new.journal # None /\ new.journal.state = d.journal.state
        /\ new.files = d.files /\ new.backups = d.backups /\ new.head = d.head
        /\ new.journal.rotated = d.journal.rotated
        /\ new.journal.backups = Append(d.journal.backups, u)
    BY <2>2, BackupNamed
  <2> QED
    BY <2>3, <2>4
<1> HIDE DEF new
<1>8. new.journal.rotated /\ In(new, "preparing") /\ ~In(new, "prepared")
  BY <1>5, <1>7 DEF In
<1>9. Image(new, attempts) /\ Rec(new) = log
  BY <1>5, <1>7, <1>8, IsQuiet
<1>10. Begun(new, op.record, attempts)
  BY <1>3, <1>7, <1>8 DEF Begun
<1>11. Backed(new, i + 1, i + 1)
  <2>1. /\ Len(disk.journal.backups) = i /\ Len(new.journal.backups) = i + 1
        /\ new.journal.backups[i + 1] = disk.files[i]
        /\ \A k \in 1 .. i : new.journal.backups[k] = disk.journal.backups[k]
    BY <1>3, <1>4, <1>5, <1>7 DEF Backed
  <2>2. ASSUME NEW k \in Slots, k < i + 1
        PROVE  new.journal.backups[k + 1] = new.files[k] /\ new.backups[k] = new.files[k]
    <3>1. disk.backups[k] = disk.files[k]
      BY <1>3, <2>2 DEF Backed
    <3>2. CASE k = i
      BY <1>7, <2>1, <3>1, <3>2
    <3>3. CASE k < i
      <4>1. disk.journal.backups[k + 1] = disk.files[k]
        BY <1>3, <3>3 DEF Backed
      <4>2. k + 1 \in 1 .. i
        BY <1>4, <3>3 DEF Slots
      <4> QED
        BY <1>7, <2>1, <3>1, <4>1, <4>2
    <3> QED
      BY <1>4, <2>2, <3>2, <3>3 DEF Slots
  <2> QED
    BY <2>1, <2>2 DEF Backed
<1>12. "backup" \in Labels /\ "prepared" \in Labels /\ "abort" \in Labels
  BY DEF Labels
<1>13. /\ At("abort") = Command("abort", op.then, 0, op.bad, op.record) /\ At("abort") \in Ops
       /\ At("prepared") = Command("prepared", op.then, 0, op.bad, op.record)
       /\ At("prepared") \in Ops
  BY <1>1, <1>12, AtIs
<1>14. Fits(disk, At("abort"), attempts) /\ Fits(new, At("abort"), attempts)
  BY <1>4, <1>5, <1>8, <1>13, NothingYet, PlacesOfRecovery
<1>15. next \in Ops /\ Fits(new, next, attempts)
  <2>1. CASE i < MaxArchives
    <3>1. i + 1 \in Slots
      BY <1>4, <2>1, JournalAssumption DEF Slots
    <3>2. next = [op EXCEPT !.pc = "backup", !.i = i + 1]
      BY <2>1
    <3> HIDE DEF next
    <3>3. next = Command("backup", op.then, i + 1, op.bad, op.record)
      BY <3>2, DiskKnown DEF Ops, Command
    <3>4. Command("backup", op.then, i + 1, op.bad, op.record) \in Ops
      BY <1>1, <1>4, <1>12, Carries, CommandOp
    <3>5. Fits(new, Command("backup", op.then, i + 1, op.bad, op.record), attempts)
      BY <1>4, <1>10, <1>11, <3>1, PlacesOfAppend
    <3> QED
      BY <3>3, <3>4, <3>5
  <2>2. CASE ~(i < MaxArchives)
    <3>1. i = MaxArchives
      BY <1>3, <2>2, JournalAssumption DEF Slots
    <3>2. Fits(new, At("prepared"), attempts)
      BY <1>4, <1>10, <1>11, <1>13, <3>1, PlacesOfAppend
    <3> QED
      BY <1>13, <2>2, <3>2
  <2> QED
    BY <2>1, <2>2
<1> HIDE DEF next
<1>16. JournalInv' /\ Steady
  BY <1>1, <1>9, <1>13, <1>14, <1>15, QuietKeeps
<1> QED
  BY <1>1, <1>16 DEF Quietly

\* A write of the journal.
LEMMA Writes ==
    ASSUME disk \in Disks, disk.journal # None,
           NEW s \in {"preparing", "prepared", "published", "committing", "resolved"},
           NEW w, w = Journal(s)
    PROVE  /\ w \in Disks /\ In(w, s) /\ w.journal # None
           /\ w.files = disk.files /\ w.backups = disk.backups /\ w.head = disk.head
           /\ w.journal.rotated = disk.journal.rotated
           /\ w.journal.liveExisted = disk.journal.liveExisted
           /\ w.journal.liveSize = disk.journal.liveSize
           /\ w.journal.backups = disk.journal.backups
<1> DEFINE d == disk
<1>1. d \in Disks /\ d.journal # None /\ w = Restated(d, s) /\ d = disk
  BY DEF Journal, Restated
<1> HIDE DEF d
<1>2. /\ w \in Disks /\ In(w, s)
      /\ w.files = d.files /\ w.backups = d.backups /\ w.head = d.head
      /\ w.journal.rotated = d.journal.rotated /\ w.journal.liveExisted = d.journal.liveExisted
      /\ w.journal.liveSize = d.journal.liveSize /\ w.journal.backups = d.journal.backups
  BY <1>1, StateChanges
<1> QED
  BY <1>1, <1>2 DEF In

\* One state of the journal, and no other.
LEMMA InOne ==
    ASSUME NEW d, NEW s, In(d, s), NEW t, t # s
    PROVE  ~In(d, t)
BY DEF In

\* The journal says that all backups are there: recovery finds what it found before.
LEMMA PreparedStep ==
    ASSUME JournalInv, Prepared
    PROVE  Quietly
<1> DEFINE new == Journal("prepared")
           next == [At("rotate") EXCEPT !.i = MaxArchives]
           F == disk.files
<1>1. /\ op.pc = "prepared" /\ attempts' = attempts /\ acked' = acked /\ op.pc # "finish"
      /\ Ordered(new, next, At("abort"))
  BY DEF Prepared, WriteJournal
<1>2. Fits(disk, op, attempts)
  BY DiskKnown
<1>3. Begun(disk, op.record, attempts) /\ Backed(disk, MaxArchives + 1, MaxArchives + 1)
  BY <1>1, <1>2 DEF Fits
<1>4. Carried(op.then, op.record, attempts) /\ MaxArchives \in Nat /\ MaxArchives \in Slots
  BY <1>1, Carries, JournalAssumption DEF Slots
<1>5. /\ disk \in Disks /\ disk.journal # None /\ disk.journal.rotated
      /\ In(disk, "preparing")
      /\ F \in Files /\ disk.journal.backups \in Seq(Some(Records))
      /\ Sealed(F, disk.head, attempts) /\ log = Chain(F)
  BY <1>3, Preparing
<1>6. /\ new \in Disks /\ In(new, "prepared") /\ new.journal # None
      /\ new.files = F /\ new.backups = disk.backups /\ new.head = disk.head
      /\ new.journal.rotated = disk.journal.rotated
      /\ new.journal.backups = disk.journal.backups
  BY <1>5, Writes
<1> HIDE DEF new
<1> DEFINE bs == new.journal.backups
<1>7. /\ bs \in Seq(Some(Records)) /\ Len(bs) = MaxArchives + 1
      /\ \A k \in Slots : bs[k + 1] = F[k] /\ new.backups[k] = bs[k + 1]
  <2>1. Len(bs) = MaxArchives + 1
    BY <1>3, <1>6 DEF Backed
  <2>2. ASSUME NEW k \in Slots PROVE bs[k + 1] = F[k] /\ new.backups[k] = bs[k + 1]
    <3>1. k < MaxArchives + 1
      BY <1>4 DEF Slots
    <3> QED
      BY <1>3, <1>6, <3>1 DEF Backed
  <2> QED
    BY <1>5, <1>6, <2>1, <2>2
<1>8. Before(bs) = F
  <2>1. Before(bs) \in Files /\ \A i \in Slots : Before(bs)[i] = F[i]
    BY <1>7, BeforeFiles
  <2> QED
    BY <1>5, <2>1 DEF Files
<1>9. Image(new, attempts) /\ Rec(new) = Chain(F) /\ Recovered(new) = F
  <2> DEFINE O == F
  <2>1. O = Before(new.journal.backups) /\ Sealed(O, new.head, attempts)
    BY <1>5, <1>6, <1>8
  <2>2. new.journal.rotated
    BY <1>5, <1>6
  <2> HIDE DEF O
  <2>3. Image(new, attempts) /\ Rec(new) = Chain(O) /\ Recovered(new) = O
    BY <1>6, <1>7, <2>1, <2>2, IsRotated DEF Intact
  <2> QED
    BY <2>3 DEF O
<1>10. Moving(new, MaxArchives + 1)
  <2>1. F[0] # None /\ Len(F[0]) = RecordsPerFile
    BY <1>3 DEF Begun
  <2>2. \A k \in Slots : k < MaxArchives + 1
    BY <1>4 DEF Slots
  <2> QED
    BY <1>6, <1>9, <2>1, <2>2 DEF Moving
<1>11. "rotate" \in Labels /\ "abort" \in Labels
  BY DEF Labels
<1>12. next = Command("rotate", op.then, MaxArchives, op.bad, op.record) /\ next \in Ops
  <2>1. next = Command("rotate", op.then, MaxArchives, op.bad, op.record)
    BY DiskKnown, Starts, Zenon
  <2> HIDE DEF next
  <2> QED
    BY <1>1, <1>4, <1>11, <2>1, Carries, CommandOp
<1>13. /\ At("abort") = Command("abort", op.then, 0, op.bad, op.record) /\ At("abort") \in Ops
  BY <1>1, <1>11, AtIs
<1>14. Fits(disk, At("abort"), attempts) /\ Fits(new, At("abort"), attempts)
  <2>1. new.files = Undone(new)
    BY <1>5, <1>6, <1>8, FoundIs
  <2> QED
    BY <1>4, <1>5, <1>6, <1>13, <2>1, NothingYet, PlacesOfRecovery
<1>15. Fits(new, next, attempts)
  <2>1. /\ new.journal.rotated /\ Succeeds(op.record, new.head, attempts)
        /\ Intact(new)
    BY <1>3, <1>5, <1>6, <1>7 DEF Begun, Intact
  <2> QED
    BY <1>4, <1>6, <1>10, <1>12, <2>1, PlacesOfAppend
<1> HIDE DEF next
<1>16. JournalInv' /\ Steady
  BY <1>1, <1>5, <1>9, <1>12, <1>13, <1>14, <1>15, QuietKeeps
<1> QED
  BY <1>1, <1>16 DEF Quietly

\* A transaction that has been published.
LEMMA Published ==
    ASSUME JournalInv, In(disk, "published") \/ In(disk, "committing")
    PROVE  /\ disk \in Disks /\ disk.journal # None
           /\ disk.files \in Files /\ disk.head \in Records
           /\ ~disk.journal.rotated => disk.backups = Empty
           /\ IF Stranded(disk)
              THEN Sealed(Undone(disk), disk.head, attempts) /\ log = Chain(Undone(disk))
              ELSE Open(disk.files, disk.head, attempts) /\ log = Chain(disk.files)
<1>1. disk.journal # None /\ disk.journal.state \in {"published", "committing"}
  BY DEF In
<1>2. Image(disk, attempts) /\ disk \in Disks
  BY DiskKnown
<1>3. IF Stranded(disk)
      THEN Rec(disk) = Chain(Undone(disk)) /\ Sealed(Undone(disk), disk.head, attempts)
      ELSE Rec(disk) = Chain(disk.files) /\ Open(disk.files, disk.head, attempts)
  BY <1>1, <1>2, Publishing, TakenBack
<1> QED
  BY <1>1, <1>2, <1>3, PartsOf DEF log

\* What a rollback restores does not depend on the state of the journal.
LEMMA SameUndone ==
    ASSUME NEW d, NEW w, w.files = d.files,
           w.journal.rotated = d.journal.rotated, w.journal.liveExisted = d.journal.liveExisted,
           w.journal.liveSize = d.journal.liveSize, w.journal.backups = d.journal.backups
    PROVE  /\ Undone(w) = Undone(d)
           /\ LET live(x) == In(x, "published") \/ In(x, "committing")
              IN  live(d) /\ live(w) => (Stranded(w) <=> Stranded(d))
<1>1. Undone(w) = Undone(d)
  BY DEF Undone
<1>2. ASSUME In(d, "published") \/ In(d, "committing"), In(w, "published") \/ In(w, "committing")
      PROVE  Stranded(w) <=> Stranded(d)
  <2>1. PartlyUndone(w) <=> PartlyUndone(d)
    BY <1>2 DEF PartlyUndone, In
  <2> QED
    BY <1>2, <2>1 DEF Stranded, BackupsGone, In
<1> QED
  BY <1>1, <1>2

\* The commit is begun, in the transaction or by recovery.
LEMMA CommitBegins ==
    ASSUME JournalInv, In(disk, "published"), op.pc # "finish",
           attempts' = attempts, acked' = acked,
           NEW p \in Labels, WriteJournal("committing", At(p), Idle),
           ASSUME NEW w, In(w, "committing"), w.files = disk.files, w.head = disk.head,
                  Stranded(w) <=> Stranded(disk)
           PROVE  Fits(w, Command(p, op.then, 0, op.bad, op.record), attempts)
    PROVE  Quietly
<1> DEFINE new == Journal("committing")
<1>1. Ordered(new, At(p), Idle)
  BY DEF WriteJournal
<1>2. /\ disk \in Disks /\ disk.journal # None
      /\ ~disk.journal.rotated => disk.backups = Empty
      /\ IF Stranded(disk)
         THEN Sealed(Undone(disk), disk.head, attempts) /\ log = Chain(Undone(disk))
         ELSE Open(disk.files, disk.head, attempts) /\ log = Chain(disk.files)
  BY Published
<1>3. /\ new \in Disks /\ In(new, "committing") /\ new.journal # None
      /\ new.files = disk.files /\ new.backups = disk.backups /\ new.head = disk.head
      /\ new.journal.rotated = disk.journal.rotated
      /\ new.journal.liveExisted = disk.journal.liveExisted
      /\ new.journal.liveSize = disk.journal.liveSize
      /\ new.journal.backups = disk.journal.backups
  BY <1>2, Writes
<1> HIDE DEF new
<1>4. Undone(new) = Undone(disk) /\ (Stranded(new) <=> Stranded(disk))
  BY <1>3, SameUndone
<1>5. Image(new, attempts) /\ Rec(new) = log
  <2>1. ~new.journal.rotated => new.backups = Empty
    BY <1>2, <1>3
  <2>2. CASE Stranded(disk)
    <3>1. Sealed(Undone(new), new.head, attempts) /\ Stranded(new)
      BY <1>2, <1>3, <1>4, <2>2
    <3> QED
      BY <1>2, <1>3, <1>4, <2>1, <2>2, <3>1, IsTakenBack
  <2>3. CASE ~Stranded(disk)
    <3>1. Open(new.files, new.head, attempts)
      BY <1>2, <1>3, <2>3
    <3> QED
      BY <1>2, <1>3, <2>1, <2>3, <3>1, IsLive
  <2> QED
    BY <2>2, <2>3
<1>6. At(p) = Command(p, op.then, 0, op.bad, op.record) /\ At(p) \in Ops
  BY AtIs
<1>7. Fits(new, At(p), attempts)
  BY <1>3, <1>4, <1>6
<1>8. Idle \in Ops /\ \A d : Fits(d, Idle, attempts)
  BY IdleFits
<1>9. JournalInv' /\ Steady
  BY <1>1, <1>5, <1>6, <1>7, <1>8, QuietKeeps
<1> QED
  BY <1>9 DEF Quietly

\* The transaction starts to commit.
LEMMA CommittingStep ==
    ASSUME JournalInv, Committing
    PROVE  Quietly
<1>1. /\ op.pc = "committing" /\ attempts' = attempts /\ acked' = acked /\ op.pc # "finish"
      /\ WriteJournal("committing", At("commit"), Idle)
  BY DEF Committing
<1>2. In(disk, "published") /\ LastIs(disk, op.record) /\ ~Stranded(disk)
  BY <1>1, DiskKnown DEF Fits
<1>3. Carried(op.then, op.record, attempts) /\ "commit" \in Labels
  BY <1>1, Carries DEF Labels
<1>4. ASSUME NEW w, In(w, "committing"), w.files = disk.files, w.head = disk.head,
             Stranded(w) <=> Stranded(disk)
      PROVE  Fits(w, Command("commit", op.then, 0, op.bad, op.record), attempts)
  <2>1. LastIs(w, op.record)
    BY <1>2, <1>4 DEF LastIs
  <2> QED
    BY <1>2, <1>3, <1>4, <2>1, PlacesOfAppend
<1> QED
  BY <1>1, <1>2, <1>3, <1>4, CommitBegins

\* Recovery starts to commit what it found published.
LEMMA MarkStep ==
    ASSUME JournalInv, Mark
    PROVE  Quietly
<1>1. /\ op.pc = "mark" /\ attempts' = attempts /\ acked' = acked /\ op.pc # "finish"
      /\ WriteJournal("committing", At("recover_commit"), Idle)
  BY DEF Mark
<1>2. In(disk, "published") /\ op.then \in {"prepare", "read"}
  BY <1>1, DiskKnown DEF Fits
<1>3. Carried(op.then, op.record, attempts) /\ "recover_commit" \in Labels
  BY <1>1, Carries DEF Labels
<1>4. ASSUME NEW w, In(w, "committing"), w.files = disk.files, w.head = disk.head,
             Stranded(w) <=> Stranded(disk)
      PROVE  Fits(w, Command("recover_commit", op.then, 0, op.bad, op.record), attempts)
  BY <1>2, <1>3, <1>4, PlacesOfRecovery
<1> QED
  BY <1>1, <1>2, <1>3, <1>4, CommitBegins

\* The head that a published chain gets.
LEMMA HeadOf ==
    ASSUME NEW F, NEW h, NEW n, Open(F, h, n)
    PROVE  /\ Last(Chain(F)) \in Records /\ Chain(F) # <<>> /\ Continuous(Chain(F))
           /\ Open(F, Last(Chain(F)), n) /\ Sealed(F, Last(Chain(F)), n)
BY DEF Open, Sealed, Known

\* The head follows the published record.
LEMMA HeadWrites ==
    ASSUME JournalInv, In(disk, "committing"), ~Stranded(disk), op.pc # "finish",
           NEW h, h = Last(Chain(disk.files)), op.record # Torn => LastIs(disk, op.record),
           NEW w, w = [disk EXCEPT !.head = h]
    PROVE  /\ Image(w, attempts) /\ Rec(w) = log
           /\ At("resolve") \in Ops /\ Fits(w, At("resolve"), attempts)
<1>1. /\ disk \in Disks /\ disk.journal # None
      /\ ~disk.journal.rotated => disk.backups = Empty
      /\ Open(disk.files, disk.head, attempts) /\ log = Chain(disk.files)
  BY Published
<1>2. h \in Records /\ Open(disk.files, h, attempts) /\ Sealed(disk.files, h, attempts)
  BY <1>1, HeadOf
<1>3. /\ w \in Disks /\ w.head = h
      /\ w.files = disk.files /\ w.backups = disk.backups /\ w.journal = disk.journal
  <2> DEFINE d == disk
  <2>1. d \in Disks /\ w = WithHead(d, h) /\ d = disk
    BY <1>1 DEF WithHead
  <2> HIDE DEF d
  <2>2. /\ w \in Disks /\ w.head = h
        /\ w.files = d.files /\ w.backups = d.backups /\ w.journal = d.journal
    BY <1>2, <2>1, HeadChanges
  <2> QED
    BY <2>1, <2>2
<1>4. In(w, "committing") /\ w.journal # None
  BY <1>1, <1>3 DEF In
<1>5. Image(w, attempts) /\ Rec(w) = log
  <2>1. Open(w.files, w.head, attempts) /\ (~w.journal.rotated => w.backups = Empty)
    BY <1>1, <1>2, <1>3
  <2> QED
    BY <1>1, <1>3, <1>4, <2>1, IsLive
<1>6. Sealed(w.files, w.head, attempts) /\ (op.record # Torn => LastIs(w, op.record))
  BY <1>2, <1>3 DEF LastIs
<1>7. At("resolve") = Command("resolve", op.then, 0, op.bad, op.record) /\ At("resolve") \in Ops
  BY AtIs DEF Labels
<1>8. Carried(op.then, op.record, attempts) /\ ~Stranded(w)
  BY <1>3, <1>4, Carries, SameUndone
<1>9. Fits(w, At("resolve"), attempts)
  <2> DEFINE v == w
  <2>1. v = w /\ In(v, "committing") /\ Sealed(v.files, v.head, attempts)
        /\ (op.record # Torn => LastIs(v, op.record)) /\ ~Stranded(v)
    BY <1>4, <1>6, <1>8
  <2> HIDE DEF v
  <2>2. Fits(v, Command("resolve", op.then, 0, op.bad, op.record), attempts)
    BY ONLY <1>8, <2>1, PlacesOfAppend
  <2> QED
    BY <1>7, <2>1, <2>2
<1> QED
  BY <1>5, <1>7, <1>9

\* The head of the appended record is written.
LEMMA CommitStep ==
    ASSUME JournalInv, Commit
    PROVE  Quietly
<1> DEFINE new == [disk EXCEPT !.head = op.record]
<1>1. /\ op.pc = "commit" /\ attempts' = attempts /\ acked' = acked /\ op.pc # "finish"
      /\ Ordered(new, At("resolve"), Idle)
  BY DEF Commit
<1>2. In(disk, "committing") /\ LastIs(disk, op.record) /\ ~Stranded(disk)
  BY <1>1, DiskKnown DEF Fits
<1>3. /\ Image(new, attempts) /\ Rec(new) = log
      /\ At("resolve") \in Ops /\ Fits(new, At("resolve"), attempts)
  <2> DEFINE h == op.record
  <2>1. h = Last(Chain(disk.files)) /\ new = [disk EXCEPT !.head = h] /\ h = op.record
    BY <1>2 DEF LastIs
  <2> HIDE DEF h, new
  <2> QED
    BY <1>1, <1>2, <2>1, HeadWrites
<1>4. Idle \in Ops /\ Fits(disk, Idle, attempts) /\ Fits(new, Idle, attempts)
  BY IdleFits
<1> HIDE DEF new
<1>5. JournalInv' /\ Steady
  BY <1>1, <1>3, <1>4, QuietKeeps
<1> QED
  BY <1>1, <1>5 DEF Quietly

\* Recovery writes the head again, or finds it written.
LEMMA RecoverCommitStep ==
    ASSUME JournalInv, RecoverCommit
    PROVE  Quietly
<1> DEFINE chain == Chain(disk.files)
           new == [disk EXCEPT !.head = Last(chain)]
<1>1. /\ op.pc = "recover_commit" /\ attempts' = attempts /\ acked' = acked /\ op.pc # "finish"
      /\ IF chain = <<>> \/ ~Continuous(chain)
             \/ (Last(chain) # disk.head /\ ~Advances(disk.head, chain))
         THEN op' = At("refused") /\ UNCHANGED <<images, faults>>
         ELSE IF Last(chain) = disk.head
              THEN op' = At("resolve") /\ UNCHANGED <<images, faults>>
              ELSE Ordered(new, At("resolve"), Idle)
  BY DEF RecoverCommit
<1>2. /\ In(disk, "committing") /\ op.then \in {"prepare", "read"}
      /\ Carried(op.then, op.record, attempts)
  BY <1>1, Carries, DiskKnown DEF Fits
<1>3. op.record = Torn
  BY <1>2 DEF Carried
<1>4. IF Stranded(disk) THEN Sealed(Undone(disk), disk.head, attempts)
      ELSE Open(disk.files, disk.head, attempts)
  BY <1>2, Published
<1>5. CASE Stranded(disk)
  <2>1. chain = <<>> \/ ~Continuous(chain)
    BY <1>2, <1>4, <1>5, DiskKnown, Sound DEF Sealed
  <2>2. op' = At("refused") /\ images' = images /\ faults' = faults
    BY <1>1, <2>1
  <2>3. Fits(disk, Command("refused", op.then, 0, op.bad, op.record), attempts)
    BY <1>2, <1>5, PlacesOfRecovery
  <2>4. "refused" \in Labels
    BY DEF Labels
  <2> QED
    BY <1>1, <2>2, <2>3, <2>4, StartsAt
<1>6. ASSUME ~Stranded(disk)
      PROVE  \/ /\ Last(chain) = disk.head /\ op' = At("resolve")
                /\ images' = images /\ faults' = faults
             \/ Ordered(new, At("resolve"), Idle)
  <2>1. /\ chain # <<>> /\ Continuous(chain)
        /\ Last(chain) = disk.head \/ Advances(disk.head, chain)
    BY <1>4, <1>6 DEF Open
  <2> QED
    BY <1>1, <2>1
<1>7. CASE /\ ~Stranded(disk)
           /\ Last(chain) = disk.head /\ op' = At("resolve") /\ images' = images /\ faults' = faults
  <2>1. Sealed(disk.files, disk.head, attempts)
    BY <1>4, <1>7, HeadOf
  <2>2. Fits(disk, Command("resolve", op.then, 0, op.bad, op.record), attempts)
    BY <1>2, <1>3, <1>7, <2>1, PlacesOfAppend
  <2>3. "resolve" \in Labels
    BY DEF Labels
  <2> QED
    BY <1>1, <1>7, <2>2, <2>3, StartsAt
<1>8. CASE ~Stranded(disk) /\ Ordered(new, At("resolve"), Idle)
  <2>1. /\ Image(new, attempts) /\ Rec(new) = log
        /\ At("resolve") \in Ops /\ Fits(new, At("resolve"), attempts)
    <3> DEFINE h == Last(chain)
    <3>1. h = Last(Chain(disk.files)) /\ new = [disk EXCEPT !.head = h]
      OBVIOUS
    <3> HIDE DEF h, new
    <3> QED
      BY <1>1, <1>2, <1>3, <1>8, <3>1, HeadWrites
  <2>2. Idle \in Ops /\ Fits(disk, Idle, attempts) /\ Fits(new, Idle, attempts)
    BY IdleFits
  <2> HIDE DEF new
  <2>3. JournalInv' /\ Steady
    BY <1>1, <1>8, <2>1, <2>2, QuietKeeps
  <2> QED
    BY <1>1, <2>3 DEF Quietly
<1> QED
  BY <1>5, <1>6, <1>7, <1>8

\* The journal says that the transaction is over.
LEMMA ResolvedIs ==
    ASSUME JournalInv, disk.journal # None, Sealed(disk.files, disk.head, attempts),
           log = Chain(disk.files), NEW w, w = Journal("resolved")
    PROVE  /\ Image(w, attempts) /\ Rec(w) = log /\ In(w, "resolved")
           /\ w.files = disk.files /\ Removed(w, 0)
<1>1. Image(disk, attempts) /\ disk \in Disks
  BY DiskKnown
<1>2. ~disk.journal.rotated => disk.backups = Empty
  BY <1>1, PartsOf
<1>3. /\ w \in Disks /\ In(w, "resolved") /\ w.journal # None
      /\ w.files = disk.files /\ w.backups = disk.backups /\ w.head = disk.head
      /\ w.journal.rotated = disk.journal.rotated
  BY <1>1, Writes
<1>4. ~In(w, "preparing")
  BY <1>3, InOne
<1>5. Sealed(w.files, w.head, attempts) /\ (~w.journal.rotated => w.backups = Empty)
  BY <1>2, <1>3
<1>6. Image(w, attempts) /\ Rec(w) = Chain(w.files)
  BY <1>3, <1>4, <1>5, IsQuiet
<1> QED
  BY <1>3, <1>6, NothingYet

\* The transaction is committed.
LEMMA ResolveStep ==
    ASSUME JournalInv, Resolve
    PROVE  Quietly
<1> DEFINE new == Journal("resolved")
           t == IF op.record = Torn THEN op.then ELSE "ack"
           next == [At("finish") EXCEPT !.then = t]
<1>1. /\ op.pc = "resolve" /\ attempts' = attempts /\ acked' = acked /\ op.pc # "finish"
      /\ WriteJournal("resolved",
                    [At("finish") EXCEPT !.then = IF op.record = Torn THEN @ ELSE "ack"], Idle)
  BY DEF Resolve
<1>2. /\ In(disk, "committing") /\ Sealed(disk.files, disk.head, attempts)
      /\ op.record # Torn => LastIs(disk, op.record)
      /\ ~Stranded(disk)
  BY <1>1, DiskKnown DEF Fits
<1>3. /\ Carried(op.then, op.record, attempts) /\ op.bad \in BOOLEAN /\ op.record \in Records
      /\ op.then \in {"idle", "prepare", "read", "ack"}
  BY <1>1, Carries
<1>4. disk.journal # None /\ log = Chain(disk.files)
  BY <1>2, Published
<1>5. /\ Image(new, attempts) /\ Rec(new) = log /\ In(new, "resolved")
      /\ new.files = disk.files /\ Removed(new, 0)
  BY <1>2, <1>4, ResolvedIs
<1>6. At("finish") = Command("finish", op.then, 0, op.bad, op.record)
  BY DiskKnown, Starts
<1>7. At("finish").then = op.then
  BY <1>6 DEF Command
<1>8. Ordered(new, next, Idle)
  BY <1>1, <1>7 DEF WriteJournal
<1>9. next = Command("finish", t, 0, op.bad, op.record)
  <2> DEFINE u == t
  <2>1. next = [At("finish") EXCEPT !.then = u] /\ u = t
    OBVIOUS
  <2> HIDE DEF next, u
  <2>2. next = Command("finish", u, 0, op.bad, op.record)
    BY <1>6, <2>1 DEF Command
  <2> QED
    BY <2>1, <2>2
<1>10. t \in {"idle", "prepare", "read", "ack"} /\ "finish" \in Labels /\ 0 \in Nat
  BY <1>3 DEF Labels
<1> HIDE DEF new, next
<1>11. Fits(new, Command("finish", t, 0, op.bad, op.record), attempts)
  <2>1. CASE op.record = Torn
    <3>1. t = op.then
      BY <2>1
    <3> HIDE DEF t
    <3> QED
      BY <1>3, <1>5, <3>1, PlacesOfRecovery
  <2>2. CASE op.record # Torn
    <3>1. t = "ack"
      BY <2>2
    <3> HIDE DEF t
    <3>2. LastIs(new, op.record)
      BY <1>2, <1>5, <2>2 DEF LastIs
    <3> QED
      BY <1>5, <3>1, <3>2 DEF Fits, Command
  <2> QED
    BY <2>1, <2>2
<1> HIDE DEF t
<1>12. next \in Ops /\ Fits(new, next, attempts)
  BY <1>3, <1>9, <1>10, <1>11, CommandOp
<1>13. Idle \in Ops /\ Fits(disk, Idle, attempts) /\ Fits(new, Idle, attempts)
  BY IdleFits
<1>14. JournalInv' /\ Steady
  BY <1>1, <1>5, <1>8, <1>12, <1>13, QuietKeeps
<1> QED
  BY <1>1, <1>14 DEF Quietly

\* The files a roll back makes are those recovery makes.
LEMMA AllRestored ==
    ASSUME JournalInv, In(disk, "prepared"), Restored(disk, MaxArchives + 1)
    PROVE  disk.files = Recovered(disk) /\ Sealed(disk.files, disk.head, attempts)
<1>0. MaxArchives \in Nat /\ disk.journal # None /\ disk.journal.state = "prepared"
  BY JournalAssumption DEF In
<1>1. /\ Image(disk, attempts) /\ disk.files \in Files
      /\ disk.journal # None => disk.journal.backups \in Seq(Some(Records))
  BY DiskKnown, PartsOf
<1>2. CASE disk.journal.rotated
  <2> DEFINE bs == disk.journal.backups
  <2>1. /\ Recovered(disk) = Before(bs) /\ Sealed(Before(bs), disk.head, attempts)
        /\ Len(bs) = MaxArchives + 1
    BY <1>0, <1>1, <1>2, RotatedBack
  <2>2. Before(bs) \in Files /\ \A i \in Slots : Before(bs)[i] = bs[i + 1]
    BY <1>0, <1>1, <2>1, BeforeFiles
  <2>3. \A i \in Slots : disk.files[i] = bs[i + 1]
    BY <1>0, <1>2 DEF Restored, Slots
  <2>4. disk.files = Before(bs)
    BY <1>1, <2>2, <2>3 DEF Files
  <2> QED
    BY <2>1, <2>4
<1>3. CASE ~disk.journal.rotated
  <2>1. disk.files = Recovered(disk)
    BY <1>0, <1>3 DEF Restored
  <2>2. /\ Recovered(disk) = Cut(disk.files, disk.journal.liveExisted, disk.journal.liveSize)
        /\ Sealed(Cut(disk.files, disk.journal.liveExisted, disk.journal.liveSize),
                  disk.head, attempts)
    BY <1>0, <1>1, <1>3, CutBack
  <2> QED
    BY <2>1, <2>2
<1> QED
  BY <1>2, <1>3

\* The same for a record that was published.
LEMMA AllWithdrawn ==
    ASSUME JournalInv, In(disk, "published"), Withdrawn(disk, MaxArchives + 1, attempts)
    PROVE  /\ disk.files = Undone(disk) /\ Sealed(disk.files, disk.head, attempts)
           /\ log = Chain(disk.files)
<1>0. MaxArchives \in Nat /\ disk.journal # None
  BY JournalAssumption DEF In
<1>1. disk.files = Undone(disk)
  <2>1. CASE disk.journal.rotated
    <3> DEFINE bs == disk.journal.backups
    <3>1. /\ disk.files \in Files /\ bs \in Seq(Some(Records)) /\ Len(bs) = MaxArchives + 1
      BY <1>0, <2>1, DiskKnown, PartsOf DEF Withdrawn
    <3>2. Before(bs) \in Files /\ \A i \in Slots : Before(bs)[i] = bs[i + 1]
      BY <3>1, BeforeFiles
    <3>3. ASSUME NEW i \in Slots PROVE disk.files[i] = bs[i + 1]
      <4>1. i + (MaxArchives + 1) > 0 /\ i < MaxArchives + 1
        BY <1>0 DEF Slots
      <4> QED
        BY <2>1, <4>1 DEF Withdrawn
    <3>4. disk.files = Before(bs)
      BY <3>1, <3>2, <3>3 DEF Files
    <3> QED
      BY <1>0, <2>1, <3>4, FoundIs
  <2>2. CASE ~disk.journal.rotated
    BY <1>0, <2>2 DEF Withdrawn
  <2> QED
    BY <2>1, <2>2
<1>2. log = Chain(disk.files)
  <2>1. IF Stranded(disk) THEN log = Chain(Undone(disk)) ELSE log = Chain(disk.files)
    BY Published
  <2> QED
    BY <1>1, <2>1
<1> QED
  BY <1>1, <1>2 DEF Withdrawn

\* The transaction is rolled back.
LEMMA RolledBackStep ==
    ASSUME JournalInv, RolledBack
    PROVE  Quietly
<1> DEFINE new == Journal("resolved")
<1>1. /\ op.pc = "rollback" /\ op.i = MaxArchives + 1
      /\ attempts' = attempts /\ acked' = acked /\ op.pc # "finish"
      /\ Ordered(new, At("finish"), Idle)
  BY DEF RolledBack, WriteJournal
<1>2. \/ In(disk, "prepared") /\ Restored(disk, MaxArchives + 1)
      \/ In(disk, "published") /\ Withdrawn(disk, MaxArchives + 1, attempts)
  BY <1>1, DiskKnown DEF Fits
<1>3. Sealed(disk.files, disk.head, attempts) /\ log = Chain(disk.files)
  <2>1. CASE In(disk, "prepared") /\ Restored(disk, MaxArchives + 1)
    BY <2>1, AllRestored DEF log, Rec
  <2>2. CASE In(disk, "published") /\ Withdrawn(disk, MaxArchives + 1, attempts)
    BY <2>2, AllWithdrawn
  <2> QED
    BY <1>2, <2>1, <2>2
<1>4. disk.journal # None
  BY <1>2 DEF In
<1>5. /\ Image(new, attempts) /\ Rec(new) = log /\ In(new, "resolved") /\ Removed(new, 0)
  BY <1>3, <1>4, ResolvedIs
<1> HIDE DEF new
<1>6. /\ At("finish") = Command("finish", op.then, 0, op.bad, op.record) /\ At("finish") \in Ops
  BY <1>1, AtIs DEF Labels
<1>7. Fits(new, At("finish"), attempts)
  BY <1>1, <1>5, <1>6, Carries, PlacesOfRecovery
<1>8. Idle \in Ops /\ Fits(disk, Idle, attempts) /\ Fits(new, Idle, attempts)
  BY IdleFits
<1>9. JournalInv' /\ Steady
  BY <1>1, <1>5, <1>6, <1>7, <1>8, QuietKeeps
<1> QED
  BY <1>1, <1>9 DEF Quietly

\* While a transaction that rotates is prepared, the files may be anything: the
\* backups are what recovery makes them.
LEMMA RotatedFiles ==
    ASSUME JournalInv, In(disk, "prepared"), disk.journal.rotated, NEW w \in Disks,
           w.journal = disk.journal, w.backups = disk.backups, w.head = disk.head,
           Intact(disk) \/ w.files = disk.files
    PROVE  /\ Image(w, attempts) /\ Rec(w) = log /\ Recovered(w) = Recovered(disk)
           /\ In(w, "prepared") /\ w.journal.rotated
           /\ Recovered(disk) = Before(disk.journal.backups) /\ Recovered(disk) \in Files
           /\ Sealed(Recovered(disk), disk.head, attempts)
           /\ Len(disk.journal.backups) = MaxArchives + 1
           /\ \A i \in Slots : Recovered(disk)[i] = disk.journal.backups[i + 1]
           /\ Intact(disk) => Intact(w)
<1>1. disk.journal # None /\ disk.journal.state = "prepared"
  BY DEF In
<1>2. Image(disk, attempts)
  BY DiskKnown
<1>3. disk.journal.backups \in Seq(Some(Records))
  BY <1>1, <1>2, PartsOf
<1>4. /\ Recovered(disk) = Before(disk.journal.backups)
      /\ Rec(disk) = Chain(Before(disk.journal.backups))
      /\ Sealed(Before(disk.journal.backups), disk.head, attempts)
      /\ Len(disk.journal.backups) = MaxArchives + 1
      /\ Intact(disk) \/ disk.files = Before(disk.journal.backups)
  BY <1>1, <1>2, RotatedBack
<1>5. /\ Before(disk.journal.backups) \in Files
      /\ \A i \in Slots : Before(disk.journal.backups)[i] = disk.journal.backups[i + 1]
  BY <1>3, <1>4, BeforeFiles
<1>6. In(w, "prepared") /\ w.journal.rotated
  BY <1>1 DEF In
<1> DEFINE O == Before(disk.journal.backups)
<1>7. /\ O = Before(w.journal.backups) /\ Len(w.journal.backups) = MaxArchives + 1
      /\ Intact(disk) => Intact(w)
      /\ Intact(w) \/ w.files = O
      /\ Sealed(O, w.head, attempts)
  BY <1>4 DEF Intact
<1>8. O = Before(disk.journal.backups)
  OBVIOUS
<1> HIDE DEF O
<1>9. Image(w, attempts) /\ Rec(w) = Chain(O) /\ Recovered(w) = O
  BY <1>6, <1>7, IsRotated
<1> QED
  BY <1>4, <1>5, <1>6, <1>7, <1>8, <1>9 DEF log

\* One file moves up by one slot.
LEMMA MovesOn ==
    ASSUME NEW d, Moving(d, (op.i) + 1), NEW i, i = op.i, i \in Slots, d.files \in Files,
           NEW w, w.files \in Files, Recovered(w) = Recovered(d),
           w.files[i] = None,
           i < MaxArchives => w.files[i + 1] = d.files[i],
           \A k \in Slots : k # i /\ k # i + 1 => w.files[k] = d.files[k]
    PROVE  Moving(w, i)
<1> DEFINE O == Recovered(d)
<1>1. /\ O[0] # None /\ Len(O[0]) = RecordsPerFile
      /\ \A k \in Slots :
            d.files[k] = IF k < i + 1 THEN O[k] ELSE IF k = i + 1 THEN None ELSE O[k - 1]
  BY DEF Moving
<1>2. MaxArchives \in Nat /\ i \in Nat /\ i <= MaxArchives
  BY JournalAssumption DEF Slots
<1> HIDE DEF O
<1>3. d.files[i] = O[i]
  BY <1>1, <1>2
<1>4. ASSUME NEW k \in Slots
      PROVE  w.files[k] = IF k < i THEN O[k] ELSE IF k = i THEN None ELSE O[k - 1]
  <2>0. k \in Nat /\ k <= MaxArchives
    BY <1>2 DEF Slots
  <2>1. CASE k = i
    BY <1>2, <2>1
  <2>2. CASE k = i + 1
    <3>1. i < MaxArchives /\ ~(k < i) /\ k # i /\ k - 1 = i
      BY <1>2, <2>0, <2>2
    <3> QED
      BY <1>3, <2>2, <3>1
  <2>3. CASE k # i /\ k # i + 1
    <3>1. w.files[k] = d.files[k]
      BY <2>3
    <3>2. d.files[k] = IF k < i + 1 THEN O[k] ELSE IF k = i + 1 THEN None ELSE O[k - 1]
      BY <1>1
    <3>3. (k < i + 1) <=> (k < i)
      BY <1>2, <2>0, <2>3
    <3> QED
      BY <2>3, <3>1, <3>2, <3>3
  <2> QED
    BY <2>1, <2>2, <2>3
<1> QED
  BY <1>1, <1>4 DEF Moving, O

\* A file of the rotation moves.
LEMMA RotateStep ==
    ASSUME JournalInv, Rotate
    PROVE  Quietly
<1> DEFINE i == op.i
           F == disk.files
           moved == [disk.files EXCEPT ![i] = None]
           G == IF i = MaxArchives \/ F[i] = None THEN moved ELSE [moved EXCEPT ![i + 1] = F[i]]
           new == [disk EXCEPT !.files = G]
           next == IF i > 0 THEN [op EXCEPT !.i = i - 1] ELSE At("write")
<1>1. /\ op.pc = "rotate" /\ attempts' = attempts /\ acked' = acked /\ op.pc # "finish"
      /\ Full(new, next, At("rollback"))
  BY DEF Rotate
<1>2. /\ In(disk, "prepared") /\ Succeeds(op.record, disk.head, attempts)
      /\ disk.journal.rotated /\ i \in Slots /\ Moving(disk, op.i + 1) /\ Intact(disk)
  BY <1>1, DiskKnown DEF Fits
<1>3. Carried(op.then, op.record, attempts) /\ i \in Nat /\ disk \in Disks /\ F \in Files
  BY <1>1, Carries, DiskKnown, PartsOf
<1>4. MaxArchives \in Nat /\ 0 \in Slots /\ i <= MaxArchives
  BY <1>2, JournalAssumption DEF Slots
<1>5. moved \in Files /\ moved[i] = None /\ \A k \in Slots : k # i => moved[k] = F[k]
  BY <1>2, <1>3 DEF Files, Some
<1>6. F[i] \in Some(Records)
  BY <1>2, <1>3 DEF Files
<1>7. /\ G \in Files /\ G[i] = None /\ (i < MaxArchives => G[i + 1] = F[i])
      /\ \A k \in Slots : k # i /\ k # i + 1 => G[k] = F[k]
  <2> HIDE DEF moved
  <2>1. CASE i = MaxArchives
    BY <1>4, <1>5, <2>1
  <2>2. CASE i # MaxArchives /\ F[i] = None
    <3>1. i < MaxArchives /\ i + 1 \in Slots /\ i + 1 # i
      BY <1>3, <1>4, <2>2 DEF Slots
    <3>2. F[i + 1] = None
      <4>1. i + 1 \in Slots /\ ~(i + 1 < op.i + 1) /\ i + 1 = op.i + 1
        BY <1>3, <3>1
      <4> QED
        BY <1>2, <4>1 DEF Moving
    <3> QED
      BY <1>5, <2>2, <3>1, <3>2
  <2>3. CASE i # MaxArchives /\ F[i] # None
    <3>1. i < MaxArchives /\ i + 1 \in Slots /\ i + 1 # i
      BY <1>3, <1>4, <2>3 DEF Slots
    <3>2. G = [moved EXCEPT ![i + 1] = F[i]]
      BY <2>3
    <3> HIDE DEF G, i, F
    <3> QED
      BY <1>2, <1>5, <1>6, <3>1, <3>2 DEF Files
  <2> QED
    BY <2>1, <2>2, <2>3
<1> HIDE DEF moved, G
<1>8. /\ new \in Disks /\ new.files = G
      /\ new.backups = disk.backups /\ new.journal = disk.journal /\ new.head = disk.head
  <2>1. new = WithFiles(disk, G)
    BY DEF WithFiles
  <2> HIDE DEF new
  <2> QED
    BY <1>3, <1>7, <2>1, FilesChange
<1> HIDE DEF new
<1>9. /\ Image(new, attempts) /\ Rec(new) = log /\ Recovered(new) = Recovered(disk)
      /\ In(new, "prepared") /\ new.journal.rotated /\ Intact(new)
  BY <1>2, <1>8, RotatedFiles
<1>10. Moving(new, i)
  BY <1>2, <1>3, <1>7, <1>8, <1>9, MovesOn
<1>11. "rotate" \in Labels /\ "write" \in Labels /\ "rollback" \in Labels
  BY DEF Labels
<1>12. /\ At("rollback") = Command("rollback", op.then, 0, op.bad, op.record)
       /\ At("rollback") \in Ops
       /\ At("write") = Command("write", op.then, 0, op.bad, op.record) /\ At("write") \in Ops
  BY <1>1, <1>11, AtIs
<1>13. Fits(new, At("rollback"), attempts) /\ Fits(disk, At("rollback"), attempts)
  BY <1>2, <1>3, <1>9, <1>12, NothingYet, PlacesOfRecovery
<1>14. Succeeds(op.record, new.head, attempts)
  BY <1>2, <1>8
<1>15. next \in Ops /\ Fits(new, next, attempts)
  <2>1. CASE i > 0
    <3>1. i - 1 \in Nat /\ i - 1 \in Slots /\ (i - 1) + 1 = i
      BY <1>3, <1>4, <2>1 DEF Slots
    <3>2. next = [op EXCEPT !.i = i - 1]
      BY <2>1
    <3> DEFINE k == i - 1
    <3>3. next = [op EXCEPT !.i = k] /\ k \in Nat /\ k \in Slots /\ Moving(new, k + 1)
      BY <1>10, <3>1, <3>2
    <3> HIDE DEF next, k, i
    <3>4. next = Command("rotate", op.then, k, op.bad, op.record)
      BY <1>1, <3>3, DiskKnown DEF Ops, Command
    <3>5. Command("rotate", op.then, k, op.bad, op.record) \in Ops
      BY <1>1, <1>11, <3>3, Carries, CommandOp
    <3>6. Fits(new, Command("rotate", op.then, k, op.bad, op.record), attempts)
      BY <1>3, <1>9, <1>14, <3>3, PlacesOfAppend
    <3> QED
      BY <3>4, <3>5, <3>6
  <2>2. CASE ~(i > 0)
    <3>1. i = 0
      BY <1>3, <2>2
    <3>2. Moving(new, 0)
      BY <1>10, <3>1
    <3>3. Fits(new, At("write"), attempts)
      BY <1>3, <1>9, <1>12, <1>14, <3>2, PlacesOfAppend
    <3> QED
      BY <1>12, <2>2, <3>3
  <2> QED
    BY <2>1, <2>2
<1> HIDE DEF next
<1>16. JournalInv' /\ Steady
  BY <1>1, <1>9, <1>12, <1>13, <1>15, FullKeeps
<1> QED
  BY <1>1, <1>16 DEF Quietly

\* A step back: a reader finds what it could have fallen back to.
Backward == /\ JournalInv' /\ acked' = acked
            /\ log' \in fallbacks /\ fallbacks' \in {{log'}, fallbacks}

\* What does not show is not a step ahead.
LEMMA QuietIsBackward ==
    ASSUME JournalInv, Quietly
    PROVE  Backward
BY DiskKnown DEF Quietly, Steady, Backward

\* A log whose live file is there is not empty; one that is empty has no files.
LEMMA LiveChain ==
    ASSUME NEW F \in Files, Stacked(F)
    PROVE  IF F[0] # None THEN Chain(F) # <<>> ELSE F = Empty
<1>0. 0 \in Slots /\ RecordsPerFile \in Nat
  BY JournalAssumption DEF Slots
<1>1. CASE F[0] # None
  <2>1. Len(F[0]) \in 1 .. RecordsPerFile /\ Held(F, 0) = F[0]
    BY <1>0, <1>1, FilesHold DEF Stacked
  <2>2. \A i \in Slots : Held(F, i) \in Seq(Records)
    BY FilesHold
  <2>3. /\ Archived(F) \in Seq(Records) /\ Held(F, 0) \in Seq(Records)
        /\ Chain(F) = Archived(F) \o Held(F, 0)
    BY <1>0, <2>2, ChainLive
  <2>4. Len(Chain(F)) = Len(Archived(F)) + Len(Held(F, 0)) /\ Len(Archived(F)) \in Nat
    BY <2>3
  <2>5. Len(Chain(F)) # 0
    BY <1>0, <2>1, <2>4
  <2> QED
    BY <1>1, <2>5
<1>2. CASE F[0] = None
  <2>1. ASSUME NEW i \in Slots PROVE F[i] = None
    <3>1. i = 0 \/ 0 < i
      BY DEF Slots
    <3> QED
      BY <1>0, <1>2, <3>1 DEF Stacked
  <2> QED
    BY <1>2, <2>1 DEF Files, Empty
<1> QED
  BY <1>1, <1>2

\* A published record that is taken back as a whole.
LEMMA WholeUndone ==
    ASSUME NEW d \in Disks, NEW n, In(d, "published"), d.files = Undone(d),
           Sealed(Undone(d), d.head, n), d.journal.rotated => d.files[0] # None,
           ~d.journal.rotated => d.backups = Empty /\ Shorter(d)
    PROVE  Image(d, n) /\ Rec(d) = Chain(Undone(d))
<1>1. CASE Stranded(d)
  BY <1>1, IsTakenBack
<1>2. CASE ~Stranded(d)
  <2>0. /\ d.journal # None /\ d.journal.state = "published" /\ d.files \in Files
        /\ Stacked(d.files) /\ 0 \in Slots
    BY JournalAssumption DEF In, Disks, Sealed, Slots
  <2>1. d.files[0] # None
    <3>1. SUFFICES ASSUME d.files[0] = None PROVE FALSE
      OBVIOUS
    <3>2. d.files = Empty /\ ~d.journal.rotated
      BY <2>0, <3>1, LiveChain
    <3>3. ~d.journal.liveExisted
      BY <3>1, <3>2 DEF Shorter
    <3> QED
      BY <1>2, <2>0, <3>2, <3>3 DEF Stranded, PartlyUndone
  <2>2. Chain(d.files) # <<>>
    BY <2>0, <2>1, LiveChain
  <2>3. Open(d.files, d.head, n)
    BY <2>2 DEF Sealed, Open
  <2> QED
    BY <2>3, IsLive
<1> QED
  BY <1>1, <1>2

\* One that is taken back in part, or as a whole.
LEMMA WithdrawnImage ==
    ASSUME NEW d \in Disks, NEW n, NEW i \in Nat, i > 0, In(d, "published"), Withdrawn(d, i, n),
           ~d.journal.rotated => d.backups = Empty
    PROVE  Image(d, n) /\ Rec(d) = Chain(Undone(d))
<1>0. MaxArchives \in Nat /\ 0 \in Slots /\ d.journal # None /\ d.journal.state = "published"
  BY JournalAssumption DEF Slots, In
<1>1. CASE ~d.journal.rotated
  <2>1. d.files = Undone(d) /\ Sealed(Undone(d), d.head, n) /\ Shorter(d)
    BY <1>1 DEF Withdrawn
  <2> QED
    BY <1>1, <2>1, WholeUndone
<1>2. CASE d.journal.rotated /\ i <= MaxArchives /\ d.journal.backups[i] # None
  <2>1. i \in 1 .. MaxArchives
    BY <1>0, <1>2
  <2>2. \A k \in Slots : k + i > 0
    BY DEF Slots
  <2>3. \A k \in Slots : d.files[k] = d.journal.backups[IF k < i THEN k + 1 ELSE k]
    BY <1>2, <2>2 DEF Withdrawn
  <2>4. PartlyUndone(d)
    BY <1>0, <1>2, <2>1, <2>3 DEF PartlyUndone
  <2>5. Stranded(d) /\ Sealed(Undone(d), d.head, n)
    BY <1>0, <2>4 DEF Stranded, Withdrawn
  <2> QED
    BY <1>2, <2>5, IsTakenBack
<1>3. CASE d.journal.rotated /\ ~(i <= MaxArchives /\ d.journal.backups[i] # None)
  <2> DEFINE bs == d.journal.backups
             O == Undone(d)
  <2>1. /\ Sealed(O, d.head, n) /\ Len(bs) = MaxArchives + 1 /\ bs[1] # None
        /\ i <= MaxArchives + 1
        /\ \A k \in Slots : k + i > 0 => d.files[k] = bs[IF k < i THEN k + 1 ELSE k]
    BY <1>3 DEF Withdrawn
  <2>2. d.journal \in Journals /\ d.files \in Files
    BY <1>0 DEF Disks
  <2>3. bs \in Seq(Some(Records))
    BY <2>2 DEF Journals
  <2>4. O = Before(bs)
    BY <1>0, <1>3, FoundIs
  <2>5. O \in Files /\ \A k \in Slots : O[k] = bs[k + 1]
    BY <2>1, <2>3, <2>4, BeforeFiles
  <2> HIDE DEF O, bs
  <2>6. ASSUME NEW k \in Slots PROVE d.files[k] = O[k]
    <3>0. k \in Nat /\ k <= MaxArchives /\ k + i > 0
      BY <1>0 DEF Slots
    <3>1. CASE k < i
      BY <2>1, <2>5, <3>0, <3>1
    <3>2. CASE ~(k < i)
      <4>1. bs[i] = None /\ i - 1 \in Slots /\ (i - 1) + 1 = i /\ i - 1 < k
        BY <1>0, <1>3, <3>0, <3>2 DEF Slots, bs
      <4>2. O[i - 1] = None
        BY <2>5, <4>1
      <4>3. Stacked(O) /\ k - 1 \in Slots /\ (k - 1) + 1 = k /\ (i - 1 < k - 1 \/ i - 1 = k - 1)
        BY <1>0, <2>1, <3>0, <3>2 DEF Slots, Sealed
      <4>4. O[k] = None /\ O[k - 1] = None
        BY <4>1, <4>2, <4>3 DEF Stacked
      <4>5. d.files[k] = bs[k] /\ O[k - 1] = bs[k]
        BY <2>1, <2>5, <3>0, <3>2, <4>3
      <4> QED
        BY <4>4, <4>5
    <3> QED
      BY <3>1, <3>2
  <2>7. d.files = O
    BY <2>2, <2>5, <2>6 DEF Files
  <2>8. d.files[0] # None
    BY <1>0, <2>1, <2>5, <2>7
  <2> QED
    BY <1>3, <2>1, <2>7, <2>8, WholeUndone DEF O
<1> QED
  BY <1>1, <1>2, <1>3

\* What a reader may fall back to while a published record is taken back.
LEMMA MayFallBack ==
    ASSUME JournalInv, Revocable, op.pc = "rollback", In(disk, "published")
    PROVE  /\ Withdrawn(disk, op.i, attempts) /\ Chain(Undone(disk)) \in fallbacks
           /\ op.i \in Nat
<1>1. ~In(disk, "prepared") /\ disk \in Disks /\ Image(disk, attempts)
  BY DiskKnown, InOne
<1>2. Withdrawn(disk, op.i, attempts) /\ op.i \in Nat
  BY <1>1, DiskKnown DEF Fits, Ops
<1>3. CASE op.i = 0
  BY <1>2, <1>3 DEF Revocable, fallbacks, Readings, Rec
<1>4. CASE op.i > 0
  <2>1. ~disk.journal.rotated => disk.backups = Empty
    BY <1>1, PartsOf
  <2>2. Rec(disk) = Chain(Undone(disk))
    BY <1>1, <1>2, <1>4, <2>1, WithdrawnImage
  <2> QED
    BY <1>2, <2>2, DiskKnown DEF log
<1> QED
  BY <1>2, <1>3, <1>4

\* One file is brought back.
LEMMA RestoreIs ==
    ASSUME JournalInv, RestoreFile
    PROVE  LET i == op.i
               before == disk.journal.backups[i + 1]
               new == [disk EXCEPT !.files[i] = before]
           IN /\ op.pc = "rollback" /\ disk.journal.rotated /\ i <= MaxArchives
              /\ attempts' = attempts /\ acked' = acked /\ op.pc # "finish"
              /\ IF before # None /\ disk.backups[i] # before
                 THEN op' = At("refused") /\ images' = images /\ faults' = faults
                 ELSE Full(new, [op EXCEPT !.i = i + 1], Idle)
              /\ i \in Slots /\ i \in Nat /\ i + 1 \in Nat /\ i + 1 <= MaxArchives + 1
              /\ disk \in Disks /\ Image(disk, attempts)
              /\ Carried(op.then, op.record, attempts)
<1> DEFINE i == op.i
<1>1. /\ op.pc = "rollback" /\ disk.journal.rotated /\ i <= MaxArchives
      /\ attempts' = attempts /\ acked' = acked /\ op.pc # "finish"
  BY DEF RestoreFile
<1>2. Carried(op.then, op.record, attempts) /\ i \in Nat /\ disk \in Disks /\ Image(disk, attempts)
  BY <1>1, Carries, DiskKnown
<1>3. i \in Slots /\ i + 1 \in Nat /\ i + 1 <= MaxArchives + 1
  BY <1>1, <1>2, JournalAssumption DEF Slots
<1> QED
  BY <1>1, <1>2, <1>3 DEF RestoreFile

\* Recovery brings one file back. It refuses to when the backup is gone.
LEMMA RestorePreparedStep ==
    ASSUME JournalInv, RestoreFile, In(disk, "prepared")
    PROVE  Quietly
<1> DEFINE i == op.i
           before == disk.journal.backups[i + 1]
           new == [disk EXCEPT !.files[i] = before]
           next == [op EXCEPT !.i = i + 1]
<1>1. /\ op.pc = "rollback" /\ disk.journal.rotated /\ i <= MaxArchives
      /\ attempts' = attempts /\ acked' = acked /\ op.pc # "finish"
      /\ IF before # None /\ disk.backups[i] # before
         THEN op' = At("refused") /\ images' = images /\ faults' = faults
         ELSE Full(new, next, Idle)
  BY RestoreIs
<1>2. Restored(disk, i) /\ disk.journal # None /\ disk.journal.state = "prepared"
  BY <1>1, DiskKnown, InOne DEF Fits, In
<1>3. /\ Carried(op.then, op.record, attempts) /\ i \in Nat /\ disk \in Disks
      /\ Image(disk, attempts)
      /\ i \in Slots /\ i + 1 \in Nat /\ i + 1 <= MaxArchives + 1
  BY RestoreIs
<1>4. /\ Recovered(disk) \in Files
      /\ \A k \in Slots : Recovered(disk)[k] = disk.journal.backups[k + 1]
      /\ Undone(disk) = Recovered(disk)
      /\ Intact(disk) \/ disk.files = Undone(disk)
  <2>1. /\ Recovered(disk) \in Files
        /\ \A k \in Slots : Recovered(disk)[k] = disk.journal.backups[k + 1]
    BY <1>1, <1>3, RotatedFiles
  <2>2. Undone(disk) = Recovered(disk)
    BY <1>2, FoundIs
  <2>3. Intact(disk) \/ disk.files = Before(disk.journal.backups)
    BY <1>1, <1>2, <1>3, RotatedBack
  <2>4. Undone(disk) = Before(disk.journal.backups)
    BY <1>1, <1>2, FoundIs
  <2> QED
    BY <2>1, <2>2, <2>3, <2>4
<1>5. CASE before # None /\ disk.backups[i] # before
  <2>1. disk.files = Undone(disk)
    BY <1>3, <1>4, <1>5 DEF Intact
  <2>2. \E k \in Slots : disk.journal.backups[k + 1] \notin {None, disk.backups[k]}
    BY <1>3, <1>5
  <2>3. Stranded(disk)
    BY <1>1, <1>2, <2>1, <2>2 DEF Stranded, BackupsGone
  <2>4. Fits(disk, Command("refused", op.then, 0, op.bad, op.record), attempts)
    BY <1>3, <2>3, PlacesOfRecovery
  <2>5. "refused" \in Labels
    BY DEF Labels
  <2> QED
    BY <1>1, <1>5, <2>4, <2>5, StartsAt
<1>6. CASE ~(before # None /\ disk.backups[i] # before)
  <2>1. before \in Some(Records)
    BY <1>3, <1>4 DEF Files
  <2>2. Full(new, next, Idle)
    BY <1>1, <1>6
  <2>3. /\ new \in Disks /\ new.files \in Files /\ new.files[i] = before
        /\ \A k \in Slots : k # i => new.files[k] = disk.files[k]
        /\ new.backups = disk.backups /\ new.journal = disk.journal /\ new.head = disk.head
    <3>1. new = WithFile(disk, i, before)
      BY DEF WithFile
    <3> HIDE DEF new, before, i
    <3> QED
      BY <1>3, <2>1, <3>1, FileChanges
  <2> HIDE DEF new
  <2>4. Intact(disk) \/ new.files = disk.files
    <3>1. ASSUME disk.files = Undone(disk) PROVE new.files = disk.files
      <4>1. disk.files \in Files
        BY <1>3, PartsOf
      <4>2. \A k \in Slots : new.files[k] = disk.files[k]
        BY <1>3, <1>4, <2>3, <3>1
      <4> QED
        BY <2>3, <4>1, <4>2 DEF Files
    <3> QED
      BY <1>4, <3>1
  <2>5. /\ Image(new, attempts) /\ Rec(new) = log
        /\ In(new, "prepared") /\ new.journal.rotated
    BY <1>1, <2>3, <2>4, RotatedFiles
  <2>6. Restored(new, i + 1)
    <3>1. ASSUME NEW k \in Slots, k < i + 1 PROVE new.files[k] = new.journal.backups[k + 1]
      <4>1. CASE k = i
        BY <2>3, <4>1
      <4>2. CASE k # i
        <5>1. k < i
          BY <1>3, <3>1, <4>2 DEF Slots
        <5> QED
          BY <1>1, <1>2, <2>3, <4>2, <5>1 DEF Restored
      <4> QED
        BY <4>1, <4>2
    <3> QED
      BY <1>3, <2>5, <3>1 DEF Restored
  <2>7. next \in Ops /\ Fits(new, next, attempts)
    <3> DEFINE k == i + 1
    <3>1. next = [op EXCEPT !.i = k] /\ k \in Nat /\ Restored(new, k) /\ "rollback" \in Labels
      BY <1>3, <2>6 DEF Labels
    <3> HIDE DEF next, k
    <3>2. next = Command("rollback", op.then, k, op.bad, op.record)
      BY <1>1, <3>1, DiskKnown DEF Ops, Command
    <3>3. Command("rollback", op.then, k, op.bad, op.record) \in Ops
      BY <1>1, <3>1, Carries, CommandOp
    <3>4. Fits(new, Command("rollback", op.then, k, op.bad, op.record), attempts)
      BY <1>3, <2>5, <3>1, PlacesOfRecovery
    <3> QED
      BY <3>2, <3>3, <3>4
  <2>8. Idle \in Ops /\ Fits(disk, Idle, attempts) /\ Fits(new, Idle, attempts)
    BY IdleFits
  <2> HIDE DEF next
  <2>9. JournalInv' /\ Steady
    BY <1>1, <2>2, <2>5, <2>7, <2>8, FullKeeps
  <2> QED
    BY <1>1, <2>9 DEF Quietly
<1> QED
  BY <1>5, <1>6

\* A change that is synced, of a record that may be taken back.
LEMMA TakesBack ==
    ASSUME JournalInv, NEW new, NEW next \in Ops, Full(new, next, Idle),
           attempts' = attempts, acked' = acked,
           Image(new, attempts), Fits(new, next, attempts), Rec(new) \in fallbacks
    PROVE  Backward
<1>1. Idle \in Ops /\ Fits(disk, Idle, attempts) /\ Fits(new, Idle, attempts)
  BY IdleFits
<1>2. JournalInv' /\ (Steady \/ Shows(new))
  BY <1>1, SyncedKeeps
<1>3. log \in fallbacks
  BY DiskKnown
<1>4. CASE Steady
  BY <1>2, <1>3, <1>4 DEF Backward, Steady
<1>5. CASE Shows(new)
  <2>1. fallbacks \cup {Rec(new)} = fallbacks
    OBVIOUS
  <2> QED
    BY <1>2, <1>5, <2>1 DEF Backward, Shows
<1> QED
  BY <1>2, <1>4, <1>5

\* A file of a published record is brought back, when the publication reported an error.
LEMMA RestorePublishedStep ==
    ASSUME JournalInv, Revocable, RestoreFile, In(disk, "published")
    PROVE  Backward
<1> DEFINE i == op.i
           bs == disk.journal.backups
           new == [disk EXCEPT !.files[i] = bs[i + 1]]
           next == [op EXCEPT !.i = i + 1]
<1>1. /\ op.pc = "rollback" /\ disk.journal.rotated /\ i <= MaxArchives
      /\ attempts' = attempts /\ acked' = acked /\ op.pc # "finish"
      /\ IF bs[i + 1] # None /\ disk.backups[i] # bs[i + 1]
         THEN op' = At("refused") /\ images' = images /\ faults' = faults
         ELSE Full(new, next, Idle)
  BY RestoreIs
<1>2. /\ Carried(op.then, op.record, attempts) /\ i \in Nat /\ disk \in Disks
      /\ i \in Slots /\ i + 1 \in Nat /\ i + 1 <= MaxArchives + 1
      /\ MaxArchives \in Nat /\ disk.journal # None /\ disk.journal \in Journals
  BY RestoreIs, JournalAssumption DEF In, Disks
<1>3. Withdrawn(disk, i, attempts) /\ Chain(Undone(disk)) \in fallbacks
  BY <1>1, MayFallBack
<1>4. /\ Sealed(Undone(disk), disk.head, attempts)
      /\ Len(bs) = MaxArchives + 1 /\ Intact(disk) /\ bs[1] # None
      /\ \A k \in Slots : k + i > 0 => disk.files[k] = bs[IF k < i THEN k + 1 ELSE k]
  BY <1>1, <1>3 DEF Withdrawn
<1>5. Full(new, next, Idle)
  BY <1>1, <1>2, <1>4 DEF Intact
<1>6. bs[i + 1] \in Some(Records)
  <2>1. bs \in Seq(Some(Records)) /\ i + 1 \in 1 .. Len(bs)
    BY <1>2, <1>4 DEF Journals, Slots
  <2> QED
    BY <2>1
<1>7. /\ new \in Disks /\ new.files[i] = bs[i + 1]
      /\ \A k \in Slots : k # i => new.files[k] = disk.files[k]
      /\ new.backups = disk.backups /\ new.journal = disk.journal /\ new.head = disk.head
  <2> DEFINE x == bs[i + 1]
  <2>1. new = WithFile(disk, i, x)
    BY DEF WithFile
  <2> HIDE DEF new, x, i
  <2> QED
    BY <1>2, <1>6, <2>1, FileChanges DEF x
<1> HIDE DEF new
<1>8. /\ In(new, "published") /\ new.journal.rotated /\ new.journal # None
      /\ Undone(new) = Undone(disk)
  BY <1>1, <1>2, <1>7 DEF In, Undone
<1>9. Withdrawn(new, i + 1, attempts)
  <2>1. ASSUME NEW k \in Slots
        PROVE  new.files[k] = bs[IF k < i + 1 THEN k + 1 ELSE k]
    <3>0. k \in Nat
      BY DEF Slots
    <3>1. CASE k = i
      BY <1>2, <1>7, <3>1
    <3>2. CASE k # i
      <4>1. k + i > 0 /\ (k < i + 1 <=> k < i)
        BY <1>2, <3>0, <3>2
      <4>2. disk.files[k] = bs[IF k < i THEN k + 1 ELSE k]
        BY <1>4, <4>1
      <4> QED
        BY <1>7, <3>2, <4>1, <4>2
    <3> QED
      BY <3>1, <3>2
  <2>2. Intact(new)
    BY <1>4, <1>7 DEF Intact
  <2> QED
    BY <1>2, <1>4, <1>7, <1>8, <2>1, <2>2 DEF Withdrawn
<1>10. Image(new, attempts) /\ Rec(new) \in fallbacks
  <2>1. i + 1 \in Nat /\ i + 1 > 0
    BY <1>2
  <2>2. Image(new, attempts) /\ Rec(new) = Chain(Undone(new))
    BY <1>7, <1>8, <1>9, <2>1, WithdrawnImage
  <2> QED
    BY <1>3, <1>8, <2>2
<1>11. next \in Ops /\ Fits(new, next, attempts)
  <2> DEFINE k == i + 1
  <2>1. next = [op EXCEPT !.i = k] /\ k \in Nat /\ Withdrawn(new, k, attempts)
        /\ "rollback" \in Labels
    BY <1>2, <1>9 DEF Labels
  <2> HIDE DEF next, k
  <2>2. next = Command("rollback", op.then, k, op.bad, op.record)
    BY <1>1, <2>1, DiskKnown DEF Ops, Command
  <2>3. Command("rollback", op.then, k, op.bad, op.record) \in Ops
    BY <1>1, <2>1, Carries, CommandOp
  <2>4. Fits(new, Command("rollback", op.then, k, op.bad, op.record), attempts)
    BY <1>2, <1>8, <2>1, PlacesOfRecovery
  <2> QED
    BY <2>2, <2>3, <2>4
<1> HIDE DEF next
<1> QED
  BY <1>1, <1>5, <1>10, <1>11, TakesBack

\* A file is brought back.
LEMMA RestoreFileStep ==
    ASSUME JournalInv, Revocable, RestoreFile
    PROVE  Backward
<1>1. op.pc = "rollback"
  BY DEF RestoreFile
<1>2. In(disk, "prepared") \/ In(disk, "published")
  BY <1>1, DiskKnown DEF Fits
<1> QED
  BY <1>2, RestorePreparedStep, RestorePublishedStep, QuietIsBackward

\* To cut a live file twice is to cut it once.
LEMMA CutAgain ==
    ASSUME NEW F \in Files, NEW e \in BOOLEAN, NEW z \in Nat,
           e => F[0] # None /\ z <= Len(F[0])
    PROVE  /\ Cut(F, e, z) \in Files /\ Cut(Cut(F, e, z), e, z) = Cut(F, e, z)
           /\ e => Cut(F, e, z)[0] # None /\ z <= Len(Cut(F, e, z)[0])
<1> DEFINE x == IF e THEN SubSeq(F[0], 1, z) ELSE None
           G == [F EXCEPT ![0] = x]
<1>0. 0 \in Slots
  BY JournalAssumption DEF Slots
<1>1. F[0] # None => F[0] \in Seq(Records)
  BY <1>0, FilesHold
<1>2. e => /\ SubSeq(F[0], 1, z) \in Seq(Records) /\ Len(SubSeq(F[0], 1, z)) = z
           /\ SubSeq(SubSeq(F[0], 1, z), 1, z) = SubSeq(F[0], 1, z)
  BY <1>1
<1>3. /\ x \in Some(Records)
      /\ e => x \in Seq(Records) /\ Len(x) = z /\ SubSeq(x, 1, z) = x
      /\ ~e => x = None
  BY <1>2 DEF Some
<1>4. e => x # None
  BY <1>3, JournalAssumption
<1>5. Cut(F, e, z) = G
  BY DEF Cut
<1> HIDE DEF x
<1>6. G \in Files /\ G[0] = x /\ \A k \in Slots : k # 0 => G[k] = F[k]
  BY <1>0, <1>3 DEF Files
<1> HIDE DEF G
<1>7. (IF e THEN SubSeq(G[0], 1, z) ELSE None) = G[0]
  BY <1>3, <1>6
<1>8. [G EXCEPT ![0] = G[0]] = G
  BY <1>0, <1>6 DEF Files
<1>9. Cut(G, e, z) = G
  BY <1>7, <1>8 DEF Cut
<1> QED
  BY <1>3, <1>4, <1>5, <1>6, <1>9

\* The live file is cut to what it was.
LEMMA CutRecordStep ==
    ASSUME JournalInv, Revocable, CutRecord
    PROVE  Backward
<1> DEFINE j == disk.journal
           e == j.liveExisted
           z == j.liveSize
           F == disk.files
           new == [disk EXCEPT !.files[0] =
                      IF j.liveExisted THEN SubSeq(@, 1, j.liveSize) ELSE None]
           next == [op EXCEPT !.i = MaxArchives + 1]
           size == IF Live = None THEN 0 ELSE Len(Live)
<1>1. /\ op.pc = "rollback" /\ ~j.rotated /\ op.i = 0
      /\ attempts' = attempts /\ acked' = acked /\ op.pc # "finish"
      /\ \/ j.liveExisted /\ (Live = None \/ size < j.liveSize)
         \/ Full(new, next, Idle)
  BY DEF CutRecord
<1>2. /\ In(disk, "prepared") \/ (In(disk, "published") /\ Withdrawn(disk, op.i, attempts))
      /\ In(disk, "published") => Chain(Undone(disk)) \in fallbacks
  BY <1>1, MayFallBack, DiskKnown DEF Fits
<1>3. j # None /\ Image(disk, attempts) /\ disk \in Disks /\ log \in fallbacks
  BY <1>2, DiskKnown DEF In
<1>4. Carried(op.then, op.record, attempts)
  BY <1>1, Carries
<1>5. /\ Undone(disk) = Cut(F, e, z) /\ Chain(Cut(F, e, z)) \in fallbacks
      /\ Sealed(Cut(F, e, z), disk.head, attempts)
      /\ e => F[0] # None /\ z <= Len(F[0])
      /\ disk.backups = Empty
  <2>1. Undone(disk) = Cut(F, e, z) /\ disk.backups = Empty
    BY <1>1, <1>3, FoundIs, PartsOf
  <2>2. CASE In(disk, "prepared")
    BY <1>1, <1>3, <2>1, <2>2, CutBack DEF In, log
  <2>3. CASE In(disk, "published") /\ Withdrawn(disk, op.i, attempts)
    BY <1>1, <1>2, <2>1, <2>3 DEF Withdrawn, Shorter
  <2> QED
    BY <1>2, <2>1, <2>2, <2>3
<1>6. F \in Files /\ e \in BOOLEAN /\ z \in Nat
  BY <1>3, PartsOf
<1>7. 0 \in Slots /\ MaxArchives + 1 \in Nat
  BY JournalAssumption DEF Slots
<1>8. F[0] # None => Len(F[0]) \in Nat
  BY <1>6, <1>7, FilesHold
<1>9. ~(j.liveExisted /\ (Live = None \/ size < j.liveSize))
  BY <1>5, <1>6, <1>8 DEF Live
<1>10. Full(new, next, Idle)
  BY <1>1, <1>9
<1>11. /\ Cut(F, e, z) \in Files /\ Cut(Cut(F, e, z), e, z) = Cut(F, e, z)
       /\ e => Cut(F, e, z)[0] # None /\ z <= Len(Cut(F, e, z)[0])
  BY <1>5, <1>6, CutAgain
<1> DEFINE G == Cut(F, e, z)
<1>12. new = WithFiles(disk, G)
  <2>1. new = [disk EXCEPT !.files = [F EXCEPT ![0] = IF e THEN SubSeq(F[0], 1, z) ELSE None]]
    BY <1>3 DEF Disks
  <2> QED
    BY <2>1, Zenon DEF WithFiles, Cut
<1> HIDE DEF new, G
<1>13. /\ new \in Disks /\ new.files = G
       /\ new.backups = disk.backups /\ new.journal = disk.journal /\ new.head = disk.head
  BY <1>3, <1>11, <1>12, FilesChange DEF G
<1>14. Chain(G) \in fallbacks /\ Sealed(G, disk.head, attempts)
  BY <1>5 DEF G
<1>15. ~new.journal.rotated /\ new.journal # None
  BY <1>1, <1>3, <1>13
<1>16. /\ G = Cut(new.files, new.journal.liveExisted, new.journal.liveSize)
       /\ Shorter(new)
  BY <1>11, <1>13 DEF G, Shorter
<1>17. /\ Undone(new) = G /\ new.files = G
       /\ Sealed(G, new.head, attempts) /\ new.backups = Empty
  BY <1>5, <1>13, <1>14, <1>15, <1>16, FoundIs
<1>18. Image(new, attempts) /\ Rec(new) = Chain(G)
       /\ \/ In(new, "prepared") /\ Restored(new, MaxArchives + 1)
          \/ In(new, "published") /\ Withdrawn(new, MaxArchives + 1, attempts)
  <2>1. CASE In(disk, "prepared")
    <3>1. In(new, "prepared")
      BY <1>13, <2>1 DEF In
    <3>2. new.journal.liveExisted =>
             new.files[0] # None /\ new.journal.liveSize <= Len(new.files[0])
      BY <1>16 DEF Shorter
    <3>3. Image(new, attempts) /\ Rec(new) = Chain(G) /\ Recovered(new) = G
      BY <1>13, <1>15, <1>16, <1>17, <3>1, <3>2, IsCut
    <3>4. Restored(new, MaxArchives + 1)
      BY <1>7, <1>15, <1>17, <3>3 DEF Restored
    <3> QED
      BY <3>1, <3>3, <3>4
  <2>2. CASE In(disk, "published")
    <3>1. In(new, "published")
      BY <1>13, <2>2 DEF In
    <3>2. Withdrawn(new, MaxArchives + 1, attempts)
      BY <1>7, <1>15, <1>16, <1>17 DEF Withdrawn
    <3> DEFINE m == MaxArchives + 1
    <3>3. m \in Nat /\ m > 0 /\ Withdrawn(new, m, attempts)
      BY <1>7, <3>2, JournalAssumption
    <3> HIDE DEF m
    <3>4. Image(new, attempts) /\ Rec(new) = Chain(Undone(new))
      BY <1>13, <1>17, <3>1, <3>3, WithdrawnImage
    <3> QED
      BY <1>17, <3>1, <3>2, <3>4
  <2> QED
    BY <1>2, <2>1, <2>2
<1>19. next \in Ops /\ Fits(new, next, attempts)
  <2> DEFINE k == MaxArchives + 1
  <2>1. /\ next = [op EXCEPT !.i = k] /\ k \in Nat /\ "rollback" \in Labels
        /\ \/ In(new, "prepared") /\ Restored(new, k)
           \/ In(new, "published") /\ Withdrawn(new, k, attempts)
    BY <1>7, <1>18 DEF Labels
  <2> HIDE DEF next, k
  <2>2. next = Command("rollback", op.then, k, op.bad, op.record)
    BY <1>1, <2>1, DiskKnown DEF Ops, Command
  <2>3. Command("rollback", op.then, k, op.bad, op.record) \in Ops
    BY <1>1, <2>1, Carries, CommandOp
  <2>4. Fits(new, Command("rollback", op.then, k, op.bad, op.record), attempts)
    BY <1>4, <2>1, PlacesOfRecovery
  <2> QED
    BY <2>2, <2>3, <2>4
<1> HIDE DEF next
<1>20. Rec(new) \in fallbacks
  BY <1>14, <1>18
<1> QED
  BY <1>1, <1>10, <1>18, <1>19, <1>20, TakesBack

\* A transaction that is aborted with its files as they were: the backups do not matter.
LEMMA IsAborted ==
    ASSUME NEW d \in Disks, NEW n, In(d, "prepared"), d.files = Undone(d),
           Sealed(d.files, d.head, n),
           d.journal.rotated => Len(d.journal.backups) = MaxArchives + 1,
           ~d.journal.rotated => d.backups = Empty /\ Shorter(d)
    PROVE  Image(d, n) /\ Rec(d) = Chain(d.files)
<1>1. d.journal # None /\ d.journal.state = "prepared"
  BY DEF In
<1>2. Recovered(d) = Undone(d) /\ ~Unsealed(d)
  BY <1>1, FoundIs DEF Unsealed
<1> QED
  BY <1>1, <1>2 DEF Image, Rec

\* The end of a transaction: the files are what a reader finds, and have their head.
LEMMA Ending ==
    ASSUME JournalInv, op.pc \in {"finish", "abort"}
    PROVE  /\ disk \in Disks /\ disk.backups \in Files
           /\ \/ disk.journal = None \/ In(disk, "preparing") \/ In(disk, "resolved")
              \/ In(disk, "prepared") /\ disk.files = Undone(disk)
           /\ In(disk, "preparing") => disk.journal.rotated
           /\ Sealed(disk.files, disk.head, attempts) /\ log = Chain(disk.files)
           /\ op.pc = "finish" => In(disk, "resolved")
           /\ op.pc = "abort" =>
                 disk.journal = None \/ In(disk, "preparing") \/ In(disk, "prepared")
           /\ In(disk, "prepared") =>
                 IF disk.journal.rotated THEN Len(disk.journal.backups) = MaxArchives + 1
                 ELSE Shorter(disk)
           /\ disk.journal = None \/ ~disk.journal.rotated => disk.backups = Empty
           /\ op.i \in Nat /\ op.bad \in BOOLEAN /\ op.record \in Records
           /\ op.then \in {"idle", "prepare", "read", "ack"}
<1>1. Image(disk, attempts) /\ disk \in Disks /\ Fits(disk, op, attempts) /\ op \in Ops
  BY DiskKnown
<1>2. /\ op.pc = "finish" => In(disk, "resolved")
      /\ op.pc = "abort" => \/ disk.journal = None \/ In(disk, "preparing")
                            \/ In(disk, "prepared") /\ disk.files = Undone(disk)
  BY <1>1 DEF Fits
<1>3. \/ disk.journal = None \/ In(disk, "preparing") \/ In(disk, "resolved")
      \/ In(disk, "prepared") /\ disk.files = Undone(disk)
  BY <1>2
<1>4. In(disk, "preparing") \/ In(disk, "resolved") =>
         disk.journal # None /\ disk.journal.state \in {"preparing", "resolved"}
  BY DEF In
<1>5. /\ Rec(disk) = Chain(disk.files) /\ Sealed(disk.files, disk.head, attempts)
      /\ In(disk, "preparing") => disk.journal.rotated
  <2>1. CASE disk.journal = None
    <3>1. ~In(disk, "preparing")
      BY <2>1 DEF In
    <3> QED
      BY <1>1, <2>1, <3>1, NoJournal
  <2>2. CASE In(disk, "prepared") /\ disk.files = Undone(disk)
    <3>1. /\ disk.journal # None /\ disk.journal.state = "prepared" /\ ~In(disk, "preparing")
      BY <2>2 DEF In
    <3>2. Recovered(disk) = disk.files /\ ~Unsealed(disk)
      BY <2>2, <3>1, FoundIs DEF Unsealed
    <3> QED
      BY <1>1, <3>1, <3>2 DEF Image, Rec
  <2>3. CASE disk.journal # None /\ ~(In(disk, "prepared") /\ disk.files = Undone(disk))
    <3>1. disk.journal.state \in {"preparing", "resolved"}
      BY <1>3, <1>4, <2>3
    <3>2. In(disk, "preparing") => disk.journal.state = "preparing"
      BY DEF In
    <3> QED
      BY <1>1, <2>3, <3>1, <3>2, Quiet
  <2> QED
    BY <1>3, <2>1, <2>2, <2>3
<1>6. /\ disk.backups \in Files
      /\ disk.journal = None \/ ~disk.journal.rotated => disk.backups = Empty
  BY <1>1, PartsOf
<1>7. /\ op.i \in Nat /\ op.bad \in BOOLEAN /\ op.record \in Records
      /\ op.then \in {"idle", "prepare", "read", "ack"}
  BY <1>1 DEF Ops
<1>8. log = Rec(disk)
  BY DEF log
<1>9. In(disk, "prepared") =>
         IF disk.journal.rotated THEN Len(disk.journal.backups) = MaxArchives + 1 ELSE Shorter(disk)
  BY <1>1 DEF Image, In
<1> QED
  BY <1>1, <1>2, <1>3, <1>5, <1>6, <1>7, <1>8, <1>9

\* The end goes on with another backup.
LEMMA EndsOn ==
    ASSUME JournalInv, op.pc \in {"finish", "abort"},
           NEW w, w.files = disk.files, w.journal = disk.journal,
           NEW k \in Nat, NEW b \in BOOLEAN, ~b => Removed(w, k)
    PROVE  /\ Command(op.pc, op.then, k, b, op.record) \in Ops
           /\ Fits(w, Command(op.pc, op.then, k, b, op.record), attempts)
<1> DEFINE o == Command(op.pc, op.then, k, b, op.record)
<1>1. op \in Ops /\ Fits(disk, op, attempts)
  BY DiskKnown
<1>2. /\ op.pc = "finish" => In(w, "resolved")
      /\ op.pc = "abort" => \/ w.journal = None \/ In(w, "preparing")
                            \/ In(w, "prepared") /\ w.files = Undone(w)
  <2>1. Undone(w) = Undone(disk)
    BY DEF Undone
  <2> QED
    BY <1>1, <2>1 DEF Fits, In
<1>3. /\ op.then = "prepare" => attempts < MaxAttempts
      /\ op.then \in {"prepare", "read"} => op.record = Torn
      /\ op.then = "ack" => op.pc = "finish" /\ LastIs(w, op.record)
  BY <1>1 DEF Fits, LastIs
<1>4. o \in Ops /\ o.pc = op.pc /\ o.then = op.then /\ o.i = k /\ o.bad = b /\ o.record = op.record
  BY <1>1 DEF Ops, Command
<1> HIDE DEF o
<1>5. Fits(w, o, attempts)
  BY <1>2, <1>3, <1>4 DEF Fits
<1> QED
  BY <1>4, <1>5 DEF o

\* A backup is removed, or may not be.
LEMMA RemoveBackupStep ==
    ASSUME JournalInv, RemoveBackup
    PROVE  Quietly
<1> DEFINE i == op.i
           new == [disk EXCEPT !.backups[op.i] = None]
           next == [op EXCEPT !.i = @ + 1]
           otherwise == [op EXCEPT !.i = @ + 1, !.bad = TRUE]
<1>1. /\ op.pc \in {"finish", "abort"} /\ attempts' = attempts /\ acked' = acked
      /\ i < IF op.pc = "abort" THEN MaxArchives + 1 ELSE Backups
      /\ Full(new, next, otherwise)
  BY DEF RemoveBackup
<1>2. /\ disk \in Disks /\ disk.backups \in Files
      /\ \/ disk.journal = None \/ In(disk, "preparing") \/ In(disk, "resolved")
         \/ In(disk, "prepared") /\ disk.files = Undone(disk)
      /\ In(disk, "prepared") =>
            IF disk.journal.rotated THEN Len(disk.journal.backups) = MaxArchives + 1
            ELSE Shorter(disk)
      /\ In(disk, "preparing") => disk.journal.rotated
      /\ Sealed(disk.files, disk.head, attempts) /\ log = Chain(disk.files)
      /\ disk.journal = None \/ ~disk.journal.rotated => disk.backups = Empty
      /\ op.i \in Nat /\ op.bad \in BOOLEAN /\ op.record \in Records
      /\ op.then \in {"idle", "prepare", "read", "ack"}
  BY <1>1, Ending
<1>3. i \in Slots /\ i + 1 \in Nat
  BY <1>1, <1>2, JournalAssumption DEF Slots, Backups
<1>4. None \in Some(Records)
  BY DEF Some
<1>5. /\ new \in Disks /\ new.backups \in Files /\ new.backups[i] = None
      /\ \A k \in Slots : k # i => new.backups[k] = disk.backups[k]
      /\ new.files = disk.files /\ new.journal = disk.journal /\ new.head = disk.head
  <2> DEFINE u == None
  <2>1. new = WithBackup(disk, i, u) /\ u \in Some(Records) /\ u = None
    BY <1>4 DEF WithBackup
  <2> HIDE DEF new, u, i
  <2> QED
    BY <1>2, <1>3, <2>1, BackupChanges
<1> HIDE DEF new
<1>6. disk.backups = Empty => new.backups = Empty
  BY <1>5, NoFiles DEF Files
<1>7. Image(new, attempts) /\ Rec(new) = log
  <2>1. CASE disk.journal = None
    <3>1. new.journal = None /\ new.backups = Empty /\ Sealed(new.files, new.head, attempts)
      BY <1>2, <1>5, <1>6, <2>1
    <3> QED
      BY <1>2, <1>5, <3>1, IsNoJournal
  <2>2. CASE In(disk, "preparing") \/ In(disk, "resolved")
    <3>1. /\ In(new, "preparing") \/ In(new, "resolved")
          /\ In(new, "preparing") => new.journal.rotated
      BY <1>2, <1>5, <2>2 DEF In
    <3>2. Sealed(new.files, new.head, attempts) /\ (~new.journal.rotated => new.backups = Empty)
      BY <1>2, <1>5, <1>6
    <3> QED
      BY <1>2, <1>5, <3>1, <3>2, IsQuiet
  <2>3. CASE In(disk, "prepared") /\ disk.files = Undone(disk)
    <3>1. /\ In(new, "prepared") /\ new.files = Undone(new)
          /\ ~new.journal.rotated => Shorter(new)
          /\ new.journal.rotated => Len(new.journal.backups) = MaxArchives + 1
      BY <1>2, <1>5, <2>3 DEF In, Undone, Shorter
    <3>2. Sealed(new.files, new.head, attempts) /\ (~new.journal.rotated => new.backups = Empty)
      BY <1>2, <1>5, <1>6
    <3> QED
      BY <1>2, <1>5, <3>1, <3>2, IsAborted
  <2> QED
    BY <1>2, <2>1, <2>2, <2>3
<1>8. ~op.bad => Removed(new, i + 1)
  <2>1. ASSUME ~op.bad, NEW k \in Slots, k < i + 1 PROVE new.backups[k] = None
    <3>1. CASE k = i
      BY <1>5, <3>1
    <3>2. CASE k # i
      <4>1. k < i
        BY <1>2, <2>1, <3>2 DEF Slots
      <4>2. disk.backups[k] = None
        <5>1. disk.journal = None \/ ~disk.journal.rotated => disk.backups[k] = None
          BY <1>2 DEF Empty
        <5>2. Fits(disk, op, attempts)
          BY DiskKnown
        <5>3. disk.journal.rotated => Removed(disk, i)
          BY <1>1, <2>1, <5>2 DEF Fits
        <5> QED
          BY <4>1, <5>1, <5>3 DEF Removed
      <4> QED
        BY <1>5, <3>2, <4>2
    <3> QED
      BY <3>1, <3>2
  <2> QED
    BY <2>1 DEF Removed
<1> DEFINE k == i + 1
           b == TRUE
<1>9. /\ k \in Nat /\ b \in BOOLEAN /\ (~op.bad => Removed(new, k))
      /\ (~b => Removed(new, k)) /\ (~b => Removed(disk, k))
      /\ next = [op EXCEPT !.i = k] /\ otherwise = [op EXCEPT !.i = k, !.bad = b]
  BY <1>3, <1>8
<1> HIDE DEF next, otherwise, k, b
<1>10. /\ next = Command(op.pc, op.then, k, op.bad, op.record)
       /\ otherwise = Command(op.pc, op.then, k, b, op.record)
  BY <1>9, DiskKnown DEF Ops, Command
<1>11. next \in Ops /\ Fits(new, next, attempts)
  BY <1>1, <1>2, <1>5, <1>9, <1>10, EndsOn
<1>12. otherwise \in Ops /\ Fits(new, otherwise, attempts)
  BY <1>1, <1>5, <1>9, <1>10, EndsOn
<1>13. Fits(disk, otherwise, attempts)
  <2> DEFINE d == disk
  <2>1. d.files = disk.files /\ d.journal = disk.journal /\ (~b => Removed(d, k))
    BY <1>9
  <2> HIDE DEF d
  <2>2. Fits(d, otherwise, attempts)
    BY <1>1, <1>9, <1>10, <2>1, EndsOn
  <2> QED
    BY <2>2 DEF d
<1>14. JournalInv' /\ Steady
  BY <1>1, <1>7, <1>11, <1>12, <1>13, FullKeeps
<1> QED
  BY <1>1, <1>14 DEF Quietly

\* The journal is removed: that is what makes the record durable.
LEMMA RemoveJournalStep ==
    ASSUME JournalInv, RemoveJournal
    PROVE  JournalInv' /\ Steady /\ (acked' = acked \/ Ring!Acknowledge)
<1> DEFINE new == [disk EXCEPT !.journal = None]
           next == IF op.then \in {"ack", "idle"} THEN Idle ELSE At(op.then)
<1>1. /\ op.pc \in {"finish", "abort"} /\ attempts' = attempts
      /\ ~(op.i < IF op.pc = "abort" THEN MaxArchives + 1 ELSE Backups)
      /\ acked' = IF op.then = "ack" /\ ~op.bad /\ faults' = faults
                  THEN acked \cup {op.record} ELSE acked
  <2>1. op.i \in Nat /\ MaxArchives \in Nat
    BY DiskKnown, JournalAssumption DEF Ops
  <2>2. op.i >= IF op.pc = "abort" THEN MaxArchives + 1 ELSE Backups
    BY DEF RemoveJournal
  <2>3. (IF op.pc = "abort" THEN MaxArchives + 1 ELSE Backups) \in Nat
    BY <2>1 DEF Backups
  <2> QED
    BY <2>1, <2>2, <2>3 DEF RemoveJournal
<1>2. /\ disk \in Disks /\ disk.backups \in Files
      /\ Sealed(disk.files, disk.head, attempts) /\ log = Chain(disk.files)
      /\ op.pc = "finish" => In(disk, "resolved")
      /\ disk.journal = None \/ ~disk.journal.rotated => disk.backups = Empty
      /\ op.i \in Nat /\ op.bad \in BOOLEAN /\ op.record \in Records
      /\ op.then \in {"idle", "prepare", "read", "ack"}
  BY <1>1, Ending
<1>3. CASE op.bad
  <2>1. op' = Idle /\ images' = images /\ faults' = faults
    BY <1>3 DEF RemoveJournal
  <2>2. acked' = acked
    BY <1>1, <1>3
  <2> QED
    BY <1>1, <2>1, <2>2, GoesIdle DEF Quietly
<1>4. CASE ~op.bad
  <2>1. Full(new, next, Idle)
    BY <1>4 DEF RemoveJournal
  <2>2. disk.backups = Empty
    <3>1. CASE disk.journal = None \/ ~disk.journal.rotated
      BY <1>2, <3>1
    <3>2. CASE disk.journal # None /\ disk.journal.rotated
      <4>1. MaxArchives + 1 <= op.i
        BY <1>1, <1>2, <3>2, JournalAssumption DEF Backups
      <4>2. Fits(disk, op, attempts)
        BY DiskKnown
      <4>3. Removed(disk, op.i)
        BY <1>1, <1>4, <3>2, <4>2 DEF Fits
      <4>4. \A k \in Slots : k < op.i
        BY <1>2, <4>1, JournalAssumption DEF Slots
      <4>5. \A k \in Slots : disk.backups[k] = None
        BY <4>3, <4>4 DEF Removed
      <4> QED
        BY <1>2, <4>5, NoFiles DEF Files
    <3> QED
      BY <3>1, <3>2
  <2>3. /\ new \in Disks /\ new.journal = None
        /\ new.files = disk.files /\ new.backups = disk.backups /\ new.head = disk.head
    <3> DEFINE j == None
    <3>1. new = WithJournal(disk, j) /\ j \in Journals \cup {None} /\ j = None
      BY DEF WithJournal
    <3> HIDE DEF new, j
    <3> QED
      BY <1>2, <3>1, JournalChanges
  <2> HIDE DEF new
  <2>4. Image(new, attempts) /\ Rec(new) = log
    <3>1. new.backups = Empty /\ Sealed(new.files, new.head, attempts)
      BY <1>2, <2>2, <2>3
    <3> QED
      BY <1>2, <2>3, <3>1, IsNoJournal
  <2>5. Idle \in Ops /\ Fits(disk, Idle, attempts) /\ Fits(new, Idle, attempts)
    BY IdleFits
  <2>6. next \in Ops /\ Fits(new, next, attempts)
    <3>1. CASE op.then \in {"ack", "idle"}
      <4>1. next = Idle
        BY <3>1
      <4> HIDE DEF next
      <4> QED
        BY <2>5, <4>1
    <3>2. CASE op.then \in {"prepare", "read"}
      <4>1. next = At(op.then)
        BY <3>2
      <4>2. At(op.then) = Command(op.then, op.then, 0, op.bad, op.record)
        BY DiskKnown, Starts
      <4>3. Carried(op.then, op.record, attempts)
        BY <1>2, <3>2, DiskKnown DEF Carried, Fits
      <4> DEFINE p == op.then
                 z == 0
      <4>4. p \in Labels /\ z \in Nat /\ z = 0 /\ p = op.then
        BY <3>2 DEF Labels
      <4> HIDE DEF next, p, z
      <4>5. Command(p, op.then, z, op.bad, op.record) \in Ops
        BY <1>2, <4>4, CommandOp
      <4>6. Fits(new, Command(op.then, op.then, z, op.bad, op.record), attempts)
        BY <2>3, <3>2, <4>3, PlacesOfRecovery
      <4> QED
        BY <4>1, <4>2, <4>4, <4>5, <4>6
    <3> QED
      BY <1>2, <3>1, <3>2
  <2> HIDE DEF next
  <2>7. /\ JournalInv' /\ Steady
        /\ new # disk /\ faults' = faults => fallbacks' = {log}
    BY <1>1, <2>1, <2>4, <2>5, <2>6, FullKeeps
  <2>8. CASE op.then = "ack" /\ faults' = faults
    <3>1. LastIs(disk, op.record) /\ op.pc = "finish"
      BY <2>8, DiskKnown DEF Fits
    <3>2. disk.journal # None /\ new # disk
      BY <1>2, <2>3, <3>1 DEF In
    <3>3. acked' = acked \cup {op.record}
      BY <1>1, <1>4, <2>8
    <3>4. log # <<>> /\ op.record = log[Len(log)]
      BY <1>2, <3>1 DEF LastIs, Last
    <3>5. fallbacks' = {log} /\ log' = log
      BY <2>7, <2>8, <3>2 DEF Steady
    <3>6. Ring!Acknowledge
      BY <3>3, <3>4, <3>5, RingMeans
    <3> QED
      BY <2>7, <3>6
  <2>9. CASE ~(op.then = "ack" /\ faults' = faults)
    BY <1>1, <2>7, <2>9
  <2> QED
    BY <2>8, <2>9
<1> QED
  BY <1>3, <1>4

\* What was not synced is gone.
LEMMA PowerLossStep ==
    ASSUME JournalInv, PowerLoss
    PROVE  JournalInv' /\ Ring!TakeBack
<1>1. Faulty /\ op' = Idle /\ attempts' = attempts /\ acked' = acked
  BY DEF PowerLoss
<1>2. PICK k \in 1 .. Len(images) : images' = <<images[k]>>
  BY DEF PowerLoss
<1> DEFINE new == images[k]
<1>3. Imaged(images, attempts)
  BY DiskKnown
<1>4. Image(new, attempts) /\ k \in DOMAIN images
  BY <1>2, <1>3 DEF Imaged
<1>5. images' = <<new>> /\ faults' \in Nat /\ Rec(new) \in fallbacks
  BY <1>1, <1>2, <1>4, FaultCounts DEF fallbacks, Readings
<1> HIDE DEF new
<1>6. Idle \in Ops /\ Fits(new, Idle, attempts)
  BY IdleFits
<1>7. JournalInv' /\ log' = Rec(new) /\ fallbacks' = {Rec(new)}
  BY <1>1, <1>4, <1>5, <1>6, AloneKeeps
<1>8. log' \in fallbacks /\ fallbacks' = {log'} /\ acked' = acked
  BY <1>1, <1>5, <1>7
<1> QED
  BY <1>7, <1>8, RingMeans

\* Records written at the end of the live file are not what recovery finds.
LEMMA WritesAside ==
    ASSUME JournalInv, In(disk, "prepared"), disk.journal.rotated => Intact(disk),
           NEW s \in Seq(Records),
           NEW w, w = WithFile(disk, 0, Held(disk.files, 0) \o s)
    PROVE  /\ Image(w, attempts) /\ Rec(w) = log /\ Recovered(w) = Recovered(disk)
           /\ In(w, "prepared") /\ w.head = disk.head /\ w.files \in Files
           /\ w.backups = disk.backups /\ w.journal = disk.journal
           /\ w.files[0] = Held(disk.files, 0) \o s
           /\ \A k \in Slots : k # 0 => w.files[k] = disk.files[k]
<1> DEFINE F == disk.files
           h == Held(F, 0)
           x == h \o s
           e == disk.journal.liveExisted
           z == disk.journal.liveSize
<1>0. 0 \in Slots
  BY JournalAssumption DEF Slots
<1>1. disk \in Disks /\ Image(disk, attempts) /\ log = Rec(disk)
  BY DiskKnown DEF log
<1>2. disk.journal # None /\ disk.journal.state = "prepared"
  BY DEF In
<1>3. F \in Files /\ e \in BOOLEAN /\ z \in Nat
  BY <1>1, <1>2, PartsOf
<1>4. h \in Seq(Records) /\ x \in Seq(Records) /\ x \in Some(Records) /\ x # None
  <2>1. h \in Seq(Records)
    BY <1>0, <1>3, FilesHold
  <2>2. x \in Seq(Records)
    BY <2>1
  <2> QED
    BY <2>1, <2>2, JournalAssumption DEF Some
<1>5. w = WithFile(disk, 0, x)
  OBVIOUS
<1>6. x = Held(disk.files, 0) \o s
  OBVIOUS
<1> HIDE DEF x
<1>7. /\ w \in Disks /\ w.files \in Files
      /\ w.files[0] = x /\ \A k \in Slots : k # 0 => w.files[k] = F[k]
      /\ w.backups = disk.backups /\ w.journal = disk.journal /\ w.head = disk.head
  <2> DEFINE i == 0
             d == disk
  <2>1. i = 0 /\ i \in Slots /\ d = disk /\ w = WithFile(d, i, x) /\ d \in Disks
    BY <1>0, <1>1, <1>5
  <2> HIDE DEF i, d
  <2>2. /\ w \in Disks /\ w.files \in Files
        /\ w.files[i] = x /\ \A k \in Slots : k # i => w.files[k] = d.files[k]
        /\ w.backups = d.backups /\ w.journal = d.journal /\ w.head = d.head
    BY ONLY <1>4, <2>1, FileChanges
  <2> QED
    BY <2>1, <2>2
<1>8. Image(w, attempts) /\ Rec(w) = log /\ Recovered(w) = Recovered(disk) /\ In(w, "prepared")
  <2>1. CASE disk.journal.rotated
    <3> DEFINE v == w
    <3>1. /\ v = w /\ v \in Disks /\ v.backups = disk.backups /\ v.journal = disk.journal
          /\ v.head = disk.head
      BY <1>7
    <3> HIDE DEF v
    <3>2. /\ Image(v, attempts) /\ Rec(v) = log /\ Recovered(v) = Recovered(disk)
          /\ In(v, "prepared")
      BY ONLY JournalInv, In(disk, "prepared"), disk.journal.rotated => Intact(disk),
              <2>1, <3>1, RotatedFiles
    <3> QED
      BY <3>1, <3>2
  <2>2. CASE ~disk.journal.rotated
    <3>1. /\ Recovered(disk) = Cut(F, e, z) /\ Rec(disk) = Chain(Cut(F, e, z))
          /\ Sealed(Cut(F, e, z), disk.head, attempts)
          /\ e => F[0] # None /\ z <= Len(F[0])
          /\ disk.backups = Empty
      BY <1>1, <1>2, <2>2, CutBack
    <3>2. e => h = F[0] /\ h \in Seq(Records) /\ z <= Len(h)
      BY <1>4, <3>1 DEF Held
    <3>3. e => SubSeq(x, 1, z) = SubSeq(F[0], 1, z) /\ z <= Len(x)
      <4> HIDE DEF h
      <4>1. e => SubSeq(h \o s, 1, z) = SubSeq(h, 1, z) /\ z <= Len(h \o s)
        BY <1>3, <3>2
      <4> QED
        BY <1>6, <3>2, <4>1 DEF h
    <3> DEFINE y == IF e THEN SubSeq(F[0], 1, z) ELSE None
               H == w.files
    <3>4. Cut(H, e, z) = [H EXCEPT ![0] = y] /\ Cut(F, e, z) = [F EXCEPT ![0] = y]
      BY <1>7, <3>3 DEF Cut
    <3>5. H \in Files /\ \A k \in Slots : k # 0 => H[k] = F[k]
      BY <1>7
    <3> HIDE DEF y, H
    <3>6. [H EXCEPT ![0] = y] = [F EXCEPT ![0] = y]
      BY <1>3, <3>5 DEF Files
    <3> DEFINE O == Cut(F, e, z)
    <3>7. O = Cut(w.files, w.journal.liveExisted, w.journal.liveSize)
      BY <1>7, <3>4, <3>6 DEF H
    <3>8. /\ ~w.journal.rotated /\ In(w, "prepared") /\ w.backups = Empty
          /\ w.journal.liveExisted => w.files[0] # None /\ w.journal.liveSize <= Len(w.files[0])
          /\ Sealed(O, w.head, attempts) /\ w \in Disks
      BY <1>2, <1>4, <1>7, <2>2, <3>1, <3>3 DEF In
    <3>9. O = Recovered(disk) /\ log = Chain(O)
      BY <1>1, <3>1
    <3> DEFINE v == w
    <3>10. v = w
      OBVIOUS
    <3> HIDE DEF O, v
    <3>11. /\ ~v.journal.rotated /\ In(v, "prepared") /\ v.backups = Empty
           /\ v.journal.liveExisted => v.files[0] # None /\ v.journal.liveSize <= Len(v.files[0])
           /\ Sealed(O, v.head, attempts) /\ v \in Disks
           /\ O = Cut(v.files, v.journal.liveExisted, v.journal.liveSize)
      BY <3>7, <3>8, <3>10
    <3>12. Image(v, attempts) /\ Rec(v) = Chain(O) /\ Recovered(v) = O
      BY ONLY <3>11, IsCut
    <3> QED
      BY <3>9, <3>10, <3>11, <3>12
  <2> QED
    BY <2>1, <2>2
<1> QED
  BY <1>6, <1>7, <1>8

\* The record after the files of a log: it follows what is left of them.
LEMMA FollowsHead ==
    ASSUME NEW O \in Files, NEW h, NEW n \in Nat, n <= MaxAttempts, Sealed(O, h, n),
           NEW r, Succeeds(r, h, n)
    PROVE  /\ r \in Records /\ Known(r, n) /\ r.seq > 0
           /\ Chain(O) \in Seq(Records) /\ Ring!Follows(r, Chain(O))
           /\ Append(Ring!Bounded(Chain(O)), r) \in Seq(Records)
           /\ Append(Ring!Bounded(Chain(O)), r) # <<>>
           /\ Last(Append(Ring!Bounded(Chain(O)), r)) = r
           /\ Continuous(Append(Ring!Bounded(Chain(O)), r))
           /\ Advances(h, Append(Ring!Bounded(Chain(O)), r))
<1> DEFINE c == Chain(O)
           b == Ring!Bounded(c)
           t == Append(b, r)
<1>1. r = [seq |-> h.seq + 1, id |-> n, prev |-> h.id] /\ h.seq < n
  BY DEF Succeeds
<1>2. h \in Records /\ h.seq \in Nat /\ h.id \in 0 .. MaxAttempts
  BY JournalAssumption DEF Sealed, Known, Records
<1>3. /\ r \in Records /\ r.seq = h.seq + 1 /\ r.id = n /\ r.prev = h.id
  BY <1>1, <1>2, JournalAssumption DEF Records
<1>4. Known(r, n) /\ r.seq > 0
  BY <1>1, <1>2, <1>3 DEF Known
<1>5. c \in Seq(Records) /\ Continuous(c)
  <2>1. \A i \in Slots : Held(O, i) \in Seq(Records)
    BY FilesHold
  <2> QED
    BY <2>1, ChainLive DEF Sealed
<1>6. /\ c = <<>> => h = NoHead
      /\ c # <<>> => h = Last(c) /\ h.seq > 0
  BY DEF Sealed
<1>7. /\ b \in Seq(Records) /\ Continuous(b)
      /\ b # <<>> => c # <<>> /\ Last(b) = Last(c)
  BY <1>5, BoundedKeepsEnd
<1>8. c = <<>> => b = <<>>
  BY <1>7
<1> HIDE DEF c, b
<1>9. Continues(r, b)
  BY <1>3, <1>6, <1>7 DEF Continues
<1>10. t \in Seq(Records) /\ t # <<>> /\ Last(t) = r /\ Continuous(t)
  BY <1>3, <1>7, <1>9, ContinuousGrows
<1>11. NoHead.seq = 0
  BY DEF NoHead, Torn
<1>12. Ring!Follows(r, c)
  <2>1. CASE c = <<>>
    BY <1>3, <1>6, <1>11, <2>1 DEF Ring!Follows
  <2>2. CASE c # <<>>
    BY <1>3, <1>6, <2>2 DEF Ring!Follows, Last
  <2> QED
    BY <2>1, <2>2
<1>13. Advances(h, t)
  <2>1. CASE h = NoHead
    <3>1. c = <<>>
      BY <1>6, <1>11, <2>1
    <3>2. b = <<>>
      BY <1>8, <3>1
    <3>3. Len(t) = 1
      BY <1>3, <3>2
    <3>4. r.seq = 1
      BY <1>3, <1>11, <2>1
    <3> HIDE DEF t
    <3> QED
      BY <1>10, <2>1, <3>3, <3>4 DEF Advances
  <2>2. CASE h # NoHead
    <3> HIDE DEF t
    <3> QED
      BY <1>3, <1>10, <2>2 DEF Advances
  <2> QED
    BY <2>1, <2>2
<1> QED
  BY <1>3, <1>4, <1>5, <1>10, <1>12, <1>13 DEF c, b

\* The files with the record in them.
LEMMA StacksUp ==
    ASSUME NEW O \in Files, Stacked(O), O[0] # None, Len(O[0]) = RecordsPerFile,
           NEW G \in Files, \A i \in Slots : i # 0 => G[i] = O[i - 1],
           NEW r \in Records, G[0] = <<r>>
    PROVE  Stacked(G) /\ Chain(G) = Append(Ring!Bounded(Chain(O)), r)
<1>0. MaxArchives \in Nat /\ RecordsPerFile \in Nat \ {0} /\ 0 \in Slots
  BY JournalAssumption DEF Slots
<1>1. \A i \in 1 .. MaxArchives : G[i] = O[i - 1]
  BY <1>0 DEF Slots
<1>2. Ring!Bounded(Chain(O)) = Archived(G)
  BY <1>1, RotatedChain
<1>3. \A i \in Slots : Held(G, i) \in Seq(Records)
  BY FilesHold
<1>4. Archived(G) \in Seq(Records) /\ Chain(G) = Archived(G) \o Held(G, 0)
  BY <1>3, ChainLive
<1>5. <<r>> \in Seq(Records) /\ <<r>> # None /\ Len(<<r>>) = 1
  <2> DEFINE u == <<r>>
  <2>1. u \in Seq(Records) /\ Len(u) = 1 /\ u = <<r>>
    OBVIOUS
  <2> HIDE DEF u
  <2>2. u # None
    BY <2>1, JournalAssumption
  <2> QED
    BY <2>1, <2>2
<1>6. Held(G, 0) = <<r>>
  BY <1>5 DEF Held
<1>7. Chain(G) = Append(Ring!Bounded(Chain(O)), r)
  <2> DEFINE a == Archived(G)
  <2>1. a \in Seq(Records) /\ Chain(G) = a \o <<r>> /\ a = Archived(G)
    BY <1>4, <1>6
  <2> HIDE DEF a
  <2>2. a \o <<r>> = Append(a, r)
    BY <2>1
  <2> QED
    BY <1>2, <2>1, <2>2
<1>8. ASSUME NEW i \in Slots, i # 0
      PROVE  /\ i - 1 \in Slots /\ i \in Nat /\ G[i] = O[i - 1]
             /\ G[i] # None => Len(G[i]) = RecordsPerFile
  <2>1. i - 1 \in Slots /\ i \in Nat
    BY <1>0, <1>8 DEF Slots
  <2>2. G[i] = O[i - 1]
    BY <1>8
  <2>3. CASE i - 1 = 0
    BY <2>1, <2>2, <2>3
  <2>4. CASE i - 1 # 0
    BY <2>1, <2>2, <2>4 DEF Stacked
  <2> QED
    BY <2>1, <2>2, <2>3, <2>4
<1>9. ASSUME NEW i \in Slots, G[i] # None PROVE Len(G[i]) \in 1 .. RecordsPerFile
  <2>1. CASE i = 0
    <3> DEFINE u == <<r>>
    <3>1. G[i] = u /\ Len(u) = 1
      BY <1>5, <2>1
    <3> HIDE DEF u
    <3> QED
      BY <1>0, <3>1
  <2>2. CASE i # 0
    BY <1>0, <1>8, <1>9, <2>2
  <2> QED
    BY <2>1, <2>2
<1>10. ASSUME NEW i \in Slots, NEW j \in Slots, j < i, G[i] # None PROVE G[j] # None
  <2>1. CASE j = 0
    BY <1>5, <2>1
  <2>2. CASE j # 0
    <3>1. i # 0 /\ i \in Nat /\ j \in Nat
      BY <1>0, <1>10 DEF Slots
    <3>2. i - 1 \in Slots /\ G[i] = O[i - 1] /\ j - 1 \in Slots /\ G[j] = O[j - 1]
      BY <1>8, <2>2, <3>1
    <3>3. j - 1 < i - 1
      BY <1>10, <3>1
    <3> QED
      BY <1>10, <3>2, <3>3 DEF Stacked
  <2> QED
    BY <2>1, <2>2
<1>11. \A i \in Slots : i # 0 /\ G[i] # None => Len(G[i]) = RecordsPerFile
  BY <1>8
<1> QED
  BY <1>7, <1>9, <1>10, <1>11 DEF Stacked

\* The same when the live file has room.
LEMMA StacksOn ==
    ASSUME NEW O \in Files, Stacked(O), O[0] # None => Len(O[0]) < RecordsPerFile,
           NEW G \in Files, \A i \in Slots : i # 0 => G[i] = O[i],
           NEW r \in Records, G[0] = Held(O, 0) \o <<r>>
    PROVE  Stacked(G) /\ Chain(G) = Append(Ring!Bounded(Chain(O)), r)
<1>0. MaxArchives \in Nat /\ RecordsPerFile \in Nat \ {0} /\ 0 \in Slots
  BY JournalAssumption DEF Slots
<1>2. Ring!Bounded(Chain(O)) = Chain(O)
  BY RoomyChain
<1>3. \A i \in Slots : Held(G, i) \in Seq(Records) /\ Held(O, i) \in Seq(Records)
  BY FilesHold
<1>4. Archived(G) = Archived(O)
  BY ArchivedAgrees
<1>5. /\ Archived(O) \in Seq(Records) /\ Chain(O) = Archived(O) \o Held(O, 0)
      /\ Chain(G) = Archived(G) \o Held(G, 0)
  BY <1>3, ChainLive
<1> DEFINE h == Held(O, 0)
           x == h \o <<r>>
<1>6. h \in Seq(Records) /\ Len(h) < RecordsPerFile
  <2>1. O[0] = None => h = <<>>
    BY <1>0, FilesHold
  <2>2. O[0] # None => h = O[0]
    BY <1>0, FilesHold
  <2> QED
    BY <1>0, <1>3, <2>1, <2>2
<1>7. G[0] = x
  OBVIOUS
<1> HIDE DEF h
<1>8. x \in Seq(Records) /\ Len(x) \in 1 .. RecordsPerFile
  BY <1>0, <1>6
<1>9. x # None
  BY <1>8, JournalAssumption
<1>10. Held(G, 0) = x
  BY <1>7, <1>9 DEF Held
<1>11. Chain(G) = Append(Ring!Bounded(Chain(O)), r)
  <2> DEFINE a == Archived(O)
             u == <<r>>
  <2>1. a \in Seq(Records) /\ a = Archived(O) /\ u \in Seq(Records) /\ u = <<r>>
    BY <1>5
  <2> HIDE DEF a, u
  <2>2. Chain(G) = a \o (h \o u) /\ Chain(O) = a \o h
    BY <1>4, <1>5, <1>10, <2>1 DEF h
  <2> DEFINE R == Records
  <2>a. a \in Seq(R) /\ h \in Seq(R) /\ u \in Seq(R) /\ R = Records
    BY <1>6, <2>1
  <2> HIDE DEF R
  <2>3. (a \o h) \o u = a \o (h \o u) /\ a \o h \in Seq(R)
    BY ONLY <2>a, SMTT(30)
  <2> DEFINE c == a \o h
  <2>4. c \in Seq(Records) /\ c = a \o h
    BY <2>3, <2>a
  <2> HIDE DEF c
  <2>5. c \o <<r>> = Append(c, r)
    BY <2>4
  <2> QED
    BY <1>2, <2>1, <2>2, <2>3, <2>4, <2>5
<1> HIDE DEF x
<1>12. ASSUME NEW i \in Slots, G[i] # None PROVE Len(G[i]) \in 1 .. RecordsPerFile
  BY <1>7, <1>8, <1>12 DEF Stacked
<1>13. \A i \in Slots : i # 0 /\ G[i] # None => Len(G[i]) = RecordsPerFile
  BY DEF Stacked
<1>14. ASSUME NEW i \in Slots, NEW j \in Slots, j < i, G[i] # None PROVE G[j] # None
  <2>1. i # 0
    BY <1>0, <1>14 DEF Slots
  <2> QED
    BY <1>7, <1>9, <1>14, <2>1 DEF Stacked
<1> QED
  BY <1>11, <1>12, <1>13, <1>14 DEF Stacked

\* The transaction is ready for its record.
LEMMA Ready ==
    ASSUME JournalInv, op.pc = "write"
    PROVE  /\ In(disk, "prepared") /\ Succeeds(op.record, disk.head, attempts)
           /\ disk.files \in Files /\ Recovered(disk) \in Files
           /\ Sealed(Recovered(disk), disk.head, attempts)
           /\ op.record \in Records
           /\ disk.journal.rotated => Intact(disk) /\ Moved(disk)
           /\ \A w : /\ w.files \in Files /\ Recovered(w) = Recovered(disk)
                     /\ w.files[0] = Held(disk.files, 0) \o <<op.record>>
                     /\ \A k \in Slots : k # 0 => w.files[k] = disk.files[k]
                     => Written(w, op.record)
<1> DEFINE O == Recovered(disk)
           F == disk.files
           r == op.record
<1>1. /\ In(disk, "prepared") /\ Succeeds(r, disk.head, attempts)
      /\ IF disk.journal.rotated THEN Moving(disk, 0) ELSE Roomy(disk)
      /\ disk.journal.rotated => Intact(disk)
  BY DiskKnown DEF Fits
<1>2. /\ disk.journal # None /\ disk.journal.state = "prepared" /\ Image(disk, attempts)
      /\ disk \in Disks /\ op.record \in Records /\ attempts \in Nat /\ attempts <= MaxAttempts
  BY <1>1, DiskKnown DEF In, Ops
<1>3. F \in Files
  BY <1>2, PartsOf
<1>4. O \in Files /\ Sealed(O, disk.head, attempts)
  <2>1. CASE disk.journal.rotated
    BY <1>1, <1>2, <2>1, RotatedFiles
  <2>2. CASE ~disk.journal.rotated
    <3>1. O = F
      BY <1>1, <2>2 DEF Roomy
    <3>2. Sealed(O, disk.head, attempts)
      BY <1>2, <2>2, CutBack
    <3> QED
      BY <1>3, <3>1, <3>2
  <2> QED
    BY <2>1, <2>2
<1>5. Continuous(Append(Ring!Bounded(Chain(O)), r)) /\ r \in Records /\ Stacked(O)
  BY <1>1, <1>2, <1>4, FollowsHead DEF Sealed
<1>6. 0 \in Slots /\ RecordsPerFile \in Nat /\ MaxArchives \in Nat
  BY JournalAssumption DEF Slots
<1>7. ASSUME NEW w, w.files \in Files, Recovered(w) = O,
             w.files[0] = Held(F, 0) \o <<r>>,
             \A k \in Slots : k # 0 => w.files[k] = F[k]
      PROVE  Written(w, r)
  <2> DEFINE G == w.files
  <2>1. Stacked(G) /\ Chain(G) = Append(Ring!Bounded(Chain(O)), r)
    <3>1. CASE disk.journal.rotated
      <4>1. /\ O[0] # None /\ Len(O[0]) = RecordsPerFile
            /\ \A k \in Slots : F[k] = IF k < 0 THEN O[k] ELSE IF k = 0 THEN None ELSE O[k - 1]
        BY <1>1, <3>1 DEF Moving
      <4>2. \A k \in Slots : k # 0 => G[k] = O[k - 1]
        <5> TAKE k \in Slots
        <5>1. ~(k < 0)
          BY <1>6 DEF Slots
        <5> QED
          BY <1>7, <4>1, <5>1
      <4>3. F[0] = None
        BY <1>6, <4>1
      <4>4. Held(F, 0) = <<>>
        BY <4>3 DEF Held
      <4>5. G[0] = <<r>>
        <5> DEFINE u == <<r>>
        <5>1. u \in Seq(Records) /\ u = <<r>>
          BY <1>5
        <5> HIDE DEF u
        <5>2. <<>> \o u = u
          BY <5>1
        <5> QED
          BY <1>7, <4>4, <5>1, <5>2
      <4> DEFINE g == G
      <4>6. g \in Files /\ g[0] = <<r>> /\ (\A k \in Slots : k # 0 => g[k] = O[k - 1]) /\ g = G
        BY <1>7, <4>2, <4>5
      <4> HIDE DEF g, G, O
      <4>7. Stacked(g) /\ Chain(g) = Append(Ring!Bounded(Chain(O)), r)
        BY ONLY <1>4, <1>5, <4>1, <4>6, StacksUp
      <4> QED
        BY <4>6, <4>7
    <3>2. CASE ~disk.journal.rotated
      <4>1. O = F /\ (F[0] # None => Len(F[0]) < RecordsPerFile)
        BY <1>1, <3>2 DEF Roomy
      <4> DEFINE g == G
                 o == O
      <4>2. /\ g \in Files /\ g[0] = Held(o, 0) \o <<r>> /\ (\A k \in Slots : k # 0 => g[k] = o[k])
            /\ o \in Files /\ Stacked(o) /\ (o[0] # None => Len(o[0]) < RecordsPerFile)
        BY <1>4, <1>5, <1>7, <4>1
      <4>3. g = G /\ o = O
        OBVIOUS
      <4> HIDE DEF g, G, o, O
      <4>4. Stacked(g) /\ Chain(g) = Append(Ring!Bounded(Chain(o)), r)
        BY ONLY <1>5, <4>2, StacksOn
      <4> QED
        BY <4>3, <4>4
    <3> QED
      BY <3>1, <3>2
  <2> QED
    BY <1>5, <1>7, <2>1 DEF Written
<1>8. ASSUME disk.journal.rotated PROVE Moved(disk)
  <2> DEFINE bs == disk.journal.backups
  <2>1. O = Before(bs) /\ bs \in Seq(Some(Records)) /\ Len(bs) = MaxArchives + 1
    BY <1>2, <1>8, RotatedBack, PartsOf
  <2>2. \A i \in Slots : O[i] = bs[i + 1]
    BY <2>1, BeforeFiles
  <2>3. O[0] # None /\ \A k \in Slots : k > 0 => disk.files[k] = O[k - 1]
    BY <1>1, <1>6, <1>8 DEF Moving, Slots
  <2>4. \A k \in Slots : k > 0 => k - 1 \in Slots /\ (k - 1) + 1 = k
    BY <1>6 DEF Slots
  <2>5. bs[1] # None
    BY <1>6, <2>2, <2>3
  <2> QED
    BY <2>2, <2>3, <2>4, <2>5 DEF Moved
<1> QED
  BY <1>1, <1>2, <1>3, <1>4, <1>7, <1>8

\* The record is written, or a part of it, or nothing.
LEMMA WriteRecordStep ==
    ASSUME JournalInv, WriteRecord
    PROVE  Quietly
<1> DEFINE h == IF Live = None THEN <<>> ELSE Live
           with(s) == [disk EXCEPT !.files[0] = h \o s]
           none == with(<<>>)
           part == with(<<Torn>>)
           new == with(<<op.record>>)
           torn == Append(images, part)
           done == Append(torn, new)
<1>1. /\ op.pc = "write" /\ attempts' = attempts /\ acked' = acked /\ op.pc # "finish"
      /\ \/ images' = done /\ op' = At("publish") /\ faults' = faults
         \/ Faulty /\ op' = Idle /\ images' \in {images, Append(images, none), torn}
         \/ Faulty /\ op' = At("rollback") /\ images' \in {images, <<none>>}
  BY DEF WriteRecord
<1>2. /\ In(disk, "prepared") /\ Succeeds(op.record, disk.head, attempts) /\ op.record \in Records
      /\ disk.journal.rotated => Intact(disk) /\ Moved(disk)
  BY <1>1, Ready
<1>3. Carried(op.then, op.record, attempts)
  BY <1>1, Carries
<1>4. h = Held(disk.files, 0)
  BY DEF Held, Live
<1>5. ASSUME NEW s \in Seq(Records), NEW w, w = with(s)
      PROVE  /\ Image(w, attempts) /\ Rec(w) = log /\ Recovered(w) = Recovered(disk)
             /\ In(w, "prepared") /\ w.head = disk.head /\ w.files \in Files
             /\ w.backups = disk.backups /\ w.journal = disk.journal
             /\ w.files[0] = Held(disk.files, 0) \o s
             /\ \A k \in Slots : k # 0 => w.files[k] = disk.files[k]
  <2>1. w = WithFile(disk, 0, Held(disk.files, 0) \o s)
    BY <1>4, <1>5 DEF WithFile
  <2> QED
    BY ONLY JournalInv, <1>2, <2>1, s \in Seq(Records), WritesAside
<1>6. <<>> \in Seq(Records) /\ <<Torn>> \in Seq(Records) /\ <<op.record>> \in Seq(Records)
  <2>1. Torn \in Records
    BY JournalAssumption DEF Torn, Records
  <2> QED
    BY <1>2, <2>1
<1>7. Image(none, attempts) /\ Rec(none) = log /\ In(none, "prepared")
  <2> DEFINE s == <<>>
             w == none
  <2>1. s \in Seq(Records) /\ w = with(s) /\ w = none
    BY <1>6
  <2> HIDE DEF s, w, with, none
  <2> QED
    BY <1>5, <2>1
<1>8. Image(part, attempts) /\ Rec(part) = log
  <2> DEFINE s == <<Torn>>
             w == part
  <2>1. s \in Seq(Records) /\ w = with(s) /\ w = part
    BY <1>6
  <2> HIDE DEF s, w, with, part
  <2> QED
    BY <1>5, <2>1
<1>9. /\ Image(new, attempts) /\ Rec(new) = log /\ In(new, "prepared") /\ new.head = disk.head
      /\ Written(new, op.record) /\ (new.journal.rotated => Intact(new) /\ Moved(new))
  <2> DEFINE s == <<op.record>>
             w == new
  <2>1. s \in Seq(Records) /\ w = with(s) /\ w = new /\ s = <<op.record>>
    BY <1>6
  <2> HIDE DEF s, w, with, new
  <2>2. /\ Image(w, attempts) /\ Rec(w) = log /\ Recovered(w) = Recovered(disk)
        /\ In(w, "prepared") /\ w.head = disk.head /\ w.files \in Files
        /\ w.backups = disk.backups /\ w.journal = disk.journal
        /\ w.files[0] = Held(disk.files, 0) \o s
        /\ \A k \in Slots : k # 0 => w.files[k] = disk.files[k]
    BY <1>5, <2>1
  <2>3. Written(w, op.record)
    BY <1>1, <2>1, <2>2, Ready
  <2>4. w.journal.rotated => Intact(w) /\ Moved(w)
    BY <1>2, <2>2, JournalAssumption DEF Intact, Moved, Slots
  <2> QED
    BY <2>1, <2>2, <2>3, <2>4
<1> HIDE DEF none, part, new
<1>10. "publish" \in Labels /\ "rollback" \in Labels
  BY DEF Labels
<1>11. /\ At("publish") = Command("publish", op.then, 0, op.bad, op.record) /\ At("publish") \in Ops
       /\ At("rollback") = Command("rollback", op.then, 0, op.bad, op.record)
       /\ At("rollback") \in Ops
  BY <1>1, <1>10, AtIs
<1>12. Fits(disk, At("rollback"), attempts) /\ Fits(none, At("rollback"), attempts)
  BY <1>2, <1>3, <1>7, <1>11, NothingYet, PlacesOfRecovery
<1>13. Fits(new, At("publish"), attempts)
  <2>1. Succeeds(op.record, new.head, attempts)
    BY <1>2, <1>9
  <2> QED
    BY <1>3, <1>9, <1>11, <2>1, PlacesOfAppend
<1>14. /\ Idle \in Ops /\ Fits(disk, Idle, attempts) /\ Fits(none, Idle, attempts)
       /\ Fits(part, Idle, attempts)
  BY IdleFits
<1>15. /\ attempts \in Nat /\ attempts <= MaxAttempts /\ faults \in Nat
       /\ Imaged(images, attempts) /\ log \in fallbacks
  BY DiskKnown
<1>16. CASE images' = done /\ op' = At("publish") /\ faults' = faults
  <2>1. /\ Imaged(torn, attempts)
        /\ Readings(torn) = Readings(images) \cup {Rec(part)}
    BY <1>8, <1>15, ImageAdded
  <2> HIDE DEF torn
  <2>2. /\ Imaged(done, attempts) /\ Last(done) = new
        /\ Readings(done) = Readings(torn) \cup {Rec(new)}
    BY <1>9, <2>1, ImageAdded
  <2>3. Readings(done) = fallbacks
    BY <1>8, <1>9, <1>15, <2>1, <2>2 DEF fallbacks
  <2> DEFINE o == At("publish")
  <2>4. op' = o /\ o \in Ops /\ Fits(Last(done), o, attempts) /\ images' = done
    BY <1>11, <1>13, <1>16, <2>2
  <2> HIDE DEF done, o
  <2>5. JournalInv' /\ log' = Rec(Last(done)) /\ fallbacks' = Readings(done)
    BY <1>1, <1>15, <1>16, <2>2, <2>4, Reached
  <2> QED
    BY <1>1, <1>9, <2>2, <2>3, <2>5 DEF Quietly, Steady
<1>17. ASSUME Faulty, op' = Idle, images' \in {images, Append(images, none), torn}
       PROVE  Quietly
  <2>0. faults' \in Nat
    BY <1>17, FaultCounts
  <2>1. CASE images' = images
    <3>1. JournalInv' /\ log' = log /\ fallbacks' = fallbacks
      BY <1>1, <1>14, <1>17, <2>0, <2>1, NoChangeKeeps
    <3> QED
      BY <1>1, <3>1 DEF Quietly, Steady
  <2>2. CASE images' = Append(images, none)
    <3>1. JournalInv' /\ log' = Rec(none) /\ fallbacks' = fallbacks \cup {Rec(none)}
      BY <1>1, <1>7, <1>14, <1>17, <2>0, <2>2, AddKeeps
    <3> QED
      BY <1>1, <1>7, <1>15, <3>1 DEF Quietly, Steady
  <2>3. CASE images' = torn
    <3>1. JournalInv' /\ log' = Rec(part) /\ fallbacks' = fallbacks \cup {Rec(part)}
      BY <1>1, <1>8, <1>14, <1>17, <2>0, <2>3, AddKeeps
    <3> QED
      BY <1>1, <1>8, <1>15, <3>1 DEF Quietly, Steady
  <2> QED
    BY <1>17, <2>1, <2>2, <2>3
<1>18. ASSUME Faulty, op' = At("rollback"), images' \in {images, <<none>>}
       PROVE  Quietly
  <2>0. faults' \in Nat
    BY <1>18, FaultCounts
  <2> DEFINE o == At("rollback")
  <2>1. o \in Ops /\ op' = o /\ Fits(disk, o, attempts) /\ Fits(none, o, attempts)
    BY <1>11, <1>12, <1>18
  <2> HIDE DEF o
  <2>2. CASE images' = images
    <3>1. JournalInv' /\ log' = log /\ fallbacks' = fallbacks
      BY <1>1, <2>0, <2>1, <2>2, NoChangeKeeps
    <3> QED
      BY <1>1, <3>1 DEF Quietly, Steady
  <2>3. CASE images' = <<none>>
    <3>1. JournalInv' /\ log' = Rec(none) /\ fallbacks' = {Rec(none)}
      BY <1>1, <1>7, <2>0, <2>1, <2>3, AloneKeeps
    <3> QED
      BY <1>1, <1>7, <3>1 DEF Quietly, Steady
  <2> QED
    BY <1>18, <2>2, <2>3
<1> QED
  BY <1>1, <1>16, <1>17, <1>18

\* A publication that reports an error can be taken back.
LEMMA MayBeWithdrawn ==
    ASSUME JournalInv, In(disk, "prepared"), disk.journal.rotated => Intact(disk) /\ Moved(disk),
           NEW w, w.files = disk.files, w.backups = disk.backups, w.head = disk.head,
           w.journal.rotated = disk.journal.rotated,
           w.journal.liveExisted = disk.journal.liveExisted,
           w.journal.liveSize = disk.journal.liveSize,
           w.journal.backups = disk.journal.backups
    PROVE  /\ Withdrawn(w, 0, attempts)
           /\ Undone(w) = Undone(disk) /\ Chain(Undone(disk)) = log
<1>0. MaxArchives \in Nat
  BY JournalAssumption
<1>1. /\ disk.journal # None /\ disk.journal.state = "prepared" /\ Image(disk, attempts)
  BY DiskKnown DEF In
<1>2. Recovered(disk) = Undone(disk) /\ ~Unsealed(disk)
  BY <1>1, FoundIs DEF Unsealed
<1>3. /\ Sealed(Undone(disk), disk.head, attempts)
      /\ IF disk.journal.rotated THEN Len(disk.journal.backups) = MaxArchives + 1
         ELSE Shorter(disk)
  BY <1>1, <1>2 DEF Image
<1>4. Undone(w) = Undone(disk)
  BY SameUndone
<1>5. ASSUME disk.journal.rotated
      PROVE  /\ Intact(w) /\ w.journal.backups[1] # None
             /\ \A k \in Slots : k + 0 > 0 =>
                   w.files[k] = w.journal.backups[IF k < 0 THEN k + 1 ELSE k]
  <2>1. Intact(w)
    BY <1>5 DEF Intact
  <2>2. \A k \in Slots : ~(k < 0) /\ (k + 0 > 0 => k > 0)
    BY <1>0 DEF Slots
  <2> QED
    BY <1>5, <2>1, <2>2 DEF Moved
<1>6. ~disk.journal.rotated => Shorter(w)
  BY <1>3 DEF Shorter
<1>7. Withdrawn(w, 0, attempts)
  BY <1>0, <1>3, <1>4, <1>5, <1>6 DEF Withdrawn
<1>8. log = Chain(Undone(disk))
  BY <1>2 DEF log, Rec
<1> QED
  BY <1>4, <1>7, <1>8

\* The journal says that the record is there: from now on readers find it.
LEMMA PublishStep ==
    ASSUME JournalInv, Publish
    PROVE  JournalInv' /\ acked' = acked /\ (Steady \/ Ring!Publish)
<1> DEFINE new == Journal("published")
           O == Recovered(disk)
           r == op.record
           F == disk.files
           t == Append(Ring!Bounded(Chain(O)), r)
<1>1. /\ op.pc = "publish" /\ attempts' = attempts /\ acked' = acked /\ op.pc # "finish"
      /\ Ordered(new, At("committing"), At("rollback"))
  BY DEF Publish, WriteJournal
<1>2. /\ In(disk, "prepared") /\ Succeeds(r, disk.head, attempts) /\ Written(disk, r)
      /\ disk.journal.rotated => Intact(disk) /\ Moved(disk)
  BY <1>1, DiskKnown DEF Fits
<1>3. /\ disk.journal # None /\ disk.journal.state = "prepared" /\ Image(disk, attempts)
      /\ disk \in Disks /\ attempts \in Nat /\ attempts <= MaxAttempts
      /\ log = Chain(O) /\ F \in Files
  BY <1>2, DiskKnown, PartsOf DEF In, log, Rec
<1>4. Sealed(O, disk.head, attempts)
  BY <1>3 DEF Image, Unsealed
<1>5. O \in Files
  <2>1. CASE disk.journal.rotated
    BY <1>2, <1>3, <2>1, RotatedFiles
  <2>2. CASE ~disk.journal.rotated
    <3>1. /\ O = Cut(F, disk.journal.liveExisted, disk.journal.liveSize)
          /\ disk.journal.liveExisted => F[0] # None /\ disk.journal.liveSize <= Len(F[0])
      BY <1>3, <2>2, CutBack
    <3>2. disk.journal.liveExisted \in BOOLEAN /\ disk.journal.liveSize \in Nat
      BY <1>3, PartsOf
    <3> QED
      BY <1>3, <3>1, <3>2, CutAgain
  <2> QED
    BY <2>1, <2>2
<1>6. Stacked(F) /\ Continuous(Chain(F)) /\ Chain(F) = t
  BY <1>2 DEF Written
<1>7. /\ r \in Records /\ Known(r, attempts) /\ r.seq > 0 /\ Ring!Follows(r, Chain(O))
      /\ t \in Seq(Records) /\ t # <<>> /\ Last(t) = r /\ Advances(disk.head, t)
  BY <1>2, <1>3, <1>4, <1>5, FollowsHead
<1>8. Known(disk.head, attempts)
  BY <1>4 DEF Sealed
<1>9. Open(F, disk.head, attempts) /\ LastIs(disk, r)
  BY <1>6, <1>7, <1>8 DEF Open, LastIs
<1>10. /\ new \in Disks /\ In(new, "published") /\ new.journal # None
       /\ new.files = F /\ new.backups = disk.backups /\ new.head = disk.head
       /\ new.journal.rotated = disk.journal.rotated
       /\ new.journal.liveExisted = disk.journal.liveExisted
       /\ new.journal.liveSize = disk.journal.liveSize
       /\ new.journal.backups = disk.journal.backups
  BY <1>3, Writes
<1> HIDE DEF new, t
<1>11. Image(new, attempts) /\ Rec(new) = t
  <2>1. Open(new.files, new.head, attempts)
    BY <1>9, <1>10
  <2>2. ~new.journal.rotated => new.backups = Empty
    BY <1>3, <1>10, PartsOf
  <2> QED
    BY <1>6, <1>10, <2>1, <2>2, IsLive
<1>12. "committing" \in Labels /\ "rollback" \in Labels
  BY DEF Labels
<1>13. /\ At("committing") = Command("committing", op.then, 0, op.bad, op.record)
       /\ At("committing") \in Ops
       /\ At("rollback") = Command("rollback", op.then, 0, op.bad, op.record)
       /\ At("rollback") \in Ops
  BY <1>1, <1>12, AtIs
<1>14. Carried(op.then, op.record, attempts)
  BY <1>1, Carries
<1>15. Fits(new, At("committing"), attempts) /\ Fits(disk, At("rollback"), attempts)
  <2>1. LastIs(new, r)
    BY <1>9, <1>10 DEF LastIs
  <2>2. ~Stranded(new)
    BY <1>6, <1>7, <1>10, Sound
  <2> QED
    BY <1>2, <1>10, <1>13, <1>14, <2>1, <2>2, NothingYet, PlacesOfAppend, PlacesOfRecovery
<1>16. Withdrawn(new, 0, attempts)
  BY <1>2, <1>3, <1>4, <1>10, MayBeWithdrawn
<1>17. Fits(new, At("rollback"), attempts)
  BY <1>10, <1>13, <1>14, <1>16, PlacesOfRecovery
<1>18. /\ JournalInv'
       /\ Steady \/ (log' = Rec(new) /\ fallbacks' = fallbacks \cup {Rec(new)})
  BY <1>1, <1>11, <1>13, <1>15, <1>17, OrderedKeeps
<1>19. ASSUME log' = Rec(new), fallbacks' = fallbacks \cup {Rec(new)} PROVE Ring!Publish
  <2>1. log' = t /\ fallbacks' = fallbacks \cup {log'}
    BY <1>11, <1>19
  <2>2. Len(t) > 0 /\ t[Len(t)] = r
    BY <1>7 DEF Last
  <2>3. t = Append(Ring!Bounded(log), r)
    BY <1>3 DEF t
  <2>4. log'[Len(log')] = r /\ Len(log') > 0 /\ log' = Append(Ring!Bounded(log), r)
        /\ Ring!Follows(r, log)
    BY <1>3, <1>7, <2>1, <2>2, <2>3
  <2> QED
    BY <1>1, <1>7, <2>1, <2>4, RingMeans
<1> QED
  BY <1>1, <1>18, <1>19

--------------------------------------------------------------------------------
(* The specification.                                                      *)

\* The journal starts with nothing.
LEMMA JournalInit ==
    ASSUME Init
    PROVE  JournalInv /\ Revocable /\ Ring!Init
<1> DEFINE d == [files |-> Empty, backups |-> Empty, journal |-> None, head |-> NoHead]
           n == 0
<1>1. images = <<d>> /\ op = Idle /\ attempts = n /\ acked = {} /\ faults = 0
  BY DEF Init
<1>2. NoHead \in Records /\ NoHead.seq = 0 /\ NoHead.id = 0
  BY JournalAssumption DEF NoHead, Torn, Records
<1>3. /\ d \in Disks /\ d.files = Empty /\ d.backups = Empty /\ d.journal = None
      /\ d.head = NoHead
  BY <1>2, NoFiles DEF Disks
<1> HIDE DEF d
<1>4. Sealed(Empty, NoHead, n)
  <2>1. Stacked(Empty)
    BY NoFiles DEF Stacked
  <2>2. Continuous(<<>>)
    BY DEF Continuous
  <2>3. Known(NoHead, n)
    BY <1>2 DEF Known
  <2> QED
    BY <2>1, <2>2, <2>3, NoRecords DEF Sealed
<1>5. n \in Nat /\ n \in 0 .. MaxAttempts /\ n = 0
  BY JournalAssumption
<1> HIDE DEF n
<1>6. Image(d, n) /\ Rec(d) = <<>>
  <2>1. Image(d, n) /\ Rec(d) = Chain(d.files)
    BY <1>3, <1>4, IsNoJournal
  <2> QED
    BY <1>3, <2>1, NoRecords
<1>7. Imaged(<<d>>, n) /\ Last(<<d>>) = d /\ Readings(<<d>>) = {Rec(d)}
  BY <1>6, ImageAlone
<1>8. Idle \in Ops /\ Fits(d, Idle, n)
  BY IdleFits
<1>9. JournalInv
  BY <1>1, <1>5, <1>7, <1>8 DEF JournalInv, Kept
<1>10. log = <<>> /\ fallbacks = {<<>>}
  BY <1>1, <1>6, <1>7 DEF log, fallbacks, disk
<1>11. Revocable
  BY <1>1 DEF Revocable, Idle
<1> QED
  BY <1>1, <1>9, <1>10, <1>11, RingMeans

\* A change that a reader does not see is a stutter of the ring, or a flush.
LEMMA QuietRing ==
    ASSUME Steady, acked' = acked
    PROVE  [Ring!Next]_(Ring!vars)
<1>1. CASE fallbacks' = fallbacks
  BY <1>1, RingMeans DEF Steady
<1>2. CASE fallbacks' = {log}
  <2>1. Ring!Flush
    BY <1>2, RingMeans DEF Steady
  <2> QED
    BY <2>1 DEF Ring!Next
<1> QED
  BY <1>1, <1>2 DEF Steady

\* Recovery gives up.
LEMMA RefuseStep ==
    ASSUME JournalInv, Refuse
    PROVE  Quietly
BY GoesIdle DEF Refuse

\* The disk after a change is the one before it or the changed one.
LEMMA DiskAfter ==
    ASSUME JournalInv, NEW new,
           images' = images \/ images' = <<new>> \/ images' = Append(images, new)
    PROVE  disk' \in {disk, new}
<1> DEFINE S == Disks \cup {new}
<1>1. images \in Seq(S) /\ new \in S
  BY DiskKnown DEF Imaged
<1> HIDE DEF S
<1>2. CASE images' = images
  BY <1>2 DEF disk
<1>3. CASE images' = <<new>>
  BY <1>3 DEF disk, Last
<1>4. CASE images' = Append(images, new)
  <2>1. Last(Append(images, new)) = new
    BY <1>1 DEF Last
  <2> QED
    BY <1>4, <2>1 DEF disk
<1> QED
  BY <1>2, <1>3, <1>4

\* Where an operation is after a change.
LEMMA OpAfter ==
    ASSUME NEW next, NEW otherwise,
           \E new : Full(new, next, otherwise) \/ Ordered(new, next, otherwise)
    PROVE  op' \in {next, otherwise, Idle}
<1>1. ASSUME NEW new, Full(new, next, otherwise) PROVE op' \in {next, otherwise, Idle}
  BY <1>1 DEF Full
<1>2. ASSUME NEW new, Ordered(new, next, otherwise) PROVE op' \in {next, otherwise, Idle}
  BY <1>2 DEF Ordered
<1> QED
  BY <1>1, <1>2

\* The points an operation goes on at.
LEMMA PointOf ==
    ASSUME op \in Ops
    PROVE  /\ Idle.pc # "rollback"
           /\ \A p : At(p).pc = p
           /\ \A p, i : [At(p) EXCEPT !.i = i].pc = p
           /\ \A p, t : [At(p) EXCEPT !.then = t].pc = p
           /\ \A p, t : [Idle EXCEPT !.pc = p, !.then = t].pc = p
           /\ \A i : [op EXCEPT !.i = i].pc = op.pc /\ [op EXCEPT !.i = i].i = i
           /\ \A i, b : [op EXCEPT !.i = i, !.bad = b].pc = op.pc
           /\ \A p : [op EXCEPT !.pc = p].pc = p
           /\ \A p, i : [op EXCEPT !.pc = p, !.i = i].pc = p
<1>1. \A p, t, i, b, r : Command(p, t, i, b, r).pc = p
  BY DEF Command
<1>2. /\ \A p : At(p).pc = p
      /\ \A p, i : [At(p) EXCEPT !.i = i].pc = p
      /\ \A p, t : [At(p) EXCEPT !.then = t].pc = p
      /\ \A p, t : [Idle EXCEPT !.pc = p, !.then = t].pc = p
  <2>1. ASSUME NEW p PROVE At(p).pc = p
    BY DEF At, Ops
  <2>2. ASSUME NEW p, NEW i PROVE [At(p) EXCEPT !.i = i].pc = p
    BY DEF At, Ops
  <2>3. ASSUME NEW p, NEW t PROVE [At(p) EXCEPT !.then = t].pc = p
    BY DEF At, Ops
  <2>4. ASSUME NEW p, NEW t PROVE [Idle EXCEPT !.pc = p, !.then = t].pc = p
    BY DEF Idle
  <2> QED
    BY <2>1, <2>2, <2>3, <2>4, Zenon
<1>3. /\ \A i : [op EXCEPT !.i = i].pc = op.pc /\ [op EXCEPT !.i = i].i = i
      /\ \A i, b : [op EXCEPT !.i = i, !.bad = b].pc = op.pc
      /\ \A p : [op EXCEPT !.pc = p].pc = p
      /\ \A p, i : [op EXCEPT !.pc = p, !.i = i].pc = p
  BY DEF Ops
<1>4. Idle.pc # "rollback"
  BY DEF Idle
<1> QED
  BY <1>2, <1>3, <1>4

\* A rollback is begun on a prepared transaction, or on one whose publication was just
\* reported to have failed.
LEMMA BacksOut ==
    ASSUME JournalInv, Recover \/ Rotate \/ WriteRecord \/ Publish,
           op'.pc = "rollback", In(disk', "published")
    PROVE  Chain(Undone(disk')) \in fallbacks'
<1>0. disk \in Disks /\ op \in Ops /\ Fits(disk, op, attempts) /\ log \in fallbacks
  BY DiskKnown
<1>1. ASSUME disk'.journal = disk.journal, In(disk, "prepared") PROVE FALSE
  BY <1>1 DEF In
<1>2. CASE Recover
  <2>1. op' = At(RecoveryStep) /\ disk' = disk
    BY <1>2 DEF Recover, disk
  <2>2. RecoveryStep = "rollback"
    BY <1>0, <2>1, PointOf
  <2>3. In(disk, "published")
    BY <2>1
  <2> QED
    BY <2>2, <2>3 DEF RecoveryStep, In
<1>3. CASE Rotate
  <2> DEFINE moved == [disk.files EXCEPT ![op.i] = None]
             F == IF op.i = MaxArchives \/ disk.files[op.i] = None THEN moved
                  ELSE [moved EXCEPT ![op.i + 1] = disk.files[op.i]]
             new == [disk EXCEPT !.files = F]
             next == IF op.i > 0 THEN [op EXCEPT !.i = op.i - 1] ELSE At("write")
  <2>1. op.pc = "rotate" /\ Full(new, next, At("rollback"))
    BY <1>3 DEF Rotate
  <2>2. In(disk, "prepared")
    BY <1>0, <2>1 DEF Fits
  <2> HIDE DEF F
  <2>3. new.journal = disk.journal
    BY <1>0 DEF Disks
  <2> HIDE DEF new, next
  <2>4. images' = images \/ images' = <<new>> \/ images' = Append(images, new)
    BY <2>1 DEF Full
  <2>5. disk' \in {disk, new}
    BY <2>4, DiskAfter, Zenon
  <2> QED
    BY <1>1, <2>2, <2>3, <2>5
<1>4. CASE WriteRecord
  <2> DEFINE h == IF Live = None THEN <<>> ELSE Live
             none == [disk EXCEPT !.files[0] = h \o <<>>]
  <2>1. /\ op.pc = "write"
        /\ \/ op' = At("publish")
           \/ op' = Idle
           \/ images' \in {images, <<none>>}
    BY <1>4 DEF WriteRecord
  <2>2. In(disk, "prepared")
    BY <1>0, <2>1 DEF Fits
  <2>3. none.journal = disk.journal
    BY <1>0 DEF Disks
  <2> HIDE DEF none
  <2>4. images' \in {images, <<none>>}
    BY <1>0, <2>1, PointOf
  <2>5. disk' \in {disk, none}
    BY <2>4, DiskAfter
  <2> QED
    BY <1>1, <2>2, <2>3, <2>5
<1>5. CASE Publish
  <2> DEFINE new == Journal("published")
  <2>1. op.pc = "publish" /\ Ordered(new, At("committing"), At("rollback"))
    BY <1>5 DEF Publish, WriteJournal
  <2>2. /\ In(disk, "prepared") /\ disk.journal # None
        /\ disk.journal.rotated => Intact(disk) /\ Moved(disk)
    BY <1>0, <2>1 DEF Fits, In
  <2>3. /\ new.files = disk.files /\ new.backups = disk.backups /\ new.head = disk.head
        /\ new.journal.rotated = disk.journal.rotated
        /\ new.journal.liveExisted = disk.journal.liveExisted
        /\ new.journal.liveSize = disk.journal.liveSize
        /\ new.journal.backups = disk.journal.backups
    BY <1>0, <2>2, Writes
  <2> HIDE DEF new
  <2>4. Chain(Undone(new)) = log
    BY <2>2, <2>3, MayBeWithdrawn
  <2>5. images' \in {images, Append(images, new)}
    BY <2>1 DEF Ordered
  <2>6. disk' \in {disk, new}
    BY <2>5, DiskAfter
  <2>7. disk' = new
    BY <1>1, <2>2, <2>6
  <2>8. fallbacks \subseteq fallbacks'
    BY <2>5, FallsBack
  <2> QED
    BY <1>0, <2>4, <2>7, <2>8
<1> QED
  BY <1>2, <1>3, <1>4, <1>5

\* The other steps begin no rollback.
LEMMA BacksNot ==
    ASSUME JournalInv, Next, ~(Recover \/ Rotate \/ WriteRecord \/ Publish)
    PROVE  op'.pc # "rollback" \/ op'.i # 0
<1>0. op \in Ops /\ Fits(disk, op, attempts)
  BY DiskKnown
<1>1. CASE StartAppend \/ StartRead
  <2>1. PICK t : op' = [Idle EXCEPT !.pc = "recover", !.then = t]
    BY <1>1 DEF StartAppend, StartRead, Begin
  <2> QED
    BY <1>0, <2>1, PointOf
<1>2. CASE Read \/ Prepare \/ Refuse
  <2>1. \/ op' = Idle \/ op' = At("refused")
        \/ \E r : op' = [op EXCEPT !.pc = "begin", !.then = "idle", !.record = r]
    BY <1>2 DEF Read, Prepare, Refuse
  <2>2. CASE op' = Idle
    BY <1>0, <2>2, PointOf
  <2>3. CASE op' = At("refused")
    BY <1>0, <2>3, PointOf
  <2>4. ASSUME NEW r, op' = [op EXCEPT !.pc = "begin", !.then = "idle", !.record = r]
        PROVE  op'.pc # "rollback"
    BY <1>0, <2>4 DEF Ops
  <2> QED
    BY <2>1, <2>2, <2>3, <2>4
<1>3. CASE BeginJournal
  <2> DEFINE next == At(IF Rotates THEN "backup" ELSE "write")
             otherwise == IF Rotates THEN Idle ELSE At("abort")
  <2>1. \E new : Ordered(new, next, otherwise)
    BY <1>3, Zenon DEF BeginJournal
  <2>2. next.pc # "rollback" /\ otherwise.pc # "rollback"
    BY <1>0, PointOf
  <2> HIDE DEF next, otherwise
  <2> QED
    BY <1>0, <2>1, <2>2, OpAfter, PointOf
<1>4. CASE Backup
  <2> DEFINE next == [op EXCEPT !.pc = "backup_journal"]
             otherwise == At("abort")
  <2>1. \E new : Full(new, next, otherwise)
    BY <1>4, Zenon DEF Backup
  <2>2. next.pc # "rollback" /\ otherwise.pc # "rollback"
    BY <1>0, PointOf
  <2> HIDE DEF next, otherwise
  <2> QED
    BY <1>0, <2>1, <2>2, OpAfter, PointOf
<1>5. CASE BackupJournal
  <2> DEFINE next == IF op.i < MaxArchives THEN [op EXCEPT !.pc = "backup", !.i = op.i + 1]
                     ELSE At("prepared")
             otherwise == At("abort")
  <2>1. \E new : Ordered(new, next, otherwise)
    BY <1>5, Zenon DEF BackupJournal
  <2>2. next.pc # "rollback" /\ otherwise.pc # "rollback"
    BY <1>0, PointOf
  <2> HIDE DEF next, otherwise
  <2> QED
    BY <1>0, <2>1, <2>2, OpAfter, PointOf
<1>6. CASE Prepared
  <2> DEFINE next == [At("rotate") EXCEPT !.i = MaxArchives]
             otherwise == At("abort")
  <2>1. \E new : Ordered(new, next, otherwise)
    BY <1>6, Zenon DEF Prepared, WriteJournal
  <2>2. next.pc # "rollback" /\ otherwise.pc # "rollback"
    BY <1>0, PointOf
  <2> HIDE DEF next, otherwise
  <2> QED
    BY <1>0, <2>1, <2>2, OpAfter, PointOf
<1>7. CASE Committing
  <2> DEFINE next == At("commit")
             otherwise == Idle
  <2>1. \E new : Ordered(new, next, otherwise)
    BY <1>7, Zenon DEF Committing, WriteJournal
  <2>2. next.pc # "rollback" /\ otherwise.pc # "rollback"
    BY <1>0, PointOf
  <2> HIDE DEF next, otherwise
  <2> QED
    BY <1>0, <2>1, <2>2, OpAfter, PointOf
<1>8. CASE Commit
  <2> DEFINE next == At("resolve")
             otherwise == Idle
  <2>1. \E new : Ordered(new, next, otherwise)
    BY <1>8, Zenon DEF Commit
  <2>2. next.pc # "rollback" /\ otherwise.pc # "rollback"
    BY <1>0, PointOf
  <2> HIDE DEF next, otherwise
  <2> QED
    BY <1>0, <2>1, <2>2, OpAfter, PointOf
<1>9. CASE Resolve
  <2> DEFINE next == [At("finish") EXCEPT !.then = IF op.record = Torn THEN @ ELSE "ack"]
             otherwise == Idle
  <2>1. \E new : Ordered(new, next, otherwise)
    BY <1>9, Zenon DEF Resolve, WriteJournal
  <2>2. next.pc # "rollback" /\ otherwise.pc # "rollback"
    BY <1>0, PointOf
  <2> HIDE DEF next, otherwise
  <2> QED
    BY <1>0, <2>1, <2>2, OpAfter, PointOf
<1>10. CASE RolledBack
  <2> DEFINE next == At("finish")
             otherwise == Idle
  <2>1. \E new : Ordered(new, next, otherwise)
    BY <1>10, Zenon DEF RolledBack, WriteJournal
  <2>2. next.pc # "rollback" /\ otherwise.pc # "rollback"
    BY <1>0, PointOf
  <2> HIDE DEF next, otherwise
  <2> QED
    BY <1>0, <2>1, <2>2, OpAfter, PointOf
<1>11. CASE Mark
  <2> DEFINE next == At("recover_commit")
             otherwise == Idle
  <2>1. \E new : Ordered(new, next, otherwise)
    BY <1>11, Zenon DEF Mark, WriteJournal
  <2>2. next.pc # "rollback" /\ otherwise.pc # "rollback"
    BY <1>0, PointOf
  <2> HIDE DEF next, otherwise
  <2> QED
    BY <1>0, <2>1, <2>2, OpAfter, PointOf
<1>12. CASE RemoveBackup
  <2> DEFINE next == [op EXCEPT !.i = op.i + 1]
             otherwise == [op EXCEPT !.i = op.i + 1, !.bad = TRUE]
  <2>1. \E new : Full(new, next, otherwise)
    BY <1>12, Zenon DEF RemoveBackup
  <2>2. next.pc # "rollback" /\ otherwise.pc # "rollback"
    BY <1>0, <1>12, PointOf DEF RemoveBackup
  <2> HIDE DEF next, otherwise
  <2> QED
    BY <1>0, <2>1, <2>2, OpAfter, PointOf
<1>13. CASE RemoveJournal
  <2> DEFINE next == IF op.then \in {"ack", "idle"} THEN Idle ELSE At(op.then)
  <2>1. op' = Idle \/ \E new : Full(new, next, Idle)
    BY <1>13, Zenon DEF RemoveJournal
  <2>2. next.pc # "rollback"
    BY <1>0, PointOf DEF Ops
  <2> HIDE DEF next
  <2> QED
    BY <1>0, <2>1, <2>2, OpAfter, PointOf
<1>14. CASE RestoreFile
  <2> DEFINE next == [op EXCEPT !.i = op.i + 1]
  <2>1. op' = At("refused") \/ \E new : Full(new, next, Idle)
    BY <1>14, Zenon DEF RestoreFile
  <2>2. next.i # 0
    BY <1>0, PointOf DEF Ops
  <2> HIDE DEF next
  <2> QED
    BY <1>0, <2>1, <2>2, OpAfter, PointOf
<1>15. CASE CutRecord
  <2> DEFINE next == [op EXCEPT !.i = MaxArchives + 1]
  <2>1. op' = At("refused") \/ \E new : Full(new, next, Idle)
    BY <1>15, Zenon DEF CutRecord
  <2>2. next.i # 0
    BY <1>0, PointOf, JournalAssumption
  <2> HIDE DEF next
  <2> QED
    BY <1>0, <2>1, <2>2, OpAfter, PointOf
<1>16. CASE RecoverCommit
  <2> DEFINE next == At("resolve")
  <2>1. op' = At("refused") \/ op' = next \/ \E new : Ordered(new, next, Idle)
    BY <1>16, Zenon DEF RecoverCommit
  <2>2. next.pc # "rollback"
    BY <1>0, PointOf
  <2> HIDE DEF next
  <2> QED
    BY <1>0, <2>1, <2>2, OpAfter, PointOf
<1>17. CASE PowerLoss
  BY <1>0, <1>17, PointOf DEF PowerLoss
<1> QED
  BY <1>1, <1>2, <1>3, <1>4, <1>5, <1>6, <1>7, <1>8, <1>9, <1>10, <1>11,
     <1>12, <1>13, <1>14, <1>15, <1>16, <1>17 DEF Next

\* What a rollback goes back to stays an image.
LEMMA RevocableStep ==
    ASSUME JournalInv, Revocable, [Next]_vars
    PROVE  Revocable'
<1>1. CASE Recover \/ Rotate \/ WriteRecord \/ Publish
  BY <1>1, BacksOut DEF Revocable, fallbacks, Readings, Rec
<1>2. CASE Next /\ ~(Recover \/ Rotate \/ WriteRecord \/ Publish)
  BY <1>2, BacksNot DEF Revocable
<1>3. CASE UNCHANGED vars
  BY <1>3 DEF vars, Revocable, disk
<1> QED
  BY <1>1, <1>2, <1>3

\* Every step keeps the invariant and is a step of the ring, or none.
LEMMA JournalStep ==
    ASSUME JournalInv, Revocable, [Next]_vars
    PROVE  JournalInv' /\ [Ring!Next]_(Ring!vars)
<1>1. ASSUME Quietly PROVE JournalInv' /\ [Ring!Next]_(Ring!vars)
  BY <1>1, QuietRing DEF Quietly
<1>0. ASSUME Backward PROVE JournalInv' /\ [Ring!Next]_(Ring!vars)
  <2>1. Ring!TakeBack
    BY <1>0, RingMeans DEF Backward
  <2> QED
    BY <1>0, <2>1 DEF Backward, Ring!Next
<1>2. CASE StartAppend
  <2>1. attempts < MaxAttempts /\ Begin("prepare")
    BY <1>2 DEF StartAppend
  <2> DEFINE t == "prepare"
  <2>2. t \in {"prepare", "read"} /\ Begin(t) /\ (t = "prepare" => attempts < MaxAttempts)
    BY <2>1
  <2> HIDE DEF t
  <2> QED
    BY <1>1, <2>2, BeginStep
<1>3. CASE StartRead
  <2> DEFINE t == "read"
  <2>1. t \in {"prepare", "read"} /\ Begin(t) /\ (t = "prepare" => attempts < MaxAttempts)
    BY <1>3 DEF StartRead
  <2> HIDE DEF t
  <2> QED
    BY <1>1, <2>1, BeginStep
<1>4. CASE Recover
  BY <1>1, <1>4, RecoverStep
<1>5. CASE Read
  BY <1>1, <1>5, ReadStep
<1>6. CASE Prepare
  BY <1>1, <1>6, PrepareStep
<1>7. CASE BeginJournal
  BY <1>1, <1>7, BeginJournalStep
<1>8. CASE Backup
  BY <1>1, <1>8, BackupStep
<1>9. CASE BackupJournal
  BY <1>1, <1>9, BackupJournalStep
<1>10. CASE Prepared
  BY <1>1, <1>10, PreparedStep
<1>11. CASE Rotate
  BY <1>1, <1>11, RotateStep
<1>12. CASE WriteRecord
  BY <1>1, <1>12, WriteRecordStep
<1>13. CASE Publish
  <2>1. JournalInv' /\ acked' = acked /\ (Steady \/ Ring!Publish)
    BY <1>13, PublishStep
  <2>2. Ring!Publish => Ring!Next
    BY DEF Ring!Next
  <2> QED
    BY <2>1, <2>2, QuietRing
<1>14. CASE Committing
  BY <1>1, <1>14, CommittingStep
<1>15. CASE Commit
  BY <1>1, <1>15, CommitStep
<1>16. CASE Resolve
  BY <1>1, <1>16, ResolveStep
<1>17. CASE RemoveBackup
  BY <1>1, <1>17, RemoveBackupStep
<1>18. CASE RemoveJournal
  <2>1. JournalInv' /\ Steady /\ (acked' = acked \/ Ring!Acknowledge)
    BY <1>18, RemoveJournalStep
  <2>2. Ring!Acknowledge => Ring!Next
    BY DEF Ring!Next
  <2> QED
    BY <2>1, <2>2, QuietRing
<1>19. CASE RestoreFile
  BY <1>0, <1>19, RestoreFileStep
<1>20. CASE CutRecord
  BY <1>0, <1>20, CutRecordStep
<1>21. CASE RolledBack
  BY <1>1, <1>21, RolledBackStep
<1>22. CASE Mark
  BY <1>1, <1>22, MarkStep
<1>23. CASE RecoverCommit
  BY <1>1, <1>23, RecoverCommitStep
<1>24. CASE PowerLoss
  <2>1. JournalInv' /\ Ring!TakeBack
    BY <1>24, PowerLossStep
  <2> QED
    BY <2>1 DEF Ring!Next
<1>25. CASE UNCHANGED vars
  <2>1. images' = images /\ op' = op /\ attempts' = attempts /\ acked' = acked /\ faults' = faults
    BY <1>25 DEF vars
  <2>2. op \in Ops /\ Fits(disk, op, attempts) /\ faults' \in Nat
    BY <2>1, DiskKnown
  <2>3. JournalInv' /\ log' = log /\ fallbacks' = fallbacks
    BY <2>1, <2>2, NoChangeKeeps
  <2> QED
    BY <1>1, <2>1, <2>3 DEF Quietly, Steady
<1>26. CASE Refuse
  BY <1>1, <1>26, RefuseStep
<1> QED
  BY <1>2, <1>3, <1>4, <1>5, <1>6, <1>7, <1>8, <1>9, <1>10, <1>11, <1>12, <1>13, <1>14, <1>15,
     <1>16, <1>17, <1>18, <1>19, <1>20, <1>21, <1>22, <1>23, <1>24, <1>25, <1>26 DEF Next

\* beginAppendJournalWithLayout to the removal of the journal: whatever is on the disk,
\* and whatever a power loss may leave of it, is a log with its head, or one that
\* recovery completes or takes back, and it is what the point of the operation says;
\* what a rollback goes back to is something a power loss could have left.
THEOREM JournalInvariant == Spec => [](JournalInv /\ Revocable)
<1>1. Init => JournalInv /\ Revocable
  BY JournalInit
<1>2. JournalInv /\ Revocable /\ [Next]_vars => JournalInv' /\ Revocable'
  BY JournalStep, RevocableStep
<1> QED
  BY <1>1, <1>2, PTL DEF Spec

\* validateAppendJournal, rollbackAppendJournalWithLayout, commitHeadLocked and
\* loadVerifiedLocked reject no disk that an interrupted append left, except one on which
\* a journal write took effect, reported an error, and had its undoing cut short.
THEOREM NeverRefused == Spec => []RecoveryNeverRefused
<1>1. JournalInv => RecoveryNeverRefused
  BY DiskKnown DEF Fits, RecoveryNeverRefused
<1> QED
  BY <1>1, JournalInvariant, PTL

\* journal.go:111: no backup without the journal that owns it, after a power loss either.
THEOREM NeverOrphans == Spec => []NoOrphans
<1>1. JournalInv => NoOrphans
  BY DiskKnown DEF Imaged, Image, NoOrphans
<1> QED
  BY <1>1, JournalInvariant, PTL

\* ReadSnapshotContextWithLayout: what a reader or the next append sees is a contiguous
\* chain that ends at the detached head.
THEOREM SnapshotsVerify == Spec => []SnapshotVerifies
<1>1. ASSUME JournalInv, op.pc \in {"read", "begin"} PROVE Verified(disk)
  <2>1. disk.journal = None /\ Image(disk, attempts)
    BY <1>1, DiskKnown DEF Fits
  <2>2. Sealed(disk.files, disk.head, attempts)
    BY <2>1, NoJournal
  <2> QED
    BY <2>2, SealedVerifies
<1>2. JournalInv => SnapshotVerifies
  BY <1>1 DEF SnapshotVerifies
<1> QED
  BY <1>2, JournalInvariant, PTL

\* The transactional append implements the ring its callers see: a record shows at the
\* publication, in one step, and the rotation and the recovery do not; a rollback takes
\* back only what a power loss could still have taken.
THEOREM JournalImplementsRing == Spec => RingSpec
<1>1. Init => Ring!Init
  BY JournalInit
<1>2. JournalInv /\ Revocable /\ [Next]_vars => [Ring!Next]_(Ring!vars)
  BY JournalStep
<1> QED
  BY <1>1, <1>2, JournalInvariant, PTL DEF Spec, RingSpec, Ring!Spec

\* The ring keeps an acknowledged record until its file rotates away: for every number
\* of archives and every file size.
THEOREM RingKeepsAcknowledged == RingSpec => []Ring!AcknowledgedKept
<1>1. Ring!Init => RingInv
  <2>1. ASSUME Ring!Init PROVE RingInv
    <3>1. log = <<>> /\ fallbacks = {<<>>} /\ acked = {}
      BY <2>1, RingMeans
    <3>2. Contiguous(<<>>)
      BY DEF Contiguous
    <3> QED
      BY <3>1, <3>2 DEF RingInv
  <2> QED
    BY <2>1
<1>2. RingInv /\ [Ring!Next]_(Ring!vars) => RingInv'
  BY RingStep
<1>3. RingInv => Ring!AcknowledgedKept
  BY RingMeans DEF RingInv
<1> QED
  BY <1>1, <1>2, <1>3, PTL DEF RingSpec, Ring!Spec

\* AppendTransactionContextWithLayout: a record whose append has returned is found by
\* every later reader, whatever died, failed or was lost, unless its file has rotated away.
THEOREM AcknowledgedRecordsKept == Spec => []Ring!AcknowledgedKept
BY JournalImplementsRing, RingKeepsAcknowledged, PTL
================================================================================
