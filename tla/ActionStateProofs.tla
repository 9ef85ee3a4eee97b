-------------------------- MODULE ActionStateProofs --------------------------
(* Proofs about ActionState, for every set of calls, budgets, generations  *)
(* and every limit, window and bound that its assumptions allow.           *)
EXTENDS ActionState, FiniteSetTheorems, WellFoundedInduction, TLAPS

-----------------------------------------------------------------------------
(* Sums over finite sets. The library states its induction theorems for an *)
(* operator, which the provers cannot instantiate; the inductions here take *)
(* the least counterexample of a set of numbers instead.                   *)

\* The table that SumFunctionOnSet reads off, with the order in which it takes
\* the elements.
Choice(s) == CHOOSE x \in s : TRUE
Summing(g, f, S) ==
    g = [s \in SUBSET S |-> IF s = {} THEN 0 ELSE f[Choice(s)] + g[s \ {Choice(s)}]]

\* The sum over S is the entry of S in a table of all its subsets.
LEMMA SumIsOfTable ==
    ASSUME NEW f, NEW S
    PROVE SumFunctionOnSet(f, S) = (CHOOSE g : Summing(g, f, S))[S]
BY DEF SumFunctionOnSet, FoldFunctionOnSet, MapThenFoldSet, Summing, Choice

\* Numbers are well founded: this is what the inductions below stand on.
Less == {p \in Nat \X Nat : p[1] < p[2]}

\* A set of numbers with a member has a least one.
LEMMA LeastNumber ==
    ASSUME NEW T \in SUBSET Nat, T # {}
    PROVE \E n \in T : \A m \in T : n <= m
<1>1. IsWellFoundedOn(Less, Nat)
  <2>1. Less = OpToRel(<, Nat)
    BY Zenon DEF OpToRel, Less
  <2> QED
    BY <2>1, NatLessThanWellFounded, Zenon
<1>2. \E n \in T : \A m \in T : ~(<<m, n>> \in Less)
  BY <1>1, WFMin, Zenon
<1>3. PICK n \in T : \A m \in T : ~(<<m, n>> \in Less)
  BY <1>2
<1>4. \A m \in T : ~(m < n)
  BY <1>3 DEF Less
<1>5. \A m \in T : m \in Nat /\ n \in Nat
  OBVIOUS
<1> QED
  BY <1>4, <1>5

\* There is such a table for a finite set: by induction over the size of its
\* entries.
LEMMA SumTableExists ==
    ASSUME NEW S, IsFiniteSet(S), NEW f
    PROVE  \E g : Summing(g, f, S)
<1> DEFINE Small(n) == {s \in SUBSET S : Cardinality(s) <= n}
           Entries(g, n) == [s \in Small(n) |-> IF s = {} THEN 0 ELSE f[Choice(s)] + g[s \ {Choice(s)}]]
           Bad == {n \in Nat : ~ \E g : g = Entries(g, n)}
<1>1. \A s \in SUBSET S : IsFiniteSet(s) /\ Cardinality(s) \in Nat
  BY FS_Subset, FS_CardinalityType
<1>2. \A s \in SUBSET S : s # {} => /\ Choice(s) \in s
                                    /\ s \ {Choice(s)} \in SUBSET S
                                    /\ Cardinality(s \ {Choice(s)}) = Cardinality(s) - 1
  <2> SUFFICES ASSUME NEW s \in SUBSET S, s # {}
               PROVE  /\ Choice(s) \in s
                      /\ s \ {Choice(s)} \in SUBSET S
                      /\ Cardinality(s \ {Choice(s)}) = Cardinality(s) - 1
    OBVIOUS
  <2>1. Choice(s) \in s
    BY DEF Choice
  <2> QED
    BY <1>1, <2>1, FS_RemoveElement
<1>3. Bad = {}
  <2> SUFFICES ASSUME Bad # {} PROVE FALSE
    OBVIOUS
  <2>1. PICK n \in Bad : \A m \in Bad : n <= m
    BY LeastNumber
  <2>2. CASE n = 0
    <3> DEFINE g == [s \in Small(0) |-> 0]
    <3>1. \A s \in Small(0) : s = {}
      BY <1>1, FS_EmptySet
    <3>2. g = Entries(g, 0)
      BY <3>1
    <3> QED
      BY <2>1, <2>2, <3>2
  <2>3. CASE n # 0
    <3>1. n - 1 \in Nat /\ n - 1 \notin Bad
      <4> HIDE DEF Bad
      <4>1. Bad \in SUBSET Nat
        BY DEF Bad
      <4> QED
        BY <2>1, <2>3, <4>1
    <3>2. PICK g : g = Entries(g, n - 1)
      BY <3>1
    <3> DEFINE h == Entries(g, n)
    <3>3. \A s \in Small(n) : s # {} => s \ {Choice(s)} \in Small(n - 1)
      BY <1>1, <1>2, <2>1
    <3>4. \A s \in Small(n - 1) : s \in Small(n)
      BY <1>1, <2>1
    <3>5. \A s \in Small(n - 1) : h[s] = g[s]
      BY <3>2, <3>4
    <3>6. h = Entries(h, n)
      BY <3>3, <3>5
    <3> QED
      BY <2>1, <3>6
  <2> QED
    BY <2>2, <2>3
<1>4. Cardinality(S) \in Nat /\ \A s \in SUBSET S : Cardinality(s) <= Cardinality(S)
  BY FS_Subset, FS_CardinalityType
<1>5. Small(Cardinality(S)) = SUBSET S
  BY <1>4
<1>6. PICK g : g = Entries(g, Cardinality(S))
  BY <1>3, <1>4
<1> QED
  BY <1>5, <1>6 DEF Summing

\* Any two tables of sums agree where their values do.
LEMMA SumTablesAgree ==
    ASSUME NEW S, IsFiniteSet(S), NEW T \in SUBSET S, NEW e, NEW f, \A x \in T : e[x] = f[x],
           NEW g, Summing(g, e, S), NEW h, Summing(h, f, T)
    PROVE  \A s \in SUBSET T : g[s] = h[s]
<1> DEFINE Bad == {n \in Nat : \E s \in SUBSET T : Cardinality(s) = n /\ g[s] # h[s]}
<1>1. \A s \in SUBSET T : IsFiniteSet(s) /\ Cardinality(s) \in Nat /\ s \in SUBSET S
  BY FS_Subset, FS_CardinalityType
<1>2. Bad = {}
  <2> SUFFICES ASSUME Bad # {} PROVE FALSE
    OBVIOUS
  <2>1. PICK n \in Bad : \A m \in Bad : n <= m
    BY LeastNumber
  <2>2. PICK s \in SUBSET T : Cardinality(s) = n /\ g[s] # h[s]
    BY <2>1
  <2>3. s # {}
    BY <2>2 DEF Summing
  <2> DEFINE x == Choice(s)
  <2>4. x \in s
    BY <2>3 DEF Choice
  <2>5. s \ {x} \in SUBSET T /\ Cardinality(s \ {x}) = n - 1 /\ n - 1 \in Nat
    <3>1. Cardinality(s \ {x}) = n - 1
      BY <1>1, <2>2, <2>4, FS_RemoveElement
    <3>2. s \ {x} \in SUBSET T
      OBVIOUS
    <3> QED
      BY <1>1, <3>1, <3>2
  <2>6. g[s \ {x}] = h[s \ {x}]
    <3> HIDE DEF x
    <3>1. n - 1 \notin Bad
      BY <2>1, <2>5
    <3> QED
      BY <2>5, <3>1
  <2>7. g[s] = e[x] + g[s \ {x}]
    BY <1>1, <2>3 DEF Summing
  <2>8. h[s] = f[x] + h[s \ {x}]
    BY <2>3 DEF Summing
  <2> QED
    BY <2>2, <2>4, <2>6, <2>7, <2>8
<1> QED
  BY <1>1, <1>2

\* The sum over a set: nothing for the empty set, and otherwise the value of the
\* chosen element and the sum over the others.
LEMMA SumUnfolds ==
    ASSUME NEW S, IsFiniteSet(S), NEW f
    PROVE  SumFunctionOnSet(f, S)
            = IF S = {} THEN 0 ELSE f[Choice(S)] + SumFunctionOnSet(f, S \ {Choice(S)})
<1> DEFINE T == S \ {Choice(S)}
           g == CHOOSE g : Summing(g, f, S)
           h == CHOOSE h : Summing(h, f, T)
<1>1. IsFiniteSet(T) /\ T \in SUBSET S
  BY FS_Subset
<1>2. Summing(g, f, S)
  <2>1. \E k : Summing(k, f, S)
    BY SumTableExists
  <2> QED
    BY <2>1, Zenon
<1>3. Summing(h, f, T)
  <2> HIDE DEF T
  <2>1. \E k : Summing(k, f, T)
    BY <1>1, SumTableExists
  <2> QED
    BY <2>1, Zenon
<1>4. SumFunctionOnSet(f, S) = g[S] /\ SumFunctionOnSet(f, T) = h[T]
  BY SumIsOfTable, Zenon
<1> HIDE DEF g, h
<1>5. g[T] = h[T]
  <2> HIDE DEF T
  <2>1. \A s \in SUBSET T : g[s] = h[s]
    BY <1>1, <1>2, <1>3, SumTablesAgree
  <2> QED
    BY <2>1
<1>6. g[S] = IF S = {} THEN 0 ELSE f[Choice(S)] + g[T]
  BY <1>2 DEF Summing
<1> QED
  BY <1>4, <1>5, <1>6

\* Nothing sums to nothing.
LEMMA SumEmpty ==
    ASSUME NEW f
    PROVE  SumFunctionOnSet(f, {}) = 0
BY SumUnfolds, FS_EmptySet

\* Equal values have equal sums.
LEMMA SumCongruence ==
    ASSUME NEW S, IsFiniteSet(S), NEW e, NEW f, \A x \in S : e[x] = f[x]
    PROVE  SumFunctionOnSet(e, S) = SumFunctionOnSet(f, S)
<1> DEFINE g == CHOOSE g : Summing(g, e, S)
           h == CHOOSE h : Summing(h, f, S)
<1>1. Summing(g, e, S)
  <2>1. \E k : Summing(k, e, S)
    BY SumTableExists
  <2> QED
    BY <2>1, Zenon
<1>2. Summing(h, f, S)
  <2>1. \E k : Summing(k, f, S)
    BY SumTableExists
  <2> QED
    BY <2>1, Zenon
<1>3. SumFunctionOnSet(e, S) = g[S] /\ SumFunctionOnSet(f, S) = h[S]
  BY SumIsOfTable, Zenon
<1> HIDE DEF g, h
<1>4. \A s \in SUBSET S : g[s] = h[s]
  BY <1>1, <1>2, SumTablesAgree
<1> QED
  BY <1>3, <1>4

\* The sum of numbers is a number, and any element may be taken out first.
LEMMA SumSplits ==
    ASSUME NEW S, IsFiniteSet(S), NEW f, \A x \in S : f[x] \in Nat
    PROVE  /\ SumFunctionOnSet(f, S) \in Nat
           /\ \A x \in S : SumFunctionOnSet(f, S) = f[x] + SumFunctionOnSet(f, S \ {x})
<1> DEFINE Sum(T) == SumFunctionOnSet(f, T)
           Good(T) == Sum(T) \in Nat /\ \A x \in T : Sum(T) = f[x] + Sum(T \ {x})
           Bad == {n \in Nat : \E T \in SUBSET S : Cardinality(T) = n /\ ~Good(T)}
<1> HIDE DEF Sum
<1>1. \A T \in SUBSET S : IsFiniteSet(T) /\ Cardinality(T) \in Nat
  BY FS_Subset, FS_CardinalityType
<1>2. \A T \in SUBSET S : Sum(T) = IF T = {} THEN 0 ELSE f[Choice(T)] + Sum(T \ {Choice(T)})
  BY <1>1, SumUnfolds DEF Sum
<1>3. Bad = {}
  <2> SUFFICES ASSUME Bad # {} PROVE FALSE
    OBVIOUS
  <2>1. PICK n \in Bad : \A m \in Bad : n <= m
    BY LeastNumber
  <2>2. PICK T \in SUBSET S : Cardinality(T) = n /\ ~Good(T)
    BY <2>1
  <2>3. T # {}
    <3>1. Sum({}) = 0
      BY <1>2
    <3>2. Good({})
      BY <3>1
    <3> HIDE DEF Good
    <3> QED
      BY <2>2, <3>2
  <2> DEFINE y == Choice(T)
  <2>4. y \in T
    BY <2>3 DEF Choice
  <2>5. \A U \in SUBSET S : Cardinality(U) < n => Good(U)
    <3> HIDE DEF Good
    <3> SUFFICES ASSUME NEW U \in SUBSET S, Cardinality(U) < n, ~Good(U) PROVE FALSE
      OBVIOUS
    <3>1. Cardinality(U) \in Bad
      BY <1>1
    <3>2. n \in Nat
      BY <2>1
    <3> QED
      BY <1>1, <2>1, <3>1, <3>2
  <2>6. \A x \in T : T \ {x} \in SUBSET S /\ Cardinality(T \ {x}) < n
    <3> TAKE x \in T
    <3>1. Cardinality(T \ {x}) = n - 1 /\ n \in Nat
      BY <1>1, <2>2, FS_RemoveElement
    <3> QED
      BY <3>1
  <2>7. \A x \in T : Good(T \ {x})
    <3> HIDE DEF Good
    <3> QED
      BY <2>5, <2>6
  <2>8. Sum(T) = f[y] + Sum(T \ {y})
    BY <1>2, <2>3
  <2> HIDE DEF y
  <2>9. Sum(T) \in Nat
    BY <2>4, <2>7, <2>8
  <2>10. ASSUME NEW x \in T PROVE Sum(T) = f[x] + Sum(T \ {x})
    <3>1. CASE x = y
      BY <2>8, <3>1
    <3>2. CASE x # y
      <4>1. Sum(T \ {y}) = f[x] + Sum((T \ {y}) \ {x})
        BY <2>4, <2>7, <3>2
      <4>2. Sum(T \ {x}) = f[y] + Sum((T \ {x}) \ {y})
        BY <2>4, <2>7, <3>2
      <4>3. (T \ {y}) \ {x} = (T \ {x}) \ {y} /\ (T \ {x}) \ {y} \in SUBSET S
        OBVIOUS
      <4>4. Sum((T \ {x}) \ {y}) \in Nat
        <5>1. Cardinality((T \ {x}) \ {y}) < n
          <6>1. IsFiniteSet(T \ {x}) /\ Cardinality(T \ {x}) < n /\ Cardinality(T \ {x}) \in Nat
            BY <1>1, <2>6
          <6>2. Cardinality((T \ {x}) \ {y}) <= Cardinality(T \ {x})
                /\ Cardinality((T \ {x}) \ {y}) \in Nat
            BY <1>1, <4>3, <6>1, FS_Subset
          <6> QED
            BY <2>1, <6>1, <6>2
        <5> HIDE DEF Good
        <5>2. Good((T \ {x}) \ {y})
          BY <2>5, <4>3, <5>1
        <5> USE DEF Good
        <5> QED
          BY <5>2
      <4>5. f[x] \in Nat /\ f[y] \in Nat
        BY <2>4
      <4>6. Sum((T \ {y}) \ {x}) = Sum((T \ {x}) \ {y})
        BY <4>3
      <4> QED
        BY <2>8, <4>1, <4>2, <4>4, <4>5, <4>6
    <3> QED
      BY <3>1, <3>2
  <2> QED
    BY <2>2, <2>9, <2>10
<1>4. Good(S)
  <2> HIDE DEF Good
  <2> QED
    BY <1>1, <1>3
<1> QED
  BY <1>4 DEF Sum


\* The sum over a set is the sum over a part of it and over the rest.
LEMMA SumPartition ==
    ASSUME NEW S, IsFiniteSet(S), NEW f, \A x \in S : f[x] \in Nat, NEW T \in SUBSET S
    PROVE  SumFunctionOnSet(f, S) = SumFunctionOnSet(f, T) + SumFunctionOnSet(f, S \ T)
<1> DEFINE Sum(U) == SumFunctionOnSet(f, U)
           Splits(U, V) == Sum(U) = Sum(V) + Sum(U \ V)
           Bad == {n \in Nat : \E U \in SUBSET S : \E V \in SUBSET U :
                                    Cardinality(V) = n /\ ~Splits(U, V)}
<1> HIDE DEF Sum
<1>1. \A U \in SUBSET S : /\ IsFiniteSet(U) /\ Cardinality(U) \in Nat
                          /\ \A x \in U : f[x] \in Nat
  BY FS_Subset, FS_CardinalityType
<1>2. \A U \in SUBSET S : Sum(U) \in Nat /\ \A x \in U : Sum(U) = f[x] + Sum(U \ {x})
  BY <1>1, SumSplits DEF Sum
<1>3. Sum({}) = 0
  BY SumEmpty DEF Sum
<1>4. Bad = {}
  <2> SUFFICES ASSUME Bad # {} PROVE FALSE
    OBVIOUS
  <2>1. PICK n \in Bad : \A m \in Bad : n <= m
    BY LeastNumber
  <2>2. PICK U \in SUBSET S : \E V \in SUBSET U : Cardinality(V) = n /\ ~Splits(U, V)
    BY <2>1
  <2>3. PICK V \in SUBSET U : Cardinality(V) = n /\ ~Splits(U, V)
    BY <2>2
  <2>4. V # {}
    <3>1. U \ {} = U
      OBVIOUS
    <3>2. Splits(U, {})
      BY <1>2, <1>3, <3>1
    <3> HIDE DEF Splits
    <3> QED
      BY <2>3, <3>2
  <2>5. PICK x \in V : TRUE
    BY <2>4
  <2> DEFINE X == U \ {x}
             Y == V \ {x}
  <2>6. X \in SUBSET S /\ Y \in SUBSET X /\ V \in SUBSET S /\ X \ Y = U \ V
    BY <2>5
  <2>7. Cardinality(Y) = n - 1 /\ n \in Nat /\ Cardinality(Y) \in Nat
    <3>1. Cardinality(Y) = n - 1
      BY <1>1, <2>3, <2>5, <2>6, FS_RemoveElement
    <3>2. Y \in SUBSET S
      BY <2>6
    <3> HIDE DEF Y
    <3> QED
      BY <1>1, <2>1, <3>1, <3>2
  <2>8. Sum(U) = f[x] + Sum(X) /\ Sum(V) = f[x] + Sum(Y) /\ f[x] \in Nat
    BY <1>1, <1>2, <2>5, <2>6
  <2> HIDE DEF X, Y
  <2>9. Splits(X, Y)
    <3> HIDE DEF Splits
    <3> SUFFICES ASSUME ~Splits(X, Y) PROVE FALSE
      OBVIOUS
    <3>1. n - 1 \in Bad
      BY <2>6, <2>7
    <3> QED
      BY <2>1, <2>7, <3>1
  <2>10. Sum(X) = Sum(Y) + Sum(U \ V)
    BY <2>6, <2>9
  <2>11. Sum(X) \in Nat /\ Sum(Y) \in Nat /\ Sum(U \ V) \in Nat
    <3>1. Y \in SUBSET S /\ U \ V \in SUBSET S
      BY <2>6
    <3> QED
      BY <1>2, <2>6, <3>1
  <2> QED
    BY <2>3, <2>8, <2>10, <2>11
<1>5. Splits(S, T)
  <2> HIDE DEF Splits
  <2> QED
    BY <1>1, <1>4
<1> QED
  BY <1>5 DEF Sum

\* A sum of nothings is nothing.
LEMMA SumOfZeros ==
    ASSUME NEW S, IsFiniteSet(S), NEW f, \A x \in S : f[x] = 0
    PROVE  SumFunctionOnSet(f, S) = 0
<1> DEFINE Sum(U) == SumFunctionOnSet(f, U)
           Bad == {n \in Nat : \E U \in SUBSET S : Cardinality(U) = n /\ Sum(U) # 0}
<1> HIDE DEF Sum
<1>1. \A U \in SUBSET S : /\ IsFiniteSet(U) /\ Cardinality(U) \in Nat
                          /\ \A x \in U : f[x] \in Nat
  BY FS_Subset, FS_CardinalityType
<1>2. \A U \in SUBSET S : \A x \in U : Sum(U) = f[x] + Sum(U \ {x})
  BY <1>1, SumSplits DEF Sum
<1>3. Sum({}) = 0
  BY SumEmpty DEF Sum
<1>4. Bad = {}
  <2> SUFFICES ASSUME Bad # {} PROVE FALSE
    OBVIOUS
  <2>1. PICK n \in Bad : \A m \in Bad : n <= m
    BY LeastNumber
  <2>2. PICK U \in SUBSET S : Cardinality(U) = n /\ Sum(U) # 0
    BY <2>1
  <2>3. PICK x \in U : TRUE
    BY <1>3, <2>2
  <2>4. Sum(U \ {x}) # 0
    BY <1>2, <2>2, <2>3
  <2>5. Cardinality(U \ {x}) = n - 1 /\ n \in Nat /\ Cardinality(U \ {x}) \in Nat
    <3>1. Cardinality(U \ {x}) = n - 1
      BY <1>1, <2>2, <2>3, FS_RemoveElement
    <3> QED
      BY <1>1, <2>1, <3>1
  <2>6. n - 1 \in Bad
    BY <2>4, <2>5
  <2> QED
    BY <2>1, <2>5, <2>6
<1> QED
  BY <1>1, <1>4 DEF Sum

\* A part of a set of numbers sums to no more than the set.
LEMMA SumMonotone ==
    ASSUME NEW S, IsFiniteSet(S), NEW f, \A x \in S : f[x] \in Nat, NEW T \in SUBSET S
    PROVE  SumFunctionOnSet(f, T) <= SumFunctionOnSet(f, S)
<1>1. IsFiniteSet(T) /\ IsFiniteSet(S \ T)
  BY FS_Subset
<1>2. SumFunctionOnSet(f, T) \in Nat /\ SumFunctionOnSet(f, S \ T) \in Nat
  BY <1>1, SumSplits
<1> QED
  BY <1>2, SumPartition

-----------------------------------------------------------------------------
(* The operators keep the type of a state.                                 *)

\* The window that governs an instant starts at an instant, so that every
\* charge names a lineage (fixedWindowExpired, budgetScope).
LEMMA WindowType ==
    ASSUME NEW b \in Budgets, NEW t \in Time
    PROVE  Window(b, t) \in Time
<1> DEFINE w == WindowLength[b]
<1>1. w \in Nat /\ MaxTime \in Nat
  BY WindowAssumption, TimeAssumption
<1>2. ASSUME w # 0
      PROVE  (t \div w) * w \in 0 .. t
  <2>1. t \in Nat /\ w \in Nat /\ w > 0
    BY <1>1, <1>2 DEF Time
  <2>2. \A x \in Nat, y \in Nat : y > 0 => (x \div y) * y >= 0 /\ (x \div y) * y <= x
                                           /\ (x \div y) * y \in Int
    BY Z3
  <2> QED
    BY <2>1, <2>2
<1> HIDE DEF w
<1> QED
  BY <1>1, <1>2 DEF Window, Time, w

\* Every charge names a lineage of the model (budgetScope).
LEMMA LineageType ==
    ASSUME NEW b \in Budgets, NEW t \in Time
    PROVE  Lineage(b, t) \in Lineages
BY WindowType DEF Lineage, Lineages

\* The empty usage, charge, reservation, approval and record are well typed.
LEMMA ZeroTypes ==
    /\ 0 \in Time
    /\ ZeroUsage \in Usage
    /\ NoCharge \in Charge
    /\ NoReservation \in Reservation
    /\ NoRecord \in BudgetRecord
    /\ NoApproval \in ApprovalRecord
<1>1. 0 \in Time
  BY TimeAssumption DEF Time
<1>2. ZeroUsage \in Usage
  BY DEF ZeroUsage, Usage
<1>3. NoCharge \in Charge
  BY <1>2 DEF NoCharge, Charge
<1>4. NoReservation \in Reservation
  BY <1>1, <1>3 DEF NoReservation, Reservation, ReservationStatuses
<1>5. NoRecord \in BudgetRecord
  BY <1>2 DEF NoRecord, BudgetRecord
<1>6. NoApproval \in ApprovalRecord
  BY <1>1 DEF NoApproval, ApprovalRecord, ApprovalStatuses
<1> QED
  BY <1>1, <1>2, <1>3, <1>4, <1>5, <1>6

\* A set of calls has a natural number of members, however it is chosen.
LEMMA CallsCardinality ==
    ASSUME NEW C \in SUBSET Calls
    PROVE  IsFiniteSet(C) /\ Cardinality(C) \in Nat
BY CallsAssumption, FS_Subset, FS_CardinalityType

\* The calls that charge a lineage can be counted.
LEMMA ChargingCardinality ==
    ASSUME NEW S, NEW l, NEW C
    PROVE  /\ IsFiniteSet(Charging(S, l) \cap C)
           /\ Cardinality(Charging(S, l) \cap C) \in Nat
<1>1. Charging(S, l) \cap C \in SUBSET Calls
  BY DEF Charging, Active
<1> QED
  BY <1>1, CallsCardinality

\* The number of denials that fit a lineage is a natural number.
LEMMA DenialsType ==
    ASSUME NEW S, NEW l, NEW n \in Nat
    PROVE  AdmittedDenials(S, l, n) \in Nat
<1> DEFINE D == {j \in 1 .. n : Available(S, l, [ZeroUsage EXCEPT !["denied"] = j])}
<1>1. IsFiniteSet(1 .. n)
  BY FS_Interval
<1>2. D \subseteq 1 .. n
  OBVIOUS
<1>3. IsFiniteSet(D)
  BY <1>1, <1>2, FS_Subset
<1>4. Cardinality(D) \in Nat
  BY <1>3, FS_CardinalityType
<1> QED
  BY <1>4 DEF AdmittedDenials

\* A state whose one part is replaced by a value of its type is a state.
LEMMA StateUpdate ==
    ASSUME NEW S \in State
    PROVE  /\ \A f \in [Lineages -> BudgetRecord] : [S EXCEPT !.records = f] \in State
           /\ \A f \in [Calls -> Reservation] : [S EXCEPT !.reservations = f] \in State
           /\ \A f \in [Calls -> Outcomes \cup {"absent"}] :
                  [S EXCEPT !.terminals = f] \in State
           /\ \A f \in [Keys -> ApprovalRecord] : [S EXCEPT !.approvals = f] \in State
<1>1. \A f \in [Lineages -> BudgetRecord] : [S EXCEPT !.records = f] \in State
  BY DEF State
<1>2. \A f \in [Calls -> Reservation] : [S EXCEPT !.reservations = f] \in State
  BY DEF State
<1>3. \A f \in [Calls -> Outcomes \cup {"absent"}] : [S EXCEPT !.terminals = f] \in State
  BY DEF State
<1>4. \A f \in [Keys -> ApprovalRecord] : [S EXCEPT !.approvals = f] \in State
  BY DEF State
<1> QED
  BY <1>1, <1>2, <1>3, <1>4

\* The parts of a state have the types of its collections.
LEMMA StateParts ==
    ASSUME NEW S \in State
    PROVE  /\ \A l \in Lineages : S.records[l] \in BudgetRecord
           /\ \A c \in Calls : S.reservations[c] \in Reservation
           /\ \A c \in Calls, b \in Budgets : S.reservations[c].charges[b] \in Charge
           /\ \A c \in Calls : S.terminals[c] \in Outcomes \cup {"absent"}
           /\ \A k \in Keys : S.approvals[k] \in ApprovalRecord
<1>1. /\ S.records \in [Lineages -> BudgetRecord]
      /\ S.reservations \in [Calls -> Reservation]
      /\ S.terminals \in [Calls -> Outcomes \cup {"absent"}]
      /\ S.approvals \in [Keys -> ApprovalRecord]
  BY DEF State
<1>2. \A r \in Reservation : r.charges \in [Budgets -> Charge]
  BY DEF Reservation
<1> QED
  BY <1>1, <1>2

\* What calls hold of a lineage is a number, of each and together.
LEMMA HeldType ==
    ASSUME NEW S \in State, NEW l \in Lineages, NEW d \in Dims, NEW C
    PROVE  /\ \A c \in Calls : Held(S, l, d)[c] \in Nat
           /\ SumFunctionOnSet(Held(S, l, d), Charging(S, l) \cap C) \in Nat
<1>1. \A c \in Calls : Held(S, l, d)[c] \in Nat
  <2>1. l[1] \in Budgets
    BY DEF Lineages
  <2> QED
    BY <2>1, StateParts DEF Held, Charge, Usage
<1>2. Charging(S, l) \cap C \in SUBSET Calls
  BY DEF Charging, Active
<1>3. IsFiniteSet(Charging(S, l) \cap C)
  BY ChargingCardinality
<1> QED
  BY <1>1, <1>2, <1>3, SumSplits

\* Consumption added to a budget record leaves a budget record.
LEMMA RecordUpdate ==
    ASSUME NEW r \in BudgetRecord, NEW d \in Dims, NEW n \in Nat
    PROVE  [r EXCEPT !.consumed[d] = @ + n] \in BudgetRecord
<1>1. r.consumed \in [Dims -> Nat] /\ r.generation \in Generations \cup {0}
  BY DEF BudgetRecord, Usage
<1>2. [r.consumed EXCEPT ![d] = @ + n] \in [Dims -> Nat]
  BY <1>1
<1> QED
  BY <1>1, <1>2 DEF BudgetRecord, Usage

\* A charge with another reserved amount is a charge.
LEMMA ChargeUpdate ==
    ASSUME NEW g \in Charge, NEW d \in Dims, NEW n \in Nat
    PROVE  [g EXCEPT !.reserved[d] = n] \in Charge
<1>1. g.reserved \in [Dims -> Nat] /\ g.approvals \in Nat
  BY DEF Charge, Usage
<1>2. [g.reserved EXCEPT ![d] = n] \in [Dims -> Nat]
  BY <1>1
<1> QED
  BY <1>1, <1>2 DEF Charge, Usage

\* A reservation with other charges or another status is a reservation.
LEMMA ReservationUpdate ==
    ASSUME NEW r \in Reservation
    PROVE  /\ \A f \in [Budgets -> Charge] : [r EXCEPT !.charges = f] \in Reservation
           /\ \A s \in ReservationStatuses : [r EXCEPT !.status = s] \in Reservation
<1>1. \A f \in [Budgets -> Charge] : [r EXCEPT !.charges = f] \in Reservation
  BY DEF Reservation
<1>2. \A s \in ReservationStatuses : [r EXCEPT !.status = s] \in Reservation
  BY DEF Reservation
<1> QED
  BY <1>1, <1>2

\* Charging a dimension of every lineage of a call keeps the type (commitResult).
LEMMA ConsumeType ==
    ASSUME NEW S \in State, NEW c, NEW d \in Dims, NEW amount \in [Budgets -> Nat]
    PROVE  Consume(S, c, d, amount) \in State
<1>1. \A l \in Lineages : [S.records[l] EXCEPT !.consumed[d] = @ + amount[l[1]]] \in BudgetRecord
  BY StateParts, RecordUpdate DEF Lineages
<1> QED
  BY <1>1, StateParts, StateUpdate DEF Consume

\* Setting a reserved amount in the charges of some calls keeps the type.
LEMMA SetReservedType ==
    ASSUME NEW S \in State, NEW C, NEW d \in Dims, NEW n \in Nat
    PROVE  SetReserved(S, C, d, n) \in State
<1> DEFINE f(c) == [b \in Budgets |->
                IF b \in BudgetsOf[c] /\ Limits[b][d] # 0
                THEN [S.reservations[c].charges[b] EXCEPT !.reserved[d] = n]
                ELSE S.reservations[c].charges[b]]
<1>1. \A c \in Calls : f(c) \in [Budgets -> Charge]
  BY StateParts, ChargeUpdate
<1> HIDE DEF f
<1>2. \A c \in Calls : [S.reservations[c] EXCEPT !.charges = f(c)] \in Reservation
  BY <1>1, StateParts, ReservationUpdate
<1>3. [c \in Calls |-> IF c \in C THEN [S.reservations[c] EXCEPT !.charges = f(c)]
                       ELSE S.reservations[c]] \in [Calls -> Reservation]
  BY <1>2, StateParts
<1> QED
  BY <1>3, StateUpdate DEF SetReserved, f

\* Changing the status of some reservations keeps the type.
LEMMA SetStatusType ==
    ASSUME NEW S \in State, NEW C, NEW s \in ReservationStatuses
    PROVE  SetStatus(S, C, s) \in State
BY StateParts, StateUpdate, ReservationUpdate DEF SetStatus

\* Closing some calls keeps the type (removeReservationAndRecord).
LEMMA RecordTerminalType ==
    ASSUME NEW S \in State, NEW C, NEW o \in Outcomes
    PROVE  RecordTerminal(S, C, o) \in State
BY ZeroTypes, StateParts DEF RecordTerminal, State

\* Committing the dispatch of some calls keeps the type (commitDispatch).
LEMMA CommitDispatchType ==
    ASSUME NEW S \in State, NEW C
    PROVE  CommitDispatch(S, C) \in State
<1> DEFINE f == [l \in Lineages |->
            [S.records[l] EXCEPT !.consumed["call"] =
                @ + SumFunctionOnSet(Held(S, l, "call"), Charging(S, l) \cap C)]]
<1>1. \A l \in Lineages : SumFunctionOnSet(Held(S, l, "call"), Charging(S, l) \cap C) \in Nat
  BY HeldType DEF Dims
<1>2. f \in [Lineages -> BudgetRecord]
  BY <1>1, StateParts, RecordUpdate DEF Dims
<1> HIDE DEF f
<1>3. [S EXCEPT !.records = f] \in State
  BY <1>2, StateUpdate
<1> QED
  BY <1>3, SetReservedType DEF CommitDispatch, Dims, f

\* Charging a result keeps the type (commitResult).
LEMMA CommitResultType ==
    ASSUME NEW S \in State, NEW c, NEW amount \in [Budgets -> Nat]
    PROVE  CommitResult(S, c, amount) \in State
BY ConsumeType DEF CommitResult, Dims

\* Charging the denials of some calls keeps the type (recordDenialCharges).
LEMMA RecordDenialChargesType ==
    ASSUME NEW S \in State, NEW C
    PROVE  RecordDenialCharges(S, C) \in State
<1>1. \A l \in Lineages :
          AdmittedDenials(S, l, Cardinality(Charging(S, l) \cap C)) \in Nat
  BY ChargingCardinality, DenialsType
<1>2. [l \in Lineages |->
        [S.records[l] EXCEPT !.consumed["denied"] =
            @ + AdmittedDenials(S, l, Cardinality(Charging(S, l) \cap C))]]
        \in [Lineages -> BudgetRecord]
  BY <1>1, StateParts, RecordUpdate DEF Dims
<1> QED
  BY <1>2, StateUpdate DEF RecordDenialCharges

\* Consuming a reserved approval keeps the type (commitApprovalCharges).
LEMMA CommitApprovalChargesType ==
    ASSUME NEW S \in State, NEW c \in Calls
    PROVE  CommitApprovalCharges(S, c) \in State
<1> DEFINE unit == [b \in Budgets |-> IF Limits[b]["approval"] = 0 THEN 0 ELSE 1]
           T == SetReserved(Consume(S, c, "approval", unit), {c}, "approval", 0)
           f == [b \in Budgets |->
                    IF b \in ApprovalBudgets(c)
                    THEN [T.reservations[c].charges[b] EXCEPT !.approvals = @ + 1]
                    ELSE T.reservations[c].charges[b]]
<1>1. unit \in [Budgets -> Nat]
  OBVIOUS
<1> HIDE DEF unit
<1>2. T \in State
  BY <1>1, ConsumeType, SetReservedType DEF Dims
<1> HIDE DEF T
<1>3. \A g \in Charge : [g EXCEPT !.approvals = @ + 1] \in Charge
  BY DEF Charge
<1>4. f \in [Budgets -> Charge]
  BY <1>2, <1>3, StateParts
<1> HIDE DEF f
<1>5. [T EXCEPT !.reservations[c].charges = f] \in State
  BY <1>2, <1>4, StateParts, ReservationUpdate DEF State
<1> QED
  BY <1>5 DEF CommitApprovalCharges, T, f, unit

\* Deciding pending approvals negatively keeps the type (finishPendingApproval).
LEMMA FinishPendingType ==
    ASSUME NEW S \in State, NEW K, NEW s \in ApprovalStatuses,
           NEW receipt \in Receipts \cup {0}
    PROVE  FinishPending(S, K, s, receipt) \in State
<1> DEFINE f == [k \in Keys |->
                        IF k \in K
                        THEN [S.approvals[k] EXCEPT !.status = s, !.receipt = receipt]
                        ELSE S.approvals[k]]
<1>1. f \in [Keys -> ApprovalRecord]
  BY StateParts DEF ApprovalRecord
<1> HIDE DEF f
<1>2. [S EXCEPT !.approvals = f] \in State
  BY <1>1, StateUpdate
<1>3. SetReserved([S EXCEPT !.approvals = f], CallsOf(K, "post_result"), "approval", 0) \in State
  BY <1>2, SetReservedType DEF Dims
<1> QED
  BY <1>3, RecordDenialChargesType, RecordTerminalType DEF FinishPending, f, Outcomes

\* A published state has the type of a state.
LEMMA WrittenType ==
    ASSUME NEW S \in State, now \in Time
    PROVE  Written(S) \in State
<1> DEFINE T == [S EXCEPT !.observed = now]
<1>1. T \in State
  BY DEF State
<1> HIDE DEF T
<1>2. PruneRetainedHistory(T, now) \in State
  BY <1>1, ZeroTypes, StateParts DEF PruneRetainedHistory, State
<1> QED
  BY <1>2 DEF Written, T

-----------------------------------------------------------------------------
(* Type correctness.                                                       *)

\* A published state is well typed when the one written is.
LEMMA CommitType ==
    ASSUME TypeOK, NEW T \in State, Commit(T)
    PROVE  state' \in State
BY WrittenType DEF Commit, TypeOK

\* Pruning windows and adopting records keeps the type (prepareCandidates).
LEMMA UpsertType ==
    ASSUME TypeOK, NEW c
    PROVE  UpsertRecords(PruneWindows(state), c) \in State
<1>1. PruneWindows(state) \in State
  <2>1. [l \in Lineages |->
            IF ElapsedWindow(state, l)
               /\ \E t \in Time : t > l[2] /\ ElapsedWindow(state, <<l[1], t>>)
            THEN NoRecord ELSE state.records[l]] \in [Lineages -> BudgetRecord]
    BY ZeroTypes, StateParts DEF TypeOK
  <2> QED
    BY <2>1, StateUpdate DEF PruneWindows, TypeOK
<1> DEFINE S == PruneWindows(state)
<1> HIDE DEF S
<1>2. ASSUME NEW l \in Lineages
      PROVE  [S.records[l] EXCEPT !.generation = policy] \in BudgetRecord
  BY <1>1, StateParts DEF S, BudgetRecord, TypeOK
<1>3. UpsertRecords(S, c) \in State
  BY <1>1, <1>2, StateParts, StateUpdate DEF S, UpsertRecords
<1> QED
  BY <1>3 DEF S

\* A new reservation is well typed (newReservation).
LEMMA NewReservationType ==
    ASSUME TypeOK, NEW o \in Owners, NEW c \in Calls
    PROVE  NewReservation(o, c) \in Reservation
<1>1. \A b \in Budgets : RequiredUsage(b, c) \in Usage
  BY ResultAssumption DEF RequiredUsage, Usage
<1>2. [b \in Budgets |->
        IF b \in BudgetsOf[c]
        THEN [reserved |-> RequiredUsage(b, c), approvals |-> 0] ELSE NoCharge]
          \in [Budgets -> Charge]
  BY <1>1, ZeroTypes DEF Charge
<1> QED
  BY <1>2 DEF NewReservation, Reservation, ReservationStatuses, TypeOK

\* Pruning history keeps the type (pruneRetainedHistory).
LEMMA PruneType ==
    ASSUME NEW S \in State, NEW t
    PROVE  PruneRetainedHistory(S, t) \in State
BY ZeroTypes, StateParts DEF PruneRetainedHistory, State

\* The history of one call can be replaced.
LEMMA HistoryUpdate ==
    ASSUME TypeOK, NEW c \in Calls, NEW h \in History
    PROVE  [history EXCEPT ![c] = h] \in [Calls -> History]
BY DEF TypeOK

\* Reserve keeps the type, admitted or exhausted (reserveLocked).
LEMMA ReserveType ==
    ASSUME TypeOK, NEW o \in Owners, NEW c \in Calls, Reserve(o, c)
    PROVE  TypeOK'
<1> DEFINE declared == UpsertRecords(PruneWindows(state), c)
           kept     == PruneRetainedHistory(declared, now)
           T        == [kept EXCEPT !.reservations[c] = NewReservation(o, c)]
<1>1. declared \in State
  BY UpsertType
<1>2. kept \in State
  BY <1>1, PruneType
<1>3. T \in State
  BY <1>2, NewReservationType DEF State
<1>4. {Lineage(b, now) : b \in BudgetsOf[c]} \in SUBSET Lineages
  BY BudgetsAssumption, LineageType DEF TypeOK
<1>5. CASE Commit(declared) /\ UNCHANGED history
  BY <1>1, <1>5, CommitType DEF Reserve, TypeOK
<1>6. CASE /\ Commit(T)
           /\ history' = [history EXCEPT ![c] =
                    [history[c] EXCEPT
                        !.admitted = @ + 1,
                        !.lineages = {Lineage(b, now) : b \in BudgetsOf[c]}]]
  <2>1. state' \in State
    BY <1>3, <1>6, CommitType
  <2>2. history' \in [Calls -> History]
    <3>1. history[c] \in History /\ history \in [Calls -> History]
      BY DEF TypeOK
    <3>2. ASSUME NEW L \in SUBSET Lineages
          PROVE  [history[c] EXCEPT !.admitted = @ + 1, !.lineages = L] \in History
      <4>1. history[c].admitted + 1 \in Nat
        BY <3>1 DEF History
      <4> DEFINE n == history[c].admitted + 1
      <4> HIDE DEF n
      <4>2. [history[c] EXCEPT !.admitted = n, !.lineages = L] \in History
        BY <3>1, <4>1 DEF History, n
      <4> QED
        BY <4>2 DEF n
    <3> DEFINE L == {Lineage(b, now) : b \in BudgetsOf[c]}
    <3> HIDE DEF L
    <3>3. [history[c] EXCEPT !.admitted = @ + 1, !.lineages = L] \in History
      BY <1>4, <3>2 DEF L
    <3>4. history' = [history EXCEPT ![c] =
                        [history[c] EXCEPT !.admitted = @ + 1, !.lineages = L]]
      BY <1>6 DEF L
    <3> QED
      BY <3>3, <3>4, HistoryUpdate
  <2> QED
    BY <2>1, <2>2 DEF Reserve, TypeOK
<1> QED
  BY <1>5, <1>6 DEF Reserve

\* The auxiliary notes of a dispatch or a block keep the type.
LEMMA NoteTypes ==
    ASSUME TypeOK, NEW C
    PROVE  /\ NoteBlocked(C) => history' \in [Calls -> History]
           /\ NoteSent(C) => history' \in [Calls -> History]
<1>1. \A c \in Calls : history[c] \in History
  BY DEF TypeOK
<1>2. \A h \in History : [h EXCEPT !.blocked = TRUE] \in History
  BY DEF History
<1>3. \A h \in History : [h EXCEPT !.sent = TRUE] \in History
  BY DEF History
<1> QED
  BY <1>1, <1>2, <1>3 DEF NoteBlocked, NoteSent

\* An operation that leaves the environment alone keeps the type when it
\* publishes a state and keeps the auxiliary record's type.
LEMMA PublishType ==
    ASSUME TypeOK, NEW T \in State, Commit(T), history' \in [Calls -> History],
           UNCHANGED <<now, policy, issued>>
    PROVE  TypeOK'
BY CommitType DEF TypeOK

\* Deciding pending approvals is a well-typed step.
LEMMA FinishType ==
    ASSUME TypeOK, NEW K, NEW s \in FailureStatuses, NEW r \in Receipts \cup {0},
           Finish(K, s, r)
    PROVE  TypeOK'
BY FinishPendingType, NoteTypes, PublishType DEF Finish, TypeOK, ApprovalStatuses

\* What a call returned, and how often it was approved or asked, are naturals.
LEMMA HistoryCounts ==
    ASSUME TypeOK, NEW c \in Calls
    PROVE  /\ \A n \in Nat : [history EXCEPT ![c].returned = n] \in [Calls -> History]
           /\ [history EXCEPT ![c].approved = @ + 1] \in [Calls -> History]
           /\ \A p \in Phases :
                 [history EXCEPT ![c].asked[p] = @ + 1] \in [Calls -> History]
<1>1. history \in [Calls -> History] /\ history[c] \in History
  BY DEF TypeOK
<1>2. ASSUME NEW n \in Nat
      PROVE  [history EXCEPT ![c].returned = n] \in [Calls -> History]
  BY <1>1 DEF History
<1>3. ASSUME NEW n \in Nat
      PROVE  [history EXCEPT ![c].approved = n] \in [Calls -> History]
  BY <1>1 DEF History
<1>4. [history EXCEPT ![c].approved = @ + 1] \in [Calls -> History]
  <2>1. history[c].approved + 1 \in Nat
    BY <1>1 DEF History
  <2> QED
    BY <1>1, <1>3, <2>1
<1>5. ASSUME NEW f \in [Phases -> Nat]
      PROVE  [history EXCEPT ![c].asked = f] \in [Calls -> History]
  BY <1>1 DEF History
<1>6. ASSUME NEW p \in Phases
      PROVE  [history EXCEPT ![c].asked[p] = @ + 1] \in [Calls -> History]
  <2>1. history[c].asked \in [Phases -> Nat]
    BY <1>1 DEF History
  <2>2. [history[c].asked EXCEPT ![p] = @ + 1] \in [Phases -> Nat]
    BY <2>1
  <2> QED
    BY <1>1, <1>5, <2>1, <2>2
<1> QED
  BY <1>2, <1>4, <1>6

\* Every operation on a reservation keeps the type.
LEMMA ReservationStepType ==
    ASSUME TypeOK, NEW c \in Calls, ReservationStep(c)
    PROVE  TypeOK'
<1>0. state \in State /\ history \in [Calls -> History]
  BY DEF TypeOK
<1>1. ASSUME NEW o \in Owners, Reserve(o, c)
      PROVE  TypeOK'
  BY <1>1, ReserveType
<1>2. CASE RefuseStaleContract(c)
  BY <1>0, <1>2, PublishType DEF RefuseStaleContract, PersistClockObservation
<1>3. CASE MarkDispatched(c)
  BY <1>0, <1>3, CommitDispatchType, SetStatusType, NoteTypes, PublishType
     DEF MarkDispatched, ReservationStatuses
<1>4. CASE Release(c)
  BY <1>0, <1>4, RecordTerminalType, PublishType DEF Release, Outcomes
<1>5. CASE RecordDenied(c)
  BY <1>0, <1>5, RecordDenialChargesType, RecordTerminalType, NoteTypes, PublishType
     DEF RecordDenied, Outcomes
<1>6. CASE MarkIndeterminate(c)
  <2>1. SetStatus(CommitDispatch(state, {c}), {c}, "indeterminate") \in State
    BY <1>0, CommitDispatchType, SetStatusType DEF ReservationStatuses
  <2>2. SetStatus(state, {c}, "indeterminate") \in State
    BY <1>0, SetStatusType DEF ReservationStatuses
  <2> QED
    BY <1>0, <1>6, <2>1, <2>2, NoteTypes, PublishType DEF MarkIndeterminate
<1>7. ASSUME NEW n \in ResultSizes, Settle(c, n)
      PROVE  TypeOK'
  <2>1. n \in Nat /\ [b \in Budgets |-> n] \in [Budgets -> Nat]
    BY ResultAssumption
  <2>2. SetStatus(state, {c}, "indeterminate") \in State
    BY <1>0, SetStatusType DEF ReservationStatuses
  <2>3. RecordTerminal(CommitResult(state, c, [b \in Budgets |-> n]), {c}, "settled") \in State
    BY <1>0, <2>1, CommitResultType, RecordTerminalType DEF Outcomes
  <2>4. [history EXCEPT ![c].returned = n] \in [Calls -> History]
    BY <2>1, HistoryCounts
  <2>5. CASE Commit(SetStatus(state, {c}, "indeterminate")) /\ UNCHANGED history
    BY <1>0, <1>7, <2>2, <2>5, PublishType DEF Settle
  <2>6. CASE /\ Commit(RecordTerminal(CommitResult(state, c, [b \in Budgets |-> n]),
                                      {c}, "settled"))
             /\ history' = [history EXCEPT ![c].returned = n]
    BY <1>7, <2>3, <2>4, <2>6, PublishType DEF Settle
  <2> QED
    BY <1>7, <2>5, <2>6 DEF Settle
<1>8. ASSUME NEW n \in ResultSizes, NEW o \in {"settled", "indeterminate_committed"},
             ReconcileIndeterminate(c, o, n)
      PROVE  TypeOK'
  <2> DEFINE amount == [b \in Budgets |->
                 IF o = "settled" THEN n
                 ELSE state.reservations[c].charges[b].reserved["result"]]
             r == IF o = "settled" THEN n ELSE MaxResult[c]
  <2>1. amount \in [Budgets -> Nat] /\ r \in Nat
    <3>1. \A b \in Budgets : state.reservations[c].charges[b].reserved["result"] \in Nat
      BY <1>0, StateParts DEF Charge, Usage, Dims
    <3> QED
      BY <3>1, ResultAssumption
  <2> HIDE DEF amount, r
  <2>2. RecordTerminal(CommitResult(state, c, amount), {c}, o) \in State
    BY <1>0, <2>1, CommitResultType, RecordTerminalType DEF Outcomes
  <2>3. Reconciled(state, c, o, n) \in State
    BY <2>2 DEF Reconciled, amount
  <2>4. history' \in [Calls -> History]
    BY <1>8, <2>1, HistoryCounts DEF ReconcileIndeterminate, r
  <2> QED
    BY <1>8, <2>3, <2>4, PublishType DEF ReconcileIndeterminate
<1> QED
  BY <1>1, <1>2, <1>3, <1>4, <1>5, <1>6, <1>7, <1>8 DEF ReservationStep

\* Abandoning an owner keeps the type (MarkOwnerAbandoned).
LEMMA AbandonType ==
    ASSUME TypeOK, NEW o \in Owners, MarkOwnerAbandoned(o)
    PROVE  TypeOK'
<1> DEFINE owned   == {c \in Active(state) : /\ state.reservations[c].owner = o
                                             /\ Status(state, c) # "indeterminate"}
           waiting == {k \in Pending(state) : k[1] \in owned}
           unsent  == {c \in owned : Status(state, c) = "reserved"}
           f       == [k \in Keys |->
                          IF k \in waiting
                          THEN [state.approvals[k] EXCEPT !.status = "unavailable"]
                          ELSE state.approvals[k]]
           S       == [state EXCEPT !.approvals = f]
           T       == SetReserved(S, {k[1] : k \in waiting}, "approval", 0)
<1>1. state \in State
  BY DEF TypeOK
<1>2. f \in [Keys -> ApprovalRecord]
  <2>1. \A a \in ApprovalRecord : [a EXCEPT !.status = "unavailable"] \in ApprovalRecord
    BY DEF ApprovalRecord, ApprovalStatuses, FailureStatuses
  <2> QED
    BY <1>1, <2>1, StateParts
<1> HIDE DEF f
<1>3. S \in State
  BY <1>1, <1>2, StateUpdate
<1> HIDE DEF S
<1>4. T \in State
  BY <1>3, SetReservedType DEF Dims
<1>5. SetStatus(CommitDispatch(T, unsent), owned, "indeterminate") \in State
  BY <1>4, CommitDispatchType, SetStatusType DEF ReservationStatuses
<1>6. /\ Commit(SetStatus(CommitDispatch(T, unsent), owned, "indeterminate"))
      /\ NoteSent(unsent)
      /\ UNCHANGED <<now, policy, issued>>
  BY DEF MarkOwnerAbandoned, S, f
<1> QED
  BY <1>5, <1>6, NoteTypes, PublishType

\* Issuing an approval request keeps the type (persistPendingApproval).
LEMMA IssueApprovalType ==
    ASSUME TypeOK, NEW o \in Owners, NEW k \in Keys, IssueApproval(o, k)
    PROVE  TypeOK'
<1> DEFINE c == k[1]
           charged == IF ApprovalReserved(state, c) THEN state
                      ELSE SetReserved(state, {c}, "approval", 1)
           a == [status |-> "pending", expires |-> now + ApprovalTTL,
                 plan |-> policy, receipt |-> 0]
<1>1. charged \in State
  BY SetReservedType DEF TypeOK, Dims
<1>2. a \in ApprovalRecord
  <2>1. now + ApprovalTTL \in Time
    BY TimeAssumption DEF IssueApproval, TypeOK, Time
  <2> QED
    BY <2>1 DEF ApprovalRecord, ApprovalStatuses, TypeOK
<1> HIDE DEF a
<1>3. [charged EXCEPT !.approvals[k] = a] \in State
  BY <1>1, <1>2 DEF State
<1>4. c \in Calls /\ k[2] \in Phases
  BY DEF Keys
<1>5. /\ Commit([charged EXCEPT !.approvals[k] = a])
      /\ history' = [history EXCEPT ![c].asked[k[2]] = @ + 1]
      /\ UNCHANGED <<now, policy, issued>>
  BY DEF IssueApproval, a
<1> QED
  BY <1>3, <1>4, <1>5, HistoryCounts, PublishType

\* Consuming an approving receipt keeps the type (commitPendingApproval).
LEMMA ConsumeApprovedType ==
    ASSUME TypeOK, NEW o \in Owners, NEW k \in Keys, NEW r \in Receipts,
           ConsumeApproved(o, k, r)
    PROVE  TypeOK'
<1> DEFINE charged == IF BudgetsOf[k[1]] = {} THEN state
                      ELSE CommitApprovalCharges(state, k[1])
<1>1. k[1] \in Calls
  BY DEF Keys
<1>2. charged \in State
  BY <1>1, CommitApprovalChargesType DEF TypeOK
<1> HIDE DEF charged
<1>3. [charged EXCEPT !.approvals[k].status = "approved", !.approvals[k].receipt = r] \in State
  <2>1. charged.approvals \in [Keys -> ApprovalRecord]
    BY <1>2 DEF State
  <2>2. \A a \in ApprovalRecord :
            [a EXCEPT !.status = "approved", !.receipt = r] \in ApprovalRecord
    BY DEF ApprovalRecord, ApprovalStatuses
  <2>3. [charged.approvals EXCEPT ![k].status = "approved", ![k].receipt = r]
            \in [Keys -> ApprovalRecord]
    BY <2>1, <2>2
  <2>4. [charged EXCEPT !.approvals =
            [charged.approvals EXCEPT ![k].status = "approved", ![k].receipt = r]] \in State
    BY <1>2, <2>3, StateUpdate
  <2> QED
    BY <1>2, <2>1, <2>4 DEF State
<1>4. CASE ReceiptKnown(r, k)
  BY <1>4, FinishType DEF ConsumeApproved, FailureStatuses
<1>5. CASE ~ReceiptKnown(r, k)
  <2>1. /\ Commit([charged EXCEPT !.approvals[k].status = "approved",
                                  !.approvals[k].receipt = r])
        /\ history' = [history EXCEPT ![k[1]].approved = @ + 1]
        /\ UNCHANGED <<now, policy, issued>>
    BY <1>5 DEF ConsumeApproved, charged
  <2> QED
    BY <1>1, <1>3, <2>1, HistoryCounts, PublishType
<1> QED
  BY <1>4, <1>5

\* Every operation on an approval keeps the type.
LEMMA ApprovalStepType ==
    ASSUME TypeOK, NEW k \in Keys, ApprovalStep(k)
    PROVE  TypeOK'
<1>1. ASSUME NEW o \in Owners, IssueApproval(o, k)
      PROVE  TypeOK'
  BY <1>1, IssueApprovalType
<1>2. ASSUME NEW o \in Owners, NEW s \in FailureStatuses, ConsumeUnverified(o, k, s)
      PROVE  TypeOK'
  BY <1>2, FinishType DEF ConsumeUnverified
<1>3. ASSUME NEW o \in Owners, NEW r \in Receipts, ConsumeRejected(o, k, r)
      PROVE  TypeOK'
  BY <1>3, FinishType DEF ConsumeRejected, FailureStatuses
<1>4. ASSUME NEW o \in Owners, NEW r \in Receipts, ConsumeApproved(o, k, r)
      PROVE  TypeOK'
  BY <1>4, ConsumeApprovedType
<1>5. ASSUME NEW s \in FailureStatuses \ {"rejected"}, FinalizeApproval(k, s)
      PROVE  TypeOK'
  BY <1>5, FinishType DEF FinalizeApproval
<1> QED
  BY <1>1, <1>2, <1>3, <1>4, <1>5 DEF ApprovalStep

\* The initial state is well typed.
LEMMA InitType == Init => TypeOK
<1> SUFFICES ASSUME Init
             PROVE  TypeOK
  OBVIOUS
<1>1. InitialState \in State
  BY ZeroTypes DEF InitialState, State
<1>2. NoHistory \in History
  BY DEF NoHistory, History
<1>3. 0 \in Time /\ 1 \in Time
  BY TimeAssumption DEF Time
<1> QED
  BY <1>1, <1>2, <1>3 DEF Init, TypeOK

\* Every step keeps the type.
LEMMA NextType == TypeOK /\ [Next]_vars => TypeOK'
<1> SUFFICES ASSUME TypeOK, [Next]_vars
             PROVE  TypeOK'
  OBVIOUS
<1>1. ASSUME NEW c \in Calls, NewCallID(c)
      PROVE  TypeOK'
  BY <1>1 DEF NewCallID, TypeOK
<1>2. ASSUME NEW c \in Calls, ReservationStep(c)
      PROVE  TypeOK'
  BY <1>2, ReservationStepType
<1>3. ASSUME NEW k \in Keys, ApprovalStep(k)
      PROVE  TypeOK'
  BY <1>3, ApprovalStepType
<1>4. ASSUME NEW o \in Owners, MarkOwnerAbandoned(o)
      PROVE  TypeOK'
  BY <1>4, AbandonType
<1>5. CASE ReconcileExpiredApprovals
  BY <1>5, FinishType DEF ReconcileExpiredApprovals, FailureStatuses
<1>6. CASE Tick \/ SetClockBack
  BY <1>6, TimeAssumption DEF Tick, SetClockBack, TypeOK, Time
<1>7. CASE PolicyChange
  BY <1>7 DEF PolicyChange, TypeOK
<1>8. CASE UNCHANGED vars
  BY <1>8 DEF vars, TypeOK
<1> QED
  BY <1>1, <1>2, <1>3, <1>4, <1>5, <1>6, <1>7, <1>8 DEF Next

\* Every reachable state has its type: in particular no operation drives a
\* counter of a budget record or a reservation below zero.
THEOREM TypeCorrect == Spec => []TypeOK
BY InitType, NextType, PTL DEF Spec

-----------------------------------------------------------------------------
(* What an operation does to the life of each call.                        *)

SameLife(S, T, c) ==
    Status(T, c) = Status(S, c) /\ T.terminals[c] = S.terminals[c]

\* A call of a well-typed state has one of the statuses and outcomes of the code.
LEMMA StatusParts ==
    ASSUME NEW S \in State, NEW c \in Calls
    PROVE  /\ Status(S, c) \in ReservationStatuses
           /\ S.terminals[c] \in Outcomes \cup {"absent"}
BY StateParts DEF Status, Reservation

\* Reserved amounts do not move a call on its lifecycle.
LEMMA SetReservedLife ==
    ASSUME NEW S \in State, NEW C, NEW d, NEW n, NEW c \in Calls
    PROVE  SameLife(S, SetReserved(S, C, d, n), c)
<1> DEFINE r(x) == IF x \in C
        THEN [S.reservations[x] EXCEPT !.charges = [b \in Budgets |->
                IF b \in BudgetsOf[x] /\ Limits[b][d] # 0
                THEN [S.reservations[x].charges[b] EXCEPT !.reserved[d] = n]
                ELSE S.reservations[x].charges[b]]]
        ELSE S.reservations[x]
<1>1. S.reservations[c] \in Reservation
  BY StateParts
<1>2. r(c).status = S.reservations[c].status
  BY <1>1 DEF Reservation
<1> HIDE DEF r
<1>3. SetReserved(S, C, d, n) = [S EXCEPT !.reservations = [x \in Calls |-> r(x)]]
  BY DEF SetReserved, r
<1> QED
  BY <1>2, <1>3 DEF SameLife, Status, State

\* Budget records do not move a call on its lifecycle.
LEMMA RecordsLife ==
    ASSUME NEW S \in State, NEW f, NEW c \in Calls
    PROVE  SameLife(S, [S EXCEPT !.records = f], c)
BY DEF SameLife, Status, State

\* Committing a dispatch leaves status and outcome to SetStatus.
LEMMA CommitDispatchLife ==
    ASSUME NEW S \in State, NEW C, NEW c \in Calls
    PROVE  SameLife(S, CommitDispatch(S, C), c)
<1> DEFINE f == [l \in Lineages |->
            [S.records[l] EXCEPT !.consumed["call"] =
                @ + SumFunctionOnSet(Held(S, l, "call"), Charging(S, l) \cap C)]]
           T == [S EXCEPT !.records = f]
<1>1. \A l \in Lineages : SumFunctionOnSet(Held(S, l, "call"), Charging(S, l) \cap C) \in Nat
  BY HeldType DEF Dims
<1>2. f \in [Lineages -> BudgetRecord]
  BY <1>1, StateParts, RecordUpdate DEF Dims
<1> HIDE DEF f
<1>3. T \in State /\ SameLife(S, T, c)
  BY <1>2, StateUpdate, RecordsLife
<1> HIDE DEF T
<1>4. SameLife(T, SetReserved(T, C, "call", 0), c)
  BY <1>3, SetReservedLife
<1> QED
  BY <1>3, <1>4 DEF CommitDispatch, SameLife, T, f

\* Charging a result leaves every status and outcome as it is.
LEMMA CommitResultLife ==
    ASSUME NEW S \in State, NEW x, NEW amount, NEW c \in Calls
    PROVE  SameLife(S, CommitResult(S, x, amount), c)
BY RecordsLife DEF CommitResult, Consume

\* Charging denials leaves every status and outcome as it is.
LEMMA RecordDenialChargesLife ==
    ASSUME NEW S \in State, NEW C, NEW c \in Calls
    PROVE  SameLife(S, RecordDenialCharges(S, C), c)
BY RecordsLife DEF RecordDenialCharges

\* Consuming an approval leaves every status and outcome as it is.
LEMMA CommitApprovalChargesLife ==
    ASSUME NEW S \in State, NEW x \in Calls, NEW c \in Calls
    PROVE  SameLife(S, CommitApprovalCharges(S, x), c)
<1> DEFINE unit == [b \in Budgets |-> IF Limits[b]["approval"] = 0 THEN 0 ELSE 1]
           U == Consume(S, x, "approval", unit)
           T == SetReserved(U, {x}, "approval", 0)
           f == [b \in Budgets |->
                    IF b \in ApprovalBudgets(x)
                    THEN [T.reservations[x].charges[b] EXCEPT !.approvals = @ + 1]
                    ELSE T.reservations[x].charges[b]]
<1>1. unit \in [Budgets -> Nat]
  OBVIOUS
<1>2. U \in State /\ SameLife(S, U, c)
  BY <1>1, ConsumeType, RecordsLife DEF Dims, Consume
<1> HIDE DEF unit, U
<1>3. T \in State /\ SameLife(U, T, c)
  BY <1>2, SetReservedType, SetReservedLife DEF Dims
<1> HIDE DEF T, f
<1>4. SameLife(T, [T EXCEPT !.reservations[x].charges = f], c)
  <2>1. T.reservations \in [Calls -> Reservation]
    BY <1>3 DEF State
  <2>2. [T.reservations EXCEPT ![x].charges = f][c].status = T.reservations[c].status
    BY <2>1 DEF Reservation
  <2> QED
    BY <1>3, <2>2 DEF SameLife, Status, State
<1> QED
  BY <1>2, <1>3, <1>4 DEF CommitApprovalCharges, SameLife, T, U, f, unit

\* SetStatus moves exactly the calls it names.
LEMMA SetStatusLife ==
    ASSUME NEW S \in State, NEW C, NEW s, NEW c \in Calls
    PROVE  LET T == SetStatus(S, C, s)
           IN  /\ Status(T, c) = IF c \in C THEN s ELSE Status(S, c)
               /\ T.terminals[c] = S.terminals[c]
<1>1. S.reservations[c] \in Reservation
  BY StateParts
<1>2. [S.reservations[c] EXCEPT !.status = s].status = s
  BY <1>1 DEF Reservation
<1> QED
  BY <1>2 DEF SetStatus, Status, State

\* RecordTerminal closes exactly the calls it names.
LEMMA RecordTerminalLife ==
    ASSUME NEW S \in State, NEW C, NEW o, NEW c \in Calls
    PROVE  LET T == RecordTerminal(S, C, o)
           IN  /\ Status(T, c) = IF c \in C THEN "absent" ELSE Status(S, c)
               /\ T.terminals[c] = IF c \in C THEN o ELSE S.terminals[c]
BY DEF RecordTerminal, Status, State, NoReservation

\* A negative decision blocks the calls of its pre-call approvals and moves no other.
LEMMA FinishPendingLife ==
    ASSUME NEW S \in State, NEW K, NEW s \in ApprovalStatuses,
           NEW receipt \in Receipts \cup {0}, NEW c \in Calls
    PROVE  LET T == FinishPending(S, K, s, receipt)
               C == CallsOf(K, "pre_call")
           IN  /\ Status(T, c) = IF c \in C THEN "absent" ELSE Status(S, c)
               /\ T.terminals[c] = IF c \in C THEN "blocked" ELSE S.terminals[c]
<1> DEFINE f == [k \in Keys |->
                        IF k \in K
                        THEN [S.approvals[k] EXCEPT !.status = s, !.receipt = receipt]
                        ELSE S.approvals[k]]
           D == [S EXCEPT !.approvals = f]
           F == SetReserved(D, CallsOf(K, "post_result"), "approval", 0)
           G == RecordDenialCharges(F, CallsOf(K, "pre_call"))
<1>1. f \in [Keys -> ApprovalRecord]
  BY StateParts DEF ApprovalRecord
<1> HIDE DEF f
<1>2. D \in State /\ SameLife(S, D, c)
  BY <1>1, StateUpdate DEF SameLife, Status, State
<1> HIDE DEF D
<1>3. F \in State /\ SameLife(D, F, c)
  BY <1>2, SetReservedType, SetReservedLife DEF Dims
<1> HIDE DEF F
<1>4. G \in State /\ SameLife(F, G, c)
  BY <1>3, RecordDenialChargesType, RecordDenialChargesLife
<1>5. SameLife(S, G, c)
  BY <1>2, <1>3, <1>4 DEF SameLife
<1> HIDE DEF G
<1>6. FinishPending(S, K, s, receipt) = RecordTerminal(G, CallsOf(K, "pre_call"), "blocked")
  BY DEF FinishPending, G, F, D, f
<1> QED
  BY <1>4, <1>5, <1>6, RecordTerminalLife DEF SameLife

\* Publication prunes terminal records of expired identities and nothing else
\* of a call's life; the persisted clock never goes back.
LEMMA CommitLife ==
    ASSUME TypeOK, NEW T \in State, Commit(T), NEW c \in Calls
    PROVE  /\ now >= state.observed /\ state'.observed = now
           /\ Status(state', c) = Status(T, c)
           /\ \/ state'.terminals[c] = T.terminals[c]
              \/ state'.terminals[c] = "absent" /\ CallIdentityExpired(c, now)
<1> DEFINE U == [T EXCEPT !.observed = now]
<1>1. /\ U \in State /\ U.observed = now
      /\ U.reservations = T.reservations /\ U.terminals = T.terminals
  BY DEF State, TypeOK
<1>2. state' = PruneRetainedHistory(U, now) /\ now >= state.observed
  BY DEF Commit, Written, TrustedNow
<1> HIDE DEF U
<1>3. /\ state'.observed = U.observed
      /\ state'.reservations = U.reservations
      /\ \/ state'.terminals[c] = U.terminals[c]
         \/ state'.terminals[c] = "absent" /\ CallIdentityExpired(c, now)
  BY <1>1, <1>2 DEF PruneRetainedHistory, State
<1> QED
  BY <1>1, <1>2, <1>3 DEF Status

\* The moves of one call's life in a step that publishes T.
SameHistory(c) == /\ history'[c].admitted = history[c].admitted
                  /\ history'[c].sent = history[c].sent
                  /\ history'[c].blocked = history[c].blocked
Kept(T, c)     == /\ Status(T, c) = Status(state, c)
                  /\ \/ T.terminals[c] = state.terminals[c]
                     \/ T.terminals[c] = "absent" /\ CallIdentityExpired(c, now)
                  /\ SameHistory(c)
Admitted(T, c) == /\ Status(state, c) = "absent" /\ state.terminals[c] = "absent"
                  /\ Admissible(c, now)
                  /\ Status(T, c) = "reserved" /\ T.terminals[c] = "absent"
                  /\ Cardinality(Active(T) \ {c}) + Cardinality(Finished(T))
                        < MaxTerminalCallRecords
                  /\ history'[c].admitted = history[c].admitted + 1
                  /\ history'[c].sent = history[c].sent
                  /\ history'[c].blocked = history[c].blocked
Sent(T, c)     == /\ Status(state, c) = "reserved" /\ Status(T, c) = "dispatched"
                  /\ T.terminals[c] = state.terminals[c]
                  /\ history'[c].admitted = history[c].admitted
                  /\ history'[c].sent
                  /\ history'[c].blocked = history[c].blocked
Lost(T, c)     == /\ Status(state, c) \in {"reserved", "dispatched"}
                  /\ Status(T, c) = "indeterminate"
                  /\ T.terminals[c] = state.terminals[c]
                  /\ history'[c].admitted = history[c].admitted
                  /\ history'[c].sent
                  /\ history'[c].blocked = history[c].blocked
Refused(T, c)  == /\ Status(state, c) = "reserved" /\ Status(T, c) = "absent"
                  /\ T.terminals[c] \in {"released", "blocked"}
                  /\ history'[c].admitted = history[c].admitted
                  /\ history'[c].sent = history[c].sent
Answered(T, c) == /\ Status(state, c) \in {"dispatched", "indeterminate"}
                  /\ Status(T, c) = "absent"
                  /\ T.terminals[c] \in {"settled", "indeterminate_committed"}
                  /\ SameHistory(c)

\* The calls of C make one move, the others stay as they are.
Moves(T, C) ==
    /\ \A c \in Calls \ C : Kept(T, c)
    /\ \/ \A c \in C : Lost(T, c)
       \/ \A c \in C : Refused(T, c)
       \/ \E c \in C : /\ C = {c}
                       /\ Admitted(T, c) \/ Sent(T, c) \/ Answered(T, c)

StoreStep == /\ UNCHANGED issued
             /\ \E T \in State, C \in SUBSET Calls : Commit(T) /\ Moves(T, C)

EnvironmentStep == /\ UNCHANGED <<state, history>>
                   /\ \/ UNCHANGED issued
                      \/ \E c \in Calls : issued[c] = 0 /\ issued' = [issued EXCEPT ![c] = now]

\* One call keeps its invariant in any move.
LEMMA MovesKeepHistory ==
    ASSUME TypeOK, NEW c \in Calls, CallHistory(c), NEW T \in State, Commit(T),
           UNCHANGED issued,
           \/ Kept(T, c) \/ Admitted(T, c) \/ Sent(T, c)
           \/ Lost(T, c) \/ Refused(T, c) \/ Answered(T, c)
    PROVE  CallHistory(c)'
<1>1. /\ now \in Nat /\ state.observed \in Nat /\ issued[c] \in Nat
      /\ AdmissionWindow \in Nat /\ ClockSkew \in Nat
      /\ history[c] \in History
  BY TimeAssumption DEF TypeOK, State, Time
<1>2. /\ Status(state, c) \in ReservationStatuses
      /\ Status(T, c) \in ReservationStatuses
      /\ T.terminals[c] \in Outcomes \cup {"absent"}
      /\ state.terminals[c] \in Outcomes \cup {"absent"}
  BY StatusParts DEF TypeOK
<1>3. /\ now >= state.observed /\ state'.observed = now
      /\ Status(state', c) = Status(T, c)
      /\ \/ state'.terminals[c] = T.terminals[c]
         \/ state'.terminals[c] = "absent" /\ CallIdentityExpired(c, now)
  BY CommitLife
<1>4. Status(state, c)' = Status(state', c)
  BY DEF Status
<1>5. CallIdentityExpired(c, state.observed) => CallIdentityExpired(c, now)
  BY <1>1, <1>3 DEF CallIdentityExpired
<1>6. CallIdentityExpired(c, state.observed)' <=> CallIdentityExpired(c, now)
  BY <1>3 DEF CallIdentityExpired
<1>7. Admissible(c, now) => issued[c] # 0 /\ ~CallIdentityExpired(c, now)
  BY <1>1 DEF Admissible, CallIdentityExpired
<1> QED
  BY <1>1, <1>2, <1>3, <1>4, <1>5, <1>6, <1>7
     DEF CallHistory, Kept, SameHistory, Admitted, Sent, Lost, Refused,
         Answered, ReservationStatuses, Outcomes, History

-----------------------------------------------------------------------------
(* Every operation of the store is a step of that kind.                    *)

\* Noting a dispatch sets the sent mark of its calls and nothing else.
LEMMA NoteSentLife ==
    ASSUME TypeOK, NEW C, NoteSent(C), NEW c \in Calls
    PROVE  /\ history'[c].admitted = history[c].admitted
           /\ history'[c].blocked = history[c].blocked
           /\ history'[c].sent = IF c \in C THEN TRUE ELSE history[c].sent
<1>1. history[c] \in History
  BY DEF TypeOK
<1>2. \A h \in History : /\ [h EXCEPT !.sent = TRUE].admitted = h.admitted
                         /\ [h EXCEPT !.sent = TRUE].blocked = h.blocked
                         /\ [h EXCEPT !.sent = TRUE].sent = TRUE
  BY DEF History
<1> QED
  BY <1>1, <1>2 DEF NoteSent

\* Noting a block sets the blocked mark of its calls and nothing else.
LEMMA NoteBlockedLife ==
    ASSUME TypeOK, NEW C, NoteBlocked(C), NEW c \in Calls
    PROVE  /\ history'[c].admitted = history[c].admitted
           /\ history'[c].sent = history[c].sent
           /\ history'[c].blocked = IF c \in C THEN TRUE ELSE history[c].blocked
<1>1. history[c] \in History
  BY DEF TypeOK
<1>2. \A h \in History : /\ [h EXCEPT !.blocked = TRUE].admitted = h.admitted
                         /\ [h EXCEPT !.blocked = TRUE].sent = h.sent
                         /\ [h EXCEPT !.blocked = TRUE].blocked = TRUE
  BY DEF History
<1> QED
  BY <1>1, <1>2 DEF NoteBlocked

\* The counts of returned bytes, approvals and requests are no part of a life.
LEMMA CountsLife ==
    ASSUME TypeOK, NEW x \in Calls, NEW c \in Calls,
           \/ \E n : history' = [history EXCEPT ![x].returned = n]
           \/ \E n : history' = [history EXCEPT ![x].approved = n]
           \/ \E f : history' = [history EXCEPT ![x].asked = f]
           \/ history' = history
    PROVE  SameHistory(c)
<1>1. history \in [Calls -> History] /\ history[c] \in History
  BY DEF TypeOK
<1> QED
  BY <1>1 DEF SameHistory, History

\* A negative decision is a publication that refuses the calls it closes.
LEMMA FinishStep ==
    ASSUME TypeOK, NEW K, NEW s \in FailureStatuses, NEW r \in Receipts \cup {0},
           Finish(K, s, r)
    PROVE  StoreStep
<1> DEFINE C == CallsOf(K, "pre_call")
           T == FinishPending(state, K, s, r)
<1>1. T \in State /\ s \in ApprovalStatuses
  BY FinishPendingType DEF TypeOK, ApprovalStatuses
<1>2. C \in SUBSET Calls /\ Commit(T) /\ NoteBlocked(C) /\ UNCHANGED issued
  BY DEF Finish, CallsOf
<1>3. \A c \in C : Status(state, c) = "reserved"
  BY DEF Finish, Finishable
<1>4. ASSUME NEW c \in Calls
      PROVE  /\ Status(T, c) = IF c \in C THEN "absent" ELSE Status(state, c)
             /\ T.terminals[c] = IF c \in C THEN "blocked" ELSE state.terminals[c]
  BY <1>1, FinishPendingLife DEF TypeOK
<1> HIDE DEF T, C
<1>5. \A c \in Calls \ C : Kept(T, c)
  BY <1>2, <1>4, NoteBlockedLife DEF Kept, SameLife, SameHistory
<1>6. \A c \in C : Refused(T, c)
  BY <1>2, <1>3, <1>4, NoteBlockedLife DEF Refused
<1> QED
  BY <1>1, <1>2, <1>5, <1>6 DEF StoreStep, Moves

\* Pruning windows and adopting records moves no call.
LEMMA PruneLife ==
    ASSUME NEW S \in State, NEW t, NEW c \in Calls
    PROVE  LET T == PruneRetainedHistory(S, t)
           IN  /\ Status(T, c) = Status(S, c)
               /\ \/ T.terminals[c] = S.terminals[c]
                  \/ T.terminals[c] = "absent" /\ CallIdentityExpired(c, t)
BY DEF PruneRetainedHistory, State, Status

\* A publication that moves no call.
LEMMA KeepingStep ==
    ASSUME NEW T \in State, Commit(T), UNCHANGED issued, \A c \in Calls : Kept(T, c)
    PROVE  StoreStep
<1>1. {} \in SUBSET Calls /\ Moves(T, {})
  BY DEF Moves
<1> QED
  BY <1>1 DEF StoreStep

\* A publication that moves one call.
LEMMA SingleStep ==
    ASSUME NEW T \in State, Commit(T), UNCHANGED issued, NEW c \in Calls,
           \A x \in Calls \ {c} : Kept(T, x),
           \/ Admitted(T, c) \/ Sent(T, c) \/ Answered(T, c) \/ Lost(T, c) \/ Refused(T, c)
    PROVE  StoreStep
<1>1. {c} \in SUBSET Calls /\ Moves(T, {c})
  BY DEF Moves
<1> QED
  BY <1>1 DEF StoreStep

\* Reserve is a publication that admits one call or moves none.
LEMMA ReserveStep ==
    ASSUME TypeOK, NEW o \in Owners, NEW c \in Calls, Reserve(o, c)
    PROVE  StoreStep
<1> DEFINE declared == UpsertRecords(PruneWindows(state), c)
           kept     == PruneRetainedHistory(declared, now)
           T        == [kept EXCEPT !.reservations[c] = NewReservation(o, c)]
<1>1. declared \in State
  BY UpsertType
<1>2. ASSUME NEW x \in Calls
      PROVE  SameLife(state, declared, x)
  <2>1. PruneWindows(state) \in State
    <3>1. [l \in Lineages |->
              IF ElapsedWindow(state, l)
                 /\ \E t \in Time : t > l[2] /\ ElapsedWindow(state, <<l[1], t>>)
              THEN NoRecord ELSE state.records[l]] \in [Lineages -> BudgetRecord]
      BY ZeroTypes, StateParts DEF TypeOK
    <3> QED
      BY <3>1, StateUpdate DEF PruneWindows, TypeOK
  <2>2. SameLife(state, PruneWindows(state), x)
    BY RecordsLife DEF PruneWindows, TypeOK
  <2>3. SameLife(PruneWindows(state), declared, x)
    BY <2>1, RecordsLife DEF UpsertRecords
  <2> QED
    BY <2>2, <2>3 DEF SameLife
<1> HIDE DEF declared
<1>3. kept \in State
  BY <1>1, PruneType
<1>4. ASSUME NEW x \in Calls
      PROVE  /\ Status(kept, x) = Status(state, x)
             /\ \/ kept.terminals[x] = state.terminals[x]
                \/ kept.terminals[x] = "absent" /\ CallIdentityExpired(x, now)
  BY <1>1, <1>2, PruneLife DEF SameLife
<1> HIDE DEF kept
<1>5. T \in State
  BY <1>3, NewReservationType DEF State
<1>6. ASSUME NEW x \in Calls
      PROVE  /\ Status(T, x) = IF x = c THEN "reserved" ELSE Status(kept, x)
             /\ T.terminals[x] = kept.terminals[x]
  BY <1>3 DEF State, Status, NewReservation
<1>7. /\ Status(state, c) = "absent" /\ state.terminals[c] = "absent"
      /\ Admissible(c, now) /\ UNCHANGED issued
  BY DEF Reserve, Active, Finished
<1> HIDE DEF T
<1>8. CASE Commit(declared) /\ UNCHANGED history
  <2>1. \A x \in Calls : Kept(declared, x)
    BY <1>2, <1>8 DEF Kept, SameLife, SameHistory
  <2> QED
    BY <1>1, <1>7, <1>8, <2>1, KeepingStep
<1>9. CASE /\ RoomToReserve(kept)
           /\ Commit(T)
           /\ history' = [history EXCEPT ![c] =
                    [history[c] EXCEPT
                        !.admitted = @ + 1,
                        !.lineages = {Lineage(b, now) : b \in BudgetsOf[c]}]]
  <2> DEFINE L == {Lineage(b, now) : b \in BudgetsOf[c]}
             h == [history[c] EXCEPT !.admitted = @ + 1, !.lineages = L]
  <2>1. history[c] \in History /\ history \in [Calls -> History]
    BY DEF TypeOK
  <2> HIDE DEF L
  <2>2. /\ h.admitted = history[c].admitted + 1
        /\ h.sent = history[c].sent
        /\ h.blocked = history[c].blocked
    <3> DEFINE n == history[c].admitted + 1
    <3> HIDE DEF n
    <3>1. /\ [history[c] EXCEPT !.admitted = n, !.lineages = L].admitted = n
          /\ [history[c] EXCEPT !.admitted = n, !.lineages = L].sent = history[c].sent
          /\ [history[c] EXCEPT !.admitted = n, !.lineages = L].blocked = history[c].blocked
      BY <2>1 DEF History
    <3> QED
      BY <3>1 DEF n
  <2>3. history' = [history EXCEPT ![c] = h]
    BY <1>9 DEF L
  <2> HIDE DEF h
  <2>4. history'[c] = h /\ \A x \in Calls \ {c} : history'[x] = history[x]
    BY <2>1, <2>3
  <2>5. Admitted(T, c)
    <3>1. Active(T) \ {c} = Active(kept) /\ Finished(T) = Finished(kept)
      BY <1>4, <1>6, <1>7 DEF Active, Finished
    <3>2. Cardinality(Active(T) \ {c}) + Cardinality(Finished(T)) < MaxTerminalCallRecords
      BY <1>9, <3>1 DEF RoomToReserve
    <3> QED
      BY <1>4, <1>6, <1>7, <2>2, <2>4, <3>2 DEF Admitted
  <2>6. \A x \in Calls \ {c} : Kept(T, x)
    BY <1>4, <1>6, <2>4 DEF Kept, SameHistory
  <2> QED
    BY <1>5, <1>7, <1>9, <2>5, <2>6 DEF StoreStep, Moves
<1> QED
  BY <1>8, <1>9 DEF Reserve, declared, kept, T

\* Every operation on a reservation moves one call by one edge, or none.
LEMMA ReservationStepIsStoreStep ==
    ASSUME TypeOK, CallHistoryInv, NEW c \in Calls, ReservationStep(c)
    PROVE  StoreStep
<1>0. state \in State /\ history \in [Calls -> History]
  BY DEF TypeOK
<1>a. ASSUME Status(state, c) = "dispatched",
             Commit(SetStatus(state, {c}, "indeterminate")),
             UNCHANGED <<issued, history>>
      PROVE  StoreStep
  <2> DEFINE T == SetStatus(state, {c}, "indeterminate")
  <2>1. T \in State
    BY <1>0, SetStatusType DEF ReservationStatuses
  <2>2. \A x \in Calls :
            /\ Status(T, x) = IF x \in {c} THEN "indeterminate" ELSE Status(state, x)
            /\ T.terminals[x] = state.terminals[x]
    BY <1>0, SetStatusLife
  <2>3. Commit(T)
    BY <1>a
  <2> HIDE DEF T
  <2>4. history[c].sent
    BY <1>a DEF CallHistoryInv, CallHistory
  <2>5. Lost(T, c) /\ \A x \in Calls \ {c} : Kept(T, x)
    BY <1>a, <2>2, <2>4 DEF Lost, Kept, SameHistory
  <2> QED
    BY <1>a, <2>1, <2>3, <2>5, SingleStep
<1>1. ASSUME NEW o \in Owners, Reserve(o, c)
      PROVE  StoreStep
  BY <1>1, ReserveStep
<1>2. CASE RefuseStaleContract(c)
  <2>1. Commit(state) /\ UNCHANGED issued /\ \A x \in Calls : Kept(state, x)
    BY <1>2 DEF RefuseStaleContract, PersistClockObservation, Kept, SameHistory
  <2> QED
    BY <1>0, <2>1, KeepingStep
<1>3. CASE MarkDispatched(c)
  <2> DEFINE U == CommitDispatch(state, {c})
             T == SetStatus(U, {c}, "dispatched")
  <2>1. U \in State /\ \A x \in Calls : SameLife(state, U, x)
    BY <1>0, CommitDispatchType, CommitDispatchLife
  <2> HIDE DEF U
  <2>2. T \in State
    BY <2>1, SetStatusType DEF ReservationStatuses
  <2>3. \A x \in Calls : /\ Status(T, x) = IF x \in {c} THEN "dispatched" ELSE Status(state, x)
                         /\ T.terminals[x] = state.terminals[x]
    BY <2>1, SetStatusLife DEF SameLife
  <2> HIDE DEF T
  <2>4. Commit(T) /\ UNCHANGED issued /\ NoteSent({c}) /\ Status(state, c) = "reserved"
    BY <1>3 DEF MarkDispatched, T, U
  <2>5. Sent(T, c) /\ \A x \in Calls \ {c} : Kept(T, x)
    BY <2>3, <2>4, NoteSentLife DEF Sent, Kept, SameHistory
  <2> QED
    BY <2>2, <2>4, <2>5, SingleStep
<1>4. CASE Release(c)
  <2> DEFINE T == RecordTerminal(state, {c}, "released")
  <2>1. T \in State
    BY <1>0, RecordTerminalType DEF Outcomes
  <2>2. \A x \in Calls :
            /\ Status(T, x) = IF x \in {c} THEN "absent" ELSE Status(state, x)
            /\ T.terminals[x] = IF x \in {c} THEN "released" ELSE state.terminals[x]
    BY <1>0, RecordTerminalLife
  <2> HIDE DEF T
  <2>3. Commit(T) /\ UNCHANGED <<issued, history>> /\ Status(state, c) = "reserved"
    BY <1>4 DEF Release, T
  <2>4. Refused(T, c) /\ \A x \in Calls \ {c} : Kept(T, x)
    BY <2>2, <2>3 DEF Refused, Kept, SameHistory
  <2> QED
    BY <2>1, <2>3, <2>4, SingleStep
<1>5. CASE RecordDenied(c)
  <2> DEFINE U == RecordDenialCharges(state, {c})
             T == RecordTerminal(U, {c}, "blocked")
  <2>1. U \in State /\ \A x \in Calls : SameLife(state, U, x)
    BY <1>0, RecordDenialChargesType, RecordDenialChargesLife
  <2> HIDE DEF U
  <2>2. T \in State
    BY <2>1, RecordTerminalType DEF Outcomes
  <2>3. \A x \in Calls :
            /\ Status(T, x) = IF x \in {c} THEN "absent" ELSE Status(state, x)
            /\ T.terminals[x] = IF x \in {c} THEN "blocked" ELSE state.terminals[x]
    BY <2>1, RecordTerminalLife DEF SameLife
  <2> HIDE DEF T
  <2>4. Commit(T) /\ UNCHANGED issued /\ NoteBlocked({c}) /\ Status(state, c) = "reserved"
    BY <1>5 DEF RecordDenied, T, U
  <2>5. Refused(T, c) /\ \A x \in Calls \ {c} : Kept(T, x)
    BY <2>3, <2>4, NoteBlockedLife DEF Refused, Kept, SameHistory
  <2> QED
    BY <2>2, <2>4, <2>5, SingleStep
<1>6. CASE MarkIndeterminate(c)
  <2>1. CASE /\ Status(state, c) = "reserved"
             /\ Commit(SetStatus(CommitDispatch(state, {c}), {c}, "indeterminate"))
             /\ NoteSent({c})
    <3> DEFINE U == CommitDispatch(state, {c})
               T == SetStatus(U, {c}, "indeterminate")
    <3>1. U \in State /\ \A x \in Calls : SameLife(state, U, x)
      BY <1>0, CommitDispatchType, CommitDispatchLife
    <3> HIDE DEF U
    <3>2. T \in State
      BY <3>1, SetStatusType DEF ReservationStatuses
    <3>3. \A x \in Calls :
              /\ Status(T, x) = IF x \in {c} THEN "indeterminate" ELSE Status(state, x)
              /\ T.terminals[x] = state.terminals[x]
      BY <3>1, SetStatusLife DEF SameLife
    <3> HIDE DEF T
    <3>4. Commit(T) /\ UNCHANGED issued
      BY <1>6, <2>1 DEF MarkIndeterminate, T, U
    <3>5. Lost(T, c) /\ \A x \in Calls \ {c} : Kept(T, x)
      BY <2>1, <3>3, NoteSentLife DEF Lost, Kept, SameHistory
    <3> QED
      BY <3>2, <3>4, <3>5, SingleStep
  <2>2. CASE /\ Status(state, c) = "dispatched"
             /\ Commit(SetStatus(state, {c}, "indeterminate"))
             /\ UNCHANGED history
    BY <1>6, <1>a, <2>2 DEF MarkIndeterminate
  <2> QED
    BY <1>6, <2>1, <2>2 DEF MarkIndeterminate
<1>b. ASSUME NEW n \in [Budgets -> Nat], NEW o \in {"settled", "indeterminate_committed"},
             Commit(RecordTerminal(CommitResult(state, c, n), {c}, o)),
             \E r : history' = [history EXCEPT ![c].returned = r],
             UNCHANGED issued,
             Status(state, c) \in {"dispatched", "indeterminate"}
      PROVE  StoreStep
  <2> DEFINE U == CommitResult(state, c, n)
             T == RecordTerminal(U, {c}, o)
  <2>1. U \in State /\ \A x \in Calls : SameLife(state, U, x)
    BY <1>0, CommitResultType, CommitResultLife
  <2>2. Commit(T)
    BY <1>b
  <2> HIDE DEF U
  <2>3. T \in State
    BY <2>1, RecordTerminalType DEF Outcomes
  <2>4. \A x \in Calls :
            /\ Status(T, x) = IF x \in {c} THEN "absent" ELSE Status(state, x)
            /\ T.terminals[x] = IF x \in {c} THEN o ELSE state.terminals[x]
    BY <2>1, RecordTerminalLife DEF SameLife
  <2> HIDE DEF T
  <2>5. \A x \in Calls : SameHistory(x)
    BY <1>b, CountsLife
  <2>6. Answered(T, c) /\ \A x \in Calls \ {c} : Kept(T, x)
    BY <1>b, <2>4, <2>5 DEF Answered, Kept
  <2> QED
    BY <1>b, <2>2, <2>3, <2>6, SingleStep
<1>7. ASSUME NEW n \in ResultSizes, Settle(c, n)
      PROVE  StoreStep
  <2>1. [b \in Budgets |-> n] \in [Budgets -> Nat]
    BY ResultAssumption
  <2> QED
    BY <1>7, <1>a, <1>b, <2>1 DEF Settle
<1>8. ASSUME NEW n \in ResultSizes, NEW o \in {"settled", "indeterminate_committed"},
             ReconcileIndeterminate(c, o, n)
      PROVE  StoreStep
  <2> DEFINE amount == [b \in Budgets |->
                 IF o = "settled" THEN n
                 ELSE state.reservations[c].charges[b].reserved["result"]]
  <2>1. amount \in [Budgets -> Nat]
    <3>1. \A b \in Budgets : state.reservations[c].charges[b].reserved["result"] \in Nat
      BY <1>0, StateParts DEF Charge, Usage, Dims
    <3> QED
      BY <3>1, ResultAssumption
  <2>2. Commit(RecordTerminal(CommitResult(state, c, amount), {c}, o))
    BY <1>8 DEF ReconcileIndeterminate, Reconciled
  <2> HIDE DEF amount
  <2>3. /\ \E r : history' = [history EXCEPT ![c].returned = r]
        /\ UNCHANGED issued
        /\ Status(state, c) \in {"dispatched", "indeterminate"}
    BY <1>8 DEF ReconcileIndeterminate
  <2> QED
    BY <1>b, <2>1, <2>2, <2>3
<1> QED
  BY <1>1, <1>2, <1>3, <1>4, <1>5, <1>6, <1>7, <1>8 DEF ReservationStep

\* Abandoning an owner loses its live calls and moves no other (MarkOwnerAbandoned).
LEMMA AbandonStep ==
    ASSUME TypeOK, CallHistoryInv, NEW o \in Owners, MarkOwnerAbandoned(o)
    PROVE  StoreStep
<1> DEFINE owned   == {c \in Active(state) : /\ state.reservations[c].owner = o
                                             /\ Status(state, c) # "indeterminate"}
           waiting == {k \in Pending(state) : k[1] \in owned}
           unsent  == {c \in owned : Status(state, c) = "reserved"}
           f       == [k \in Keys |->
                          IF k \in waiting
                          THEN [state.approvals[k] EXCEPT !.status = "unavailable"]
                          ELSE state.approvals[k]]
           S       == [state EXCEPT !.approvals = f]
           R       == SetReserved(S, {k[1] : k \in waiting}, "approval", 0)
           U       == CommitDispatch(R, unsent)
           T       == SetStatus(U, owned, "indeterminate")
<1>1. state \in State
  BY DEF TypeOK
<1>2. f \in [Keys -> ApprovalRecord]
  <2>1. \A a \in ApprovalRecord : [a EXCEPT !.status = "unavailable"] \in ApprovalRecord
    BY DEF ApprovalRecord, ApprovalStatuses, FailureStatuses
  <2> QED
    BY <1>1, <2>1, StateParts
<1> HIDE DEF f
<1>3. S \in State /\ \A c \in Calls : SameLife(state, S, c)
  BY <1>1, <1>2, StateUpdate DEF SameLife, Status, State
<1> HIDE DEF S
<1>4. R \in State /\ \A c \in Calls : SameLife(S, R, c)
  BY <1>3, SetReservedType, SetReservedLife DEF Dims
<1> HIDE DEF R
<1>5. U \in State /\ \A c \in Calls : SameLife(R, U, c)
  BY <1>4, CommitDispatchType, CommitDispatchLife
<1> HIDE DEF U
<1>6. T \in State
  BY <1>5, SetStatusType DEF ReservationStatuses
<1>7. \A c \in Calls :
          /\ Status(T, c) = IF c \in owned THEN "indeterminate" ELSE Status(state, c)
          /\ T.terminals[c] = state.terminals[c]
  BY <1>3, <1>4, <1>5, SetStatusLife DEF SameLife
<1>8. Commit(T) /\ NoteSent(unsent) /\ UNCHANGED issued
  BY DEF MarkOwnerAbandoned, T, U, R, S, f
<1> HIDE DEF T
<1>9. ASSUME NEW c \in owned
      PROVE  c \in Calls /\ Lost(T, c)
  <2>1. c \in Calls /\ Status(state, c) \in {"reserved", "dispatched"}
    BY <1>1, StatusParts DEF Active, ReservationStatuses
  <2>2. c \notin unsent => history[c].sent
    BY <2>1 DEF CallHistoryInv, CallHistory
  <2> QED
    BY <1>7, <1>8, <2>1, <2>2, NoteSentLife DEF Lost
<1>10. ASSUME NEW c \in Calls \ owned
       PROVE  Kept(T, c)
  <2>1. c \in Calls /\ c \notin unsent /\ c \notin owned
    OBVIOUS
  <2> HIDE DEF unsent, owned
  <2>2. SameHistory(c)
    BY <1>8, <2>1, NoteSentLife DEF SameHistory
  <2> QED
    BY <1>7, <2>1, <2>2 DEF Kept
<1>11. owned \in SUBSET Calls /\ Moves(T, owned)
  BY <1>9, <1>10 DEF Moves
<1> QED
  BY <1>6, <1>8, <1>11 DEF StoreStep

\* Every operation on an approval refuses the call it blocks, or moves none.
LEMMA ApprovalStepIsStoreStep ==
    ASSUME TypeOK, NEW k \in Keys, ApprovalStep(k)
    PROVE  StoreStep
<1>0. k[1] \in Calls /\ k[2] \in Phases /\ state \in State
  BY DEF Keys, TypeOK
<1>1. ASSUME NEW o \in Owners, IssueApproval(o, k)
      PROVE  StoreStep
  <2> DEFINE charged == IF ApprovalReserved(state, k[1]) THEN state
                        ELSE SetReserved(state, {k[1]}, "approval", 1)
             a == [status |-> "pending", expires |-> now + ApprovalTTL,
                   plan |-> policy, receipt |-> 0]
             T == [charged EXCEPT !.approvals[k] = a]
  <2>1. charged \in State /\ \A c \in Calls : SameLife(state, charged, c)
    BY <1>0, SetReservedType, SetReservedLife DEF SameLife, Dims
  <2>2. a \in ApprovalRecord
    <3>1. now + ApprovalTTL \in Time
      BY <1>1, TimeAssumption DEF IssueApproval, TypeOK, Time
    <3> QED
      BY <3>1 DEF ApprovalRecord, ApprovalStatuses, TypeOK
  <2>3. /\ Commit(T) /\ UNCHANGED issued
        /\ history' = [history EXCEPT ![k[1]].asked[k[2]] = @ + 1]
    BY <1>1 DEF IssueApproval
  <2> HIDE DEF a, charged
  <2>4. T \in State /\ \A c \in Calls : SameLife(charged, T, c)
    BY <2>1, <2>2 DEF SameLife, Status, State
  <2>5. \A c \in Calls : SameHistory(c)
    <3>1. history[k[1]].asked \in [Phases -> Nat] /\ history \in [Calls -> History]
      BY <1>0 DEF TypeOK, History
    <3>2. history' = [history EXCEPT ![k[1]].asked =
                          [history[k[1]].asked EXCEPT ![k[2]] = @ + 1]]
      BY <1>0, <2>3, <3>1
    <3> QED
      BY <1>0, <3>2, CountsLife
  <2>6. \A c \in Calls : Kept(T, c)
    BY <2>1, <2>4, <2>5 DEF Kept, SameLife
  <2> QED
    BY <2>3, <2>4, <2>6, KeepingStep
<1>2. ASSUME NEW o \in Owners, NEW s \in FailureStatuses, ConsumeUnverified(o, k, s)
      PROVE  StoreStep
  BY <1>2, FinishStep DEF ConsumeUnverified
<1>3. ASSUME NEW o \in Owners, NEW r \in Receipts, ConsumeRejected(o, k, r)
      PROVE  StoreStep
  BY <1>3, FinishStep DEF ConsumeRejected, FailureStatuses
<1>4. ASSUME NEW o \in Owners, NEW r \in Receipts, ConsumeApproved(o, k, r)
      PROVE  StoreStep
  <2> DEFINE charged == IF BudgetsOf[k[1]] = {} THEN state
                        ELSE CommitApprovalCharges(state, k[1])
             T == [charged EXCEPT !.approvals[k].status = "approved",
                                  !.approvals[k].receipt = r]
  <2>1. charged \in State /\ \A c \in Calls : SameLife(state, charged, c)
    BY <1>0, CommitApprovalChargesType, CommitApprovalChargesLife DEF SameLife
  <2> HIDE DEF charged
  <2>2. T \in State /\ \A c \in Calls : SameLife(charged, T, c)
    <3>1. charged.approvals \in [Keys -> ApprovalRecord]
      BY <2>1 DEF State
    <3>2. \A a \in ApprovalRecord :
              [a EXCEPT !.status = "approved", !.receipt = r] \in ApprovalRecord
      BY DEF ApprovalRecord, ApprovalStatuses
    <3> DEFINE f == [charged.approvals EXCEPT ![k].status = "approved", ![k].receipt = r]
    <3>3. f \in [Keys -> ApprovalRecord]
      BY <3>1, <3>2
    <3>4. T = [charged EXCEPT !.approvals = f]
      BY <2>1, <3>1 DEF State
    <3> HIDE DEF f, T
    <3>5. [charged EXCEPT !.approvals = f] \in State
      BY <2>1, <3>3, StateUpdate
    <3> QED
      BY <2>1, <3>4, <3>5 DEF SameLife, Status, State
  <2>3. CASE ReceiptKnown(r, k)
    BY <1>4, <2>3, FinishStep DEF ConsumeApproved, FailureStatuses
  <2>4. CASE ~ReceiptKnown(r, k)
    <3>1. /\ Commit(T) /\ UNCHANGED issued
          /\ history' = [history EXCEPT ![k[1]].approved = @ + 1]
      BY <1>4, <2>4 DEF ConsumeApproved, charged
    <3>2. \A c \in Calls : SameHistory(c)
      <4>1. history \in [Calls -> History]
        BY DEF TypeOK
      <4>2. history' = [history EXCEPT ![k[1]].approved = history[k[1]].approved + 1]
        BY <1>0, <3>1, <4>1
      <4> QED
        BY <1>0, <4>2, CountsLife
    <3>3. \A c \in Calls : Kept(T, c)
      BY <2>1, <2>2, <3>2 DEF Kept, SameLife
    <3> QED
      BY <2>2, <3>1, <3>3, KeepingStep
  <2> QED
    BY <2>3, <2>4
<1>5. ASSUME NEW s \in FailureStatuses \ {"rejected"}, FinalizeApproval(k, s)
      PROVE  StoreStep
  BY <1>5, FinishStep DEF FinalizeApproval
<1> QED
  BY <1>1, <1>2, <1>3, <1>4, <1>5 DEF ApprovalStep

\* A step is one publication, or leaves the state file alone.
LEMMA NextIsStoreOrEnvironment ==
    ASSUME TypeOK, CallHistoryInv, Next
    PROVE  StoreStep \/ EnvironmentStep
<1>1. ASSUME NEW c \in Calls, NewCallID(c)
      PROVE  EnvironmentStep
  BY <1>1 DEF NewCallID, EnvironmentStep
<1>2. ASSUME NEW c \in Calls, ReservationStep(c)
      PROVE  StoreStep
  BY <1>2, ReservationStepIsStoreStep
<1>3. ASSUME NEW k \in Keys, ApprovalStep(k)
      PROVE  StoreStep
  BY <1>3, ApprovalStepIsStoreStep
<1>4. ASSUME NEW o \in Owners, MarkOwnerAbandoned(o)
      PROVE  StoreStep
  BY <1>4, AbandonStep
<1>5. CASE ReconcileExpiredApprovals
  BY <1>5, FinishStep DEF ReconcileExpiredApprovals, FailureStatuses
<1>6. CASE Tick \/ SetClockBack \/ PolicyChange
  BY <1>6 DEF Tick, SetClockBack, PolicyChange, EnvironmentStep
<1> QED
  BY <1>1, <1>2, <1>3, <1>4, <1>5, <1>6 DEF Next

-----------------------------------------------------------------------------
(* The inductive invariant and what follows from it.                       *)

\* The initial state meets the history invariant.
LEMMA InitHistory == Init => CallHistoryInv
BY DEF Init, CallHistoryInv, CallHistory, InitialState, NoReservation, NoHistory, Status

\* Every step keeps the history invariant.
LEMMA NextHistory == TypeOK /\ CallHistoryInv /\ [Next]_vars => CallHistoryInv'
<1> SUFFICES ASSUME TypeOK, CallHistoryInv, [Next]_vars, NEW c \in Calls
             PROVE  CallHistory(c)'
  BY DEF CallHistoryInv
<1>1. CallHistory(c)
  BY DEF CallHistoryInv
<1>2. CASE StoreStep
  <2>1. PICK T \in State, C \in SUBSET Calls : Commit(T) /\ Moves(T, C)
    BY <1>2 DEF StoreStep
  <2>2. \/ Kept(T, c) \/ Admitted(T, c) \/ Sent(T, c)
        \/ Lost(T, c) \/ Refused(T, c) \/ Answered(T, c)
    BY <2>1 DEF Moves
  <2>3. UNCHANGED issued
    BY <1>2 DEF StoreStep
  <2> QED
    BY <1>1, <2>1, <2>2, <2>3, MovesKeepHistory
<1>3. CASE EnvironmentStep
  <2>1. issued \in [Calls -> Time]
    BY DEF TypeOK
  <2>2. issued[c] # 0 => issued'[c] = issued[c]
    BY <1>3, <2>1 DEF EnvironmentStep
  <2>3. CASE issued[c] # 0
    BY <1>1, <1>3, <2>2, <2>3
       DEF EnvironmentStep, CallHistory, CallIdentityExpired, Status
  <2>4. CASE issued[c] = 0
    BY <1>1, <1>3, <2>4 DEF EnvironmentStep, CallHistory, CallIdentityExpired, Status
  <2> QED
    BY <2>3, <2>4
<1>4. CASE UNCHANGED vars
  BY <1>1, <1>4 DEF vars, CallHistory, CallIdentityExpired, Status
<1> QED
  BY <1>2, <1>3, <1>4, NextIsStoreOrEnvironment

\* Each call identity has one life: an admission is remembered by a retained
\* record, or by a trusted clock that has left the identity behind.
THEOREM HistoryInvariant == Spec => []CallHistoryInv
<1>1. TypeOK /\ CallHistoryInv /\ [Next]_vars => (TypeOK /\ CallHistoryInv)'
  BY NextType, NextHistory
<1> QED
  BY <1>1, InitType, InitHistory, PTL DEF Spec

\* A call identity is admitted at most once, whatever is pruned and however the
\* wall clock is set back.
THEOREM AdmittedOnce == Spec => []CallAdmittedOnce
<1>1. CallHistoryInv => CallAdmittedOnce
  BY DEF CallHistoryInv, CallHistory, CallAdmittedOnce
<1> QED
  BY <1>1, HistoryInvariant, PTL

\* A call that a rule, a rejection or an expiry blocked is never dispatched.
THEOREM BlockedNotDispatched == Spec => []BlockedNeverDispatched
<1>1. CallHistoryInv => BlockedNeverDispatched
  BY DEF CallHistoryInv, CallHistory, BlockedNeverDispatched
<1> QED
  BY <1>1, HistoryInvariant, PTL

-----------------------------------------------------------------------------
(* Every call follows the abstract lifecycle.                              *)

\* A move of a call in the published state is that move of its phase.
LEMMA PhaseMoves ==
    ASSUME TypeOK, TypeOK', NEW c \in Calls, CallHistory(c), CallHistory(c)',
           NEW T \in State, Commit(T)
    PROVE  /\ Kept(T, c)     => Phase(c)' = Phase(c)
           /\ Admitted(T, c) => Phase(c) = "new" /\ Phase(c)' = "held"
           /\ Sent(T, c)     => Phase(c) = "held" /\ Phase(c)' = "sent"
           /\ Lost(T, c)     => Phase(c) \in {"held", "sent"} /\ Phase(c)' = "unknown"
           /\ Refused(T, c)  => Phase(c) = "held" /\ Phase(c)' = "closed_unsent"
           /\ Answered(T, c) => Phase(c) \in {"sent", "unknown"} /\ Phase(c)' = "closed_sent"
<1>1. /\ Status(state, c) \in ReservationStatuses
      /\ Status(T, c) \in ReservationStatuses
      /\ T.terminals[c] \in Outcomes \cup {"absent"}
      /\ state.terminals[c] \in Outcomes \cup {"absent"}
  BY StatusParts DEF TypeOK
<1>2. /\ Status(state', c) = Status(T, c)
      /\ \/ state'.terminals[c] = T.terminals[c]
         \/ state'.terminals[c] = "absent"
  BY CommitLife
<1>3. Status(state, c)' = Status(state', c)
  BY DEF Status
<1>4. /\ history[c].admitted \in {0, 1} /\ history'[c].admitted \in {0, 1}
      /\ history[c].sent \in BOOLEAN /\ history'[c].sent \in BOOLEAN
  BY DEF TypeOK, History, CallHistory
<1>5. Kept(T, c) => Phase(c)' = Phase(c)
  BY <1>1, <1>2, <1>3, <1>4
     DEF Phase, CallHistory, Kept, SameHistory, ReservationStatuses, Outcomes
<1>6. Admitted(T, c) => Phase(c) = "new" /\ Phase(c)' = "held"
  BY <1>1, <1>2, <1>3, <1>4
     DEF Phase, CallHistory, Admitted, ReservationStatuses, Outcomes
<1>7. Sent(T, c) => Phase(c) = "held" /\ Phase(c)' = "sent"
  BY <1>1, <1>2, <1>3, <1>4 DEF Phase, Sent
<1>8. Lost(T, c) => Phase(c) \in {"held", "sent"} /\ Phase(c)' = "unknown"
  BY <1>1, <1>2, <1>3, <1>4 DEF Phase, Lost
<1>9. Refused(T, c) => Phase(c) = "held" /\ Phase(c)' = "closed_unsent"
  BY <1>1, <1>2, <1>3, <1>4 DEF Phase, CallHistory, Refused
<1>10. Answered(T, c) => Phase(c) \in {"sent", "unknown"} /\ Phase(c)' = "closed_sent"
  BY <1>1, <1>2, <1>3, <1>4 DEF Phase, CallHistory, Answered, SameHistory
<1> QED
  BY <1>5, <1>6, <1>7, <1>8, <1>9, <1>10

PhaseMap == [c \in Calls |-> Phase(c)]

\* The initial state is an initial state of the lifecycle.
LEMMA InitRefines == Init => Lifecycle!Init
BY DEF Init, Lifecycle!Init, Phase, InitialState, NoReservation, NoHistory, Status

\* Every step is a step of the lifecycle or leaves every phase.
LEMMA NextRefines ==
    TypeOK /\ TypeOK' /\ CallHistoryInv /\ CallHistoryInv' /\ [Next]_vars
        => [Lifecycle!Next]_PhaseMap
<1> SUFFICES ASSUME TypeOK, TypeOK', CallHistoryInv, CallHistoryInv', [Next]_vars
             PROVE  Lifecycle!Next \/ UNCHANGED PhaseMap
  OBVIOUS
<1>1. CASE StoreStep
  <2>1. PICK T \in State, C \in SUBSET Calls : Commit(T) /\ Moves(T, C)
    BY <1>1 DEF StoreStep
  <2>2. ASSUME NEW c \in Calls
        PROVE  /\ Kept(T, c)     => Phase(c)' = Phase(c)
               /\ Admitted(T, c) => Phase(c) = "new" /\ Phase(c)' = "held"
               /\ Sent(T, c)     => Phase(c) = "held" /\ Phase(c)' = "sent"
               /\ Lost(T, c)     => Phase(c) \in {"held", "sent"} /\ Phase(c)' = "unknown"
               /\ Refused(T, c)  => Phase(c) = "held" /\ Phase(c)' = "closed_unsent"
               /\ Answered(T, c) =>
                      Phase(c) \in {"sent", "unknown"} /\ Phase(c)' = "closed_sent"
    <3>1. CallHistory(c) /\ CallHistory(c)'
      BY DEF CallHistoryInv
    <3> QED
      BY <2>1, <3>1, PhaseMoves
  <2>3. \A c \in Calls \ C : Phase(c)' = Phase(c)
    BY <2>1, <2>2 DEF Moves
  <2>4. CASE \A c \in C : Lost(T, c)
    <3>1. /\ \A c \in C : PhaseMap[c] \in {"held", "sent"}
          /\ PhaseMap' = [c \in Calls |-> IF c \in C THEN "unknown" ELSE PhaseMap[c]]
      BY <2>2, <2>3, <2>4 DEF PhaseMap
    <3>2. Lifecycle!Lose(C)
      BY <3>1 DEF PhaseMap, Lifecycle!Lose, Lifecycle!Move
    <3> QED
      BY <3>2 DEF Lifecycle!Next
  <2>5. CASE \A c \in C : Refused(T, c)
    <3>1. /\ \A c \in C : PhaseMap[c] = "held"
          /\ PhaseMap' = [c \in Calls |-> IF c \in C THEN "closed_unsent" ELSE PhaseMap[c]]
      BY <2>2, <2>3, <2>5 DEF PhaseMap
    <3>2. Lifecycle!Refuse(C)
      BY <3>1 DEF PhaseMap, Lifecycle!Refuse, Lifecycle!Move
    <3> QED
      BY <3>2 DEF Lifecycle!Next
  <2>6. CASE \E c \in C : C = {c} /\ (Admitted(T, c) \/ Sent(T, c) \/ Answered(T, c))
    <3>1. PICK c \in Calls : C = {c} /\ (Admitted(T, c) \/ Sent(T, c) \/ Answered(T, c))
      BY <2>6
    <3>2. \A s : Phase(c)' = s => PhaseMap' = [x \in Calls |-> IF x \in {c} THEN s ELSE PhaseMap[x]]
      BY <2>3, <3>1 DEF PhaseMap
    <3>3. Lifecycle!Admit(c) \/ Lifecycle!Send(c) \/ Lifecycle!Answer(c)
      BY <2>2, <3>1, <3>2
         DEF PhaseMap, Lifecycle!Admit, Lifecycle!Send, Lifecycle!Answer, Lifecycle!Move
    <3> QED
      BY <3>3 DEF Lifecycle!Next
  <2> QED
    BY <2>1, <2>4, <2>5, <2>6 DEF Moves
<1>2. CASE EnvironmentStep
  BY <1>2 DEF EnvironmentStep, PhaseMap, Phase, Status
<1>3. CASE UNCHANGED vars
  BY <1>3 DEF vars, PhaseMap, Phase, Status
<1> QED
  BY <1>1, <1>2, <1>3, NextIsStoreOrEnvironment

\* The store implements the abstract lifecycle of a call: admitted once, closed
\* unsent or sent once and answered, however processes, operators, the expiry
\* sweep, pruning and the clock interleave.
THEOREM StoreImplementsLifecycle == Spec => ImplementsLifecycle
<1>1. Spec => [](TypeOK /\ CallHistoryInv)
  BY TypeCorrect, HistoryInvariant, PTL
<1> QED
  BY <1>1, InitRefines, NextRefines, PTL DEF Spec, ImplementsLifecycle, Lifecycle!Spec, PhaseMap

-----------------------------------------------------------------------------
(* Room for terminal records.                                              *)

\* Live and closed calls can be counted.
LEMMA ActiveFinishedFinite ==
    ASSUME NEW S
    PROVE  /\ IsFiniteSet(Active(S)) /\ Cardinality(Active(S)) \in Nat
           /\ IsFiniteSet(Finished(S)) /\ Cardinality(Finished(S)) \in Nat
<1>1. Active(S) \in SUBSET Calls /\ Finished(S) \in SUBSET Calls
  BY DEF Active, Finished
<1> QED
  BY <1>1, CallsCardinality

\* The initial state has room for terminal records.
LEMMA InitRoom == Init => TerminalRoomKept
<1> SUFFICES ASSUME Init
             PROVE  TerminalRoomKept
  OBVIOUS
<1>1. Active(state) = {} /\ Finished(state) = {}
  BY DEF Init, InitialState, Active, Finished, Status, NoReservation
<1> QED
  BY <1>1, FS_EmptySet, CapacityAssumption DEF TerminalRoomKept

\* A move that admits no call leaves the live and the finished calls among the
\* calls that were live or finished before.
LEMMA OldCallsKeepRoom ==
    ASSUME TerminalRoomKept, CallHistoryInv',
           NEW A, NEW F,
           A = Active(state'), F = Finished(state'),
           A \cup F \subseteq Active(state) \cup Finished(state)
    PROVE  Cardinality(A) + Cardinality(F) <= MaxTerminalCallRecords
<1>1. /\ IsFiniteSet(A) /\ Cardinality(A) \in Nat
      /\ IsFiniteSet(F) /\ Cardinality(F) \in Nat
      /\ IsFiniteSet(Active(state)) /\ Cardinality(Active(state)) \in Nat
      /\ IsFiniteSet(Finished(state)) /\ Cardinality(Finished(state)) \in Nat
  BY ActiveFinishedFinite
<1>2. A \cap F = {}
  <2>1. \A c \in Calls : Status(state', c) = "absent" \/ state'.terminals[c] = "absent"
    BY DEF CallHistoryInv, CallHistory, Status
  <2> QED
    BY <2>1 DEF Active, Finished
<1>3. Cardinality(A \cup F) = Cardinality(A) + Cardinality(F)
  <2>1. Cardinality(A \cup F) = Cardinality(A) + Cardinality(F) - Cardinality(A \cap F)
    BY <1>1, FS_Union
  <2>2. Cardinality(A \cap F) = 0
    BY <1>2, FS_EmptySet
  <2> QED
    BY <1>1, <2>1, <2>2
<1> DEFINE B == Active(state) \cup Finished(state)
<1>4. /\ IsFiniteSet(B) /\ Cardinality(B) \in Nat
      /\ Cardinality(B) <= Cardinality(Active(state)) + Cardinality(Finished(state))
  <2>1. IsFiniteSet(B)
        /\ Cardinality(B) = Cardinality(Active(state)) + Cardinality(Finished(state))
                             - Cardinality(Active(state) \cap Finished(state))
    BY <1>1, FS_Union
  <2>2. Cardinality(Active(state) \cap Finished(state)) \in Nat
    BY <1>1, FS_Intersection, FS_CardinalityType
  <2>3. Cardinality(B) \in Nat
    BY <2>1, FS_CardinalityType
  <2> HIDE DEF B
  <2> QED
    BY <1>1, <2>1, <2>2, <2>3
<1>5. Cardinality(A \cup F) <= Cardinality(B)
  BY <1>4, FS_Subset
<1> HIDE DEF B
<1> QED
  BY <1>1, <1>3, <1>4, <1>5, CapacityAssumption DEF TerminalRoomKept

\* Every step keeps room for the terminal record of each live call.
LEMMA NextRoom ==
    TypeOK /\ CallHistoryInv /\ CallHistoryInv' /\ TerminalRoomKept /\ [Next]_vars
        => TerminalRoomKept'
<1> SUFFICES ASSUME TypeOK, CallHistoryInv, CallHistoryInv', TerminalRoomKept, [Next]_vars
             PROVE  TerminalRoomKept'
  OBVIOUS
<1>0. TerminalRoomKept' <=>
        Cardinality(Active(state')) + Cardinality(Finished(state')) <= MaxTerminalCallRecords
  BY DEF TerminalRoomKept, Active, Finished, Status
<1>1. CASE StoreStep
  <2>1. PICK T \in State, C \in SUBSET Calls : Commit(T) /\ Moves(T, C)
    BY <1>1 DEF StoreStep
  <2>2. ASSUME NEW c \in Calls
        PROVE  /\ Status(state', c) = Status(T, c)
               /\ state'.terminals[c] # "absent" => T.terminals[c] # "absent"
    BY <2>1, CommitLife
  <2>3. CASE \E c \in C : C = {c} /\ Admitted(T, c)
    <3>1. PICK c \in Calls : Admitted(T, c)
      BY <2>3
    <3>2. /\ Cardinality(Active(T) \ {c}) + Cardinality(Finished(T)) < MaxTerminalCallRecords
          /\ c \in Active(T)
      BY <3>1 DEF Admitted, Active
    <3>3. Active(state') = Active(T) /\ Finished(state') \subseteq Finished(T)
      BY <2>2 DEF Active, Finished
    <3>4. /\ IsFiniteSet(Active(T)) /\ Cardinality(Active(T)) \in Nat
          /\ IsFiniteSet(Finished(T)) /\ Cardinality(Finished(T)) \in Nat
          /\ Cardinality(Finished(state')) \in Nat
      BY ActiveFinishedFinite
    <3>5. Cardinality(Active(T) \ {c}) = Cardinality(Active(T)) - 1
      BY <3>2, <3>4, FS_RemoveElement
    <3>6. Cardinality(Finished(state')) <= Cardinality(Finished(T))
      BY <3>3, <3>4, FS_Subset
    <3> QED
      BY <1>0, <3>2, <3>3, <3>4, <3>5, <3>6, CapacityAssumption
  <2>4. CASE ~ \E c \in C : C = {c} /\ Admitted(T, c)
    <3>1. ASSUME NEW c \in Calls, c \in Active(state') \cup Finished(state')
          PROVE  c \in Active(state) \cup Finished(state)
      <4>1. \/ Kept(T, c) \/ Sent(T, c) \/ Lost(T, c) \/ Refused(T, c) \/ Answered(T, c)
        BY <2>1, <2>4 DEF Moves
      <4>2. Status(T, c) # "absent" \/ T.terminals[c] # "absent"
        BY <2>2, <3>1 DEF Active, Finished
      <4>3. Status(state, c) # "absent" \/ state.terminals[c] # "absent"
        BY <4>1, <4>2 DEF Kept, Sent, Lost, Refused, Answered
      <4> QED
        BY <4>3 DEF Active, Finished
    <3>2. Active(state') \cup Finished(state') \subseteq Active(state) \cup Finished(state)
      BY <3>1 DEF Active, Finished
    <3> QED
      BY <1>0, <3>2, OldCallsKeepRoom
  <2> QED
    BY <2>3, <2>4
<1>2. CASE UNCHANGED state
  BY <1>0, <1>2 DEF TerminalRoomKept
<1> QED
  BY <1>1, <1>2, NextIsStoreOrEnvironment DEF EnvironmentStep, vars

\* Terminal history never fills up under a live reservation: whoever closes it
\* finds room for its terminal record.
THEOREM RoomForTerminals == Spec => []TerminalRoomKept
<1>1. Spec => [](TypeOK /\ CallHistoryInv)
  BY TypeCorrect, HistoryInvariant, PTL
<1> QED
  BY <1>1, InitRoom, NextRoom, PTL DEF Spec

-----------------------------------------------------------------------------
(* Decided approvals.                                                      *)

\* The transitions of reservations and records leave the approvals alone.
LEMMA ApprovalsFrame ==
    ASSUME NEW S \in State
    PROVE  /\ \A C, d, n : SetReserved(S, C, d, n).approvals = S.approvals
           /\ \A C, s : SetStatus(S, C, s).approvals = S.approvals
           /\ \A C, o : RecordTerminal(S, C, o).approvals = S.approvals
           /\ \A C : CommitDispatch(S, C).approvals = S.approvals
           /\ \A C : RecordDenialCharges(S, C).approvals = S.approvals
           /\ \A c, n : CommitResult(S, c, n).approvals = S.approvals
           /\ \A c, d, n : Consume(S, c, d, n).approvals = S.approvals
<1>1. \A C, d, n : SetReserved(S, C, d, n).approvals = S.approvals
  BY DEF SetReserved, State
<1>2. \A C, s : SetStatus(S, C, s).approvals = S.approvals
  BY DEF SetStatus, State
<1>3. \A C, o : RecordTerminal(S, C, o).approvals = S.approvals
  BY DEF RecordTerminal, State
<1>4. \A C : CommitDispatch(S, C).approvals = S.approvals
  <2> TAKE C
  <2> DEFINE f == [l \in Lineages |->
            [S.records[l] EXCEPT !.consumed["call"] =
                @ + SumFunctionOnSet(Held(S, l, "call"), Charging(S, l) \cap C)]]
             T == [S EXCEPT !.records = f]
  <2>1. \A l \in Lineages : SumFunctionOnSet(Held(S, l, "call"), Charging(S, l) \cap C) \in Nat
    BY HeldType DEF Dims
  <2>2. f \in [Lineages -> BudgetRecord]
    BY <2>1, StateParts, RecordUpdate DEF Dims
  <2> HIDE DEF f
  <2>3. T \in State /\ T.approvals = S.approvals
    BY <2>2, StateUpdate DEF State
  <2> HIDE DEF T
  <2>4. SetReserved(T, C, "call", 0).approvals = T.approvals
    BY <2>3 DEF SetReserved, State
  <2> QED
    BY <2>3, <2>4 DEF CommitDispatch, T, f
<1>5. \A C : RecordDenialCharges(S, C).approvals = S.approvals
  BY DEF RecordDenialCharges, State
<1>6. \A c, d, n : Consume(S, c, d, n).approvals = S.approvals
  BY DEF Consume, State
<1>7. \A c, n : CommitResult(S, c, n).approvals = S.approvals
  BY <1>6 DEF CommitResult
<1> QED
  BY <1>1, <1>2, <1>3, <1>4, <1>5, <1>6, <1>7

\* What was decided stays decided; what was asked for is forgotten only when
\* the identity of its call has expired.
KeepsDecisions(T) ==
    \A k \in Keys :
        /\ state.approvals[k].status \notin {"absent", "pending"} =>
              T.approvals[k].status \in {"absent", state.approvals[k].status}
        /\ T.approvals[k].status = "absent" =>
              state.approvals[k].status = "absent" \/ CallIdentityExpired(k[1], now)

Decisions == KeepsDecisions(state')

\* A published state that keeps decided approvals only prunes them.
LEMMA CommitDecisions ==
    ASSUME TypeOK, NEW T \in State, Commit(T), KeepsDecisions(T)
    PROVE  Decisions
<1> DEFINE U == [T EXCEPT !.observed = now]
<1>1. U \in State /\ U.approvals = T.approvals
  BY DEF State, TypeOK
<1>2. state' = PruneRetainedHistory(U, now)
  BY DEF Commit, Written
<1> HIDE DEF U
<1>3. \A k \in Keys : \/ state'.approvals[k] = U.approvals[k]
                      \/ /\ state'.approvals[k] = NoApproval
                         /\ CallIdentityExpired(k[1], now)
  BY <1>1, <1>2 DEF PruneRetainedHistory, State
<1> QED
  BY <1>1, <1>3 DEF KeepsDecisions, Decisions, NoApproval

\* A negative decision changes pending approvals only.
LEMMA FinishDecisions ==
    ASSUME TypeOK, NEW K \in SUBSET Keys, NEW s \in FailureStatuses,
           NEW r \in Receipts \cup {0}, Finish(K, s, r),
           \A k \in K : state.approvals[k].status = "pending"
    PROVE  Decisions
<1> DEFINE f == [k \in Keys |->
                        IF k \in K
                        THEN [state.approvals[k] EXCEPT !.status = s, !.receipt = r]
                        ELSE state.approvals[k]]
           D == [state EXCEPT !.approvals = f]
           F == SetReserved(D, CallsOf(K, "post_result"), "approval", 0)
           G == RecordDenialCharges(F, CallsOf(K, "pre_call"))
           T == FinishPending(state, K, s, r)
<1>1. T \in State
  BY FinishPendingType DEF TypeOK, ApprovalStatuses
<1>2. f \in [Keys -> ApprovalRecord]
  <2>1. state \in State /\ s \in ApprovalStatuses
    BY DEF TypeOK, ApprovalStatuses
  <2>2. \A a \in ApprovalRecord : [a EXCEPT !.status = s, !.receipt = r] \in ApprovalRecord
    BY <2>1 DEF ApprovalRecord
  <2> QED
    BY <2>1, <2>2, StateParts
<1>3. /\ \A k \in Keys \ K : f[k] = state.approvals[k]
      /\ \A k \in K : f[k].status # "absent"
  <2>1. \A a \in ApprovalRecord : [a EXCEPT !.status = s, !.receipt = r].status = s
    BY DEF ApprovalRecord
  <2>2. \A k \in K : f[k].status = s
    BY <2>1, StateParts DEF TypeOK
  <2> QED
    BY <2>2 DEF FailureStatuses
<1> HIDE DEF f
<1>4. D \in State /\ D.approvals = f
  BY <1>2, StateUpdate DEF TypeOK, State
<1> HIDE DEF D
<1>5. F \in State /\ F.approvals = f
  BY <1>4, SetReservedType, ApprovalsFrame DEF Dims
<1> HIDE DEF F
<1>6. G \in State /\ G.approvals = f
  BY <1>5, RecordDenialChargesType, ApprovalsFrame
<1> HIDE DEF G
<1>7. T = RecordTerminal(G, CallsOf(K, "pre_call"), "blocked")
  BY DEF FinishPending, T, G, F, D, f
<1> HIDE DEF T
<1>8. KeepsDecisions(T)
  BY <1>3, <1>6, <1>7, ApprovalsFrame DEF KeepsDecisions
<1>9. Commit(T)
  BY DEF Finish, T
<1> QED
  BY <1>1, <1>8, <1>9, CommitDecisions

\* A publication of the approvals as they are.
LEMMA SameApprovalsDecisions ==
    ASSUME TypeOK, NEW T \in State, Commit(T), T.approvals = state.approvals
    PROVE  Decisions
BY CommitDecisions DEF KeepsDecisions

\* Reserve decides nothing.
LEMMA ReserveDecisions ==
    ASSUME TypeOK, NEW o \in Owners, NEW c \in Calls, Reserve(o, c)
    PROVE  Decisions
<1> DEFINE declared == UpsertRecords(PruneWindows(state), c)
           kept     == PruneRetainedHistory(declared, now)
           T        == [kept EXCEPT !.reservations[c] = NewReservation(o, c)]
<1>1. declared \in State
  BY UpsertType
<1>2. declared.approvals = state.approvals
  BY DEF UpsertRecords, PruneWindows, State, TypeOK
<1> HIDE DEF declared
<1>3. kept \in State
  BY <1>1, PruneType
<1>4. \A k \in Keys : \/ kept.approvals[k] = declared.approvals[k]
                      \/ /\ kept.approvals[k] = NoApproval
                         /\ CallIdentityExpired(k[1], now)
  BY <1>1 DEF PruneRetainedHistory, State
<1> HIDE DEF kept
<1>5. T \in State /\ T.approvals = kept.approvals
  BY <1>3, NewReservationType DEF State
<1>6. KeepsDecisions(T)
  BY <1>2, <1>4, <1>5 DEF KeepsDecisions, NoApproval
<1>7. Commit(declared) \/ Commit(T)
  BY DEF Reserve, declared, kept, T
<1> HIDE DEF T
<1> QED
  BY <1>1, <1>2, <1>5, <1>6, <1>7, CommitDecisions, SameApprovalsDecisions

\* No operation on a reservation changes a decided approval.
LEMMA ReservationStepDecisions ==
    ASSUME TypeOK, NEW c \in Calls, ReservationStep(c)
    PROVE  Decisions
<1>0. state \in State
  BY DEF TypeOK
<1>1. ASSUME NEW o \in Owners, Reserve(o, c)
      PROVE  Decisions
  BY <1>1, ReserveDecisions
<1>2. CASE RefuseStaleContract(c)
  BY <1>0, <1>2, SameApprovalsDecisions DEF RefuseStaleContract, PersistClockObservation
<1>3. ASSUME NEW s \in {"dispatched", "indeterminate"},
             Commit(SetStatus(CommitDispatch(state, {c}), {c}, s))
      PROVE  Decisions
  <2>1. CommitDispatch(state, {c}) \in State
        /\ CommitDispatch(state, {c}).approvals = state.approvals
    BY <1>0, CommitDispatchType, ApprovalsFrame
  <2>2. SetStatus(CommitDispatch(state, {c}), {c}, s) \in State
        /\ SetStatus(CommitDispatch(state, {c}), {c}, s).approvals = state.approvals
    BY <2>1, SetStatusType, ApprovalsFrame DEF ReservationStatuses
  <2> QED
    BY <1>3, <2>2, SameApprovalsDecisions
<1>4. ASSUME Commit(SetStatus(state, {c}, "indeterminate"))
      PROVE  Decisions
  <2>1. SetStatus(state, {c}, "indeterminate") \in State
        /\ SetStatus(state, {c}, "indeterminate").approvals = state.approvals
    BY <1>0, SetStatusType, ApprovalsFrame DEF ReservationStatuses
  <2> QED
    BY <1>4, <2>1, SameApprovalsDecisions
<1>5. ASSUME NEW S \in State, S.approvals = state.approvals, NEW o \in Outcomes,
             Commit(RecordTerminal(S, {c}, o))
      PROVE  Decisions
  <2>1. RecordTerminal(S, {c}, o) \in State
        /\ RecordTerminal(S, {c}, o).approvals = state.approvals
    BY <1>5, RecordTerminalType, ApprovalsFrame
  <2> QED
    BY <1>5, <2>1, SameApprovalsDecisions
<1>6. CASE MarkDispatched(c)
  BY <1>3, <1>6 DEF MarkDispatched
<1>7. CASE MarkIndeterminate(c)
  BY <1>3, <1>4, <1>7 DEF MarkIndeterminate
<1>8. CASE Release(c)
  BY <1>0, <1>5, <1>8 DEF Release, Outcomes
<1>9. CASE RecordDenied(c)
  BY <1>0, <1>5, <1>9, RecordDenialChargesType, ApprovalsFrame DEF RecordDenied, Outcomes
<1>10. ASSUME NEW n \in ResultSizes, Settle(c, n)
       PROVE  Decisions
  <2>1. [b \in Budgets |-> n] \in [Budgets -> Nat]
    BY ResultAssumption
  <2>2. CommitResult(state, c, [b \in Budgets |-> n]) \in State
        /\ CommitResult(state, c, [b \in Budgets |-> n]).approvals = state.approvals
    BY <1>0, <2>1, CommitResultType, ApprovalsFrame
  <2> QED
    BY <1>4, <1>5, <1>10, <2>2 DEF Settle, Outcomes
<1>11. ASSUME NEW n \in ResultSizes, NEW o \in {"settled", "indeterminate_committed"},
              ReconcileIndeterminate(c, o, n)
       PROVE  Decisions
  <2> DEFINE amount == [b \in Budgets |->
                 IF o = "settled" THEN n
                 ELSE state.reservations[c].charges[b].reserved["result"]]
  <2>1. amount \in [Budgets -> Nat]
    <3>1. \A b \in Budgets : state.reservations[c].charges[b].reserved["result"] \in Nat
      BY <1>0, StateParts DEF Charge, Usage, Dims
    <3> QED
      BY <3>1, ResultAssumption
  <2>2. Commit(RecordTerminal(CommitResult(state, c, amount), {c}, o))
    BY <1>11 DEF ReconcileIndeterminate, Reconciled
  <2> HIDE DEF amount
  <2>3. CommitResult(state, c, amount) \in State
        /\ CommitResult(state, c, amount).approvals = state.approvals
    BY <1>0, <2>1, CommitResultType, ApprovalsFrame
  <2> QED
    BY <1>5, <2>2, <2>3 DEF Outcomes
<1> QED
  BY <1>1, <1>2, <1>6, <1>7, <1>8, <1>9, <1>10, <1>11 DEF ReservationStep

\* Abandoning an owner changes pending approvals only.
LEMMA AbandonDecisions ==
    ASSUME TypeOK, NEW o \in Owners, MarkOwnerAbandoned(o)
    PROVE  Decisions
<1> DEFINE owned   == {c \in Active(state) : /\ state.reservations[c].owner = o
                                             /\ Status(state, c) # "indeterminate"}
           waiting == {k \in Pending(state) : k[1] \in owned}
           unsent  == {c \in owned : Status(state, c) = "reserved"}
           f       == [k \in Keys |->
                          IF k \in waiting
                          THEN [state.approvals[k] EXCEPT !.status = "unavailable"]
                          ELSE state.approvals[k]]
           S       == [state EXCEPT !.approvals = f]
           R       == SetReserved(S, {k[1] : k \in waiting}, "approval", 0)
           U       == CommitDispatch(R, unsent)
           T       == SetStatus(U, owned, "indeterminate")
<1>1. state \in State
  BY DEF TypeOK
<1>2. f \in [Keys -> ApprovalRecord]
  <2>1. \A a \in ApprovalRecord : [a EXCEPT !.status = "unavailable"] \in ApprovalRecord
    BY DEF ApprovalRecord, ApprovalStatuses, FailureStatuses
  <2> QED
    BY <1>1, <2>1, StateParts
<1>3. /\ \A k \in Keys : state.approvals[k].status # "pending" => f[k] = state.approvals[k]
      /\ \A k \in Keys : state.approvals[k].status = "pending" => f[k].status # "absent"
  <2>1. \A a \in ApprovalRecord : [a EXCEPT !.status = "unavailable"].status = "unavailable"
    BY DEF ApprovalRecord
  <2>2. \A k \in waiting : f[k].status = "unavailable"
    <3>1. \A k \in waiting : k \in Keys /\ state.approvals[k] \in ApprovalRecord
      BY <1>1, StateParts DEF Pending
    <3> QED
      BY <2>1, <3>1
  <2>3. \A k \in Keys \ waiting : f[k] = state.approvals[k]
    OBVIOUS
  <2>4. \A k \in waiting : state.approvals[k].status = "pending"
    BY DEF Pending
  <2> HIDE DEF f, waiting
  <2> QED
    BY <2>2, <2>3, <2>4
<1> HIDE DEF f
<1>4. S \in State /\ S.approvals = f
  BY <1>1, <1>2, StateUpdate DEF State
<1> HIDE DEF S
<1>5. R \in State /\ R.approvals = f
  BY <1>4, SetReservedType, ApprovalsFrame DEF Dims
<1> HIDE DEF R
<1>6. U \in State /\ U.approvals = f
  BY <1>5, CommitDispatchType, ApprovalsFrame
<1> HIDE DEF U
<1>7. T \in State /\ T.approvals = f
  BY <1>6, SetStatusType, ApprovalsFrame DEF ReservationStatuses
<1>8. Commit(T)
  BY DEF MarkOwnerAbandoned, T, U, R, S, f
<1> HIDE DEF T
<1>9. KeepsDecisions(T)
  BY <1>3, <1>7 DEF KeepsDecisions
<1> QED
  BY <1>7, <1>8, <1>9, CommitDecisions

\* No operation on an approval changes a decided one.
LEMMA ApprovalStepDecisions ==
    ASSUME TypeOK, NEW k \in Keys, ApprovalStep(k)
    PROVE  Decisions
<1>0. /\ k[1] \in Calls /\ state \in State /\ {k} \in SUBSET Keys
      /\ state.approvals \in [Keys -> ApprovalRecord]
  BY DEF Keys, TypeOK, State
<1>1. ASSUME NEW o \in Owners, IssueApproval(o, k)
      PROVE  Decisions
  <2> DEFINE charged == IF ApprovalReserved(state, k[1]) THEN state
                        ELSE SetReserved(state, {k[1]}, "approval", 1)
             a == [status |-> "pending", expires |-> now + ApprovalTTL,
                   plan |-> policy, receipt |-> 0]
             T == [charged EXCEPT !.approvals[k] = a]
  <2>1. charged \in State /\ charged.approvals = state.approvals
    BY <1>0, SetReservedType, ApprovalsFrame DEF Dims
  <2>2. a \in ApprovalRecord
    <3>1. now + ApprovalTTL \in Time
      BY <1>1, TimeAssumption DEF IssueApproval, TypeOK, Time
    <3> QED
      BY <3>1 DEF ApprovalRecord, ApprovalStatuses, TypeOK
  <2>3. Commit(T) /\ state.approvals[k].status = "absent"
    BY <1>1 DEF IssueApproval
  <2> HIDE DEF a, charged
  <2>4. /\ T \in State /\ T.approvals[k] = a
        /\ \A j \in Keys \ {k} : T.approvals[j] = state.approvals[j]
    BY <2>1, <2>2 DEF State
  <2>5. KeepsDecisions(T)
    BY <2>3, <2>4 DEF KeepsDecisions
  <2> QED
    BY <2>3, <2>4, <2>5, CommitDecisions
<1>2. ASSUME NEW s \in FailureStatuses, NEW r \in Receipts \cup {0}, Finish({k}, s, r),
             state.approvals[k].status = "pending"
      PROVE  Decisions
  BY <1>0, <1>2, FinishDecisions
<1>3. ASSUME NEW o \in Owners, NEW r \in Receipts, ConsumeApproved(o, k, r)
      PROVE  Decisions
  <2> DEFINE charged == IF BudgetsOf[k[1]] = {} THEN state
                        ELSE CommitApprovalCharges(state, k[1])
             f == [charged.approvals EXCEPT ![k].status = "approved", ![k].receipt = r]
             T == [charged EXCEPT !.approvals[k].status = "approved",
                                  !.approvals[k].receipt = r]
  <2>0. state.approvals[k].status = "pending"
    BY <1>3 DEF ConsumeApproved, Consumable
  <2>1. charged \in State /\ charged.approvals = state.approvals
    <3>1. CommitApprovalCharges(state, k[1]).approvals = state.approvals
      <4> DEFINE unit == [b \in Budgets |-> IF Limits[b]["approval"] = 0 THEN 0 ELSE 1]
                 V == Consume(state, k[1], "approval", unit)
                 W == SetReserved(V, {k[1]}, "approval", 0)
      <4>1. unit \in [Budgets -> Nat]
        OBVIOUS
      <4>2. V \in State /\ V.approvals = state.approvals
        BY <1>0, <4>1, ConsumeType, ApprovalsFrame DEF Dims
      <4> HIDE DEF V
      <4>3. W \in State /\ W.approvals = state.approvals
        BY <4>2, SetReservedType, ApprovalsFrame DEF Dims
      <4> HIDE DEF W
      <4>4. \A g : [W EXCEPT !.reservations[k[1]].charges = g].approvals = W.approvals
        BY <4>3 DEF State
      <4> QED
        BY <4>3, <4>4 DEF CommitApprovalCharges, W, V
    <3> QED
      BY <1>0, <3>1, CommitApprovalChargesType
  <2> HIDE DEF charged
  <2>2. \A a \in ApprovalRecord :
            [a EXCEPT !.status = "approved", !.receipt = r] \in ApprovalRecord
    BY DEF ApprovalRecord, ApprovalStatuses
  <2>3. /\ f \in [Keys -> ApprovalRecord]
        /\ \A j \in Keys \ {k} : f[j] = state.approvals[j]
        /\ f[k].status # "absent"
    <3>1. \A a \in ApprovalRecord :
              [a EXCEPT !.status = "approved", !.receipt = r].status = "approved"
      BY DEF ApprovalRecord
    <3> QED
      BY <1>0, <2>1, <2>2, <3>1
  <2>4. T = [charged EXCEPT !.approvals = f]
    BY <1>0, <2>1 DEF State
  <2> HIDE DEF f, T
  <2>5. T \in State /\ T.approvals = f
    BY <2>1, <2>3, <2>4, StateUpdate DEF State
  <2>6. KeepsDecisions(T)
    BY <2>0, <2>3, <2>5 DEF KeepsDecisions
  <2>7. CASE ReceiptKnown(r, k)
    BY <1>2, <1>3, <2>0, <2>7 DEF ConsumeApproved, FailureStatuses
  <2>8. CASE ~ReceiptKnown(r, k)
    <3>1. Commit(T)
      BY <1>3, <2>8 DEF ConsumeApproved, charged, T
    <3> QED
      BY <2>5, <2>6, <3>1, CommitDecisions
  <2> QED
    BY <2>7, <2>8
<1>4. ASSUME NEW o \in Owners, NEW s \in FailureStatuses, ConsumeUnverified(o, k, s)
      PROVE  Decisions
  BY <1>2, <1>4 DEF ConsumeUnverified, Consumable
<1>5. ASSUME NEW o \in Owners, NEW r \in Receipts, ConsumeRejected(o, k, r)
      PROVE  Decisions
  BY <1>2, <1>5 DEF ConsumeRejected, Consumable, FailureStatuses
<1>6. ASSUME NEW s \in FailureStatuses \ {"rejected"}, FinalizeApproval(k, s)
      PROVE  Decisions
  BY <1>2, <1>6 DEF FinalizeApproval
<1> QED
  BY <1>1, <1>3, <1>4, <1>5, <1>6 DEF ApprovalStep

\* No step decides a decided approval again.
LEMMA NextDecisions == TypeOK /\ [Next]_vars => Decisions
<1> SUFFICES ASSUME TypeOK, [Next]_vars
             PROVE  Decisions
  OBVIOUS
<1>1. ASSUME NEW c \in Calls, ReservationStep(c)
      PROVE  Decisions
  BY <1>1, ReservationStepDecisions
<1>2. ASSUME NEW k \in Keys, ApprovalStep(k)
      PROVE  Decisions
  BY <1>2, ApprovalStepDecisions
<1>3. ASSUME NEW o \in Owners, MarkOwnerAbandoned(o)
      PROVE  Decisions
  BY <1>3, AbandonDecisions
<1>4. CASE ReconcileExpiredApprovals
  <2>1. Expired \in SUBSET Keys /\ \A k \in Expired : state.approvals[k].status = "pending"
    BY DEF Expired, Pending
  <2> QED
    BY <1>4, <2>1, FinishDecisions DEF ReconcileExpiredApprovals, FailureStatuses
<1>5. CASE UNCHANGED state
  BY <1>5 DEF Decisions, KeepsDecisions
<1> QED
  BY <1>1, <1>2, <1>3, <1>4, <1>5
     DEF Next, NewCallID, Tick, SetClockBack, PolicyChange, vars

\* A decided approval is never decided again: neither a late receipt, nor a
\* cancellation, nor the expiry sweep, nor an abandonment changes it.
THEOREM DecisionsFinal == Spec => DecisionsAreFinal
<1>1. TypeOK /\ [Next]_vars =>
        [\A k \in Keys : state.approvals[k].status \notin {"absent", "pending"} =>
             state'.approvals[k].status \in {"absent", state.approvals[k].status}]_vars
  BY NextDecisions DEF Decisions, KeepsDecisions
<1> QED
  BY <1>1, TypeCorrect, PTL DEF Spec, DecisionsAreFinal

-----------------------------------------------------------------------------
(* Each phase of a call asks once.                                         *)

\* A request is remembered by its approval record, or by a persisted clock that
\* has left the identity of its call behind.
AskedOK(k) ==
    /\ history[k[1]].asked[k[2]] \in {0, 1}
    /\ history[k[1]].asked[k[2]] = 1 =>
          /\ issued[k[1]] # 0
          /\ state.approvals[k].status # "absent" \/ CallIdentityExpired(k[1], state.observed)

AskedInv == \A k \in Keys : AskedOK(k)

\* Only IssueApproval counts a request.
SameAsked == \A k \in Keys : history'[k[1]].asked[k[2]] = history[k[1]].asked[k[2]]

\* The marks and counts of the other operations are no requests.
LEMMA OthersAskNothing ==
    ASSUME TypeOK,
           \/ \E x \in Calls : \E n : history' = [history EXCEPT ![x].returned = n]
           \/ \E x \in Calls : \E n : history' = [history EXCEPT ![x].approved = n]
           \/ \E x \in Calls : \E n, L : history' = [history EXCEPT ![x] =
                   [history[x] EXCEPT !.admitted = n, !.lineages = L]]
           \/ \E C : NoteSent(C) \/ NoteBlocked(C)
           \/ history' = history
    PROVE  SameAsked
<1> SUFFICES ASSUME NEW k \in Keys
             PROVE  history'[k[1]].asked = history[k[1]].asked
  BY DEF SameAsked
<1> DEFINE c == k[1]
<1>1. c \in Calls /\ history \in [Calls -> History] /\ history[c] \in History
  BY DEF Keys, TypeOK
<1> HIDE DEF c
<1>2. \A h \in History :
         /\ [h EXCEPT !.sent = TRUE].asked = h.asked
         /\ [h EXCEPT !.blocked = TRUE].asked = h.asked
  BY DEF History
<1>3. CASE \E x \in Calls : \E n : history' = [history EXCEPT ![x].returned = n]
  <2>1. PICK x \in Calls : \E n : history' = [history EXCEPT ![x].returned = n]
    BY <1>3
  <2>2. PICK n : history' = [history EXCEPT ![x].returned = n]
    BY <2>1
  <2>3. history'[c] = IF c = x THEN [history[c] EXCEPT !.returned = n] ELSE history[c]
    BY <1>1, <2>2
  <2>4. [history[c] EXCEPT !.returned = n].asked = history[c].asked
    BY <1>1 DEF History
  <2>5. history'[c].asked = history[c].asked
    BY <2>3, <2>4
  <2> QED
    BY <2>5 DEF c
<1>4. CASE \E x \in Calls : \E n : history' = [history EXCEPT ![x].approved = n]
  <2>1. PICK x \in Calls : \E n : history' = [history EXCEPT ![x].approved = n]
    BY <1>4
  <2>2. PICK n : history' = [history EXCEPT ![x].approved = n]
    BY <2>1
  <2>3. history'[c] = IF c = x THEN [history[c] EXCEPT !.approved = n] ELSE history[c]
    BY <1>1, <2>2
  <2>4. [history[c] EXCEPT !.approved = n].asked = history[c].asked
    BY <1>1 DEF History
  <2>5. history'[c].asked = history[c].asked
    BY <2>3, <2>4
  <2> QED
    BY <2>5 DEF c
<1>5. CASE \E x \in Calls : \E n, L : history' = [history EXCEPT ![x] =
              [history[x] EXCEPT !.admitted = n, !.lineages = L]]
  <2>1. PICK x \in Calls : \E n, L : history' = [history EXCEPT ![x] =
              [history[x] EXCEPT !.admitted = n, !.lineages = L]]
    BY <1>5
  <2>2. PICK n, L : history' = [history EXCEPT ![x] =
              [history[x] EXCEPT !.admitted = n, !.lineages = L]]
    BY <2>1
  <2>3. history'[c] = IF c = x THEN [history[c] EXCEPT !.admitted = n, !.lineages = L]
                      ELSE history[c]
    BY <1>1, <2>2
  <2>4. [history[c] EXCEPT !.admitted = n, !.lineages = L].asked = history[c].asked
    BY <1>1 DEF History
  <2>5. history'[c].asked = history[c].asked
    BY <2>3, <2>4
  <2> QED
    BY <2>5 DEF c
<1>6. CASE \E C : NoteSent(C) \/ NoteBlocked(C)
  BY <1>1, <1>2, <1>6 DEF NoteSent, NoteBlocked, c
<1>7. CASE history' = history
  BY <1>7 DEF c
<1> QED
  BY <1>3, <1>4, <1>5, <1>6, <1>7

\* Every step asks for nothing, or is a request.
LEMMA NextAsks ==
    ASSUME TypeOK, [Next]_vars
    PROVE  SameAsked \/ \E k \in Keys, o \in Owners : IssueApproval(o, k)
<1>1. ASSUME NEW c \in Calls, ReservationStep(c)
      PROVE  SameAsked
  <2>1. ASSUME NEW o \in Owners, Reserve(o, c)
        PROVE  SameAsked
    BY <2>1, OthersAskNothing DEF Reserve
  <2>2. CASE RefuseStaleContract(c) \/ Release(c)
    BY <2>2, OthersAskNothing DEF RefuseStaleContract, PersistClockObservation, Release
  <2>3. CASE MarkDispatched(c) \/ RecordDenied(c) \/ MarkIndeterminate(c)
    BY <2>3, OthersAskNothing DEF MarkDispatched, RecordDenied, MarkIndeterminate
  <2>4. ASSUME NEW n \in ResultSizes, Settle(c, n)
        PROVE  SameAsked
    BY <2>4, OthersAskNothing DEF Settle
  <2>5. ASSUME NEW n \in ResultSizes, NEW o \in {"settled", "indeterminate_committed"},
               ReconcileIndeterminate(c, o, n)
        PROVE  SameAsked
    BY <2>5, OthersAskNothing DEF ReconcileIndeterminate
  <2> QED
    BY <1>1, <2>1, <2>2, <2>3, <2>4, <2>5 DEF ReservationStep
<1>2. ASSUME NEW k \in Keys, ApprovalStep(k)
      PROVE  SameAsked \/ \E o \in Owners : IssueApproval(o, k)
  <2>1. ASSUME NEW K, NEW s, NEW r, Finish(K, s, r)
        PROVE  SameAsked
    BY <2>1, OthersAskNothing DEF Finish
  <2>2. ASSUME NEW o \in Owners, NEW s \in FailureStatuses, ConsumeUnverified(o, k, s)
        PROVE  SameAsked
    BY <2>1, <2>2 DEF ConsumeUnverified
  <2>3. ASSUME NEW o \in Owners, NEW r \in Receipts, ConsumeRejected(o, k, r)
        PROVE  SameAsked
    BY <2>1, <2>3 DEF ConsumeRejected
  <2>4. ASSUME NEW o \in Owners, NEW r \in Receipts, ConsumeApproved(o, k, r)
        PROVE  SameAsked
    <3>1. k[1] \in Calls
      BY DEF Keys
    <3> QED
      BY <2>1, <2>4, <3>1, OthersAskNothing DEF ConsumeApproved
  <2>5. ASSUME NEW s \in FailureStatuses \ {"rejected"}, FinalizeApproval(k, s)
        PROVE  SameAsked
    BY <2>1, <2>5 DEF FinalizeApproval
  <2> QED
    BY <1>2, <2>2, <2>3, <2>4, <2>5 DEF ApprovalStep
<1>3. ASSUME NEW o \in Owners, MarkOwnerAbandoned(o)
      PROVE  SameAsked
  BY <1>3, OthersAskNothing DEF MarkOwnerAbandoned
<1>4. CASE ReconcileExpiredApprovals
  BY <1>4, OthersAskNothing DEF ReconcileExpiredApprovals, Finish
<1>5. CASE UNCHANGED history
  BY <1>5, OthersAskNothing
<1> QED
  BY <1>1, <1>2, <1>3, <1>4, <1>5
     DEF Next, NewCallID, Tick, SetClockBack, PolicyChange, vars

\* A request finds no record of an earlier one, at an instant at which its
\* identity is admissible: there was none.
LEMMA IssueAsksOnce ==
    ASSUME TypeOK, AskedInv, NEW o \in Owners, NEW k \in Keys, IssueApproval(o, k),
           NEW j \in Keys
    PROVE  /\ history'[j[1]].asked[j[2]] =
                 IF j = k THEN history[j[1]].asked[j[2]] + 1 ELSE history[j[1]].asked[j[2]]
           /\ history[k[1]].asked[k[2]] = 0 /\ issued[k[1]] # 0
           /\ state'.approvals[k].status # "absent"
<1> DEFINE c == k[1]
           p == k[2]
           d == j[1]
           q == j[2]
<1>1. /\ c \in Calls /\ p \in Phases /\ d \in Calls /\ q \in Phases
      /\ k = <<c, p>> /\ j = <<d, q>>
  BY DEF Keys
<1>2. /\ state.approvals[k].status = "absent" /\ Admissible(c, now)
      /\ history' = [history EXCEPT ![c].asked[p] = @ + 1]
  BY DEF IssueApproval
<1> HIDE DEF c, p, d, q
<1>3. history \in [Calls -> History] /\ \A x \in Calls : history[x].asked \in [Phases -> Nat]
  BY DEF TypeOK, History
<1>4. history'[d].asked[q] = IF j = k THEN history[d].asked[q] + 1 ELSE history[d].asked[q]
  <2> DEFINE f == [history[c].asked EXCEPT ![p] = @ + 1]
  <2>1. history' = [history EXCEPT ![c] = [history[c] EXCEPT !.asked = f]]
    BY <1>1, <1>2, <1>3
  <2>2. [history[c] EXCEPT !.asked = f].asked = f
    <3>1. history[c] \in History
      BY <1>1, <1>3
    <3> QED
      BY <3>1 DEF History
  <2>3. history'[d].asked = IF d = c THEN f ELSE history[d].asked
    BY <1>1, <1>3, <2>1, <2>2
  <2>4. f[q] = IF q = p THEN history[c].asked[q] + 1 ELSE history[c].asked[q]
    BY <1>1, <1>3
  <2> HIDE DEF f
  <2> QED
    BY <1>1, <2>3, <2>4
<1>5. history[c].asked[p] = 0 /\ issued[c] # 0
  <2>1. AskedOK(k)
    BY DEF AskedInv
  <2>2. /\ now \in Nat /\ state.observed \in Nat /\ issued[c] \in Nat
        /\ AdmissionWindow \in Nat /\ ClockSkew \in Nat
    BY <1>1, TimeAssumption DEF TypeOK, State, Time
  <2>3. now >= state.observed
    BY DEF IssueApproval, Commit, TrustedNow
  <2>4. ~CallIdentityExpired(c, state.observed)
    BY <1>2, <2>2, <2>3 DEF Admissible, CallIdentityExpired
  <2> QED
    BY <1>2, <2>1, <2>4 DEF AskedOK, Admissible, c, p
<1>6. state'.approvals[k].status # "absent"
  <2> DEFINE charged == IF ApprovalReserved(state, k[1]) THEN state
                        ELSE SetReserved(state, {k[1]}, "approval", 1)
             a == [status |-> "pending", expires |-> now + ApprovalTTL,
                   plan |-> policy, receipt |-> 0]
             T == [charged EXCEPT !.approvals[k] = a]
             U == [T EXCEPT !.observed = now]
  <2>1. charged \in State
    BY <1>1, SetReservedType DEF TypeOK, Dims, c
  <2>2. Commit(T)
    BY DEF IssueApproval
  <2>3. a.status = "pending"
    OBVIOUS
  <2> HIDE DEF a, charged
  <2>4. U.approvals[k] = a
    BY <2>1 DEF State
  <2>5. state' = PruneRetainedHistory(U, now)
    BY <2>2 DEF Commit, Written
  <2> HIDE DEF U
  <2>6. ~FinishedOutsideWindow(U, k, now)
    BY <2>3, <2>4 DEF FinishedOutsideWindow
  <2>7. state'.approvals[k] = U.approvals[k]
    <3>1. U \in [{"observed", "records", "reservations", "terminals", "approvals"} -> {U[x] : x \in
                 {"observed", "records", "reservations", "terminals", "approvals"}}]
      BY <2>1 DEF State, U, T
    <3> QED
      BY <2>5, <2>6, <3>1 DEF PruneRetainedHistory
  <2> QED
    BY <2>3, <2>4, <2>7
<1> QED
  BY <1>4, <1>5, <1>6 DEF c, p, d, q

\* Every step keeps the count of requests.
LEMMA NextAsked == TypeOK /\ CallHistoryInv /\ AskedInv /\ [Next]_vars => AskedInv'
<1> SUFFICES ASSUME TypeOK, CallHistoryInv, AskedInv, [Next]_vars, NEW k \in Keys
             PROVE  AskedOK(k)'
  BY DEF AskedInv
<1> DEFINE c == k[1]
<1>1. AskedOK(k) /\ c \in Calls
  BY DEF AskedInv, Keys
<1>2. Decisions
  BY NextDecisions
<1>3. issued[c] # 0 => issued'[c] = issued[c]
  <2>1. issued \in [Calls -> Time]
    BY DEF TypeOK
  <2>2. CASE StoreStep
    BY <2>2 DEF StoreStep
  <2>3. CASE EnvironmentStep
    BY <1>1, <2>1, <2>3 DEF EnvironmentStep
  <2>4. CASE UNCHANGED vars
    BY <2>4 DEF vars
  <2> QED
    BY <2>2, <2>3, <2>4, NextIsStoreOrEnvironment
<1>4. state' = state \/ (now >= state.observed /\ state'.observed = now)
  <2>1. CASE StoreStep
    BY <1>1, <2>1, CommitLife DEF StoreStep
  <2>2. CASE EnvironmentStep \/ UNCHANGED vars
    BY <2>2 DEF EnvironmentStep, vars
  <2> QED
    BY <2>1, <2>2, NextIsStoreOrEnvironment
<1>5. /\ now \in Nat /\ state.observed \in Nat /\ issued[c] \in Nat
      /\ AdmissionWindow \in Nat /\ ClockSkew \in Nat
  BY <1>1, TimeAssumption DEF TypeOK, State, Time
<1>6. issued[c] # 0 =>
         /\ CallIdentityExpired(c, state.observed) => CallIdentityExpired(c, state.observed)'
         /\ state' # state /\ CallIdentityExpired(c, now) => CallIdentityExpired(c, state.observed)'
  BY <1>3, <1>4, <1>5 DEF CallIdentityExpired
<1>7. issued[c] # 0 /\ state.approvals[k].status # "absent" =>
         state'.approvals[k].status # "absent" \/ CallIdentityExpired(c, state.observed)'
  <2>1. CASE state' = state
    BY <2>1
  <2>2. CASE state' # state
    BY <1>2, <1>6, <2>2 DEF Decisions, KeepsDecisions
  <2> QED
    BY <2>1, <2>2
<1>8. CASE history'[k[1]].asked[k[2]] = history[k[1]].asked[k[2]]
  BY <1>1, <1>3, <1>6, <1>7, <1>8 DEF AskedOK
<1>9. CASE \E j \in Keys, o \in Owners : IssueApproval(o, j)
  <2>1. PICK j \in Keys, o \in Owners : IssueApproval(o, j)
    BY <1>9
  <2>2. CASE j = k
    <3>1. /\ history'[k[1]].asked[k[2]] = 0 + 1 /\ issued[c] # 0
          /\ state'.approvals[k].status # "absent"
      BY <2>1, <2>2, IssueAsksOnce
    <3> QED
      BY <1>3, <3>1 DEF AskedOK
  <2>3. CASE j # k
    BY <1>8, <2>1, <2>3, IssueAsksOnce
  <2> QED
    BY <2>2, <2>3
<1> QED
  BY <1>8, <1>9, NextAsks DEF SameAsked

\* Each phase of a call asks for approval at most once, although its record may
\* be pruned and, without a budget, no reservation shows that the call still runs.
THEOREM AskedOnce == Spec => []ApprovalAskedOnce
<1>1. Init => AskedInv
  BY DEF Init, AskedInv, AskedOK, Keys, NoHistory
<1>2. TypeOK /\ CallHistoryInv /\ AskedInv /\ [Next]_vars
        => (TypeOK /\ CallHistoryInv /\ AskedInv)'
  BY NextType, NextHistory, NextAsked
<1>3. AskedInv => ApprovalAskedOnce
  <2> SUFFICES ASSUME AskedInv, NEW c \in Calls, NEW p \in Phases
               PROVE  history[c].asked[p] <= 1
    BY DEF ApprovalAskedOnce
  <2>1. AskedOK(<<c, p>>)
    BY DEF AskedInv, Keys
  <2> QED
    BY <2>1 DEF AskedOK
<1> QED
  BY <1>1, <1>2, <1>3, InitType, InitHistory, PTL DEF Spec

-----------------------------------------------------------------------------
(* An operator can reconcile what is indeterminate.                        *)

\* There are two keys for each call.
LEMMA KeysFinite == IsFiniteSet(Keys)
<1> DEFINE Half(p) == {<<c, p>> : c \in Calls}
<1>1. ASSUME NEW p
      PROVE  IsFiniteSet(Half(p))
  <2> DEFINE f == [c \in Calls |-> <<c, p>>]
  <2>1. f \in Surjection(Calls, Half(p))
    BY DEF Surjection
  <2> QED
    BY <2>1, CallsAssumption, FS_Surjection
<1>2. Keys = Half("pre_call") \cup Half("post_result")
  BY DEF Keys, Phases
<1> HIDE DEF Half
<1> QED
  BY <1>1, <1>2, FS_Union

\* The empty state meets the contract.
LEMMA InitContract == Init => StateContract(state)
<1> SUFFICES ASSUME Init
             PROVE  StateContract(state)
  OBVIOUS
<1>1. /\ \A l \in Lineages : state.records[l].generation = 0
      /\ \A c \in Calls : Status(state, c) = "absent" /\ state.terminals[c] = "absent"
      /\ \A k \in Keys : state.approvals[k].status = "absent" /\ state.approvals[k].receipt = 0
  BY DEF Init, InitialState, NoRecord, NoReservation, NoApproval, Status
<1>2. /\ {l \in Lineages : state.records[l].generation # 0} = {}
      /\ Active(state) = {} /\ Finished(state) = {}
      /\ Pending(state) = {} /\ Approvals(state) = {}
  BY <1>1 DEF Active, Finished, Pending, Approvals
<1>3. CollectionsBounded(state)
  BY <1>2, FS_EmptySet, CapacityAssumption DEF CollectionsBounded
<1>4. ReservationsValid(state) /\ TerminalCallsValid(state)
  BY <1>2 DEF ReservationsValid, TerminalCallsValid
<1>5. ApprovalRecordsValid(state)
  BY <1>1, <1>2, FS_EmptySet, CapacityAssumption
     DEF ApprovalRecordsValid, ReceiptsValid, Decided
<1> QED
  BY <1>3, <1>4, <1>5 DEF StateContract

\* writeState publishes nothing else.
LEMMA NextContract ==
    TypeOK /\ CallHistoryInv /\ StateContract(state) /\ [Next]_vars => StateContract(state)'
<1> SUFFICES ASSUME TypeOK, CallHistoryInv, StateContract(state), [Next]_vars
             PROVE  StateContract(state')
  BY DEF StateContract, CollectionsBounded, ReservationsValid, TerminalCallsValid,
         ApprovalRecordsValid, ReceiptsValid, ApprovalTransitionValid, ApprovalChargesValid,
         ChargeValid, ChargedLineage, Active, Finished, Approvals, Pending, Decided, Status
<1>1. CASE StoreStep
  BY <1>1 DEF StoreStep, Commit
<1>2. CASE EnvironmentStep \/ UNCHANGED vars
  <2>1. state' = state
    BY <1>2 DEF EnvironmentStep, vars
  <2> QED
    BY <2>1
<1> QED
  BY <1>1, <1>2, NextIsStoreOrEnvironment

\* What the write of a reconciled call changes: its reservation is gone, its
\* outcome is recorded, results are charged, and history is pruned.
Closing(W, c) ==
    /\ \A l \in Lineages :
          /\ W.records[l].generation = state.records[l].generation
          /\ W.records[l].consumed["approval"] = state.records[l].consumed["approval"]
    /\ \A d \in Calls : W.reservations[d] = IF d = c THEN NoReservation ELSE state.reservations[d]
    /\ \A k \in Keys :
          \/ W.approvals[k] = state.approvals[k]
          \/ /\ W.approvals[k] = NoApproval
             /\ state.approvals[k].status \notin {"absent", "pending"}
             /\ BudgetsOf[k[1]] = {} \/ Status(W, k[1]) = "absent"
    /\ \A d \in Calls :
          \/ W.terminals[d] = IF d = c THEN "indeterminate_committed" ELSE state.terminals[d]
          \/ /\ W.terminals[d] = "absent"
             /\ BudgetsOf[d] = {} \/ \A p \in Phases : W.approvals[<<d, p>>].status = "absent"

\* What the reconciliation writes, pruning of the same write included, is such
\* a step: it commits the result dimension only, and an approval record is
\* pruned only with its call finished.
LEMMA ReconciledCloses ==
    ASSUME TypeOK, NEW c \in Calls
    PROVE  Closing(Written(Reconciled(state, c, "indeterminate_committed", 0)), c)
<1> DEFINE amount == [b \in Budgets |-> state.reservations[c].charges[b].reserved["result"]]
           V == CommitResult(state, c, amount)
           R == RecordTerminal(V, {c}, "indeterminate_committed")
           U == [R EXCEPT !.observed = now]
           W == PruneRetainedHistory(U, now)
<1>1. state \in State /\ now \in Time
  BY DEF TypeOK
<1>2. amount \in [Budgets -> Nat]
  <2>1. \A b \in Budgets : state.reservations[c].charges[b].reserved["result"] \in Nat
    BY <1>1, StateParts DEF Charge, Usage, Dims
  <2> QED
    BY <2>1
<1>3. Reconciled(state, c, "indeterminate_committed", 0) = R
  BY DEF Reconciled
<1> HIDE DEF amount
<1>4. /\ V \in State /\ V.reservations = state.reservations
      /\ V.terminals = state.terminals /\ V.approvals = state.approvals
      /\ \A l \in Lineages :
            /\ V.records[l].generation = state.records[l].generation
            /\ V.records[l].consumed["approval"] = state.records[l].consumed["approval"]
  <2> DEFINE n == [b \in Budgets |->
                IF state.reservations[c].charges[b].reserved["result"] = 0 THEN 0 ELSE amount[b]]
             g == [l \in Lineages |->
                IF l \in ChargedLineages(state, c)
                THEN [state.records[l] EXCEPT !.consumed["result"] = @ + n[l[1]]]
                ELSE state.records[l]]
  <2>1. V = [state EXCEPT !.records = g]
    BY DEF CommitResult, Consume
  <2>2. V \in State
    BY <1>1, <1>2, CommitResultType
  <2>3. \A r \in BudgetRecord : \A x :
           /\ [r EXCEPT !.consumed["result"] = x].generation = r.generation
           /\ [r EXCEPT !.consumed["result"] = x].consumed["approval"] = r.consumed["approval"]
    BY DEF BudgetRecord, Usage, Dims
  <2>4. \A l \in Lineages : /\ g[l].generation = state.records[l].generation
                            /\ g[l].consumed["approval"] = state.records[l].consumed["approval"]
    BY <1>1, <2>3, StateParts
  <2> HIDE DEF g
  <2> QED
    BY <1>1, <2>1, <2>2, <2>4 DEF State
<1> HIDE DEF V
<1>5. /\ U \in State /\ U.records = V.records /\ U.approvals = V.approvals
      /\ \A d \in Calls : U.reservations[d] = IF d = c THEN NoReservation ELSE V.reservations[d]
      /\ \A d \in Calls : U.terminals[d] = IF d = c THEN "indeterminate_committed"
                                           ELSE V.terminals[d]
  <2>1. R \in State
    BY <1>4, RecordTerminalType DEF Outcomes
  <2> QED
    BY <1>1, <1>4, <2>1 DEF RecordTerminal, State
<1> HIDE DEF R, U
<1>6. W.records = U.records /\ W.reservations = U.reservations
  BY <1>5 DEF PruneRetainedHistory, State
<1>7. \A k \in Keys : W.approvals[k] =
         IF FinishedOutsideWindow(U, k, now) /\ CallIdentityExpired(k[1], now)
         THEN NoApproval ELSE U.approvals[k]
  BY <1>5 DEF PruneRetainedHistory, State
<1>8. \A d \in Calls :
         \/ W.terminals[d] = U.terminals[d]
         \/ /\ W.terminals[d] = "absent"
            /\ ~(BudgetsOf[d] # {} /\ \E p \in Phases : W.approvals[<<d, p>>].status # "absent")
  BY <1>5 DEF PruneRetainedHistory, State
<1> HIDE DEF W
<1>9. \A k \in Keys :
          \/ W.approvals[k] = state.approvals[k]
          \/ /\ W.approvals[k] = NoApproval
             /\ state.approvals[k].status \notin {"absent", "pending"}
             /\ BudgetsOf[k[1]] = {} \/ Status(W, k[1]) = "absent"
  BY <1>4, <1>5, <1>6, <1>7 DEF FinishedOutsideWindow, Status
<1>10. Written(Reconciled(state, c, "indeterminate_committed", 0)) = W
  BY <1>3 DEF Written, W, U
<1> QED
  BY <1>4, <1>5, <1>6, <1>8, <1>9, <1>10 DEF Closing

\* The contract of what is left: nobody else's reservation, approval or outcome
\* changes, and the record that TerminalRoomKept keeps in hand is there.
LEMMA ClosingMeetsContract ==
    ASSUME TypeOK, StateContract(state), TerminalRoomKept, NEW c \in Calls,
           Status(state, c) = "indeterminate", ~AbandonedAsking(c),
           NEW W, Closing(W, c)
    PROVE  StateContract(W)
<1>1. \A d \in Calls : /\ d # c => Status(W, d) = Status(state, d)
                       /\ d = c => Status(W, d) = "absent"
  BY DEF Closing, Status, NoReservation
<1>2. Active(W) = Active(state) \ {c} /\ c \in Active(state)
  BY <1>1 DEF Active
<1>3. \A d \in Calls : W.terminals[d] \in {"absent", state.terminals[d]} \/ d = c
  BY DEF Closing
<1>4. Finished(W) \subseteq Finished(state) \cup {c}
  BY <1>3 DEF Finished
<1>5. \A k \in Keys :
          \/ W.approvals[k] = state.approvals[k]
          \/ W.approvals[k].status = "absent" /\ W.approvals[k].receipt = 0
  BY DEF Closing, NoApproval
<1>6. CollectionsBounded(W)
  <2>1. {l \in Lineages : W.records[l].generation # 0}
          = {l \in Lineages : state.records[l].generation # 0}
    BY DEF Closing
  <2>2. Cardinality(Active(W)) <= MaxReservations
    <3>1. Active(W) \in SUBSET Active(state)
      BY <1>2
    <3> QED
      BY <3>1, FS_Subset, ActiveFinishedFinite, CapacityAssumption
         DEF StateContract, CollectionsBounded
  <2>3. Cardinality(Finished(W)) <= MaxTerminalCallRecords
    <3>1. /\ IsFiniteSet(Finished(state) \cup {c})
          /\ Cardinality(Finished(state) \cup {c}) <= Cardinality(Finished(state)) + 1
      <4>1. IsFiniteSet(Finished(state)) /\ Cardinality(Finished(state)) \in Nat
        BY ActiveFinishedFinite
      <4>2. /\ IsFiniteSet(Finished(state) \cup {c})
            /\ Cardinality(Finished(state) \cup {c})
                  = IF c \in Finished(state) THEN Cardinality(Finished(state))
                                             ELSE Cardinality(Finished(state)) + 1
        BY <4>1, FS_AddElement
      <4> QED
        BY <4>1, <4>2
    <3>2. Cardinality(Finished(W)) <= Cardinality(Finished(state) \cup {c})
      BY <1>4, <3>1, FS_Subset
    <3>3. Cardinality(Active(state)) >= 1
      <4>1. Cardinality(Active(state)) # 0
        BY <1>2, ActiveFinishedFinite, FS_EmptySet
      <4> QED
        BY <4>1, ActiveFinishedFinite
    <3>4. Cardinality(Finished(W)) \in Nat /\ Cardinality(Finished(state) \cup {c}) \in Nat
      BY <3>1, ActiveFinishedFinite, FS_CardinalityType
    <3> QED
      BY <3>1, <3>2, <3>3, <3>4, ActiveFinishedFinite, CapacityAssumption DEF TerminalRoomKept
  <2>4. Cardinality(Approvals(W)) <= MaxApprovalRecords
    <3>1. Approvals(W) \in SUBSET Approvals(state) /\ Approvals(state) \in SUBSET Keys
      BY <1>5 DEF Approvals
    <3>2. IsFiniteSet(Approvals(state))
      BY <3>1, KeysFinite, FS_Subset
    <3>3. /\ Cardinality(Approvals(W)) <= Cardinality(Approvals(state))
          /\ Cardinality(Approvals(W)) \in Nat /\ Cardinality(Approvals(state)) \in Nat
      BY <3>1, <3>2, FS_Subset, FS_CardinalityType
    <3> QED
      BY <3>3, CapacityAssumption DEF StateContract, CollectionsBounded
  <2> QED
    BY <2>1, <2>2, <2>3, <2>4 DEF StateContract, CollectionsBounded
<1>7. ReservationsValid(W)
  <2> SUFFICES ASSUME NEW d \in Active(W), NEW b \in BudgetsOf[d]
               PROVE  ChargeValid(W, d, b)
    BY DEF ReservationsValid
  <2>1. /\ d \in Active(state) /\ d \in Calls /\ d # c /\ b \in Budgets
        /\ W.reservations[d] = state.reservations[d]
    BY <1>2, BudgetsAssumption DEF Active, Closing
  <2>2. ChargeValid(state, d, b)
    BY <2>1 DEF StateContract, ReservationsValid
  <2>3. ChargedLineage(W, d, b) = ChargedLineage(state, d, b)
    BY <2>1 DEF ChargedLineage
  <2>4. ChargedLineage(state, d, b) \in Lineages
    <3>1. state.reservations[d].created \in Time
      BY <2>1, StateParts DEF TypeOK, Reservation
    <3> QED
      BY <2>1, <3>1, LineageType DEF ChargedLineage
  <2>5. /\ W.records[ChargedLineage(W, d, b)].generation
              = state.records[ChargedLineage(state, d, b)].generation
        /\ W.records[ChargedLineage(W, d, b)].consumed["approval"]
              = state.records[ChargedLineage(state, d, b)].consumed["approval"]
    BY <2>3, <2>4 DEF Closing
  <2> QED
    BY <2>1, <2>2, <2>5 DEF ChargeValid, Status
<1>8. TerminalCallsValid(W)
  BY <1>2, <1>4 DEF TerminalCallsValid, StateContract
<1>9. ReceiptsValid(W)
  <2>1. ReceiptsValid(state)
    BY DEF StateContract, ApprovalRecordsValid
  <2>2. \A s \in {"approved", "rejected"} : \A k \in Decided(W, s) :
           k \in Decided(state, s) /\ W.approvals[k] = state.approvals[k]
    BY <1>5 DEF Decided
  <2>3. \A k \in Keys : W.approvals[k].receipt # 0
                        <=> W.approvals[k].status \in {"approved", "rejected"}
    BY <1>5, <2>1 DEF ReceiptsValid
  <2> QED
    BY <2>1, <2>2, <2>3 DEF ReceiptsValid
<1>10. \A k \in Approvals(W) : BudgetsOf[k[1]] # {} => ApprovalTransitionValid(W, k)
  <2> SUFFICES ASSUME NEW k \in Approvals(W), BudgetsOf[k[1]] # {}
               PROVE  ApprovalTransitionValid(W, k)
    OBVIOUS
  <2>1. /\ k \in Keys /\ k \in Approvals(state) /\ W.approvals[k] = state.approvals[k]
        /\ k[1] \in Calls /\ k[2] \in Phases /\ k = <<k[1], k[2]>>
    BY <1>5 DEF Approvals, Keys
  <2>2. ApprovalTransitionValid(state, k)
    BY <2>1 DEF StateContract, ApprovalRecordsValid
  <2>3. W.terminals[k[1]] = IF k[1] = c THEN "indeterminate_committed" ELSE state.terminals[k[1]]
    <3>1. W.approvals[<<k[1], k[2]>>].status # "absent"
      BY <2>1 DEF Approvals
    <3> QED
      BY <2>1, <3>1 DEF Closing
  <2>4. CASE k[1] # c
    BY <1>1, <2>1, <2>2, <2>3, <2>4 DEF ApprovalTransitionValid
  <2>5. CASE k[1] = c
    <3>1. Status(W, k[1]) = "absent" /\ W.terminals[k[1]] = "indeterminate_committed"
      BY <1>1, <2>3, <2>5
    <3>2. Status(state, k[1]) = "indeterminate"
      BY <2>5
    <3>3. k[2] = "pre_call" => state.approvals[k].status # "unavailable"
      BY <2>1, <2>5 DEF AbandonedAsking
    <3>4. state.approvals[k].status # "pending"
      BY <2>2, <3>2 DEF ApprovalTransitionValid, WantStatus
    <3>5. k[2] = "pre_call" => state.approvals[k].status = "approved"
      BY <2>2, <3>2, <3>3, <3>4 DEF ApprovalTransitionValid
    <3> QED
      BY <2>1, <3>1, <3>4, <3>5 DEF ApprovalTransitionValid
  <2> QED
    BY <2>4, <2>5
<1>11. Cardinality(Pending(W)) <= MaxPendingApprovals
  <2>1. Pending(W) = Pending(state)
    BY DEF Pending, Closing, NoApproval
  <2> QED
    BY <2>1 DEF StateContract, ApprovalRecordsValid
<1>12. \A d \in Active(W) : ApprovalChargesValid(W, d)
  <2> SUFFICES ASSUME NEW d \in Active(W)
               PROVE  ApprovalChargesValid(W, d)
    OBVIOUS
  <2>1. /\ d \in Active(state) /\ d \in Calls /\ d # c /\ Status(W, d) # "absent"
        /\ W.reservations[d] = state.reservations[d]
    BY <1>2 DEF Active, Closing
  <2>2. ApprovalChargesValid(state, d)
    BY <2>1 DEF StateContract, ApprovalRecordsValid
  <2>3. \A p \in Phases : <<d, p>> \in Keys
    BY <2>1 DEF Keys
  <2>4. {p \in Phases : W.approvals[<<d, p>>].status = "pending"}
          = {p \in Phases : state.approvals[<<d, p>>].status = "pending"}
    BY <2>3 DEF Closing, NoApproval
  <2>5. BudgetsOf[d] # {} =>
          \A p \in Phases : W.approvals[<<d, p>>] = state.approvals[<<d, p>>]
    BY <2>1, <2>3 DEF Closing
  <2> QED
    BY <2>1, <2>2, <2>4, <2>5 DEF ApprovalChargesValid
<1> QED
  BY <1>6, <1>7, <1>8, <1>9, <1>10, <1>11, <1>12 DEF StateContract, ApprovalRecordsValid

\* ReconcileIndeterminate is never refused by the contract of its write, except
\* for a call whose owner was abandoned while it asked (state_validate.go:429).
THEOREM IndeterminateReconcilable == Spec => []IndeterminateCanBeReconciled
<1>1. TypeOK /\ StateContract(state) /\ TerminalRoomKept => IndeterminateCanBeReconciled
  BY ReconciledCloses, ClosingMeetsContract DEF IndeterminateCanBeReconciled
<1>2. TypeOK /\ CallHistoryInv /\ StateContract(state) /\ [Next]_vars
        => (TypeOK /\ CallHistoryInv /\ StateContract(state))'
  BY NextType, NextHistory, NextContract
<1> QED
  BY <1>1, <1>2, InitType, InitHistory, InitContract, RoomForTerminals, PTL DEF Spec
-----------------------------------------------------------------------------
(* Capacity.                                                               *)

\* What the calls that charge a lineage hold of it, in one dimension.
Load(S, l, d) == SumFunctionOnSet(Held(S, l, d), Charging(S, l))

\* CapacityNeverOversubscribed of any state, and of the lineages without a
\* record too: no call charges them.
Within(S) ==
    \A l \in Lineages, d \in Dims :
        Limits[l[1]][d] # 0 => S.records[l].consumed[d] + Load(S, l, d) <= Limits[l[1]][d]

\* The sum over one element is its value.
LEMMA SumOfOne ==
    ASSUME NEW c, NEW f, f[c] \in Nat
    PROVE  SumFunctionOnSet(f, {c}) = f[c]
<1>1. IsFiniteSet({c})
  BY FS_Singleton
<1>2. SumFunctionOnSet(f, {c}) = f[c] + SumFunctionOnSet(f, {c} \ {c})
  BY <1>1, SumSplits
<1>3. {c} \ {c} = {}
  OBVIOUS
<1>4. SumFunctionOnSet(f, {c} \ {c}) = 0
  BY <1>3, SumEmpty
<1> QED
  BY <1>2, <1>4

\* When the calls of C give back what they hold of a lineage, and nobody else's
\* part of it changes, the load falls by exactly what they held.
LEMMA LoadFalls ==
    ASSUME NEW S \in State, NEW T \in State, NEW l \in Lineages, NEW d \in Dims, NEW C,
           Charging(T, l) \subseteq Charging(S, l),
           Charging(S, l) \ C \subseteq Charging(T, l),
           \A c \in Charging(T, l) : Held(T, l, d)[c] = IF c \in C THEN 0 ELSE Held(S, l, d)[c]
    PROVE  /\ Load(S, l, d) = Load(T, l, d) + SumFunctionOnSet(Held(S, l, d), Charging(S, l) \cap C)
           /\ Load(S, l, d) \in Nat /\ Load(T, l, d) \in Nat
           /\ SumFunctionOnSet(Held(S, l, d), Charging(S, l) \cap C) \in Nat
<1> DEFINE A == Charging(S, l)
           B == Charging(T, l)
           f == Held(S, l, d)
           g == Held(T, l, d)
           Sum(h, D) == SumFunctionOnSet(h, D)
<1>1. IsFiniteSet(A) /\ IsFiniteSet(B) /\ IsFiniteSet(A \ C) /\ IsFiniteSet(B \cap C) /\ IsFiniteSet(A \cap C)
  <2>1. A \in SUBSET Calls /\ B \in SUBSET Calls
    BY DEF Charging, Active
  <2>2. /\ A \ C \in SUBSET Calls /\ B \cap C \in SUBSET Calls /\ A \cap C \in SUBSET Calls
    BY <2>1
  <2> HIDE DEF A, B
  <2> QED
    BY <2>1, <2>2, CallsCardinality
<1>2. (\A c \in A : f[c] \in Nat) /\ \A c \in B : g[c] \in Nat
  BY HeldType DEF Charging, Active
<1> HIDE DEF A, B, f, g, Sum
<1>3. Sum(f, A) = Sum(f, A \cap C) + Sum(f, A \ (A \cap C))
  BY <1>1, <1>2, SumPartition DEF Sum
<1>4. A \ (A \cap C) = A \ C /\ B \ (B \cap C) = A \ C
  BY DEF A, B
<1>5. Sum(g, B) = Sum(g, B \cap C) + Sum(g, B \ (B \cap C))
  BY <1>1, <1>2, SumPartition DEF Sum
<1>6. Sum(g, B \cap C) = 0
  <2>1. \A c \in B \cap C : g[c] = 0
    BY DEF B, g
  <2> QED
    BY <1>1, <2>1, SumOfZeros DEF Sum
<1>7. Sum(g, A \ C) = Sum(f, A \ C)
  <2>1. \A c \in A \ C : g[c] = f[c]
    BY DEF A, B, f, g
  <2> QED
    BY <1>1, <2>1, SumCongruence DEF Sum
<1>8. Sum(f, A) \in Nat /\ Sum(f, A \ C) \in Nat /\ Sum(f, A \cap C) \in Nat /\ Sum(g, B) \in Nat
  <2>1. (\A c \in A \ C : f[c] \in Nat) /\ \A c \in A \cap C : f[c] \in Nat
    BY <1>2
  <2> QED
    BY <1>1, <1>2, <2>1, SumSplits DEF Sum
<1>9. Sum(f, A) = Sum(g, B) + Sum(f, A \cap C)
  <2>1. Sum(f, A) = Sum(f, A \cap C) + Sum(f, A \ C)
    BY <1>3, <1>4
  <2>2. Sum(g, B) = 0 + Sum(f, A \ C)
    BY <1>4, <1>5, <1>6, <1>7
  <2> QED
    BY <1>8, <2>1, <2>2
<1> QED
  BY <1>8, <1>9 DEF A, B, f, g, Sum, Load

\* A load to which nobody's part changed is the same.
LEMMA LoadKept ==
    ASSUME NEW S \in State, NEW T \in State, NEW l \in Lineages, NEW d \in Dims,
           Charging(T, l) = Charging(S, l),
           \A c \in Charging(S, l) : Held(T, l, d)[c] = Held(S, l, d)[c]
    PROVE  Load(T, l, d) = Load(S, l, d) /\ Load(S, l, d) \in Nat
<1>1. Load(S, l, d) = Load(T, l, d) + SumFunctionOnSet(Held(S, l, d), Charging(S, l) \cap {})
      /\ Load(S, l, d) \in Nat /\ Load(T, l, d) \in Nat
  <2>1. \A c \in Charging(T, l) : Held(T, l, d)[c] = IF c \in {} THEN 0 ELSE Held(S, l, d)[c]
    OBVIOUS
  <2>2. /\ Charging(T, l) \subseteq Charging(S, l)
        /\ Charging(S, l) \ {} \subseteq Charging(T, l)
    OBVIOUS
  <2> QED
    BY <2>1, <2>2, LoadFalls
<1>2. SumFunctionOnSet(Held(S, l, d), Charging(S, l) \cap {}) = 0
  <2>1. Charging(S, l) \cap {} = {}
    OBVIOUS
  <2> QED
    BY <2>1, SumEmpty
<1> QED
  BY <1>1, <1>2

\* Who charges a lineage depends on which reservations live and when they were
\* made.
LEMMA SameCharging ==
    ASSUME NEW S, NEW T, NEW l,
           \A c \in Calls : /\ T.reservations[c].created = S.reservations[c].created
                            /\ Status(T, c) = "absent" <=> Status(S, c) = "absent"
    PROVE  Charging(T, l) = Charging(S, l)
BY DEF Charging, Active, ChargedLineages, ChargedLineage

\* A lineage names its budget, which a call that charges it matches.
LEMMA ChargedBudget ==
    ASSUME NEW S, NEW c \in Calls, NEW l, l \in ChargedLineages(S, c)
    PROVE  /\ l[1] \in BudgetsOf[c] /\ l[1] \in Budgets
           /\ l = ChargedLineage(S, c, l[1])
<1>1. PICK b \in BudgetsOf[c] : l = ChargedLineage(S, c, b)
  BY DEF ChargedLineages
<1>2. l[1] = b
  BY <1>1 DEF ChargedLineage, Lineage
<1> QED
  BY <1>1, <1>2, BudgetsAssumption

\* What SetReserved changes: one dimension of the charges of the calls of C, of
\* the budgets that limit it.
LEMMA SetReservedEffect ==
    ASSUME NEW S \in State, NEW C, NEW d \in Dims, NEW n \in Nat,
           NEW T, T = SetReserved(S, C, d, n)
    PROVE  /\ T \in State /\ T.records = S.records
           /\ T.terminals = S.terminals /\ T.approvals = S.approvals
           /\ \A c \in Calls :
                 /\ T.reservations[c].status = S.reservations[c].status
                 /\ T.reservations[c].created = S.reservations[c].created
                 /\ T.reservations[c].owner = S.reservations[c].owner
                 /\ T.reservations[c].generation = S.reservations[c].generation
<1> DEFINE h(c) == [b \in Budgets |->
                        IF b \in BudgetsOf[c] /\ Limits[b][d] # 0
                        THEN [S.reservations[c].charges[b] EXCEPT !.reserved[d] = n]
                        ELSE S.reservations[c].charges[b]]
           f == [c \in Calls |->
                    IF c \in C THEN [S.reservations[c] EXCEPT !.charges = h(c)]
                    ELSE S.reservations[c]]
<1>1. T = [S EXCEPT !.reservations = f]
  BY DEF SetReserved
<1>2. T \in State
  BY SetReservedType
<1>3. T.records = S.records /\ T.terminals = S.terminals /\ T.approvals = S.approvals
      /\ T.reservations = f
  BY <1>1 DEF State
<1>4. \A c \in Calls : /\ f[c].status = S.reservations[c].status
                       /\ f[c].created = S.reservations[c].created
                       /\ f[c].owner = S.reservations[c].owner
                       /\ f[c].generation = S.reservations[c].generation
                       /\ f[c].charges = IF c \in C THEN h(c) ELSE S.reservations[c].charges
  <2> TAKE c \in Calls
  <2>1. S.reservations[c] \in Reservation
    BY StateParts
  <2> HIDE DEF h
  <2>2. \A r \in Reservation : LET q == [r EXCEPT !.charges = h(c)] IN
           /\ q.status = r.status /\ q.created = r.created /\ q.owner = r.owner
           /\ q.generation = r.generation /\ q.charges = h(c)
    BY DEF Reservation
  <2> QED
    BY <2>1, <2>2
<1> QED
  BY <1>2, <1>3, <1>4

\* What it leaves reserved.
Reheld(S, T, C, d, n) ==
    \A c \in Calls, b \in Budgets, e \in Dims :
       T.reservations[c].charges[b].reserved[e]
          = IF c \in C /\ b \in BudgetsOf[c] /\ Limits[b][d] # 0 /\ e = d THEN n
            ELSE S.reservations[c].charges[b].reserved[e]
LEMMA SetReservedHeld ==
    ASSUME NEW S \in State, NEW C, NEW d \in Dims, NEW n \in Nat,
           NEW T, T = SetReserved(S, C, d, n)
    PROVE  Reheld(S, T, C, d, n)
<1> DEFINE h(c) == [b \in Budgets |->
                        IF b \in BudgetsOf[c] /\ Limits[b][d] # 0
                        THEN [S.reservations[c].charges[b] EXCEPT !.reserved[d] = n]
                        ELSE S.reservations[c].charges[b]]
           f == [c \in Calls |->
                    IF c \in C THEN [S.reservations[c] EXCEPT !.charges = h(c)]
                    ELSE S.reservations[c]]
<1>1. T = [S EXCEPT !.reservations = f]
  BY DEF SetReserved
<1>2. T \in State
  BY SetReservedType
<1>3. T.records = S.records /\ T.terminals = S.terminals /\ T.approvals = S.approvals
      /\ T.reservations = f
  BY <1>1 DEF State
<1>4. \A c \in Calls : /\ f[c].status = S.reservations[c].status
                       /\ f[c].created = S.reservations[c].created
                       /\ f[c].owner = S.reservations[c].owner
                       /\ f[c].generation = S.reservations[c].generation
                       /\ f[c].charges = IF c \in C THEN h(c) ELSE S.reservations[c].charges
  <2> TAKE c \in Calls
  <2>1. S.reservations[c] \in Reservation
    BY StateParts
  <2> HIDE DEF h
  <2>2. \A r \in Reservation : LET q == [r EXCEPT !.charges = h(c)] IN
           /\ q.status = r.status /\ q.created = r.created /\ q.owner = r.owner
           /\ q.generation = r.generation /\ q.charges = h(c)
    BY DEF Reservation
  <2> QED
    BY <2>1, <2>2
<1>5. \A c \in Calls, b \in Budgets, e \in Dims :
         h(c)[b].reserved[e] = IF b \in BudgetsOf[c] /\ Limits[b][d] # 0 /\ e = d THEN n
                               ELSE S.reservations[c].charges[b].reserved[e]
  <2> TAKE c \in Calls, b \in Budgets, e \in Dims
  <2>1. S.reservations[c].charges[b] \in Charge
    BY StateParts
  <2>2. \A g \in Charge : [g EXCEPT !.reserved[d] = n].reserved[e]
                             = IF e = d THEN n ELSE g.reserved[e]
    BY DEF Charge, Usage
  <2> QED
    BY <2>1, <2>2
<1> HIDE DEF f, h
<1> QED
  BY <1>3, <1>4, <1>5 DEF Reheld

\* What Consume changes: one dimension of the lineages of a call.
LEMMA ConsumeEffect ==
    ASSUME NEW S \in State, NEW c \in Calls, NEW d \in Dims, NEW amount \in [Budgets -> Nat],
           NEW T, T = Consume(S, c, d, amount)
    PROVE  /\ T \in State /\ T.reservations = S.reservations
           /\ T.terminals = S.terminals /\ T.approvals = S.approvals
           /\ \A l \in Lineages :
                 /\ T.records[l].generation = S.records[l].generation
                 /\ \A e \in Dims : T.records[l].consumed[e]
                       = IF l \in ChargedLineages(S, c) /\ e = d
                         THEN S.records[l].consumed[e] + amount[l[1]]
                         ELSE S.records[l].consumed[e]
<1> DEFINE f == [l \in Lineages |->
                    IF l \in ChargedLineages(S, c)
                    THEN [S.records[l] EXCEPT !.consumed[d] = @ + amount[l[1]]]
                    ELSE S.records[l]]
<1>1. T = [S EXCEPT !.records = f]
  BY DEF Consume
<1>2. T \in State
  BY ConsumeType
<1>3. \A l \in Lineages : /\ f[l].generation = S.records[l].generation
                          /\ \A e \in Dims : f[l].consumed[e]
                                = IF l \in ChargedLineages(S, c) /\ e = d
                                  THEN S.records[l].consumed[e] + amount[l[1]]
                                  ELSE S.records[l].consumed[e]
  <2> TAKE l \in Lineages
  <2>1. S.records[l] \in BudgetRecord
    BY StateParts
  <2>2. \A r \in BudgetRecord : \A n :
           /\ [r EXCEPT !.consumed[d] = @ + n].generation = r.generation
           /\ \A e \in Dims : [r EXCEPT !.consumed[d] = @ + n].consumed[e]
                                 = IF e = d THEN r.consumed[e] + n ELSE r.consumed[e]
    BY DEF BudgetRecord, Usage
  <2> QED
    BY <2>1, <2>2
<1> HIDE DEF f
<1>4. T.records = f /\ T.reservations = S.reservations
      /\ T.terminals = S.terminals /\ T.approvals = S.approvals
  BY <1>1 DEF State
<1> QED
  BY <1>2, <1>3, <1>4

\* The same for a state whose records alone are charged, each by its own amount.
Charged(S, d, n) ==
    [S EXCEPT !.records = [l \in Lineages |-> [S.records[l] EXCEPT !.consumed[d] = @ + n[l]]]]
LEMMA ChargeEffect ==
    ASSUME NEW S \in State, NEW d \in Dims, NEW n \in [Lineages -> Nat],
           NEW T, T = Charged(S, d, n)
    PROVE  /\ T \in State /\ T.reservations = S.reservations
           /\ T.terminals = S.terminals /\ T.approvals = S.approvals
           /\ \A l \in Lineages :
                 /\ T.records[l].generation = S.records[l].generation
                 /\ T.records[l].consumed[d] = S.records[l].consumed[d] + n[l]
                 /\ \A e \in Dims \ {d} : T.records[l].consumed[e] = S.records[l].consumed[e]
<1> DEFINE f == [l \in Lineages |-> [S.records[l] EXCEPT !.consumed[d] = @ + n[l]]]
<1>1. \A l \in Lineages :
         /\ f[l] \in BudgetRecord
         /\ f[l].generation = S.records[l].generation
         /\ f[l].consumed[d] = S.records[l].consumed[d] + n[l]
         /\ \A e \in Dims \ {d} : f[l].consumed[e] = S.records[l].consumed[e]
  <2> TAKE l \in Lineages
  <2>1. S.records[l] \in BudgetRecord
    BY StateParts
  <2>2. \A r \in BudgetRecord : \A m :
           /\ [r EXCEPT !.consumed[d] = @ + m].generation = r.generation
           /\ [r EXCEPT !.consumed[d] = @ + m].consumed[d] = r.consumed[d] + m
           /\ \A e \in Dims \ {d} : [r EXCEPT !.consumed[d] = @ + m].consumed[e] = r.consumed[e]
    BY DEF BudgetRecord, Usage
  <2>3. f[l] = [S.records[l] EXCEPT !.consumed[d] = @ + n[l]] /\ n[l] \in Nat
    OBVIOUS
  <2> HIDE DEF f
  <2>4. f[l] \in BudgetRecord
    BY <2>1, <2>3, RecordUpdate
  <2> QED
    BY <2>1, <2>2, <2>3, <2>4
<1>2. f \in [Lineages -> BudgetRecord]
  BY <1>1
<1> HIDE DEF f
<1>3. T = [S EXCEPT !.records = f]
  BY DEF Charged, f
<1>4. T \in State
  BY <1>2, <1>3, StateUpdate
<1>5. T.records = f /\ T.reservations = S.reservations
      /\ T.terminals = S.terminals /\ T.approvals = S.approvals
  BY <1>3 DEF State
<1> QED
  BY <1>1, <1>4, <1>5

\* Closing calls frees what they hold (removeReservationAndRecord).
LEMMA RecordTerminalEffect ==
    ASSUME NEW S \in State, NEW C, NEW o \in Outcomes,
           NEW T, T = RecordTerminal(S, C, o)
    PROVE  /\ T \in State /\ T.records = S.records /\ T.approvals = S.approvals
           /\ \A c \in Calls :
                 /\ T.reservations[c] = IF c \in C THEN NoReservation ELSE S.reservations[c]
                 /\ T.terminals[c] = IF c \in C THEN o ELSE S.terminals[c]
           /\ \A l \in Lineages :
                 /\ Charging(T, l) = Charging(S, l) \ C
                 /\ \A d \in Dims : \A c \in Charging(T, l) : Held(T, l, d)[c] = Held(S, l, d)[c]
<1>1. T \in State
  BY RecordTerminalType
<1>2. T.records = S.records /\ T.approvals = S.approvals
      /\ \A c \in Calls :
            /\ T.reservations[c] = IF c \in C THEN NoReservation ELSE S.reservations[c]
            /\ T.terminals[c] = IF c \in C THEN o ELSE S.terminals[c]
  BY DEF RecordTerminal, State
<1>3. ASSUME NEW l \in Lineages
      PROVE  Charging(T, l) = Charging(S, l) \ C
  BY <1>2 DEF Charging, Active, Status, NoReservation, ChargedLineages, ChargedLineage
<1>4. ASSUME NEW l \in Lineages, NEW d \in Dims, NEW c \in Charging(T, l)
      PROVE  Held(T, l, d)[c] = Held(S, l, d)[c]
  <2>1. c \in Calls /\ c \notin C
    BY <1>3 DEF Charging, Active
  <2> QED
    BY <1>2, <2>1 DEF Held
<1> QED
  BY <1>1, <1>2, <1>3, <1>4

\* Closing calls keeps every lineage within its limits.
LEMMA RecordTerminalWithin ==
    ASSUME NEW S \in State, NEW C, NEW o \in Outcomes, Within(S)
    PROVE  Within(RecordTerminal(S, C, o))
<1> DEFINE T == RecordTerminal(S, C, o)
<1> SUFFICES ASSUME NEW l \in Lineages, NEW d \in Dims, Limits[l[1]][d] # 0
             PROVE  T.records[l].consumed[d] + Load(T, l, d) <= Limits[l[1]][d]
  BY DEF Within
<1> HIDE DEF T
<1>0. T = RecordTerminal(S, C, o)
  BY DEF T
<1>1. /\ T \in State /\ T.records = S.records
      /\ Charging(T, l) = Charging(S, l) \ C
      /\ \A c \in Charging(T, l) : Held(T, l, d)[c] = Held(S, l, d)[c]
  BY <1>0, RecordTerminalEffect
<1>2. /\ Load(S, l, d) = Load(T, l, d) + SumFunctionOnSet(Held(S, l, d), Charging(S, l) \cap C)
      /\ Load(S, l, d) \in Nat /\ Load(T, l, d) \in Nat
      /\ SumFunctionOnSet(Held(S, l, d), Charging(S, l) \cap C) \in Nat
  <2>1. \A c \in Charging(T, l) : Held(T, l, d)[c] = IF c \in C THEN 0 ELSE Held(S, l, d)[c]
    BY <1>1
  <2>2. Charging(T, l) \subseteq Charging(S, l) /\ Charging(S, l) \ C \subseteq Charging(T, l)
    BY <1>1
  <2> QED
    BY <1>1, <2>1, <2>2, LoadFalls
<1>3. S.records[l].consumed[d] + Load(S, l, d) <= Limits[l[1]][d]
  BY DEF Within
<1>4. S.records[l].consumed[d] \in Nat /\ Limits[l[1]][d] \in Nat
  BY StateParts, LimitsAssumption DEF BudgetRecord, Usage, Lineages
<1> QED
  BY <1>1, <1>2, <1>3, <1>4

\* A change of status that leaves nobody absent and wakes nobody moves no load.
LEMMA SetStatusEffect ==
    ASSUME NEW S \in State, NEW C, NEW s \in ReservationStatuses \ {"absent"},
           \A c \in C \cap Calls : Status(S, c) # "absent",
           NEW T, T = SetStatus(S, C, s)
    PROVE  /\ T \in State /\ T.records = S.records
           /\ T.terminals = S.terminals /\ T.approvals = S.approvals
           /\ \A c \in Calls :
                 /\ T.reservations[c].status = IF c \in C THEN s ELSE S.reservations[c].status
                 /\ T.reservations[c].created = S.reservations[c].created
                 /\ T.reservations[c].charges = S.reservations[c].charges
           /\ \A l \in Lineages :
                 /\ Charging(T, l) = Charging(S, l)
                 /\ \A d \in Dims : Held(T, l, d) = Held(S, l, d)
<1>1. T \in State
  BY SetStatusType
<1>2. /\ T.records = S.records /\ T.terminals = S.terminals /\ T.approvals = S.approvals
      /\ \A c \in Calls : T.reservations[c]
            = IF c \in C THEN [S.reservations[c] EXCEPT !.status = s] ELSE S.reservations[c]
  BY DEF SetStatus, State
<1>3. \A c \in Calls :
         /\ T.reservations[c].status = IF c \in C THEN s ELSE S.reservations[c].status
         /\ T.reservations[c].created = S.reservations[c].created
         /\ T.reservations[c].charges = S.reservations[c].charges
  <2>1. \A r \in Reservation : LET q == [r EXCEPT !.status = s] IN
           q.status = s /\ q.created = r.created /\ q.charges = r.charges
    BY DEF Reservation
  <2> TAKE c \in Calls
  <2>2. S.reservations[c] \in Reservation
    BY StateParts
  <2>3. T.reservations[c]
            = IF c \in C THEN [S.reservations[c] EXCEPT !.status = s] ELSE S.reservations[c]
    BY <1>2
  <2> QED
    BY <2>1, <2>2, <2>3
<1>4. \A l \in Lineages : Charging(T, l) = Charging(S, l)
  <2>1. \A c \in Calls : Status(T, c) = "absent" <=> Status(S, c) = "absent"
    BY <1>3 DEF Status
  <2> QED
    BY <1>3, <2>1, SameCharging
<1>5. \A l \in Lineages, d \in Dims : Held(T, l, d) = Held(S, l, d)
  BY <1>3 DEF Held
<1> QED
  BY <1>1, <1>2, <1>3, <1>4, <1>5

\* So it keeps every lineage within its limits.
LEMMA SetStatusWithin ==
    ASSUME NEW S \in State, NEW C, NEW s \in ReservationStatuses \ {"absent"}, Within(S),
           \A c \in C \cap Calls : Status(S, c) # "absent"
    PROVE  Within(SetStatus(S, C, s))
BY SetStatusEffect DEF Within, Load

\* Who charges a lineage, and what each holds, after SetReserved.
LEMMA SetReservedCharging ==
    ASSUME NEW S \in State, NEW C, NEW d \in Dims, NEW n \in Nat, NEW l \in Lineages,
           NEW T, T = SetReserved(S, C, d, n)
    PROVE  /\ Charging(T, l) = Charging(S, l)
           /\ \A e \in Dims : \A c \in Charging(S, l) :
                 Held(T, l, e)[c] = IF c \in C /\ Limits[l[1]][d] # 0 /\ e = d THEN n
                                    ELSE Held(S, l, e)[c]
<1>1. \A c \in Calls : /\ T.reservations[c].status = S.reservations[c].status
                       /\ T.reservations[c].created = S.reservations[c].created
  BY SetReservedEffect
<1>2. \A c \in Calls, b \in Budgets, e \in Dims :
         T.reservations[c].charges[b].reserved[e]
            = IF c \in C /\ b \in BudgetsOf[c] /\ Limits[b][d] # 0 /\ e = d THEN n
              ELSE S.reservations[c].charges[b].reserved[e]
  <2>1. Reheld(S, T, C, d, n)
    BY SetReservedHeld
  <2> QED
    BY <2>1 DEF Reheld
<1>3. Charging(T, l) = Charging(S, l)
  BY <1>1, SameCharging DEF Status
<1>4. \A c \in Charging(S, l) : c \in Calls /\ l[1] \in BudgetsOf[c] /\ l[1] \in Budgets
  BY ChargedBudget DEF Charging, Active
<1> QED
  BY <1>2, <1>3, <1>4 DEF Held

\* Giving a reserved dimension back keeps every lineage within its limits.
LEMMA SetReservedWithin ==
    ASSUME NEW S \in State, NEW C, NEW d \in Dims, Within(S)
    PROVE  Within(SetReserved(S, C, d, 0))
<1> DEFINE T == SetReserved(S, C, d, 0)
<1> SUFFICES ASSUME NEW l \in Lineages, NEW e \in Dims, Limits[l[1]][e] # 0
             PROVE  T.records[l].consumed[e] + Load(T, l, e) <= Limits[l[1]][e]
  BY DEF Within
<1> DEFINE D == IF e = d THEN C ELSE {}
<1> HIDE DEF T
<1>0. T = SetReserved(S, C, d, 0)
  BY DEF T
<1>1. T \in State /\ T.records = S.records
  BY <1>0, SetReservedEffect
<1>2. /\ Charging(T, l) = Charging(S, l)
      /\ \A c \in Charging(T, l) : Held(T, l, e)[c] = IF c \in D THEN 0 ELSE Held(S, l, e)[c]
  BY <1>0, SetReservedCharging
<1> HIDE DEF D
<1>3. /\ Load(S, l, e) = Load(T, l, e) + SumFunctionOnSet(Held(S, l, e), Charging(S, l) \cap D)
      /\ Load(S, l, e) \in Nat /\ Load(T, l, e) \in Nat
      /\ SumFunctionOnSet(Held(S, l, e), Charging(S, l) \cap D) \in Nat
  BY <1>1, <1>2, LoadFalls
<1>4. S.records[l].consumed[e] + Load(S, l, e) <= Limits[l[1]][e]
  BY DEF Within
<1>5. S.records[l].consumed[e] \in Nat /\ Limits[l[1]][e] \in Nat
  BY StateParts, LimitsAssumption DEF BudgetRecord, Usage, Lineages
<1> QED
  BY <1>1, <1>3, <1>4, <1>5
\* Who charges a lineage, and with what, is read from the reservations alone.
LEMMA SameReservations ==
    ASSUME NEW S, NEW T, T.reservations = S.reservations, NEW l, NEW d
    PROVE  /\ Charging(T, l) = Charging(S, l)
           /\ Held(T, l, d) = Held(S, l, d)
           /\ Load(T, l, d) = Load(S, l, d)
BY DEF Charging, Active, Status, ChargedLineages, ChargedLineage, Held, Load

\* What is consumed out of what was held stays below the limit.
LEMMA Exchange ==
    ASSUME NEW limit \in Nat, NEW before \in Nat, NEW spent \in Nat, NEW given \in Nat,
           NEW load \in Nat, NEW left \in Nat, NEW after,
           before + load <= limit, load = left + given, spent <= given,
           after = before + spent
    PROVE  after + left <= limit
OBVIOUS

\* A change of other parts, or of generations, keeps every lineage within its
\* limits.
LEMMA SameWithin ==
    ASSUME NEW S, NEW T, Within(S), T.reservations = S.reservations,
           \A l \in Lineages, d \in Dims : T.records[l].consumed[d] = S.records[l].consumed[d]
    PROVE  Within(T)
BY SameReservations DEF Within

\* What a lineage consumed and what it may consume are numbers.
LEMMA LimitNumbers ==
    ASSUME NEW S \in State, NEW l \in Lineages, NEW d \in Dims
    PROVE  S.records[l].consumed[d] \in Nat /\ Limits[l[1]][d] \in Nat
BY StateParts, LimitsAssumption DEF BudgetRecord, Usage, Lineages

\* Dispatch consumes exactly what was reserved for it (commitDispatch).
LEMMA CommitDispatchWithin ==
    ASSUME NEW S \in State, NEW C, Within(S)
    PROVE  Within(CommitDispatch(S, C))
<1> DEFINE n == [l \in Lineages |-> SumFunctionOnSet(Held(S, l, "call"), Charging(S, l) \cap C)]
           R == Charged(S, "call", n)
           T == CommitDispatch(S, C)
<1>1. n \in [Lineages -> Nat]
  BY HeldType DEF Dims
<1>2. T = SetReserved(R, C, "call", 0)
  BY DEF CommitDispatch, Charged
<1>3. \A l \in Lineages :
         n[l] = SumFunctionOnSet(Held(S, l, "call"), Charging(S, l) \cap C)
  OBVIOUS
<1> HIDE DEF n, T
<1>4. PICK Q : Q = R
  OBVIOUS
<1>0. "call" \in Dims
  BY DEF Dims
<1>5. /\ Q \in State /\ Q.reservations = S.reservations
      /\ \A l \in Lineages : Q.records[l].consumed["call"] = S.records[l].consumed["call"] + n[l]
      /\ \A l \in Lineages : \A e \in Dims \ {"call"} :
            Q.records[l].consumed[e] = S.records[l].consumed[e]
  BY <1>0, <1>1, <1>4, ChargeEffect
<1> HIDE DEF R
<1>6. T = SetReserved(Q, C, "call", 0)
  BY <1>2, <1>4
<1>7. T \in State /\ T.records = Q.records
  BY <1>0, <1>5, <1>6, SetReservedEffect
<1> SUFFICES ASSUME NEW l \in Lineages, NEW e \in Dims, Limits[l[1]][e] # 0
             PROVE  T.records[l].consumed[e] + Load(T, l, e) <= Limits[l[1]][e]
  BY DEF Within, T
<1> DEFINE D == IF e = "call" THEN C ELSE {}
<1>8. /\ Charging(T, l) = Charging(S, l)
      /\ \A c \in Charging(T, l) : Held(T, l, e)[c] = IF c \in D THEN 0 ELSE Held(S, l, e)[c]
  <2>1. /\ Charging(T, l) = Charging(Q, l)
        /\ \A c \in Charging(Q, l) : Held(T, l, e)[c]
              = IF c \in C /\ Limits[l[1]]["call"] # 0 /\ e = "call" THEN 0
                ELSE Held(Q, l, e)[c]
    BY <1>0, <1>5, <1>6, SetReservedCharging
  <2>2. Charging(Q, l) = Charging(S, l) /\ Held(Q, l, e) = Held(S, l, e)
    BY <1>5, SameReservations
  <2> QED
    BY <2>1, <2>2
<1> HIDE DEF D
<1>9. /\ Load(S, l, e) = Load(T, l, e) + SumFunctionOnSet(Held(S, l, e), Charging(S, l) \cap D)
      /\ Load(S, l, e) \in Nat /\ Load(T, l, e) \in Nat
      /\ SumFunctionOnSet(Held(S, l, e), Charging(S, l) \cap D) \in Nat
  BY <1>7, <1>8, LoadFalls
<1>10. S.records[l].consumed[e] + Load(S, l, e) <= Limits[l[1]][e]
  BY DEF Within
<1>11. S.records[l].consumed[e] \in Nat /\ Limits[l[1]][e] \in Nat
  BY LimitNumbers
<1>12. CASE e = "call"
  <2>1. T.records[l].consumed[e] = S.records[l].consumed[e]
            + SumFunctionOnSet(Held(S, l, e), Charging(S, l) \cap D)
    BY <1>3, <1>5, <1>7, <1>12 DEF D
  <2> QED
    BY <1>9, <1>10, <1>11, <2>1
<1>13. CASE e # "call"
  <2>1. T.records[l].consumed[e] = S.records[l].consumed[e]
    BY <1>5, <1>7, <1>13
  <2> QED
    BY <1>9, <1>10, <1>11, <2>1
<1> QED
  BY <1>12, <1>13

\* A call closes with at most the result it had reserved (commitResult,
\* commitReservedResults).
LEMMA SettleWithin ==
    ASSUME NEW S \in State, Within(S), NEW c \in Active(S), NEW o \in Outcomes,
           NEW amount \in [Budgets -> Nat],
           \A b \in BudgetsOf[c] :
              S.reservations[c].charges[b].reserved["result"] # 0
                 => amount[b] <= S.reservations[c].charges[b].reserved["result"]
    PROVE  Within(RecordTerminal(CommitResult(S, c, amount), {c}, o))
<1> DEFINE m == [b \in Budgets |->
                    IF S.reservations[c].charges[b].reserved["result"] = 0 THEN 0
                    ELSE amount[b]]
           R == Consume(S, c, "result", m)
           T == RecordTerminal(CommitResult(S, c, amount), {c}, o)
<1>1. c \in Calls /\ m \in [Budgets -> Nat]
  BY DEF Active
<1>2. T = RecordTerminal(R, {c}, o)
  BY DEF CommitResult
<1>3. \A b \in Budgets : m[b] = IF S.reservations[c].charges[b].reserved["result"] = 0 THEN 0
                                ELSE amount[b]
  OBVIOUS
<1> HIDE DEF m, R, T
<1>4. /\ R \in State /\ R.reservations = S.reservations
      /\ \A l \in Lineages, e \in Dims : R.records[l].consumed[e]
            = IF l \in ChargedLineages(S, c) /\ e = "result"
              THEN S.records[l].consumed[e] + m[l[1]]
              ELSE S.records[l].consumed[e]
  <2>1. R = Consume(S, c, "result", m) /\ "result" \in Dims
    BY DEF R, Dims
  <2> QED
    BY <1>1, <2>1, ConsumeEffect
<1> SUFFICES ASSUME NEW l \in Lineages, NEW e \in Dims, Limits[l[1]][e] # 0
             PROVE  T.records[l].consumed[e] + Load(T, l, e) <= Limits[l[1]][e]
  BY DEF Within, T
<1>5. /\ T \in State /\ T.records = R.records
      /\ Charging(T, l) = Charging(R, l) \ {c}
      /\ \A a \in Charging(T, l) : Held(T, l, e)[a] = Held(R, l, e)[a]
  BY <1>2, <1>4, RecordTerminalEffect
<1>6. Charging(R, l) = Charging(S, l) /\ Held(R, l, e) = Held(S, l, e)
  BY <1>4, SameReservations
<1>7. /\ Load(S, l, e) = Load(T, l, e) + SumFunctionOnSet(Held(S, l, e), Charging(S, l) \cap {c})
      /\ Load(S, l, e) \in Nat /\ Load(T, l, e) \in Nat
      /\ SumFunctionOnSet(Held(S, l, e), Charging(S, l) \cap {c}) \in Nat
  <2>1. \A a \in Charging(T, l) : Held(T, l, e)[a] = IF a \in {c} THEN 0 ELSE Held(S, l, e)[a]
    BY <1>5, <1>6
  <2>2. Charging(T, l) \subseteq Charging(S, l) /\ Charging(S, l) \ {c} \subseteq Charging(T, l)
    BY <1>5, <1>6
  <2> QED
    BY <1>5, <2>1, <2>2, LoadFalls
<1>8. S.records[l].consumed[e] + Load(S, l, e) <= Limits[l[1]][e]
  BY DEF Within
<1>9. S.records[l].consumed[e] \in Nat /\ Limits[l[1]][e] \in Nat
  BY LimitNumbers
<1>10. CASE l \in ChargedLineages(S, c) /\ e = "result"
  <2>1. Charging(S, l) \cap {c} = {c}
    BY <1>10 DEF Charging
  <2>2. SumFunctionOnSet(Held(S, l, e), {c}) = Held(S, l, e)[c] /\ Held(S, l, e)[c] \in Nat
    BY <1>1, SumOfOne, HeldType
  <2>3. l[1] \in BudgetsOf[c] /\ l[1] \in Budgets
    BY <1>1, <1>10, ChargedBudget
  <2>4. Held(S, l, e)[c] = S.reservations[c].charges[l[1]].reserved["result"]
    BY <1>1, <1>10 DEF Held
  <2>5. m[l[1]] <= Held(S, l, e)[c] /\ m[l[1]] \in Nat
    <3>1. m[l[1]] \in Nat
      BY <1>1, <2>3
    <3>2. CASE S.reservations[c].charges[l[1]].reserved["result"] = 0
      <4>1. m[l[1]] = 0
        BY <1>3, <2>3, <3>2
      <4> QED
        BY <2>2, <3>1, <4>1
    <3>3. CASE S.reservations[c].charges[l[1]].reserved["result"] # 0
      <4>1. m[l[1]] = amount[l[1]]
        BY <1>3, <2>3, <3>3
      <4>2. amount[l[1]] <= S.reservations[c].charges[l[1]].reserved["result"]
        BY <2>3, <3>3
      <4> QED
        BY <2>4, <3>1, <4>1, <4>2
    <3> QED
      BY <3>2, <3>3
  <2>6. T.records[l].consumed[e] = S.records[l].consumed[e] + m[l[1]]
    BY <1>4, <1>5, <1>10
  <2> QED
    <3>1. Load(S, l, e) = Load(T, l, e) + Held(S, l, e)[c]
      BY <1>7, <2>1, <2>2
    <3> QED
      BY <1>7, <1>8, <1>9, <2>2, <2>5, <2>6, <3>1, Exchange
<1>11. CASE ~(l \in ChargedLineages(S, c) /\ e = "result")
  <2>1. T.records[l].consumed[e] = S.records[l].consumed[e]
    BY <1>4, <1>5, <1>11
  <2> QED
    BY <1>7, <1>8, <1>9, <2>1
<1> QED
  BY <1>10, <1>11
\* No more denials are admitted than still fit (recordDenialCharges).
LEMMA AdmittedFits ==
    ASSUME NEW S \in State, NEW l \in Lineages, NEW n \in Nat, Within(S),
           Limits[l[1]]["denied"] # 0
    PROVE  S.records[l].consumed["denied"] + Load(S, l, "denied") + AdmittedDenials(S, l, n)
              <= Limits[l[1]]["denied"]
<1> DEFINE a == S.records[l].consumed["denied"]
           h == Load(S, l, "denied")
           m == Limits[l[1]]["denied"]
           D == {j \in 1 .. n : Available(S, l, [ZeroUsage EXCEPT !["denied"] = j])}
<1>1. "denied" \in Dims
  BY DEF Dims
<1>2. a \in Nat /\ m \in Nat /\ h \in Nat
  <2>1. \A c \in Calls : Held(S, l, "denied")[c] \in Nat
    BY <1>1, HeldType
  <2>2. Charging(S, l) \in SUBSET Calls
    BY DEF Charging, Active
  <2>3. h \in Nat
    BY <2>1, <2>2, CallsCardinality, SumSplits DEF Load
  <2> QED
    BY <1>1, <2>3, LimitNumbers
<1>3. a + h <= m
  BY <1>1 DEF Within
<1>4. \A j \in D : a + h + j <= m
  <2> TAKE j \in D
  <2>1. CapacityAvailable(Limits[l[1]], S.records[l].consumed, ReservedUsage(S, l),
                          [ZeroUsage EXCEPT !["denied"] = j])
    BY DEF Available
  <2>2. [ZeroUsage EXCEPT !["denied"] = j]["denied"] = j
    BY <1>1 DEF ZeroUsage
  <2>3. ReservedUsage(S, l)["denied"] = h
    BY <1>1 DEF ReservedUsage, Load
  <2> QED
    BY <1>1, <2>1, <2>2, <2>3 DEF CapacityAvailable
<1>5. D \subseteq 1 .. n
  OBVIOUS
<1> HIDE DEF a, h, m, D
<1>6. D \subseteq 1 .. (m - (a + h))
  BY <1>2, <1>3, <1>4, <1>5
<1>7. IsFiniteSet(1 .. (m - (a + h))) /\ Cardinality(1 .. (m - (a + h))) = m - (a + h)
  <2>1. m - (a + h) \in Nat
    BY <1>2, <1>3
  <2>2. \A k \in Nat : IsFiniteSet(1 .. k) /\ Cardinality(1 .. k) = k
    <3> TAKE k \in Nat
    <3>1. IsFiniteSet(1 .. k) /\ Cardinality(1 .. k) = IF 1 > k THEN 0 ELSE k - 1 + 1
      BY FS_Interval
    <3> QED
      BY <3>1
  <2> QED
    BY <2>1, <2>2
<1>8. Cardinality(D) <= m - (a + h) /\ Cardinality(D) \in Nat
  BY <1>6, <1>7, FS_Subset, FS_CardinalityType
<1>9. a + h + Cardinality(D) <= m
  BY <1>2, <1>8
<1> QED
  BY <1>9 DEF a, h, m, D, AdmittedDenials

\* So the denials of blocked calls keep every lineage within its limits.
LEMMA DenialsWithin ==
    ASSUME NEW S \in State, NEW C, Within(S)
    PROVE  Within(RecordDenialCharges(S, C))
<1> DEFINE n == [l \in Lineages |-> AdmittedDenials(S, l, Cardinality(Charging(S, l) \cap C))]
           T == RecordDenialCharges(S, C)
<1>1. n \in [Lineages -> Nat]
  BY ChargingCardinality, DenialsType
<1>2. T = Charged(S, "denied", n)
  BY DEF RecordDenialCharges, Charged
<1>3. \A l \in Lineages : n[l] = AdmittedDenials(S, l, Cardinality(Charging(S, l) \cap C))
  OBVIOUS
<1>4. "denied" \in Dims
  BY DEF Dims
<1> HIDE DEF n, T
<1>5. /\ T \in State /\ T.reservations = S.reservations
      /\ \A l \in Lineages : T.records[l].consumed["denied"] = S.records[l].consumed["denied"] + n[l]
      /\ \A l \in Lineages : \A e \in Dims \ {"denied"} :
            T.records[l].consumed[e] = S.records[l].consumed[e]
  BY <1>1, <1>2, <1>4, ChargeEffect
<1> SUFFICES ASSUME NEW l \in Lineages, NEW e \in Dims, Limits[l[1]][e] # 0
             PROVE  T.records[l].consumed[e] + Load(T, l, e) <= Limits[l[1]][e]
  BY DEF Within, T
<1>6. Load(T, l, e) = Load(S, l, e) /\ Load(S, l, e) \in Nat
  <2>1. \A c \in Calls : Held(S, l, e)[c] \in Nat
    BY HeldType
  <2>2. Charging(S, l) \in SUBSET Calls
    BY DEF Charging, Active
  <2>3. Load(S, l, e) \in Nat
    BY <2>1, <2>2, CallsCardinality, SumSplits DEF Load
  <2> QED
    BY <1>5, <2>3, SameReservations
<1>7. S.records[l].consumed[e] \in Nat /\ n[l] \in Nat
  BY <1>1, LimitNumbers
<1>8. CASE e = "denied"
  <2>1. Cardinality(Charging(S, l) \cap C) \in Nat
    BY ChargingCardinality
  <2>2. S.records[l].consumed["denied"] + Load(S, l, "denied") + n[l] <= Limits[l[1]]["denied"]
    BY <1>3, <1>8, <2>1, AdmittedFits
  <2> QED
    BY <1>5, <1>6, <1>7, <1>8, <2>2
<1>9. CASE e # "denied"
  BY <1>5, <1>6, <1>9 DEF Within
<1> QED
  BY <1>8, <1>9

\* Deciding pending approvals negatively keeps every lineage within its limits
\* (finishPendingApproval).
LEMMA FinishPendingWithin ==
    ASSUME NEW S \in State, Within(S), NEW K, NEW s \in ApprovalStatuses,
           NEW receipt \in Receipts \cup {0}
    PROVE  Within(FinishPending(S, K, s, receipt))
<1> DEFINE f == [k \in Keys |->
                        IF k \in K
                        THEN [S.approvals[k] EXCEPT !.status = s, !.receipt = receipt]
                        ELSE S.approvals[k]]
           decided == [S EXCEPT !.approvals = f]
           freed   == SetReserved(decided, CallsOf(K, "post_result"), "approval", 0)
           charged == RecordDenialCharges(freed, CallsOf(K, "pre_call"))
<1>1. f \in [Keys -> ApprovalRecord]
  BY StateParts DEF ApprovalRecord
<1>2. FinishPending(S, K, s, receipt) = RecordTerminal(charged, CallsOf(K, "pre_call"), "blocked")
  BY DEF FinishPending
<1> HIDE DEF f
<1>3. decided \in State
  BY <1>1, StateUpdate
<1>4. decided.reservations = S.reservations /\ decided.records = S.records
  BY DEF State
<1> HIDE DEF decided
<1>5. Within(decided)
  BY <1>4, SameWithin
<1>6. freed \in State /\ Within(freed)
  BY <1>3, <1>5, SetReservedType, SetReservedWithin DEF Dims
<1> HIDE DEF freed
<1>7. charged \in State /\ Within(charged)
  BY <1>6, RecordDenialChargesType, DenialsWithin
<1> HIDE DEF charged
<1>8. "blocked" \in Outcomes
  BY DEF Outcomes
<1> QED
  BY <1>2, <1>7, <1>8, RecordTerminalWithin

\* Pruning of history leaves budgets alone (pruneRetainedHistory).
LEMMA PruneKeepsBudgets ==
    ASSUME NEW S \in State, NEW t
    PROVE  /\ PruneRetainedHistory(S, t).records = S.records
           /\ PruneRetainedHistory(S, t).reservations = S.reservations
BY DEF PruneRetainedHistory, State

\* Pruning of history and the clock change neither records nor reservations.
LEMMA WrittenWithin ==
    ASSUME NEW S \in State, now \in Time
    PROVE  /\ Written(S).records = S.records /\ Written(S).reservations = S.reservations
           /\ Within(S) => Within(Written(S))
<1> DEFINE T == [S EXCEPT !.observed = now]
<1>1. T \in State /\ T.records = S.records /\ T.reservations = S.reservations
  BY DEF State
<1> HIDE DEF T
<1>2. Written(S) = PruneRetainedHistory(T, now)
  BY DEF Written, T
<1>3. /\ PruneRetainedHistory(T, now).records = T.records
      /\ PruneRetainedHistory(T, now).reservations = T.reservations
  BY <1>1, PruneKeepsBudgets
<1>4. Written(S).records = S.records /\ Written(S).reservations = S.reservations
  BY <1>1, <1>2, <1>3
<1> QED
  BY <1>4, SameWithin

\* A published state is within its limits when the one written is.
LEMMA CommitWithin ==
    ASSUME TypeOK, NEW T \in State, Within(T), Commit(T)
    PROVE  Within(state')
BY WrittenWithin DEF Commit, TypeOK
\* A consumed receipt turns the reserved approval into a consumed one
\* (commitApprovalCharges).
LEMMA CommitApprovalChargesWithin ==
    ASSUME NEW S \in State, Within(S), NEW c \in Active(S), ApprovalReserved(S, c)
    PROVE  Within(CommitApprovalCharges(S, c))
<1> DEFINE unit == [b \in Budgets |-> IF Limits[b]["approval"] = 0 THEN 0 ELSE 1]
           R == Consume(S, c, "approval", unit)
           Q == SetReserved(R, {c}, "approval", 0)
           f == [b \in Budgets |->
                    IF b \in ApprovalBudgets(c)
                    THEN [Q.reservations[c].charges[b] EXCEPT !.approvals = @ + 1]
                    ELSE Q.reservations[c].charges[b]]
           T == CommitApprovalCharges(S, c)
<1>1. c \in Calls /\ unit \in [Budgets -> Nat] /\ "approval" \in Dims
  BY DEF Active, Dims
<1>2. T = [Q EXCEPT !.reservations[c].charges = f]
  BY DEF CommitApprovalCharges
<1>3. T \in State
  BY <1>1, CommitApprovalChargesType
<1>4. \A b \in Budgets : Limits[b]["approval"] # 0 => unit[b] = 1
  OBVIOUS
<1> HIDE DEF unit, R, T
<1>5. /\ R \in State /\ R.reservations = S.reservations
      /\ \A l \in Lineages, e \in Dims : R.records[l].consumed[e]
            = IF l \in ChargedLineages(S, c) /\ e = "approval"
              THEN S.records[l].consumed[e] + unit[l[1]]
              ELSE S.records[l].consumed[e]
  <2>1. R = Consume(S, c, "approval", unit)
    BY DEF R
  <2> QED
    BY <1>1, <2>1, ConsumeEffect
<1>0. Q = SetReserved(R, {c}, "approval", 0) /\ R \in State /\ R.reservations = S.reservations
  BY <1>5
<1>6. Q \in State /\ Q.records = R.records
  <2> HIDE DEF Q
  <2> QED
    BY <1>0, <1>1, SetReservedEffect
<1>7. \A l \in Lineages :
         /\ Charging(Q, l) = Charging(S, l)
         /\ \A e \in Dims : \A a \in Charging(S, l) :
               Held(Q, l, e)[a] = IF a \in {c} /\ Limits[l[1]]["approval"] # 0 /\ e = "approval"
                                  THEN 0 ELSE Held(S, l, e)[a]
  <2> TAKE l \in Lineages
  <2>1. /\ Charging(Q, l) = Charging(R, l)
        /\ \A e \in Dims : \A a \in Charging(R, l) :
              Held(Q, l, e)[a] = IF a \in {c} /\ Limits[l[1]]["approval"] # 0 /\ e = "approval"
                                 THEN 0 ELSE Held(R, l, e)[a]
    <3> HIDE DEF Q
    <3> QED
      BY <1>0, <1>1, SetReservedCharging
  <2>2. Charging(R, l) = Charging(S, l) /\ \A e \in Dims : Held(R, l, e) = Held(S, l, e)
    BY <1>0, SameReservations
  <2> QED
    BY <2>1, <2>2
<1>8. T.records = Q.records
      /\ \A a \in Calls : /\ T.reservations[a].status = Q.reservations[a].status
                          /\ T.reservations[a].created = Q.reservations[a].created
                          /\ \A b \in Budgets : T.reservations[a].charges[b].reserved
                                                  = Q.reservations[a].charges[b].reserved
  <2> HIDE DEF Q
  <2>1. \A b \in Budgets : f[b].reserved = Q.reservations[c].charges[b].reserved
    <3>1. \A g \in Charge : [g EXCEPT !.approvals = @ + 1].reserved = g.reserved
      BY DEF Charge
    <3>2. \A b \in Budgets : Q.reservations[c].charges[b] \in Charge
      BY <1>1, <1>6, StateParts
    <3> QED
      BY <3>1, <3>2
  <2> HIDE DEF f
  <2>2. T.records = Q.records
        /\ T.reservations = [Q.reservations EXCEPT ![c].charges = f]
    BY <1>2, <1>6 DEF State
  <2>3. Q.reservations \in [Calls -> Reservation]
    BY <1>6 DEF State
  <2>4. \A r \in Reservation : LET q == [r EXCEPT !.charges = f] IN
           q.status = r.status /\ q.created = r.created /\ q.charges = f
    BY DEF Reservation
  <2>5. \A a \in Calls : T.reservations[a]
            = IF a = c THEN [Q.reservations[a] EXCEPT !.charges = f] ELSE Q.reservations[a]
    BY <1>1, <2>2, <2>3
  <2> QED
    BY <2>1, <2>2, <2>3, <2>4, <2>5
<1> HIDE DEF Q
<1> SUFFICES ASSUME NEW l \in Lineages, NEW e \in Dims, Limits[l[1]][e] # 0
             PROVE  T.records[l].consumed[e] + Load(T, l, e) <= Limits[l[1]][e]
  BY DEF Within, T
<1> DEFINE D == IF e = "approval" THEN {c} ELSE {}
<1>9. /\ Charging(T, l) = Charging(S, l)
      /\ \A a \in Charging(T, l) : Held(T, l, e)[a] = IF a \in D THEN 0 ELSE Held(S, l, e)[a]
  <2>1. Charging(T, l) = Charging(Q, l)
    BY <1>8, SameCharging DEF Status
  <2>2. \A a \in Calls : Held(T, l, e)[a] = Held(Q, l, e)[a]
    BY <1>8 DEF Held, Lineages
  <2>3. \A a \in Charging(S, l) : a \in Calls
    BY DEF Charging, Active
  <2> QED
    BY <1>7, <2>1, <2>2, <2>3
<1> HIDE DEF D
<1>10. /\ Load(S, l, e) = Load(T, l, e) + SumFunctionOnSet(Held(S, l, e), Charging(S, l) \cap D)
       /\ Load(S, l, e) \in Nat /\ Load(T, l, e) \in Nat
       /\ SumFunctionOnSet(Held(S, l, e), Charging(S, l) \cap D) \in Nat
  BY <1>3, <1>9, LoadFalls
<1>11. S.records[l].consumed[e] + Load(S, l, e) <= Limits[l[1]][e]
  BY DEF Within
<1>12. S.records[l].consumed[e] \in Nat /\ Limits[l[1]][e] \in Nat
  BY LimitNumbers
<1>13. CASE l \in ChargedLineages(S, c) /\ e = "approval"
  <2>1. Charging(S, l) \cap D = {c}
    BY <1>13 DEF Charging, D
  <2>2. SumFunctionOnSet(Held(S, l, e), {c}) = Held(S, l, e)[c] /\ Held(S, l, e)[c] \in Nat
    BY <1>1, SumOfOne, HeldType
  <2>3. l[1] \in BudgetsOf[c] /\ l[1] \in Budgets
    BY <1>1, <1>13, ChargedBudget
  <2>4. Held(S, l, e)[c] = S.reservations[c].charges[l[1]].reserved["approval"]
    BY <1>1, <1>13 DEF Held
  <2>5. Held(S, l, e)[c] = 1 /\ unit[l[1]] = 1
    BY <1>4, <1>13, <2>3, <2>4 DEF ApprovalReserved, ApprovalBudgets
  <2>6. T.records[l].consumed[e] = S.records[l].consumed[e] + 1
    BY <1>5, <1>6, <1>8, <1>13, <2>5
  <2>7. Load(S, l, e) = Load(T, l, e) + 1
    BY <1>10, <2>1, <2>2, <2>5
  <2> QED
    BY <1>10, <1>11, <1>12, <2>6, <2>7
<1>14. CASE ~(l \in ChargedLineages(S, c) /\ e = "approval")
  <2>1. T.records[l].consumed[e] = S.records[l].consumed[e]
    BY <1>5, <1>6, <1>8, <1>14
  <2> QED
    BY <1>10, <1>11, <1>12, <2>1
<1> QED
  BY <1>13, <1>14

\* When one call takes up capacity, the load rises by what it holds afterwards.
LEMMA LoadRises ==
    ASSUME NEW S \in State, NEW T \in State, NEW l \in Lineages, NEW d \in Dims, NEW C,
           Charging(S, l) \subseteq Charging(T, l),
           Charging(T, l) \ C \subseteq Charging(S, l),
           \A a \in Charging(S, l) : Held(S, l, d)[a] = IF a \in C THEN 0 ELSE Held(T, l, d)[a],
           NEW c \in Calls, Charging(T, l) \cap C = {c}
    PROVE  Load(T, l, d) = Load(S, l, d) + Held(T, l, d)[c] /\ Load(S, l, d) \in Nat
<1>1. /\ Load(T, l, d) = Load(S, l, d) + SumFunctionOnSet(Held(T, l, d), Charging(T, l) \cap C)
      /\ Load(S, l, d) \in Nat
  <2>1. /\ Load(T, l, d) = Load(S, l, d)
                              + SumFunctionOnSet(Held(T, l, d), Charging(T, l) \cap C)
        /\ Load(T, l, d) \in Nat /\ Load(S, l, d) \in Nat
        /\ SumFunctionOnSet(Held(T, l, d), Charging(T, l) \cap C) \in Nat
    BY LoadFalls
  <2> QED
    BY <2>1
<1>2. SumFunctionOnSet(Held(T, l, d), {c}) = Held(T, l, d)[c]
  <2>1. Held(T, l, d)[c] \in Nat
    BY HeldType
  <2> QED
    BY <2>1, SumOfOne
<1> QED
  BY <1>1, <1>2

\* A request reserves an approval where one is available (reserveApprovalCharges).
LEMMA ReserveApprovalWithin ==
    ASSUME NEW S \in State, Within(S), NEW c \in Calls, ~ApprovalUncommitted(S, c),
           \A b \in ApprovalBudgets(c) :
              Available(S, ChargedLineage(S, c, b), [ZeroUsage EXCEPT !["approval"] = 1])
    PROVE  Within(SetReserved(S, {c}, "approval", 1))
<1> DEFINE T == SetReserved(S, {c}, "approval", 1)
<1>0. "approval" \in Dims /\ 1 \in Nat /\ T = SetReserved(S, {c}, "approval", 1)
  BY DEF Dims
<1> SUFFICES ASSUME NEW l \in Lineages, NEW e \in Dims, Limits[l[1]][e] # 0
             PROVE  T.records[l].consumed[e] + Load(T, l, e) <= Limits[l[1]][e]
  BY DEF Within
<1> HIDE DEF T
<1>1. T \in State /\ T.records = S.records
  BY <1>0, SetReservedEffect
<1>2. /\ Charging(T, l) = Charging(S, l)
      /\ \A a \in Charging(S, l) :
            Held(T, l, e)[a] = IF a \in {c} /\ Limits[l[1]]["approval"] # 0 /\ e = "approval" THEN 1
                               ELSE Held(S, l, e)[a]
  BY <1>0, SetReservedCharging
<1>3. S.records[l].consumed[e] + Load(S, l, e) <= Limits[l[1]][e]
  BY DEF Within
<1>4. S.records[l].consumed[e] \in Nat /\ Limits[l[1]][e] \in Nat
  BY LimitNumbers
<1>5. CASE c \in Charging(S, l) /\ e = "approval"
  <2>1. l[1] \in BudgetsOf[c] /\ l[1] \in Budgets /\ l = ChargedLineage(S, c, l[1])
    <3>1. l \in ChargedLineages(S, c)
      BY <1>5 DEF Charging
    <3> QED
      BY <3>1, ChargedBudget
  <2>2. Held(S, l, e)[c] = 0
    BY <1>5, <2>1 DEF ApprovalUncommitted, Held
  <2>3. Held(T, l, e)[c] = 1
    BY <1>2, <1>5
  <2>4. Load(T, l, e) = Load(S, l, e) + 1 /\ Load(S, l, e) \in Nat
    <3>1. PICK C : C = {c}
      OBVIOUS
    <3>2. \A a \in Charging(S, l) : Held(S, l, e)[a] = IF a \in C THEN 0 ELSE Held(T, l, e)[a]
      BY <1>2, <2>2, <3>1
    <3>3. /\ Charging(T, l) \ C \subseteq Charging(S, l) /\ Charging(S, l) \subseteq Charging(T, l)
          /\ Charging(T, l) \cap C = {c}
      BY <1>2, <1>5, <3>1
    <3>4. Load(T, l, e) = Load(S, l, e) + Held(T, l, e)[c] /\ Load(S, l, e) \in Nat
      BY <1>1, <3>2, <3>3, LoadRises
    <3> QED
      BY <2>3, <3>4
  <2>5. S.records[l].consumed["approval"] + Load(S, l, "approval") + 1 <= Limits[l[1]]["approval"]
    <3>1. Available(S, l, [ZeroUsage EXCEPT !["approval"] = 1])
      BY <1>5, <2>1 DEF ApprovalBudgets
    <3>2. [ZeroUsage EXCEPT !["approval"] = 1]["approval"] = 1
      BY <1>0 DEF ZeroUsage
    <3>3. ReservedUsage(S, l)["approval"] = Load(S, l, "approval")
      BY <1>0 DEF ReservedUsage, Load
    <3> QED
      BY <1>0, <1>5, <3>1, <3>2, <3>3 DEF Available, CapacityAvailable
  <2> QED
    BY <1>1, <1>4, <1>5, <2>4, <2>5
<1>6. CASE ~(c \in Charging(S, l) /\ e = "approval")
  <2>1. \A a \in Charging(S, l) : Held(T, l, e)[a] = Held(S, l, e)[a]
    BY <1>2, <1>6
  <2>2. Load(T, l, e) = Load(S, l, e)
    BY <1>1, <1>2, <2>1, LoadKept
  <2> QED
    BY <1>1, <1>3, <2>2
<1> QED
  BY <1>5, <1>6
\* An operation that changes approvals alone stays within the limits.
LEMMA ApprovalsWithin ==
    ASSUME NEW S \in State, Within(S), NEW f
    PROVE  Within([S EXCEPT !.approvals = f])
<1> DEFINE T == [S EXCEPT !.approvals = f]
<1>1. T.records = S.records /\ T.reservations = S.reservations
  BY DEF State
<1> HIDE DEF T
<1>2. Within(T)
  BY <1>1, SameWithin
<1> QED
  BY <1>2 DEF T

\* Only the record of a lineage that nobody charges is pruned, and adoption
\* keeps what was consumed (pruneExpiredFixedWindowRecords, upsertBudgetRecord).
LEMMA UpsertWithin ==
    ASSUME TypeOK, Within(state), NEW c
    PROVE  /\ Within(UpsertRecords(PruneWindows(state), c))
           /\ UpsertRecords(PruneWindows(state), c).reservations = state.reservations
<1> DEFINE S == PruneWindows(state)
           T == UpsertRecords(S, c)
<1>0. state \in State
  BY DEF TypeOK
<1>1. S.reservations = state.reservations
      /\ \A l \in Lineages :
            S.records[l] = IF /\ ElapsedWindow(state, l)
                              /\ \E t \in Time : t > l[2] /\ ElapsedWindow(state, <<l[1], t>>)
                           THEN NoRecord ELSE state.records[l]
  BY <1>0 DEF PruneWindows, State
<1>2. S \in State
  <2>1. [l \in Lineages |->
            IF ElapsedWindow(state, l)
               /\ \E t \in Time : t > l[2] /\ ElapsedWindow(state, <<l[1], t>>)
            THEN NoRecord ELSE state.records[l]] \in [Lineages -> BudgetRecord]
    BY <1>0, ZeroTypes, StateParts
  <2> QED
    BY <1>0, <2>1, StateUpdate DEF PruneWindows
<1> HIDE DEF S
<1>3. Within(S)
  <2> SUFFICES ASSUME NEW l \in Lineages, NEW d \in Dims, Limits[l[1]][d] # 0
               PROVE  S.records[l].consumed[d] + Load(S, l, d) <= Limits[l[1]][d]
    BY DEF Within
  <2>1. Load(S, l, d) = Load(state, l, d)
    BY <1>1, SameReservations
  <2>2. CASE S.records[l] = state.records[l]
    BY <2>1, <2>2 DEF Within
  <2>3. CASE S.records[l] # state.records[l]
    <3>1. S.records[l] = NoRecord /\ Charging(state, l) = {}
      BY <1>1, <2>3 DEF ElapsedWindow
    <3>2. Load(S, l, d) = 0
      BY <2>1, <3>1, SumEmpty DEF Load
    <3>3. S.records[l].consumed[d] = 0
      BY <3>1 DEF NoRecord, ZeroUsage
    <3>4. Limits[l[1]][d] \in Nat
      BY <1>0, LimitNumbers
    <3> QED
      BY <3>2, <3>3, <3>4
  <2> QED
    BY <2>2, <2>3
<1>4. T.reservations = S.reservations
      /\ \A l \in Lineages : T.records[l] = IF \E b \in BudgetsOf[c] : l = Lineage(b, now)
                                            THEN [S.records[l] EXCEPT !.generation = policy]
                                            ELSE S.records[l]
  BY <1>2 DEF UpsertRecords, State
<1>5. \A l \in Lineages, d \in Dims : T.records[l].consumed[d] = S.records[l].consumed[d]
  <2>1. \A q \in BudgetRecord : [q EXCEPT !.generation = policy].consumed = q.consumed
    BY DEF BudgetRecord
  <2> QED
    BY <1>2, <1>4, <2>1, StateParts
<1> HIDE DEF T
<1>6. Within(T)
  BY <1>3, <1>4, <1>5, SameWithin
<1> QED
  BY <1>1, <1>4, <1>6 DEF S, T

\* A reservation is admitted only where it fits (reserveLocked).
LEMMA ReservationWithin ==
    ASSUME TypeOK, NEW S \in State, Within(S), NEW o \in Owners, NEW c \in Calls,
           Status(S, c) = "absent", ~Exhausted(S, c)
    PROVE  Within([S EXCEPT !.reservations[c] = NewReservation(o, c)])
<1> DEFINE r == NewReservation(o, c)
           T == [S EXCEPT !.reservations[c] = r]
<1>0. /\ r \in Reservation /\ r.status = "reserved" /\ r.created = now
      /\ \A b \in BudgetsOf[c] : r.charges[b].reserved = RequiredUsage(b, c)
  <2>1. BudgetsOf[c] \subseteq Budgets
    BY BudgetsAssumption
  <2> QED
    BY <2>1, NewReservationType DEF NewReservation
<1> HIDE DEF r
<1>1. T \in State /\ T.records = S.records
      /\ \A a \in Calls : T.reservations[a] = IF a = c THEN r ELSE S.reservations[a]
  BY <1>0 DEF State
<1> SUFFICES ASSUME NEW l \in Lineages, NEW e \in Dims, Limits[l[1]][e] # 0
             PROVE  T.records[l].consumed[e] + Load(T, l, e) <= Limits[l[1]][e]
  BY DEF Within, r
<1> HIDE DEF T
<1>2. S.records[l].consumed[e] + Load(S, l, e) <= Limits[l[1]][e]
  BY DEF Within
<1>3. S.records[l].consumed[e] \in Nat /\ Limits[l[1]][e] \in Nat
  BY LimitNumbers
<1>4. c \notin Charging(S, l)
  BY DEF Charging, Active
<1>5. \A a \in Calls \ {c} : a \in Charging(T, l) <=> a \in Charging(S, l)
  BY <1>1 DEF Charging, Active, Status, ChargedLineages, ChargedLineage
<1>6. Charging(T, l) \subseteq Calls /\ Charging(S, l) \subseteq Calls
  BY DEF Charging, Active
<1>7. \A a \in Calls \ {c} : Held(T, l, e)[a] = Held(S, l, e)[a]
  BY <1>1 DEF Held
<1>8. CASE c \in Charging(T, l)
  <2>1. PICK b \in BudgetsOf[c] : l = Lineage(b, now)
    BY <1>0, <1>1, <1>8 DEF Charging, ChargedLineages, ChargedLineage
  <2>2. l[1] = b /\ b \in Budgets
    BY <2>1, BudgetsAssumption DEF Lineage
  <2>3. Held(T, l, e)[c] = RequiredUsage(b, c)[e]
    BY <1>0, <1>1, <2>2 DEF Held
  <2>4. PICK C : C = {c}
    OBVIOUS
  <2>5. \A a \in Charging(S, l) : Held(S, l, e)[a] = IF a \in C THEN 0 ELSE Held(T, l, e)[a]
    BY <1>4, <1>6, <1>7, <2>4
  <2>6. /\ Charging(T, l) \ C \subseteq Charging(S, l) /\ Charging(S, l) \subseteq Charging(T, l)
        /\ Charging(T, l) \cap C = {c}
    BY <1>4, <1>5, <1>6, <1>8, <2>4
  <2>7. Load(T, l, e) = Load(S, l, e) + Held(T, l, e)[c] /\ Load(S, l, e) \in Nat
    <3>1. T \in State
      BY <1>1
    <3> QED
      BY <2>5, <2>6, <3>1, LoadRises
  <2>8. S.records[l].consumed[e] + Load(S, l, e) + RequiredUsage(b, c)[e] <= Limits[l[1]][e]
    <3>1. Available(S, l, RequiredUsage(b, c))
      BY <2>1 DEF Exhausted
    <3>2. ReservedUsage(S, l)[e] = Load(S, l, e)
      BY DEF ReservedUsage, Load
    <3> QED
      BY <3>1, <3>2 DEF Available, CapacityAvailable
  <2>9. Held(T, l, e)[c] \in Nat
    BY <1>1, HeldType
  <2> QED
    BY <1>1, <1>3, <2>3, <2>7, <2>8, <2>9
<1>9. CASE c \notin Charging(T, l)
  <2>1. Charging(T, l) = Charging(S, l)
    BY <1>4, <1>5, <1>6, <1>9
  <2>2. \A a \in Charging(S, l) : Held(T, l, e)[a] = Held(S, l, e)[a]
    BY <1>4, <1>6, <1>7
  <2>3. Load(T, l, e) = Load(S, l, e)
    BY <1>1, <2>1, <2>2, LoadKept
  <2> QED
    BY <1>1, <1>2, <2>3
<1> QED
  BY <1>8, <1>9

\* Reserve stays within the limits, admitted or exhausted.
LEMMA ReserveWithin ==
    ASSUME TypeOK, Within(state), NEW o \in Owners, NEW c \in Calls, Reserve(o, c)
    PROVE  Within(state')
<1> DEFINE declared == UpsertRecords(PruneWindows(state), c)
           kept     == PruneRetainedHistory(declared, now)
           T        == [kept EXCEPT !.reservations[c] = NewReservation(o, c)]
<1>1. declared \in State /\ Within(declared) /\ declared.reservations = state.reservations
  BY UpsertType, UpsertWithin
<1>2. Commit(declared) \/ (Commit(T) /\ ~Exhausted(declared, c))
  BY DEF Reserve
<1>3. Status(state, c) = "absent"
  BY DEF Reserve, Active
<1> HIDE DEF declared
<1>4. /\ kept \in State /\ kept.records = declared.records
      /\ kept.reservations = declared.reservations
  BY <1>1, PruneType, PruneKeepsBudgets
<1> HIDE DEF kept
<1>5. Within(kept)
  BY <1>1, <1>4, SameWithin
<1>6. CASE Commit(declared)
  BY <1>1, <1>6, CommitWithin
<1>7. CASE Commit(T) /\ ~Exhausted(declared, c)
  <2>1. ~Exhausted(kept, c)
    <3>1. \A l : ReservedUsage(kept, l) = ReservedUsage(declared, l)
      BY <1>4, SameReservations DEF ReservedUsage, Load
    <3> QED
      BY <1>4, <1>7, <3>1 DEF Exhausted, Available
  <2>2. Status(kept, c) = "absent"
    BY <1>1, <1>3, <1>4 DEF Status
  <2>3. Within(T)
    BY <1>4, <1>5, <2>1, <2>2, ReservationWithin
  <2>4. T \in State
    BY <1>4, NewReservationType DEF State
  <2> QED
    BY <1>7, <2>3, <2>4, CommitWithin
<1> QED
  BY <1>2, <1>6, <1>7
\* Deciding pending approvals stays within the limits (finishPendingApproval,
\* reconcileExpiredApprovals).
LEMMA FinishWithin ==
    ASSUME TypeOK, Within(state), NEW K, NEW s \in FailureStatuses,
           NEW r \in Receipts \cup {0}, Finish(K, s, r)
    PROVE  Within(state')
<1>1. state \in State /\ s \in ApprovalStatuses
  BY DEF TypeOK, ApprovalStatuses
<1>2. FinishPending(state, K, s, r) \in State /\ Within(FinishPending(state, K, s, r))
  BY <1>1, FinishPendingType, FinishPendingWithin
<1> QED
  BY <1>2, CommitWithin DEF Finish

\* Every operation on a reservation stays within the limits.
LEMMA ReservationStepWithin ==
    ASSUME TypeOK, Within(state), NEW c \in Calls, ReservationStep(c)
    PROVE  Within(state')
<1>0. state \in State
  BY DEF TypeOK
<1>1. ASSUME NEW o \in Owners, Reserve(o, c)
      PROVE  Within(state')
  BY <1>1, ReserveWithin
<1>2. CASE RefuseStaleContract(c)
  BY <1>0, <1>2, CommitWithin DEF RefuseStaleContract, PersistClockObservation
<1>3. ASSUME NEW s \in {"dispatched", "indeterminate"},
             Status(state, c) = "reserved",
             Commit(SetStatus(CommitDispatch(state, {c}), {c}, s))
      PROVE  Within(state')
  <2>1. CommitDispatch(state, {c}) \in State /\ Within(CommitDispatch(state, {c}))
    BY <1>0, CommitDispatchType, CommitDispatchWithin
  <2>2. Status(CommitDispatch(state, {c}), c) # "absent"
    BY <1>0, <1>3, CommitDispatchLife DEF SameLife
  <2>3. s \in ReservationStatuses \ {"absent"}
    BY DEF ReservationStatuses
  <2> DEFINE S == CommitDispatch(state, {c})
  <2> HIDE DEF S
  <2>4. SetStatus(S, {c}, s) \in State /\ Within(SetStatus(S, {c}, s))
    BY <2>1, <2>2, <2>3, SetStatusType, SetStatusWithin DEF S
  <2> QED
    BY <1>3, <2>4, CommitWithin DEF S
<1>4. ASSUME Status(state, c) # "absent", Commit(SetStatus(state, {c}, "indeterminate"))
      PROVE  Within(state')
  <2>1. "indeterminate" \in ReservationStatuses \ {"absent"}
    BY DEF ReservationStatuses
  <2>2. SetStatus(state, {c}, "indeterminate") \in State
        /\ Within(SetStatus(state, {c}, "indeterminate"))
    BY <1>0, <1>4, <2>1, SetStatusType, SetStatusWithin
  <2> QED
    BY <1>4, <2>2, CommitWithin
<1>5. CASE MarkDispatched(c)
  BY <1>3, <1>5 DEF MarkDispatched
<1>6. CASE Release(c)
  <2>1. "released" \in Outcomes
    BY DEF Outcomes
  <2>2. RecordTerminal(state, {c}, "released") \in State
        /\ Within(RecordTerminal(state, {c}, "released"))
    BY <1>0, <2>1, RecordTerminalType, RecordTerminalWithin
  <2> QED
    BY <1>6, <2>2, CommitWithin DEF Release
<1>7. CASE RecordDenied(c)
  <2>1. "blocked" \in Outcomes
    BY DEF Outcomes
  <2>2. RecordDenialCharges(state, {c}) \in State /\ Within(RecordDenialCharges(state, {c}))
    BY <1>0, RecordDenialChargesType, DenialsWithin
  <2> DEFINE S == RecordDenialCharges(state, {c})
  <2> HIDE DEF S
  <2>3. RecordTerminal(S, {c}, "blocked") \in State /\ Within(RecordTerminal(S, {c}, "blocked"))
    BY <2>1, <2>2, RecordTerminalType, RecordTerminalWithin DEF S
  <2> QED
    BY <1>7, <2>3, CommitWithin DEF RecordDenied, S
<1>8. CASE MarkIndeterminate(c)
  BY <1>3, <1>4, <1>8 DEF MarkIndeterminate
<1>9. ASSUME NEW o \in Outcomes, NEW amount \in [Budgets -> Nat], c \in Active(state),
             \A b \in BudgetsOf[c] :
                state.reservations[c].charges[b].reserved["result"] # 0
                   => amount[b] <= state.reservations[c].charges[b].reserved["result"],
             Commit(RecordTerminal(CommitResult(state, c, amount), {c}, o))
      PROVE  Within(state')
  <2>1. /\ RecordTerminal(CommitResult(state, c, amount), {c}, o) \in State
        /\ Within(RecordTerminal(CommitResult(state, c, amount), {c}, o))
    BY <1>0, <1>9, CommitResultType, RecordTerminalType, SettleWithin
  <2> QED
    BY <1>9, <2>1, CommitWithin
<1>10. \A b \in Budgets : state.reservations[c].charges[b].reserved["result"] \in Nat
  BY <1>0, StateParts DEF Charge, Usage, Dims
<1>11. ASSUME NEW n \in ResultSizes, Settle(c, n)
       PROVE  Within(state')
  <2>1. c \in Active(state) /\ Status(state, c) # "absent"
    BY <1>11 DEF Settle, Active
  <2>2. CASE ExceedsReservedResult(state, c, n)
    BY <1>4, <1>11, <2>1, <2>2 DEF Settle
  <2>3. CASE ~ExceedsReservedResult(state, c, n)
    <3> DEFINE amount == [b \in Budgets |-> n]
    <3>1. amount \in [Budgets -> Nat] /\ \A b \in Budgets : amount[b] = n
      BY ResultAssumption
    <3>2. Commit(RecordTerminal(CommitResult(state, c, amount), {c}, "settled"))
      BY <1>11, <2>3 DEF Settle
    <3> HIDE DEF amount
    <3>3. \A b \in BudgetsOf[c] :
             state.reservations[c].charges[b].reserved["result"] # 0
                => amount[b] <= state.reservations[c].charges[b].reserved["result"]
      <4>1. n \in Nat /\ BudgetsOf[c] \subseteq Budgets
        BY ResultAssumption, BudgetsAssumption
      <4> QED
        BY <1>10, <2>3, <3>1, <4>1 DEF ExceedsReservedResult
    <3>4. "settled" \in Outcomes
      BY DEF Outcomes
    <3> QED
      BY <1>9, <2>1, <3>1, <3>2, <3>3, <3>4
  <2> QED
    BY <2>2, <2>3
<1>12. ASSUME NEW n \in ResultSizes, NEW o \in {"settled", "indeterminate_committed"},
              ReconcileIndeterminate(c, o, n)
       PROVE  Within(state')
  <2> DEFINE amount == [b \in Budgets |->
                 IF o = "settled" THEN n
                 ELSE state.reservations[c].charges[b].reserved["result"]]
  <2>1. c \in Active(state)
    BY <1>12 DEF ReconcileIndeterminate, Active
  <2>2. /\ amount \in [Budgets -> Nat]
        /\ \A b \in Budgets : amount[b] = IF o = "settled" THEN n
                                ELSE state.reservations[c].charges[b].reserved["result"]
    BY <1>10, ResultAssumption
  <2>3. Commit(RecordTerminal(CommitResult(state, c, amount), {c}, o))
    BY <1>12 DEF ReconcileIndeterminate, Reconciled
  <2> HIDE DEF amount
  <2>4. \A b \in BudgetsOf[c] :
           state.reservations[c].charges[b].reserved["result"] # 0
              => amount[b] <= state.reservations[c].charges[b].reserved["result"]
    <3>1. n \in Nat /\ BudgetsOf[c] \subseteq Budgets
      BY ResultAssumption, BudgetsAssumption
    <3>2. o = "settled" => ~ExceedsReservedResult(state, c, n)
      BY <1>12 DEF ReconcileIndeterminate
    <3> QED
      BY <1>10, <2>2, <3>1, <3>2 DEF ExceedsReservedResult
  <2>5. o \in Outcomes
    BY DEF Outcomes
  <2> QED
    BY <1>9, <2>1, <2>2, <2>3, <2>4, <2>5
<1> QED
  BY <1>1, <1>2, <1>5, <1>6, <1>7, <1>8, <1>11, <1>12 DEF ReservationStep

\* Abandoning an owner stays within the limits (MarkOwnerAbandoned).
LEMMA AbandonWithin ==
    ASSUME TypeOK, Within(state), NEW o \in Owners, MarkOwnerAbandoned(o)
    PROVE  Within(state')
<1> DEFINE owned   == {c \in Active(state) : /\ state.reservations[c].owner = o
                                             /\ Status(state, c) # "indeterminate"}
           waiting == {k \in Pending(state) : k[1] \in owned}
           unsent  == {c \in owned : Status(state, c) = "reserved"}
           f       == [k \in Keys |->
                          IF k \in waiting
                          THEN [state.approvals[k] EXCEPT !.status = "unavailable"]
                          ELSE state.approvals[k]]
           S       == [state EXCEPT !.approvals = f]
           T       == SetReserved(S, {k[1] : k \in waiting}, "approval", 0)
           U       == CommitDispatch(T, unsent)
<1>1. state \in State
  BY DEF TypeOK
<1>2. f \in [Keys -> ApprovalRecord]
  <2>1. \A a \in ApprovalRecord : [a EXCEPT !.status = "unavailable"] \in ApprovalRecord
    BY DEF ApprovalRecord, ApprovalStatuses, FailureStatuses
  <2> QED
    BY <1>1, <2>1, StateParts
<1>3. Commit(SetStatus(U, owned, "indeterminate"))
  BY DEF MarkOwnerAbandoned
<1>4. \A c \in owned : c \in Calls /\ Status(state, c) # "absent"
  BY DEF Active
<1> HIDE DEF f, owned, waiting, unsent
<1>5. S \in State /\ Within(S) /\ \A c \in Calls : Status(S, c) = Status(state, c)
  <2>1. S.reservations = state.reservations
    BY <1>1 DEF State
  <2> QED
    BY <1>1, <1>2, <2>1, StateUpdate, ApprovalsWithin DEF Status
<1> HIDE DEF S
<1>6. T \in State /\ Within(T) /\ \A c \in Calls : Status(T, c) = Status(S, c)
  BY <1>5, SetReservedType, SetReservedWithin, SetReservedLife DEF Dims, SameLife
<1> HIDE DEF T
<1>7. U \in State /\ Within(U) /\ \A c \in Calls : Status(U, c) = Status(T, c)
  BY <1>6, CommitDispatchType, CommitDispatchWithin, CommitDispatchLife DEF SameLife
<1> HIDE DEF U
<1>8. "indeterminate" \in ReservationStatuses \ {"absent"}
  BY DEF ReservationStatuses
<1>9. SetStatus(U, owned, "indeterminate") \in State /\ Within(SetStatus(U, owned, "indeterminate"))
  BY <1>4, <1>5, <1>6, <1>7, <1>8, SetStatusType, SetStatusWithin
<1> QED
  BY <1>3, <1>9, CommitWithin

\* Every operation on an approval stays within the limits.
LEMMA ApprovalStepWithin ==
    ASSUME TypeOK, Within(state), NEW k \in Keys, ApprovalStep(k)
    PROVE  Within(state')
<1>0. state \in State /\ k[1] \in Calls
  BY DEF TypeOK, Keys
<1>1. ASSUME NEW o \in Owners, IssueApproval(o, k)
      PROVE  Within(state')
  <2> DEFINE c == k[1]
             charged == IF ApprovalReserved(state, c) THEN state
                        ELSE SetReserved(state, {c}, "approval", 1)
             a == [status |-> "pending", expires |-> now + ApprovalTTL,
                   plan |-> policy, receipt |-> 0]
             T == [charged EXCEPT !.approvals[k] = a]
  <2>1. Commit(T)
    BY <1>1 DEF IssueApproval
  <2>2. charged \in State
    BY <1>0, SetReservedType DEF Dims
  <2>3. Within(charged)
    BY <1>0, <1>1, ReserveApprovalWithin DEF IssueApproval
  <2>4. a \in ApprovalRecord
    <3>1. now + ApprovalTTL \in Time
      BY <1>1, TimeAssumption DEF IssueApproval, TypeOK, Time
    <3> QED
      BY <3>1 DEF ApprovalRecord, ApprovalStatuses, TypeOK
  <2> HIDE DEF a, charged
  <2>5. T \in State
    BY <2>2, <2>4 DEF State
  <2>6. T = [charged EXCEPT !.approvals = [charged.approvals EXCEPT ![k] = a]]
    BY <2>2 DEF State
  <2>7. Within(T)
    BY <2>2, <2>3, <2>6, ApprovalsWithin
  <2> QED
    BY <2>1, <2>5, <2>7, CommitWithin
<1>2. ASSUME NEW o \in Owners, NEW s \in FailureStatuses, ConsumeUnverified(o, k, s)
      PROVE  Within(state')
  BY <1>2, FinishWithin DEF ConsumeUnverified
<1>3. ASSUME NEW o \in Owners, NEW r \in Receipts, ConsumeRejected(o, k, r)
      PROVE  Within(state')
  BY <1>3, FinishWithin DEF ConsumeRejected, FailureStatuses
<1>4. ASSUME NEW o \in Owners, NEW r \in Receipts, ConsumeApproved(o, k, r)
      PROVE  Within(state')
  <2> DEFINE charged == IF BudgetsOf[k[1]] = {} THEN state
                        ELSE CommitApprovalCharges(state, k[1])
             T == [charged EXCEPT !.approvals[k].status = "approved", !.approvals[k].receipt = r]
             g == [charged.approvals EXCEPT ![k].status = "approved", ![k].receipt = r]
  <2>1. CASE ReceiptKnown(r, k)
    BY <1>4, <2>1, FinishWithin DEF ConsumeApproved, FailureStatuses
  <2>2. CASE ~ReceiptKnown(r, k)
    <3>1. Commit(T) /\ ApprovalReserved(state, k[1])
      BY <1>4, <2>2 DEF ConsumeApproved
    <3>2. charged \in State
      BY <1>0, CommitApprovalChargesType
    <3>3. Within(charged)
      <4>1. BudgetsOf[k[1]] # {} => k[1] \in Active(state)
        BY <1>0, <1>4 DEF ConsumeApproved, Consumable, ApprovalBound, WantStatus, Active
      <4> QED
        BY <1>0, <3>1, <4>1, CommitApprovalChargesWithin
    <3> HIDE DEF charged
    <3>4. T = [charged EXCEPT !.approvals = g]
      BY <3>2 DEF State
    <3>5. g \in [Keys -> ApprovalRecord]
      <4>1. charged.approvals \in [Keys -> ApprovalRecord]
        BY <3>2 DEF State
      <4>2. \A a \in ApprovalRecord :
                [a EXCEPT !.status = "approved", !.receipt = r] \in ApprovalRecord
        BY DEF ApprovalRecord, ApprovalStatuses
      <4> QED
        BY <4>1, <4>2
    <3> HIDE DEF T, g
    <3>6. T \in State /\ Within(T)
      BY <3>2, <3>3, <3>4, <3>5, StateUpdate, ApprovalsWithin
    <3> QED
      BY <3>1, <3>6, CommitWithin
  <2> QED
    BY <2>1, <2>2
<1>5. ASSUME NEW s \in FailureStatuses \ {"rejected"}, FinalizeApproval(k, s)
      PROVE  Within(state')
  BY <1>5, FinishWithin DEF FinalizeApproval
<1> QED
  BY <1>1, <1>2, <1>3, <1>4, <1>5 DEF ApprovalStep

\* Nothing is consumed or held at first.
LEMMA InitWithin == Init => Within(state)
<1> SUFFICES ASSUME Init, NEW l \in Lineages, NEW d \in Dims, Limits[l[1]][d] # 0
             PROVE  state.records[l].consumed[d] + Load(state, l, d) <= Limits[l[1]][d]
  BY DEF Within
<1>1. state = InitialState /\ state \in State
  BY InitType DEF Init, TypeOK
<1>2. Charging(state, l) = {}
  BY <1>1 DEF InitialState, Charging, Active, Status, NoReservation
<1>3. Load(state, l, d) = 0
  BY <1>2, SumEmpty DEF Load
<1>4. state.records[l].consumed[d] = 0
  BY <1>1 DEF InitialState, NoRecord, ZeroUsage
<1>5. Limits[l[1]][d] \in Nat
  BY <1>1, LimitNumbers
<1> QED
  BY <1>3, <1>4, <1>5

\* Every step stays within the limits.
LEMMA NextWithin == TypeOK /\ Within(state) /\ [Next]_vars => Within(state')
<1> SUFFICES ASSUME TypeOK, Within(state), [Next]_vars
             PROVE  Within(state')
  OBVIOUS
<1>1. ASSUME NEW c \in Calls, ReservationStep(c)
      PROVE  Within(state')
  BY <1>1, ReservationStepWithin
<1>2. ASSUME NEW k \in Keys, ApprovalStep(k)
      PROVE  Within(state')
  BY <1>2, ApprovalStepWithin
<1>3. ASSUME NEW o \in Owners, MarkOwnerAbandoned(o)
      PROVE  Within(state')
  BY <1>3, AbandonWithin
<1>4. CASE ReconcileExpiredApprovals
  BY <1>4, FinishWithin DEF ReconcileExpiredApprovals, FailureStatuses
<1>5. CASE \/ \E c \in Calls : NewCallID(c)
           \/ Tick \/ SetClockBack \/ PolicyChange \/ UNCHANGED vars
  <2>1. state' = state
    BY <1>5 DEF NewCallID, Tick, SetClockBack, PolicyChange, vars
  <2> QED
    BY <2>1
<1> QED
  BY <1>1, <1>2, <1>3, <1>4, <1>5 DEF Next

\* Whatever a lineage has consumed, in any dimension, there is room in its limit
\* for all that live reservations still hold of it: reservations, dispatches,
\* denials, approvals, settlements and abandonments of any number of processes
\* check capacity apart and together never exceed it (reserveLocked,
\* reserveApprovalCharges, recordDenialCharges).
THEOREM CapacityKept == Spec => []CapacityNeverOversubscribed
<1>1. TypeOK /\ Within(state) => CapacityNeverOversubscribed
  BY DEF Within, CapacityNeverOversubscribed, ReservedUsage, Load
<1>2. Within(state') <=> Within(state)'
  BY DEF Within, Load, Held, Charging, Active, Status, ChargedLineages, ChargedLineage
<1> QED
  BY <1>1, <1>2, InitWithin, NextWithin, TypeCorrect, PTL DEF Spec
-----------------------------------------------------------------------------
(* The books: what a lineage has consumed is what happened to its calls.   *)

\* A sum of ones counts.
LEMMA SumOfOnes ==
    ASSUME NEW S, IsFiniteSet(S), NEW f, \A x \in S : f[x] = 1
    PROVE  SumFunctionOnSet(f, S) = Cardinality(S)
<1> DEFINE Sum(U) == SumFunctionOnSet(f, U)
           Bad == {n \in Nat : \E U \in SUBSET S : Cardinality(U) = n /\ Sum(U) # n}
<1> HIDE DEF Sum
<1>1. \A U \in SUBSET S : /\ IsFiniteSet(U) /\ Cardinality(U) \in Nat
                          /\ \A x \in U : f[x] \in Nat
  BY FS_Subset, FS_CardinalityType
<1>2. \A U \in SUBSET S : Sum(U) \in Nat /\ \A x \in U : Sum(U) = f[x] + Sum(U \ {x})
  BY <1>1, SumSplits DEF Sum
<1>3. Sum({}) = 0 /\ Cardinality({}) = 0
  BY SumEmpty, FS_EmptySet DEF Sum
<1>4. Bad = {}
  <2> SUFFICES ASSUME Bad # {} PROVE FALSE
    OBVIOUS
  <2>1. PICK n \in Bad : \A m \in Bad : n <= m
    BY LeastNumber
  <2>2. PICK U \in SUBSET S : Cardinality(U) = n /\ Sum(U) # n
    BY <2>1
  <2>3. PICK x \in U : TRUE
    BY <1>3, <2>2
  <2>4. Cardinality(U \ {x}) = n - 1 /\ n \in Nat /\ Cardinality(U \ {x}) \in Nat
    <3>1. Cardinality(U \ {x}) = n - 1
      BY <1>1, <2>2, <2>3, FS_RemoveElement
    <3> QED
      BY <1>1, <2>1, <3>1
  <2>5. Sum(U) = 1 + Sum(U \ {x}) /\ Sum(U \ {x}) \in Nat /\ Sum(U) \in Nat
    BY <1>2, <2>2, <2>3
  <2>6. Sum(U \ {x}) # n - 1
    BY <2>2, <2>4, <2>5
  <2>7. n - 1 \in Bad
    BY <2>4, <2>6
  <2> QED
    BY <2>1, <2>4, <2>7
<1> QED
  BY <1>1, <1>4 DEF Sum

\* When one value rises, the sum of any set it is in rises as much, and no other.
LEMMA SumRises ==
    ASSUME NEW S, IsFiniteSet(S), NEW f, NEW g, NEW c,
           \A x \in S : f[x] \in Nat /\ g[x] \in Nat,
           \A x \in S : x # c => g[x] = f[x]
    PROVE  /\ SumFunctionOnSet(f, S) \in Nat /\ SumFunctionOnSet(g, S) \in Nat
           /\ c \in S => SumFunctionOnSet(g, S) + f[c] = SumFunctionOnSet(f, S) + g[c]
           /\ c \notin S => SumFunctionOnSet(g, S) = SumFunctionOnSet(f, S)
<1>1. SumFunctionOnSet(f, S) \in Nat /\ SumFunctionOnSet(g, S) \in Nat
  BY SumSplits
<1>2. ASSUME c \in S
      PROVE  SumFunctionOnSet(g, S) + f[c] = SumFunctionOnSet(f, S) + g[c]
  <2>1. /\ SumFunctionOnSet(f, S) = f[c] + SumFunctionOnSet(f, S \ {c})
        /\ SumFunctionOnSet(g, S) = g[c] + SumFunctionOnSet(g, S \ {c})
    BY <1>2, SumSplits
  <2>2. IsFiniteSet(S \ {c})
    BY FS_Subset
  <2>3. SumFunctionOnSet(g, S \ {c}) = SumFunctionOnSet(f, S \ {c})
    BY <2>2, SumCongruence
  <2>4. SumFunctionOnSet(f, S \ {c}) \in Nat
    BY <2>2, SumSplits
  <2> QED
    BY <1>1, <1>2, <2>1, <2>3, <2>4
<1>3. ASSUME c \notin S
      PROVE  SumFunctionOnSet(g, S) = SumFunctionOnSet(f, S)
  BY <1>3, SumCongruence
<1> QED
  BY <1>1, <1>2, <1>3

\* The minimum of two numbers.
LEMMA MinOfTwo ==
    ASSUME NEW a \in Nat, NEW b \in Nat
    PROVE  Min({a, b}) = IF a <= b THEN a ELSE b
<1>1. CASE a <= b
  <2>1. Min({a, b}) = CHOOSE x \in {a, b} : \A y \in {a, b} : x <= y
    BY DEF Min
  <2>2. a \in {a, b} /\ \A y \in {a, b} : a <= y
    BY <1>1
  <2>3. Min({a, b}) \in {a, b} /\ \A y \in {a, b} : Min({a, b}) <= y
    BY <2>1, <2>2
  <2> QED
    BY <1>1, <2>3
<1>2. CASE ~(a <= b)
  <2>1. Min({a, b}) = CHOOSE x \in {a, b} : \A y \in {a, b} : x <= y
    BY DEF Min
  <2>2. b \in {a, b} /\ \A y \in {a, b} : b <= y
    BY <1>2
  <2>3. Min({a, b}) \in {a, b} /\ \A y \in {a, b} : Min({a, b}) <= y
    BY <2>1, <2>2
  <2> QED
    BY <1>2, <2>3
<1> QED
  BY <1>1, <1>2

\* A later instant is in the same window or a later one.
LEMMA WindowMonotone ==
    ASSUME NEW b \in Budgets, NEW t \in Time, NEW u \in Time, t <= u
    PROVE  Window(b, t) <= Window(b, u)
<1> DEFINE w == WindowLength[b]
<1>1. w \in Nat /\ MaxTime \in Nat
  BY WindowAssumption, TimeAssumption
<1>2. \A x \in Nat, y \in Nat, z \in Nat : z > 0 /\ x <= y => (x \div z) * z <= (y \div z) * z
  <2> TAKE x \in Nat, y \in Nat, z \in Nat
  <2> HAVE z > 0 /\ x <= y
  <2>1. x \div z \in Nat /\ y \div z \in Nat
    BY Z3
  <2>2. (x \div z) * z <= x /\ y < ((y \div z) + 1) * z
    BY Z3
  <2>3. x \div z <= y \div z
    BY <2>1, <2>2, Z3
  <2> QED
    BY <2>1, <2>3, Z3
<1> HIDE DEF w
<1> QED
  BY <1>1, <1>2 DEF Window, Time, w
\* What a live call holds of each budget that matches it (newReservation,
\* commitDispatch): one call until it is sent, its whole result ceiling, and
\* never a denial.
Holding(S, c) ==
    \A b \in BudgetsOf[c] :
        LET held == S.reservations[c].charges[b].reserved
        IN  /\ Limits[b]["call"] # 0
                  => held["call"] = IF Status(S, c) = "reserved" THEN 1 ELSE 0
            /\ Limits[b]["result"] # 0 => held["result"] = MaxResult[c]
            /\ held["denied"] = 0

\* A live call charges the lineages it was admitted to and has returned
\* nothing; before it is admitted nothing happened to it.
Accounted(c) ==
    /\ Status(state, c) # "absent" =>
          /\ history[c].lineages = ChargedLineages(state, c)
          /\ history[c].returned = 0
          /\ Holding(state, c)
    /\ history[c].admitted = 0 =>
          /\ history[c].lineages = {}
          /\ BudgetsOf[c] # {} => history[c].approved = 0 /\ history[c].returned = 0
    /\ BudgetsOf[c] = {} => history[c].lineages = {}

\* The record of a lineage is gone for good once the trusted clock has left its
\* window; until then it says what happened to the calls that touched it.
Elapsed(l) == /\ state.records[l].generation = 0
              /\ WindowLength[l[1]] # 0
              /\ l[2] < Window(l[1], state.observed)
Booked(l) == /\ state.records[l].generation = 0 => Touching(l) = {}
             /\ DispatchCharged(l) /\ ApprovalCharged(l)
             /\ ResultCharged(l) /\ DenialCharged(l)

\* The inductive invariant behind ChargedOnce.
Books == /\ \A c \in Calls : Accounted(c)
         /\ \A l \in Lineages : Elapsed(l) \/ Booked(l)

\* What every operation but Reserve keeps when it publishes T.
Frame(T) ==
    /\ \A l \in Lineages : T.records[l].generation = state.records[l].generation
    /\ \A c \in Calls :
          /\ history'[c].lineages = history[c].lineages
          /\ history'[c].admitted = history[c].admitted
          /\ Status(T, c) # "absent" =>
                /\ Status(state, c) # "absent"
                /\ T.reservations[c].created = state.reservations[c].created
                /\ Holding(T, c)
                /\ history'[c].returned = history[c].returned
          /\ history[c].admitted = 0 /\ BudgetsOf[c] # {} =>
                /\ history'[c].approved = history[c].approved
                /\ history'[c].returned = history[c].returned

\* How the books of one dimension move: not at all, or by one entry for each
\* call the operation is about.
Same(T, d) == \A l \in Lineages : T.records[l].consumed[d] = state.records[l].consumed[d]
SentMove(T, N) ==
    /\ \A c \in Calls : history'[c].sent <=> history[c].sent \/ c \in N
    /\ N \subseteq {c \in Active(state) : ~history[c].sent}
    /\ \A l \in Lineages : Limits[l[1]]["call"] # 0 =>
          T.records[l].consumed["call"]
             = state.records[l].consumed["call"] + Cardinality(Charging(state, l) \cap N)
BlockedMove(T, N) ==
    /\ \A c \in Calls : history'[c].blocked <=> history[c].blocked \/ c \in N
    /\ N \subseteq {c \in Active(state) : ~history[c].blocked}
    /\ \A l \in Lineages : Limits[l[1]]["denied"] # 0 =>
          T.records[l].consumed["denied"]
             = Min({Limits[l[1]]["denied"],
                    state.records[l].consumed["denied"] + Cardinality(Charging(state, l) \cap N)})
ApprovedMove(T, c) ==
    /\ \A a \in Calls \ {c} : history'[a].approved = history[a].approved
    /\ history'[c].approved = history[c].approved + 1
    /\ \A l \in Lineages : Limits[l[1]]["approval"] # 0 =>
          T.records[l].consumed["approval"]
             = state.records[l].consumed["approval"]
                 + (IF l \in history[c].lineages THEN 1 ELSE 0)
ReturnedMove(T, c, n) ==
    /\ \A a \in Calls \ {c} : history'[a].returned = history[a].returned
    /\ history[c].returned = 0 /\ history'[c].returned = n
    /\ \A l \in Lineages : Limits[l[1]]["result"] # 0 =>
          T.records[l].consumed["result"]
             = state.records[l].consumed["result"]
                 + (IF l \in history[c].lineages THEN n ELSE 0)

\* What is published, as far as budgets are concerned, is what was written.
LEMMA Published ==
    ASSUME TypeOK, NEW T \in State, Commit(T)
    PROVE  /\ state'.records = T.records /\ state'.reservations = T.reservations
           /\ state'.observed = now /\ state.observed <= now
<1>1. now \in Time /\ state.observed \in Time
  BY DEF TypeOK, State
<1>2. state' = Written(T)
  BY DEF Commit
<1>3. Written(T).observed = now
  BY DEF Written, PruneRetainedHistory, State
<1>4. Written(T).records = T.records /\ Written(T).reservations = T.reservations
  BY <1>1, WrittenWithin
<1>5. state.observed <= now
  BY <1>1, TimeAssumption DEF Commit, TrustedNow, Time
<1> QED
  BY <1>2, <1>3, <1>4, <1>5

\* Touching is finite, and a live call touches what it charges.
LEMMA TouchingType ==
    ASSUME TypeOK, \A c \in Calls : Accounted(c), NEW l \in Lineages, NEW N \in SUBSET Active(state)
    PROVE  /\ Touching(l) \in SUBSET Calls /\ IsFiniteSet(Touching(l))
           /\ Touching(l) \cap N = Charging(state, l) \cap N
<1>1. Touching(l) \in SUBSET Calls
  BY DEF Touching
<1>2. \A c \in N : c \in Calls /\ Status(state, c) # "absent"
  BY DEF Active
<1>3. \A c \in N : c \in Touching(l) <=> c \in Charging(state, l)
  BY <1>2 DEF Touching, Charging, Accounted
<1> QED
  BY <1>1, <1>3, CallsCardinality

\* The calls sent among those that touch a lineage, and those blocked, grow by
\* the calls newly sent or blocked.
LEMMA CountRises ==
    ASSUME NEW S, IsFiniteSet(S), NEW A \in SUBSET S, NEW N, A \cap N = {}
    PROVE  /\ Cardinality(A \cup (S \cap N)) = Cardinality(A) + Cardinality(S \cap N)
           /\ Cardinality(A) \in Nat /\ Cardinality(S \cap N) \in Nat
<1>1. IsFiniteSet(A) /\ IsFiniteSet(S \cap N)
  BY FS_Subset
<1>2. Cardinality(A) \in Nat /\ Cardinality(S \cap N) \in Nat
  BY <1>1, FS_CardinalityType
<1>3. Cardinality(A \cap (S \cap N)) = 0
  <2>1. A \cap (S \cap N) = {}
    OBVIOUS
  <2> QED
    BY <2>1, FS_EmptySet
<1>4. Cardinality(A \cup (S \cap N))
        = Cardinality(A) + Cardinality(S \cap N) - Cardinality(A \cap (S \cap N))
  BY <1>1, FS_Union
<1> QED
  BY <1>2, <1>3, <1>4
\* Dispatches stay booked when the calls of N are sent.
LEMMA SentBooked ==
    ASSUME TypeOK, \A c \in Calls : Accounted(c), NEW l \in Lineages, DispatchCharged(l),
           NEW T, state'.records = T.records,
           \A c \in Calls : history'[c].lineages = history[c].lineages,
           \/ Same(T, "call") /\ \A c \in Calls : history'[c].sent = history[c].sent
           \/ \E N : SentMove(T, N)
    PROVE  DispatchCharged(l)'
<1> DEFINE A == {c \in Touching(l) : history[c].sent}
           B == {c \in Touching(l)' : history'[c].sent}
<1>1. Touching(l)' = Touching(l)
  BY DEF Touching
<1>2. CASE Same(T, "call") /\ \A c \in Calls : history'[c].sent = history[c].sent
  <2>1. B = A
    BY <1>1, <1>2 DEF Touching
  <2>2. state'.records[l].consumed["call"] = state.records[l].consumed["call"]
    BY <1>2 DEF Same
  <2> QED
    BY <2>1, <2>2 DEF DispatchCharged
<1>3. ASSUME NEW N, SentMove(T, N), Limits[l[1]]["call"] # 0
      PROVE  state'.records[l].consumed["call"] = Cardinality(B)
  <2>1. N \in SUBSET Active(state) /\ A \cap N = {}
    BY <1>3 DEF SentMove
  <2>2. /\ Touching(l) \in SUBSET Calls /\ IsFiniteSet(Touching(l))
        /\ Touching(l) \cap N = Charging(state, l) \cap N
    BY <2>1, TouchingType
  <2>3. B = A \cup (Touching(l) \cap N)
    BY <1>1, <1>3, <2>2 DEF SentMove
  <2>4. Cardinality(B) = Cardinality(A) + Cardinality(Touching(l) \cap N)
    <3>1. A \in SUBSET Touching(l)
      OBVIOUS
    <3> HIDE DEF A, B
    <3> QED
      BY <2>1, <2>2, <2>3, <3>1, CountRises
  <2>5. state.records[l].consumed["call"] = Cardinality(A)
    BY <1>3 DEF DispatchCharged
  <2>6. state'.records[l].consumed["call"]
           = state.records[l].consumed["call"] + Cardinality(Charging(state, l) \cap N)
    BY <1>3 DEF SentMove
  <2> HIDE DEF A, B
  <2> QED
    BY <2>2, <2>4, <2>5, <2>6
<1> QED
  BY <1>2, <1>3 DEF DispatchCharged

\* Denials stay booked when the calls of N are blocked.
LEMMA BlockedBooked ==
    ASSUME TypeOK, \A c \in Calls : Accounted(c), NEW l \in Lineages, DenialCharged(l),
           NEW T, state'.records = T.records,
           \A c \in Calls : history'[c].lineages = history[c].lineages,
           \/ Same(T, "denied") /\ \A c \in Calls : history'[c].blocked = history[c].blocked
           \/ \E N : BlockedMove(T, N)
    PROVE  DenialCharged(l)'
<1> DEFINE A == {c \in Touching(l) : history[c].blocked}
           B == {c \in Touching(l)' : history'[c].blocked}
           m == Limits[l[1]]["denied"]
<1>1. Touching(l)' = Touching(l)
  BY DEF Touching
<1>2. CASE Same(T, "denied") /\ \A c \in Calls : history'[c].blocked = history[c].blocked
  <2>1. B = A
    BY <1>1, <1>2 DEF Touching
  <2>2. state'.records[l].consumed["denied"] = state.records[l].consumed["denied"]
    BY <1>2 DEF Same
  <2> QED
    BY <2>1, <2>2 DEF DenialCharged
<1>3. ASSUME NEW N, BlockedMove(T, N), Limits[l[1]]["denied"] # 0
      PROVE  state'.records[l].consumed["denied"] = Min({m, Cardinality(B)})
  <2>1. N \in SUBSET Active(state) /\ A \cap N = {}
    BY <1>3 DEF BlockedMove
  <2>2. /\ Touching(l) \in SUBSET Calls /\ IsFiniteSet(Touching(l))
        /\ Touching(l) \cap N = Charging(state, l) \cap N
    BY <2>1, TouchingType
  <2>3. B = A \cup (Touching(l) \cap N)
    BY <1>1, <1>3, <2>2 DEF BlockedMove
  <2>4. /\ Cardinality(B) = Cardinality(A) + Cardinality(Touching(l) \cap N)
        /\ Cardinality(A) \in Nat /\ Cardinality(Touching(l) \cap N) \in Nat
    <3>1. A \in SUBSET Touching(l)
      OBVIOUS
    <3> HIDE DEF A, B
    <3> QED
      BY <2>1, <2>2, <2>3, <3>1, CountRises
  <2>5. state.records[l].consumed["denied"] = Min({m, Cardinality(A)})
    BY <1>3 DEF DenialCharged
  <2>6. state'.records[l].consumed["denied"]
           = Min({m, state.records[l].consumed["denied"] + Cardinality(Touching(l) \cap N)})
    BY <1>3, <2>2 DEF BlockedMove
  <2>7. m \in Nat
    BY LimitsAssumption DEF Lineages, Usage, Dims
  <2> HIDE DEF A, B, m
  <2>8. \A a \in Nat, n \in Nat : Min({m, Min({m, a}) + n}) = Min({m, a + n})
    <3> TAKE a \in Nat, n \in Nat
    <3>1. Min({m, a}) = IF m <= a THEN m ELSE a
      BY <2>7, MinOfTwo
    <3>2. Min({m, a}) \in Nat
      BY <2>7, <3>1
    <3>3. /\ Min({m, Min({m, a}) + n}) = IF m <= Min({m, a}) + n THEN m ELSE Min({m, a}) + n
          /\ Min({m, a + n}) = IF m <= a + n THEN m ELSE a + n
      BY <2>7, <3>2, MinOfTwo
    <3> QED
      BY <2>7, <3>1, <3>2, <3>3
  <2> QED
    BY <2>4, <2>5, <2>6, <2>8
<1> QED
  BY <1>2, <1>3 DEF DenialCharged

\* Approvals stay booked when the receipt of one call is consumed.
LEMMA ApprovedBooked ==
    ASSUME TypeOK, TypeOK', NEW l \in Lineages, ApprovalCharged(l),
           NEW T, state'.records = T.records,
           \A c \in Calls : history'[c].lineages = history[c].lineages,
           \/ Same(T, "approval") /\ \A c \in Calls : history'[c].approved = history[c].approved
           \/ \E c \in Calls : ApprovedMove(T, c)
    PROVE  ApprovalCharged(l)'
<1> DEFINE f == [c \in Calls |-> history[c].approved]
           g == [c \in Calls |-> history'[c].approved]
           S == Touching(l)
<1>1. Touching(l)' = Touching(l) /\ S \subseteq Calls /\ IsFiniteSet(S)
  BY CallsCardinality DEF Touching
<1>2. \A c \in S : f[c] \in Nat /\ g[c] \in Nat
  <2>1. \A c \in Calls : history[c] \in History /\ history'[c] \in History
    BY DEF TypeOK
  <2> QED
    BY <1>1, <2>1 DEF History
<1>3. ASSUME Limits[l[1]]["approval"] # 0
      PROVE  state'.records[l].consumed["approval"] = SumFunctionOnSet(g, S)
  <2>0. state.records[l].consumed["approval"] = SumFunctionOnSet(f, S)
    BY <1>3 DEF ApprovalCharged
  <2>1. CASE Same(T, "approval") /\ \A c \in Calls : history'[c].approved = history[c].approved
    <3>1. g = f
      BY <2>1
    <3>2. state'.records[l].consumed["approval"] = state.records[l].consumed["approval"]
      BY <2>1 DEF Same
    <3> QED
      BY <2>0, <3>1, <3>2
  <2>2. ASSUME NEW c \in Calls, ApprovedMove(T, c)
        PROVE  state'.records[l].consumed["approval"] = SumFunctionOnSet(g, S)
    <3>1. \A a \in S : a # c => g[a] = f[a]
      BY <1>1, <2>2 DEF ApprovedMove
    <3>2. c \in S => g[c] = f[c] + 1
      BY <2>2 DEF ApprovedMove
    <3>3. c \in S <=> l \in history[c].lineages
      BY DEF Touching
    <3>4. state'.records[l].consumed["approval"]
             = state.records[l].consumed["approval"]
                 + (IF l \in history[c].lineages THEN 1 ELSE 0)
      BY <1>3, <2>2 DEF ApprovedMove
    <3>5. 1 \in Nat
      OBVIOUS
    <3> HIDE DEF f, g, S
    <3>6. /\ SumFunctionOnSet(f, S) \in Nat /\ SumFunctionOnSet(g, S) \in Nat
          /\ c \in S => SumFunctionOnSet(g, S) = SumFunctionOnSet(f, S) + 1
          /\ c \notin S => SumFunctionOnSet(g, S) = SumFunctionOnSet(f, S)
      <4>1. PICK F, G, D : F = f /\ G = g /\ D = S
        OBVIOUS
      <4>2. IsFiniteSet(D) /\ \A x \in D : F[x] \in Nat /\ G[x] \in Nat
        BY <1>1, <1>2, <4>1
      <4>3. \A x \in D : x # c => G[x] = F[x]
        BY <3>1, <4>1
      <4>4. /\ SumFunctionOnSet(F, D) \in Nat /\ SumFunctionOnSet(G, D) \in Nat
            /\ c \in D => SumFunctionOnSet(G, D) + F[c] = SumFunctionOnSet(F, D) + G[c]
            /\ c \notin D => SumFunctionOnSet(G, D) = SumFunctionOnSet(F, D)
        BY <4>2, <4>3, SumRises
      <4>5. c \in D => SumFunctionOnSet(G, D) = SumFunctionOnSet(F, D) + 1
        <5> SUFFICES ASSUME c \in D
                     PROVE  SumFunctionOnSet(G, D) = SumFunctionOnSet(F, D) + 1
          OBVIOUS
        <5>1. G[c] = F[c] + 1 /\ F[c] \in Nat /\ G[c] \in Nat
          BY <3>2, <4>1, <4>2
        <5>2. SumFunctionOnSet(G, D) + F[c] = SumFunctionOnSet(F, D) + G[c]
          BY <4>4
        <5> QED
          BY <4>4, <5>1, <5>2
      <4> QED
        BY <4>1, <4>4, <4>5
    <3> QED
      BY <2>0, <3>3, <3>4, <3>6
  <2> QED
    BY <2>1, <2>2
<1> QED
  BY <1>1, <1>3 DEF ApprovalCharged

\* Results stay booked when one call returns.
LEMMA ReturnedBooked ==
    ASSUME TypeOK, TypeOK', NEW l \in Lineages, ResultCharged(l),
           NEW T, state'.records = T.records,
           \A c \in Calls : history'[c].lineages = history[c].lineages,
           \/ Same(T, "result") /\ \A c \in Calls : history'[c].returned = history[c].returned
           \/ \E c \in Calls : \E n \in Nat : ReturnedMove(T, c, n)
    PROVE  ResultCharged(l)'
<1> DEFINE f == [c \in Calls |-> history[c].returned]
           g == [c \in Calls |-> history'[c].returned]
           S == Touching(l)
<1>1. Touching(l)' = Touching(l) /\ S \subseteq Calls /\ IsFiniteSet(S)
  BY CallsCardinality DEF Touching
<1>2. \A c \in S : f[c] \in Nat /\ g[c] \in Nat
  <2>1. \A c \in Calls : history[c] \in History /\ history'[c] \in History
    BY DEF TypeOK
  <2> QED
    BY <1>1, <2>1 DEF History
<1>3. ASSUME Limits[l[1]]["result"] # 0
      PROVE  state'.records[l].consumed["result"] = SumFunctionOnSet(g, S)
  <2>0. state.records[l].consumed["result"] = SumFunctionOnSet(f, S)
    BY <1>3 DEF ResultCharged
  <2>1. CASE Same(T, "result") /\ \A c \in Calls : history'[c].returned = history[c].returned
    <3>1. g = f
      BY <2>1
    <3>2. state'.records[l].consumed["result"] = state.records[l].consumed["result"]
      BY <2>1 DEF Same
    <3> QED
      BY <2>0, <3>1, <3>2
  <2>2. ASSUME NEW c \in Calls, NEW n \in Nat, ReturnedMove(T, c, n)
        PROVE  state'.records[l].consumed["result"] = SumFunctionOnSet(g, S)
    <3>1. \A a \in S : a # c => g[a] = f[a]
      BY <1>1, <2>2 DEF ReturnedMove
    <3>2. c \in S => g[c] = f[c] + n
      BY <2>2 DEF ReturnedMove
    <3>3. c \in S <=> l \in history[c].lineages
      BY DEF Touching
    <3>4. state'.records[l].consumed["result"]
             = state.records[l].consumed["result"]
                 + (IF l \in history[c].lineages THEN n ELSE 0)
      BY <1>3, <2>2 DEF ReturnedMove
    <3> HIDE DEF f, g, S
    <3>6. /\ SumFunctionOnSet(f, S) \in Nat /\ SumFunctionOnSet(g, S) \in Nat
          /\ c \in S => SumFunctionOnSet(g, S) = SumFunctionOnSet(f, S) + n
          /\ c \notin S => SumFunctionOnSet(g, S) = SumFunctionOnSet(f, S)
      <4>1. PICK F, G, D : F = f /\ G = g /\ D = S
        OBVIOUS
      <4>2. IsFiniteSet(D) /\ \A x \in D : F[x] \in Nat /\ G[x] \in Nat
        BY <1>1, <1>2, <4>1
      <4>3. \A x \in D : x # c => G[x] = F[x]
        BY <3>1, <4>1
      <4>4. /\ SumFunctionOnSet(F, D) \in Nat /\ SumFunctionOnSet(G, D) \in Nat
            /\ c \in D => SumFunctionOnSet(G, D) + F[c] = SumFunctionOnSet(F, D) + G[c]
            /\ c \notin D => SumFunctionOnSet(G, D) = SumFunctionOnSet(F, D)
        BY <4>2, <4>3, SumRises
      <4>5. c \in D => SumFunctionOnSet(G, D) = SumFunctionOnSet(F, D) + n
        <5> SUFFICES ASSUME c \in D
                     PROVE  SumFunctionOnSet(G, D) = SumFunctionOnSet(F, D) + n
          OBVIOUS
        <5>1. G[c] = F[c] + n /\ F[c] \in Nat /\ G[c] \in Nat
          BY <3>2, <4>1, <4>2
        <5>2. SumFunctionOnSet(G, D) + F[c] = SumFunctionOnSet(F, D) + G[c]
          BY <4>4
        <5> QED
          BY <4>4, <5>1, <5>2
      <4> QED
        BY <4>1, <4>4, <4>5
    <3> QED
      BY <2>0, <3>3, <3>4, <3>6
  <2> QED
    BY <2>1, <2>2
<1> QED
  BY <1>1, <1>3 DEF ResultCharged
\* The books of a step that publishes T: each dimension stays or moves by what
\* happened to its calls.
Balanced(T) ==
    /\ \/ Same(T, "call") /\ \A c \in Calls : history'[c].sent = history[c].sent
       \/ \E N : SentMove(T, N)
    /\ \/ Same(T, "denied") /\ \A c \in Calls : history'[c].blocked = history[c].blocked
       \/ \E N : BlockedMove(T, N)
    /\ \/ Same(T, "approval") /\ \A c \in Calls : history'[c].approved = history[c].approved
       \/ \E c \in Calls : ApprovedMove(T, c)
    /\ \/ Same(T, "result") /\ \A c \in Calls : history'[c].returned = history[c].returned
       \/ \E c \in Calls : \E n \in Nat : ReturnedMove(T, c, n)

\* A step that keeps the frame and balances its entries keeps the books.
LEMMA BooksMove ==
    ASSUME TypeOK, TypeOK', Books, NEW T \in State, Commit(T), Frame(T), Balanced(T)
    PROVE  Books'
<1>1. /\ state'.records = T.records /\ state'.reservations = T.reservations
      /\ state'.observed = now /\ state.observed <= now
  BY Published
<1>2. \A c \in Calls : Accounted(c)
  BY DEF Books
<1>3. \A c \in Calls : history'[c].lineages = history[c].lineages
  BY DEF Frame
<1>4. ASSUME NEW c \in Calls PROVE Accounted(c)'
  <2>1. Accounted(c)
    BY <1>2
  <2>2. ASSUME Status(state', c) # "absent"
        PROVE  /\ history'[c].lineages = ChargedLineages(state', c)
               /\ history'[c].returned = 0
               /\ Holding(state', c)
    <3>1. Status(T, c) # "absent"
      BY <1>1, <2>2 DEF Status
    <3>2. /\ Status(state, c) # "absent"
          /\ T.reservations[c].created = state.reservations[c].created
          /\ Holding(T, c)
          /\ history'[c].returned = history[c].returned
      BY <3>1 DEF Frame
    <3>3. Holding(state', c)
      BY <1>1, <3>2 DEF Holding, Status
    <3>4. ChargedLineages(state', c) = ChargedLineages(state, c)
      BY <1>1, <3>2 DEF ChargedLineages, ChargedLineage
    <3> QED
      BY <1>3, <2>1, <3>2, <3>3, <3>4 DEF Accounted
  <2>3. ASSUME history'[c].admitted = 0
        PROVE  /\ history'[c].lineages = {}
               /\ BudgetsOf[c] # {} => history'[c].approved = 0 /\ history'[c].returned = 0
    <3>1. history[c].admitted = 0
      BY <2>3 DEF Frame
    <3> QED
      BY <1>3, <2>1, <3>1 DEF Accounted, Frame
  <2>4. BudgetsOf[c] = {} => history'[c].lineages = {}
    BY <1>3, <2>1 DEF Accounted
  <2> QED
    BY <2>2, <2>3, <2>4 DEF Accounted
<1>5. ASSUME NEW l \in Lineages PROVE Elapsed(l)' \/ Booked(l)'
  <2>1. state'.records[l].generation = state.records[l].generation
    BY <1>1 DEF Frame
  <2>2. CASE Elapsed(l)
    <3>1. l[1] \in Budgets /\ l[2] \in Time /\ now \in Time /\ state.observed \in Time
      BY DEF Lineages, TypeOK, State
    <3>2. Window(l[1], state.observed) <= Window(l[1], now)
      BY <1>1, <3>1, WindowMonotone
    <3>3. Window(l[1], state.observed) \in Int /\ Window(l[1], now) \in Int /\ l[2] \in Int
      BY <3>1, WindowType DEF Time
    <3> QED
      BY <1>1, <2>1, <2>2, <3>2, <3>3 DEF Elapsed
  <2>3. CASE Booked(l)
    <3>1. DispatchCharged(l)'
      BY <1>1, <1>2, <1>3, <2>3, SentBooked DEF Balanced, Booked
    <3>2. DenialCharged(l)'
      BY <1>1, <1>2, <1>3, <2>3, BlockedBooked DEF Balanced, Booked
    <3>3. ApprovalCharged(l)'
      BY <1>1, <1>3, <2>3, ApprovedBooked DEF Balanced, Booked
    <3>4. ResultCharged(l)'
      BY <1>1, <1>3, <2>3, ReturnedBooked DEF Balanced, Booked
    <3>5. Touching(l)' = Touching(l)
      BY <1>3 DEF Touching
    <3> QED
      BY <2>1, <2>3, <3>1, <3>2, <3>3, <3>4, <3>5 DEF Booked
  <2> QED
    BY <2>2, <2>3 DEF Books
<1> QED
  BY <1>4, <1>5 DEF Books
\* What a call holds depends on three dimensions of its charges and on whether
\* it was sent.
LEMMA SameHolding ==
    ASSUME NEW S, NEW T, NEW c, Holding(S, c),
           Status(T, c) = "reserved" <=> Status(S, c) = "reserved",
           \A b \in BudgetsOf[c] : \A e \in {"call", "result", "denied"} :
              T.reservations[c].charges[b].reserved[e] = S.reservations[c].charges[b].reserved[e]
    PROVE  Holding(T, c)
BY DEF Holding

\* Nothing happened to call c that the books record.
SameEntries(c) ==
    /\ history'[c].lineages = history[c].lineages /\ history'[c].admitted = history[c].admitted
    /\ history'[c].sent = history[c].sent /\ history'[c].blocked = history[c].blocked
    /\ history'[c].approved = history[c].approved /\ history'[c].returned = history[c].returned

\* The calls that live in T lived before, in the same windows, and hold what a
\* live call holds.
StillLive(T) ==
    \A c \in Calls : Status(T, c) # "absent" =>
        /\ Status(state, c) # "absent"
        /\ T.reservations[c].created = state.reservations[c].created
        /\ Holding(T, c)

\* The same, of a state on the way to the one published, where nobody closed.
OnTheWay(S) ==
    /\ S.records = state.records
    /\ \A c \in Calls : /\ Status(S, c) = Status(state, c)
                        /\ S.reservations[c].created = state.reservations[c].created
                        /\ Status(state, c) # "absent" => Holding(S, c)

\* The file itself is on the way.
LEMMA StateOnTheWay ==
    ASSUME Books
    PROVE  OnTheWay(state) /\ StillLive(state)
BY DEF Books, Accounted, OnTheWay, StillLive

\* Approvals and what is reserved for them are not in the books.
LEMMA ApprovalOnTheWay ==
    ASSUME TypeOK, Books, NEW f \in [Keys -> ApprovalRecord], NEW C, NEW n \in Nat,
           NEW S, S = SetReserved([state EXCEPT !.approvals = f], C, "approval", n)
    PROVE  OnTheWay(S) /\ S \in State
<1> DEFINE T == [state EXCEPT !.approvals = f]
<1>1. T \in State /\ T.records = state.records /\ T.reservations = state.reservations
  <2>1. T \in State
    BY StateUpdate DEF TypeOK
  <2> QED
    BY <2>1 DEF TypeOK, State
<1> HIDE DEF T
<1>2. "approval" \in Dims /\ S = SetReserved(T, C, "approval", n)
  BY DEF Dims, T
<1>3. /\ S \in State /\ S.records = T.records
      /\ \A c \in Calls : /\ S.reservations[c].status = T.reservations[c].status
                          /\ S.reservations[c].created = T.reservations[c].created
  BY <1>1, <1>2, SetReservedEffect
<1>4. \A c \in Calls, b \in Budgets, e \in Dims \ {"approval"} :
         S.reservations[c].charges[b].reserved[e] = T.reservations[c].charges[b].reserved[e]
  <2>1. PICK d \in Dims : d = "approval"
    BY <1>2
  <2>2. S = SetReserved(T, C, d, n)
    BY <1>2, <2>1
  <2>3. \A c \in Calls, b \in Budgets, e \in Dims :
           S.reservations[c].charges[b].reserved[e]
              = IF c \in C /\ b \in BudgetsOf[c] /\ Limits[b][d] # 0 /\ e = d THEN n
                ELSE T.reservations[c].charges[b].reserved[e]
    <3>1. Reheld(T, S, C, d, n)
      BY <1>1, <2>2, SetReservedHeld
    <3> QED
      BY <3>1 DEF Reheld
  <2> QED
    BY <2>1, <2>3
<1>5. ASSUME NEW c \in Calls, Status(state, c) # "absent"
      PROVE  Holding(S, c)
  <2>1. Holding(state, c)
    BY <1>5 DEF Books, Accounted
  <2>2. ASSUME NEW b \in BudgetsOf[c], NEW e \in {"call", "result", "denied"}
        PROVE  S.reservations[c].charges[b].reserved[e]
                  = state.reservations[c].charges[b].reserved[e]
    <3>1. b \in Budgets /\ e \in Dims /\ e # "approval"
      BY BudgetsAssumption DEF Dims
    <3> QED
      BY <1>1, <1>4, <3>1
  <2>3. Status(S, c) = Status(state, c)
    BY <1>1, <1>3 DEF Status
  <2> QED
    BY <2>1, <2>2, <2>3, SameHolding
<1>6. \A c \in Calls : /\ Status(S, c) = Status(state, c)
                       /\ S.reservations[c].created = state.reservations[c].created
  BY <1>1, <1>3 DEF Status
<1>7. S.records = state.records
  BY <1>1, <1>3
<1> QED
  BY <1>3, <1>5, <1>6, <1>7 DEF OnTheWay

\* A step that records nothing, and closes or sends nobody, keeps the books.
LEMMA QuietMove ==
    ASSUME NEW T, T.records = state.records, StillLive(T), \A c \in Calls : SameEntries(c)
    PROVE  Frame(T) /\ Balanced(T)
<1>1. Frame(T)
  BY DEF Frame, StillLive, SameEntries
<1>2. Same(T, "call") /\ Same(T, "denied") /\ Same(T, "approval") /\ Same(T, "result")
  BY DEF Same
<1> QED
  BY <1>1, <1>2 DEF Balanced, SameEntries
\* What commitDispatch changes: the dimension `call` of what the calls of C
\* hold, and of what the lineages they charge have consumed.
SameLives(S, T) ==
    \A c \in Calls : /\ Status(T, c) = Status(S, c)
                     /\ T.reservations[c].created = S.reservations[c].created
HeldDispatched(S, T, C) ==
    \A c \in Calls :
        /\ \A b \in Budgets : \A e \in Dims \ {"call"} :
              T.reservations[c].charges[b].reserved[e] = S.reservations[c].charges[b].reserved[e]
        /\ c \in C => \A b \in BudgetsOf[c] : Limits[b]["call"] # 0 =>
              T.reservations[c].charges[b].reserved["call"] = 0
        /\ c \notin C => \A b \in Budgets :
              T.reservations[c].charges[b].reserved["call"]
                 = S.reservations[c].charges[b].reserved["call"]
RecordsDispatched(S, T, C) ==
    \A l \in Lineages :
        /\ T.records[l].generation = S.records[l].generation
        /\ T.records[l].consumed["call"] = S.records[l].consumed["call"]
              + SumFunctionOnSet(Held(S, l, "call"), Charging(S, l) \cap C)
        /\ \A e \in Dims \ {"call"} : T.records[l].consumed[e] = S.records[l].consumed[e]
LEMMA CommitDispatchEffect ==
    ASSUME NEW S \in State, NEW C, NEW T, T = CommitDispatch(S, C)
    PROVE  /\ T \in State /\ SameLives(S, T)
           /\ HeldDispatched(S, T, C) /\ RecordsDispatched(S, T, C)
<1> DEFINE n == [l \in Lineages |-> SumFunctionOnSet(Held(S, l, "call"), Charging(S, l) \cap C)]
<1>1. n \in [Lineages -> Nat]
  BY HeldType DEF Dims
<1>2. T = SetReserved(Charged(S, "call", n), C, "call", 0)
  BY DEF CommitDispatch, Charged
<1>3. \A l \in Lineages :
         n[l] = SumFunctionOnSet(Held(S, l, "call"), Charging(S, l) \cap C)
  OBVIOUS
<1> HIDE DEF n
<1>4. PICK Q, d, z : Q = Charged(S, "call", n) /\ d = "call" /\ z = 0
  OBVIOUS
<1>0. d \in Dims /\ z \in Nat
  BY <1>4 DEF Dims
<1>5. /\ Q \in State /\ Q.reservations = S.reservations
      /\ \A l \in Lineages :
            /\ Q.records[l].generation = S.records[l].generation
            /\ Q.records[l].consumed[d] = S.records[l].consumed[d] + n[l]
            /\ \A e \in Dims \ {d} : Q.records[l].consumed[e] = S.records[l].consumed[e]
  BY <1>0, <1>1, <1>4, ChargeEffect
<1>6. T = SetReserved(Q, C, d, z)
  BY <1>2, <1>4
<1>7. /\ T \in State /\ T.records = Q.records
      /\ T.terminals = Q.terminals /\ T.approvals = Q.approvals
      /\ \A c \in Calls : /\ T.reservations[c].status = Q.reservations[c].status
                          /\ T.reservations[c].created = Q.reservations[c].created
                          /\ T.reservations[c].owner = Q.reservations[c].owner
                          /\ T.reservations[c].generation = Q.reservations[c].generation
  <2>1. Q \in State
    BY <1>5
  <2> QED
    BY <1>0, <1>6, <2>1, SetReservedEffect
<1>8. \A c \in Calls, b \in Budgets, e \in Dims :
         T.reservations[c].charges[b].reserved[e]
            = IF c \in C /\ b \in BudgetsOf[c] /\ Limits[b][d] # 0 /\ e = d THEN z
              ELSE Q.reservations[c].charges[b].reserved[e]
  <2>1. Reheld(Q, T, C, d, z)
    BY <1>0, <1>5, <1>6, SetReservedHeld
  <2> QED
    BY <2>1 DEF Reheld
<1>9. ASSUME NEW c \in Calls
      PROVE  /\ \A b \in Budgets : \A e \in Dims \ {d} :
                   T.reservations[c].charges[b].reserved[e]
                      = S.reservations[c].charges[b].reserved[e]
             /\ c \in C => \A b \in BudgetsOf[c] : Limits[b][d] # 0 =>
                   T.reservations[c].charges[b].reserved[d] = z
             /\ c \notin C => \A b \in Budgets :
                   T.reservations[c].charges[b].reserved[d]
                      = S.reservations[c].charges[b].reserved[d]
  <2>1. BudgetsOf[c] \subseteq Budgets
    BY BudgetsAssumption
  <2> QED
    BY <1>0, <1>5, <1>8, <2>1
<1>10. \A l \in Lineages :
          /\ T.records[l].generation = S.records[l].generation
          /\ T.records[l].consumed[d] = S.records[l].consumed[d]
                + SumFunctionOnSet(Held(S, l, "call"), Charging(S, l) \cap C)
          /\ \A e \in Dims \ {d} : T.records[l].consumed[e] = S.records[l].consumed[e]
  BY <1>3, <1>5, <1>7
<1>11. \A c \in Calls : /\ Status(T, c) = Status(S, c)
                        /\ T.reservations[c].created = S.reservations[c].created
  BY <1>5, <1>7 DEF Status
<1>12. HeldDispatched(S, T, C)
  BY <1>4, <1>9 DEF HeldDispatched
<1>13. RecordsDispatched(S, T, C)
  BY <1>4, <1>10 DEF RecordsDispatched
<1> QED
  BY <1>7, <1>11, <1>12, <1>13 DEF SameLives

\* What SetStatus changes: the status of the calls of C.
Restatused(S, T, C, s) ==
    /\ T.records = S.records
    /\ \A c \in Calls : /\ c \in C => T.reservations[c].status = s
                        /\ c \notin C => T.reservations[c].status = S.reservations[c].status
                        /\ T.reservations[c].created = S.reservations[c].created
                        /\ T.reservations[c].charges = S.reservations[c].charges
LEMMA SetStatusChanges ==
    ASSUME NEW S \in State, NEW C, NEW s \in ReservationStatuses \ {"absent"},
           \A c \in C \cap Calls : Status(S, c) # "absent",
           NEW T, T = SetStatus(S, C, s)
    PROVE  T \in State /\ Restatused(S, T, C, s)
<1>1. /\ T \in State /\ T.records = S.records
      /\ \A c \in Calls :
            /\ T.reservations[c].status = IF c \in C THEN s ELSE S.reservations[c].status
            /\ T.reservations[c].created = S.reservations[c].created
            /\ T.reservations[c].charges = S.reservations[c].charges
  BY SetStatusEffect
<1> QED
  BY <1>1 DEF Restatused

\* Sending calls moves the books by one per call and lineage.
LEMMA DispatchMove ==
    ASSUME TypeOK, Books, CallHistoryInv, NEW S \in State, OnTheWay(S),
           NEW C \in SUBSET Active(state), NEW N, N = {c \in C : Status(state, c) = "reserved"},
           NEW s \in {"dispatched", "indeterminate"},
           NEW T, T = SetStatus(CommitDispatch(S, N), C, s), NoteSent(N)
    PROVE  T \in State /\ Frame(T) /\ Balanced(T)
<1>1. PICK Q : Q = CommitDispatch(S, N)
  OBVIOUS
<1>2. /\ Q \in State /\ SameLives(S, Q)
      /\ HeldDispatched(S, Q, N) /\ RecordsDispatched(S, Q, N)
  BY <1>1, CommitDispatchEffect
<1>3. /\ S.records = state.records
      /\ \A c \in Calls : /\ Status(S, c) = Status(state, c)
                          /\ S.reservations[c].created = state.reservations[c].created
                          /\ Status(state, c) # "absent" => Holding(S, c)
  BY DEF OnTheWay
<1>4. \A c \in C \cap Calls : Status(Q, c) # "absent"
  BY <1>2, <1>3 DEF Active, SameLives
<1>5. s \in ReservationStatuses \ {"absent"} /\ T = SetStatus(Q, C, s)
  BY <1>1 DEF ReservationStatuses
<1>6. T \in State /\ Restatused(Q, T, C, s)
  BY <1>2, <1>4, <1>5, SetStatusChanges
<1>7. \A c \in Calls : /\ c \in C => Status(T, c) = s
                       /\ c \notin C => Status(T, c) = Status(state, c)
  BY <1>2, <1>3, <1>6 DEF Status, SameLives, Restatused
<1>8. ASSUME NEW c \in Calls, Status(T, c) # "absent"
      PROVE  /\ Status(state, c) # "absent"
             /\ T.reservations[c].created = state.reservations[c].created
             /\ Holding(T, c)
  <2>1. Status(state, c) # "absent" /\ T.reservations[c].created = state.reservations[c].created
    BY <1>2, <1>3, <1>6, <1>7, <1>8 DEF Active, SameLives, Restatused
  <2>2. Holding(S, c)
    BY <1>3, <2>1
  <2>3. BudgetsOf[c] \subseteq Budgets /\ {"call", "result", "denied"} \subseteq Dims
    BY BudgetsAssumption DEF Dims
  <2>4. ASSUME NEW b \in BudgetsOf[c]
        PROVE  /\ T.reservations[c].charges[b].reserved["result"]
                     = S.reservations[c].charges[b].reserved["result"]
               /\ T.reservations[c].charges[b].reserved["denied"]
                     = S.reservations[c].charges[b].reserved["denied"]
    BY <1>2, <1>6, <2>3 DEF HeldDispatched, Restatused
  <2>5. ASSUME NEW b \in BudgetsOf[c], Limits[b]["call"] # 0
        PROVE  T.reservations[c].charges[b].reserved["call"]
                  = IF Status(T, c) = "reserved" THEN 1 ELSE 0
    <3>1. S.reservations[c].charges[b].reserved["call"]
             = IF Status(S, c) = "reserved" THEN 1 ELSE 0
      BY <2>2, <2>5 DEF Holding
    <3>2. CASE c \in N
      <4>1. T.reservations[c].charges[b].reserved["call"] = 0
        BY <1>2, <1>6, <2>5, <3>2 DEF HeldDispatched, Restatused
      <4>2. Status(T, c) # "reserved"
        BY <1>7, <3>2
      <4> QED
        BY <4>1, <4>2
    <3>3. CASE c \notin N
      <4>1. T.reservations[c].charges[b].reserved["call"]
               = S.reservations[c].charges[b].reserved["call"]
        BY <1>2, <1>6, <2>3, <3>3 DEF HeldDispatched, Restatused
      <4>2. Status(T, c) = "reserved" <=> Status(S, c) = "reserved"
        BY <1>3, <1>7, <3>3
      <4> QED
        BY <3>1, <4>1, <4>2
    <3> QED
      BY <3>2, <3>3
  <2>6. Holding(T, c)
    BY <2>2, <2>4, <2>5 DEF Holding
  <2> QED
    BY <2>1, <2>6
<1>9. \A c \in Calls :
         /\ history'[c].lineages = history[c].lineages
         /\ history'[c].admitted = history[c].admitted
         /\ history'[c].blocked = history[c].blocked
         /\ history'[c].approved = history[c].approved
         /\ history'[c].returned = history[c].returned
         /\ history'[c].sent <=> history[c].sent \/ c \in N
  <2> TAKE c \in Calls
  <2>1. history[c] \in History
    BY DEF TypeOK
  <2>2. \A h \in History : LET g == [h EXCEPT !.sent = TRUE] IN
           /\ g.lineages = h.lineages /\ g.admitted = h.admitted /\ g.blocked = h.blocked
           /\ g.approved = h.approved /\ g.returned = h.returned /\ g.sent = TRUE
    BY DEF History
  <2>3. history[c].sent \in BOOLEAN
    BY <2>1 DEF History
  <2> QED
    BY <2>1, <2>2, <2>3 DEF NoteSent
<1>10. Frame(T)
  <2>1. \A l \in Lineages : T.records[l].generation = state.records[l].generation
    BY <1>2, <1>3, <1>6 DEF RecordsDispatched, Restatused
  <2> QED
    BY <1>8, <1>9, <2>1 DEF Frame
<1>11. Same(T, "denied") /\ Same(T, "approval") /\ Same(T, "result")
  <2>1. {"denied", "approval", "result"} \subseteq Dims \ {"call"}
    BY DEF Dims
  <2>2. \A l \in Lineages : \A e \in Dims \ {"call"} :
           T.records[l].consumed[e] = state.records[l].consumed[e]
    BY <1>2, <1>3, <1>6 DEF RecordsDispatched, Restatused
  <2> QED
    BY <2>1, <2>2 DEF Same
<1>12. SentMove(T, N)
  <2>1. N \subseteq {c \in Active(state) : ~history[c].sent}
    BY DEF CallHistoryInv, CallHistory, Active
  <2>2. ASSUME NEW l \in Lineages, Limits[l[1]]["call"] # 0
        PROVE  T.records[l].consumed["call"]
                  = state.records[l].consumed["call"] + Cardinality(Charging(state, l) \cap N)
    <3>1. Charging(S, l) = Charging(state, l)
      BY <1>3, SameCharging
    <3>2. \A c \in Charging(S, l) \cap N : Held(S, l, "call")[c] = 1
      <4> TAKE c \in Charging(S, l) \cap N
      <4>1. c \in Calls /\ Status(S, c) = "reserved" /\ l \in ChargedLineages(S, c)
        BY <1>3 DEF Charging, Active
      <4>2. l[1] \in BudgetsOf[c] /\ Holding(S, c)
        BY <1>3, <4>1, ChargedBudget
      <4>3. S.reservations[c].charges[l[1]].reserved["call"] = 1
        BY <2>2, <4>1, <4>2 DEF Holding
      <4> QED
        BY <4>1, <4>3 DEF Held
    <3>3. IsFiniteSet(Charging(S, l) \cap N)
      BY ChargingCardinality
    <3>4. SumFunctionOnSet(Held(S, l, "call"), Charging(S, l) \cap N)
             = Cardinality(Charging(S, l) \cap N)
      BY <3>2, <3>3, SumOfOnes
    <3> QED
      BY <1>2, <1>3, <1>6, <3>1, <3>4 DEF RecordsDispatched, Restatused
  <2> QED
    BY <1>9, <2>1, <2>2 DEF SentMove
<1> QED
  BY <1>6, <1>9, <1>10, <1>11, <1>12 DEF Balanced
\* As many denials are admitted as still fit: the record is full, or counts
\* them all (recordDenialCharges).
LEMMA AdmittedExactly ==
    ASSUME NEW S \in State, NEW l \in Lineages, NEW n \in Nat, Within(S),
           Limits[l[1]]["denied"] # 0, Load(S, l, "denied") = 0
    PROVE  S.records[l].consumed["denied"] + AdmittedDenials(S, l, n)
              = Min({Limits[l[1]]["denied"], S.records[l].consumed["denied"] + n})
<1> DEFINE a == S.records[l].consumed["denied"]
           m == Limits[l[1]]["denied"]
           D == {j \in 1 .. n : Available(S, l, [ZeroUsage EXCEPT !["denied"] = j])}
<1>1. "denied" \in Dims
  BY DEF Dims
<1>2. a \in Nat /\ m \in Nat
  BY <1>1, LimitNumbers
<1>3. a <= m
  BY <1>1, <1>2 DEF Within
<1>4. \A j \in 1 .. n : Available(S, l, [ZeroUsage EXCEPT !["denied"] = j]) <=> a + j <= m
  <2> TAKE j \in 1 .. n
  <2> DEFINE required == [ZeroUsage EXCEPT !["denied"] = j]
  <2>1. required["denied"] = j /\ \A d \in Dims \ {"denied"} : required[d] = 0
    BY <1>1 DEF ZeroUsage
  <2>2. \A d \in Dims : ReservedUsage(S, l)[d] = Load(S, l, d)
    BY DEF ReservedUsage, Load
  <2>3. Available(S, l, required)
           <=> CapacityAvailable(Limits[l[1]], S.records[l].consumed, ReservedUsage(S, l), required)
    BY DEF Available
  <2> HIDE DEF required
  <2>4. \A d \in Dims \ {"denied"} :
           IF Limits[l[1]][d] = 0 THEN required[d] = 0
           ELSE S.records[l].consumed[d] + ReservedUsage(S, l)[d] + required[d] <= Limits[l[1]][d]
    <3> TAKE d \in Dims \ {"denied"}
    <3>1. required[d] = 0 /\ ReservedUsage(S, l)[d] = Load(S, l, d)
      BY <2>1, <2>2
    <3>2. Limits[l[1]][d] # 0 => S.records[l].consumed[d] + Load(S, l, d) <= Limits[l[1]][d]
      BY DEF Within
    <3>3. Load(S, l, d) \in Nat /\ S.records[l].consumed[d] \in Nat
      <4>1. \A c \in Calls : Held(S, l, d)[c] \in Nat
        BY HeldType
      <4>2. Charging(S, l) \in SUBSET Calls
        BY DEF Charging, Active
      <4> QED
        BY <4>1, <4>2, CallsCardinality, SumSplits, LimitNumbers DEF Load
    <3> QED
      BY <3>1, <3>2, <3>3
  <2>5. (IF m = 0 THEN required["denied"] = 0
         ELSE a + ReservedUsage(S, l)["denied"] + required["denied"] <= m) <=> a + j <= m
    <3>1. ReservedUsage(S, l)["denied"] = 0
      BY <1>1, <2>2
    <3> QED
      BY <1>2, <2>1, <3>1
  <2>6. CapacityAvailable(Limits[l[1]], S.records[l].consumed, ReservedUsage(S, l), required)
           <=> a + j <= m
    BY <1>1, <2>4, <2>5 DEF CapacityAvailable
  <2> QED
    BY <2>3, <2>6 DEF required
<1> DEFINE k == IF m - a <= n THEN m - a ELSE n
<1>5. k \in Nat
  BY <1>2, <1>3
<1>6. D = 1 .. k
  <2>1. D = {j \in 1 .. n : a + j <= m}
    BY <1>4
  <2> HIDE DEF D, a, m
  <2> QED
    BY <1>2, <1>3, <2>1
<1>7. Cardinality(1 .. k) = k
  <2> HIDE DEF k
  <2>1. Cardinality(1 .. k) = IF 1 > k THEN 0 ELSE k - 1 + 1
    BY <1>5, FS_Interval
  <2> QED
    BY <1>5, <2>1
<1>8. AdmittedDenials(S, l, n) = k
  BY <1>6, <1>7 DEF AdmittedDenials
<1>9. Min({m, a + n}) = IF m <= a + n THEN m ELSE a + n
  BY <1>2, MinOfTwo
<1> HIDE DEF a, m
<1>10. a + k = Min({m, a + n})
  BY <1>2, <1>3, <1>9
<1> QED
  BY <1>8, <1>10 DEF a, m
\* Nothing is ever reserved for denials.
LEMMA NoDenialHeld ==
    ASSUME NEW S, OnTheWay(S), NEW l \in Lineages
    PROVE  Load(S, l, "denied") = 0
<1>1. \A c \in Charging(S, l) : Held(S, l, "denied")[c] = 0
  <2> TAKE c \in Charging(S, l)
  <2>1. c \in Calls /\ Status(S, c) # "absent" /\ l \in ChargedLineages(S, c)
    BY DEF Charging, Active
  <2>2. l[1] \in BudgetsOf[c] /\ Holding(S, c)
    BY <2>1, ChargedBudget DEF OnTheWay
  <2> QED
    BY <2>1, <2>2 DEF Held, Holding
<1>2. IsFiniteSet(Charging(S, l))
  <2>1. Charging(S, l) \in SUBSET Calls
    BY DEF Charging, Active
  <2> QED
    BY <2>1, CallsCardinality
<1> QED
  BY <1>1, <1>2, SumOfZeros DEF Load

\* What recordDenialCharges changes: the denials of the records.
RecordsDenied(S, T, C) ==
    \A l \in Lineages :
        /\ T.records[l].generation = S.records[l].generation
        /\ T.records[l].consumed["denied"] = S.records[l].consumed["denied"]
              + AdmittedDenials(S, l, Cardinality(Charging(S, l) \cap C))
        /\ \A e \in Dims \ {"denied"} : T.records[l].consumed[e] = S.records[l].consumed[e]
LEMMA RecordDenialsChanges ==
    ASSUME NEW S \in State, NEW C, NEW T, T = RecordDenialCharges(S, C)
    PROVE  T \in State /\ T.reservations = S.reservations /\ RecordsDenied(S, T, C)
<1> DEFINE n == [l \in Lineages |-> AdmittedDenials(S, l, Cardinality(Charging(S, l) \cap C))]
<1>1. n \in [Lineages -> Nat]
  BY ChargingCardinality, DenialsType
<1>2. T = Charged(S, "denied", n)
  BY DEF RecordDenialCharges, Charged
<1>3. \A l \in Lineages : n[l] = AdmittedDenials(S, l, Cardinality(Charging(S, l) \cap C))
  OBVIOUS
<1>4. "denied" \in Dims
  BY DEF Dims
<1> HIDE DEF n
<1>5. /\ T \in State /\ T.reservations = S.reservations
      /\ \A l \in Lineages :
            /\ T.records[l].generation = S.records[l].generation
            /\ T.records[l].consumed["denied"] = S.records[l].consumed["denied"] + n[l]
            /\ \A e \in Dims \ {"denied"} : T.records[l].consumed[e] = S.records[l].consumed[e]
  BY <1>1, <1>2, <1>4, ChargeEffect
<1> QED
  BY <1>3, <1>5 DEF RecordsDenied

\* What removeReservationAndRecord changes, of reservations and records.
Closed(S, T, C) ==
    /\ T.records = S.records
    /\ \A c \in Calls : /\ c \in C => Status(T, c) = "absent"
                        /\ c \notin C => T.reservations[c] = S.reservations[c]
LEMMA RecordTerminalChanges ==
    ASSUME NEW S \in State, NEW C, NEW o \in Outcomes, NEW T, T = RecordTerminal(S, C, o)
    PROVE  T \in State /\ Closed(S, T, C)
<1>1. /\ T \in State /\ T.records = S.records
      /\ \A c \in Calls :
            T.reservations[c] = IF c \in C THEN NoReservation ELSE S.reservations[c]
  BY RecordTerminalEffect
<1> QED
  BY <1>1 DEF Closed, Status, NoReservation

\* Who remains after a closing holds what it held.
LEMMA ClosedLive ==
    ASSUME NEW S, OnTheWay(S), NEW Q, Q.reservations = S.reservations, NEW T, NEW C,
           Closed(Q, T, C)
    PROVE  StillLive(T)
<1> SUFFICES ASSUME NEW c \in Calls, Status(T, c) # "absent"
             PROVE  /\ Status(state, c) # "absent"
                    /\ T.reservations[c].created = state.reservations[c].created
                    /\ Holding(T, c)
  BY DEF StillLive
<1>1. T.reservations[c] = S.reservations[c]
  BY DEF Closed
<1>2. Status(state, c) # "absent" /\ Holding(S, c)
  BY <1>1 DEF OnTheWay, Status
<1> QED
  BY <1>1, <1>2 DEF OnTheWay, Holding, Status

\* Blocking calls moves the books by one per call and lineage, up to the limit.
LEMMA DenialMove ==
    ASSUME TypeOK, Books, CallHistoryInv, NEW S \in State, OnTheWay(S), Within(S),
           NEW N \in SUBSET Calls, \A c \in N : Status(state, c) = "reserved",
           NEW T, T = RecordTerminal(RecordDenialCharges(S, N), N, "blocked"), NoteBlocked(N)
    PROVE  T \in State /\ Frame(T) /\ Balanced(T)
<1>1. PICK Q : Q = RecordDenialCharges(S, N)
  OBVIOUS
<1>2. Q \in State /\ Q.reservations = S.reservations /\ RecordsDenied(S, Q, N)
  BY <1>1, RecordDenialsChanges
<1>3. T = RecordTerminal(Q, N, "blocked") /\ "blocked" \in Outcomes
  BY <1>1 DEF Outcomes
<1>4. T \in State /\ Closed(Q, T, N)
  BY <1>2, <1>3, RecordTerminalChanges
<1>5. StillLive(T)
  BY <1>2, <1>4, ClosedLive
<1>6. T.records = Q.records /\ S.records = state.records
  BY <1>4 DEF Closed, OnTheWay
<1>7. \A c \in Calls :
         /\ history'[c].lineages = history[c].lineages
         /\ history'[c].admitted = history[c].admitted
         /\ history'[c].sent = history[c].sent
         /\ history'[c].approved = history[c].approved
         /\ history'[c].returned = history[c].returned
         /\ history'[c].blocked <=> history[c].blocked \/ c \in N
  <2> TAKE c \in Calls
  <2>1. history[c] \in History
    BY DEF TypeOK
  <2>2. \A h \in History : LET g == [h EXCEPT !.blocked = TRUE] IN
           /\ g.lineages = h.lineages /\ g.admitted = h.admitted /\ g.sent = h.sent
           /\ g.approved = h.approved /\ g.returned = h.returned /\ g.blocked = TRUE
    BY DEF History
  <2>3. history[c].blocked \in BOOLEAN
    BY <2>1 DEF History
  <2> QED
    BY <2>1, <2>2, <2>3 DEF NoteBlocked
<1>8. Frame(T)
  <2>1. \A l \in Lineages : T.records[l].generation = state.records[l].generation
    BY <1>2, <1>6 DEF RecordsDenied
  <2> QED
    BY <1>5, <1>7, <2>1 DEF Frame, StillLive
<1>9. Same(T, "call") /\ Same(T, "approval") /\ Same(T, "result")
  <2>1. {"call", "approval", "result"} \subseteq Dims \ {"denied"}
    BY DEF Dims
  <2>2. \A l \in Lineages : \A e \in Dims \ {"denied"} :
           T.records[l].consumed[e] = state.records[l].consumed[e]
    BY <1>2, <1>6 DEF RecordsDenied
  <2> QED
    BY <2>1, <2>2 DEF Same
<1>10. BlockedMove(T, N)
  <2>1. N \subseteq {c \in Active(state) : ~history[c].blocked}
    BY DEF CallHistoryInv, CallHistory, Active
  <2>2. ASSUME NEW l \in Lineages, Limits[l[1]]["denied"] # 0
        PROVE  T.records[l].consumed["denied"]
                  = Min({Limits[l[1]]["denied"],
                         state.records[l].consumed["denied"] + Cardinality(Charging(state, l) \cap N)})
    <3>1. Charging(S, l) = Charging(state, l)
      BY SameCharging DEF OnTheWay
    <3>2. Load(S, l, "denied") = 0
      BY NoDenialHeld
    <3>3. PICK n : n = Cardinality(Charging(S, l) \cap N)
      OBVIOUS
    <3>4. n \in Nat
      BY <3>3, ChargingCardinality
    <3>5. S.records[l].consumed["denied"] + AdmittedDenials(S, l, n)
             = Min({Limits[l[1]]["denied"], S.records[l].consumed["denied"] + n})
      BY <2>2, <3>2, <3>4, AdmittedExactly
    <3> QED
      BY <1>2, <1>6, <3>1, <3>3, <3>5 DEF RecordsDenied
  <2> QED
    BY <1>7, <2>1, <2>2 DEF BlockedMove
<1> QED
  BY <1>4, <1>7, <1>8, <1>9, <1>10 DEF Balanced
\* What Consume changes, of records.
RecordsCharged(S, T, c, d, amount) ==
    \A l \in Lineages :
        /\ T.records[l].generation = S.records[l].generation
        /\ l \in ChargedLineages(S, c) =>
              T.records[l].consumed[d] = S.records[l].consumed[d] + amount[l[1]]
        /\ l \notin ChargedLineages(S, c) => T.records[l].consumed[d] = S.records[l].consumed[d]
        /\ \A e \in Dims \ {d} : T.records[l].consumed[e] = S.records[l].consumed[e]
LEMMA ConsumeChanges ==
    ASSUME NEW S \in State, NEW c \in Calls, NEW d \in Dims, NEW amount \in [Budgets -> Nat],
           NEW T, T = Consume(S, c, d, amount)
    PROVE  T \in State /\ T.reservations = S.reservations /\ RecordsCharged(S, T, c, d, amount)
<1>1. /\ T \in State /\ T.reservations = S.reservations
      /\ T.terminals = S.terminals /\ T.approvals = S.approvals
      /\ \A l \in Lineages :
            /\ T.records[l].generation = S.records[l].generation
            /\ \A e \in Dims : T.records[l].consumed[e]
                  = IF l \in ChargedLineages(S, c) /\ e = d
                    THEN S.records[l].consumed[e] + amount[l[1]]
                    ELSE S.records[l].consumed[e]
  BY ConsumeEffect
<1> QED
  BY <1>1 DEF RecordsCharged

\* A call that closes with n bytes moves the books by n bytes per lineage.
LEMMA SettleMove ==
    ASSUME TypeOK, Books, CallHistoryInv, NEW c \in Calls, Status(state, c) # "absent",
           NEW o \in Outcomes, NEW amount \in [Budgets -> Nat], NEW n \in Nat,
           \A b \in BudgetsOf[c] : Limits[b]["result"] # 0 => amount[b] = n,
           NEW T, T = RecordTerminal(CommitResult(state, c, amount), {c}, o),
           history' = [history EXCEPT ![c].returned = n]
    PROVE  T \in State /\ Frame(T) /\ Balanced(T)
<1> DEFINE m == [b \in Budgets |->
                    IF state.reservations[c].charges[b].reserved["result"] = 0 THEN 0
                    ELSE amount[b]]
<1>1. m \in [Budgets -> Nat] /\ "result" \in Dims /\ state \in State
  BY DEF Dims, TypeOK
<1>2. /\ Accounted(c) /\ CallHistory(c)
      /\ OnTheWay(state)
  BY StateOnTheWay DEF Books, CallHistoryInv
<1>3. \A b \in BudgetsOf[c] : Limits[b]["result"] # 0 => m[b] = n
  <2> TAKE b \in BudgetsOf[c]
  <2> HAVE Limits[b]["result"] # 0
  <2>1. state.reservations[c].charges[b].reserved["result"] = MaxResult[c]
    BY <1>2 DEF Accounted, Holding
  <2>2. MaxResult[c] # 0
    BY CeilingAssumption
  <2>3. b \in Budgets
    BY BudgetsAssumption
  <2> QED
    BY <2>1, <2>2, <2>3
<1>4. CommitResult(state, c, amount) = Consume(state, c, "result", m)
  BY DEF CommitResult
<1> HIDE DEF m
<1>5. PICK Q : Q = Consume(state, c, "result", m)
  OBVIOUS
<1>6. /\ Q \in State /\ Q.reservations = state.reservations
      /\ RecordsCharged(state, Q, c, "result", m)
  BY <1>1, <1>5, ConsumeChanges
<1>7. T = RecordTerminal(Q, {c}, o)
  BY <1>4, <1>5
<1>8. T \in State /\ Closed(Q, T, {c})
  BY <1>6, <1>7, RecordTerminalChanges
<1>9. StillLive(T)
  BY <1>2, <1>6, <1>8, ClosedLive
<1>10. T.records = Q.records /\ Status(T, c) = "absent"
  BY <1>8 DEF Closed
<1>11. \A a \in Calls :
         /\ history'[a].lineages = history[a].lineages
         /\ history'[a].admitted = history[a].admitted
         /\ history'[a].sent = history[a].sent
         /\ history'[a].blocked = history[a].blocked
         /\ history'[a].approved = history[a].approved
         /\ a # c => history'[a].returned = history[a].returned
         /\ a = c => history'[a].returned = n
  <2> TAKE a \in Calls
  <2>1. history[a] \in History /\ history \in [Calls -> History]
    BY DEF TypeOK
  <2>2. \A h \in History : LET g == [h EXCEPT !.returned = n] IN
           /\ g.lineages = h.lineages /\ g.admitted = h.admitted /\ g.sent = h.sent
           /\ g.blocked = h.blocked /\ g.approved = h.approved /\ g.returned = n
    BY DEF History
  <2>3. a # c => history'[a] = history[a]
    BY <2>1
  <2>4. a = c => history'[a] = [history[a] EXCEPT !.returned = n]
    BY <2>1
  <2> QED
    BY <2>1, <2>2, <2>3, <2>4
<1>12. Frame(T)
  <2>1. \A l \in Lineages : T.records[l].generation = state.records[l].generation
    BY <1>6, <1>10 DEF RecordsCharged
  <2>2. history[c].admitted # 0
    BY <1>2 DEF CallHistory
  <2> QED
    BY <1>9, <1>10, <1>11, <2>1, <2>2 DEF Frame, StillLive
<1>13. Same(T, "call") /\ Same(T, "denied") /\ Same(T, "approval")
  <2>1. {"call", "denied", "approval"} \subseteq Dims \ {"result"}
    BY DEF Dims
  <2>2. \A l \in Lineages : \A e \in Dims \ {"result"} :
           T.records[l].consumed[e] = state.records[l].consumed[e]
    BY <1>6, <1>10 DEF RecordsCharged
  <2> QED
    BY <2>1, <2>2 DEF Same
<1>14. ReturnedMove(T, c, n)
  <2>1. history[c].returned = 0 /\ history[c].lineages = ChargedLineages(state, c)
    BY <1>2 DEF Accounted
  <2>2. ASSUME NEW l \in Lineages, Limits[l[1]]["result"] # 0
        PROVE  T.records[l].consumed["result"]
                  = state.records[l].consumed["result"]
                      + (IF l \in history[c].lineages THEN n ELSE 0)
    <3>1. CASE l \in ChargedLineages(state, c)
      <4>1. m[l[1]] = n
        BY <1>3, <2>2, <3>1, ChargedBudget
      <4> QED
        BY <1>6, <1>10, <2>1, <3>1, <4>1 DEF RecordsCharged
    <3>2. CASE l \notin ChargedLineages(state, c)
      <4>1. T.records[l].consumed["result"] = state.records[l].consumed["result"]
        BY <1>6, <1>10, <3>2 DEF RecordsCharged
      <4>2. state.records[l].consumed["result"] \in Nat
        BY <1>1, LimitNumbers
      <4> QED
        BY <2>1, <3>2, <4>1, <4>2
    <3> QED
      BY <3>1, <3>2
  <2> QED
    BY <1>11, <2>1, <2>2 DEF ReturnedMove
<1> QED
  BY <1>8, <1>11, <1>12, <1>13, <1>14 DEF Balanced
\* What commitApprovalCharges changes: one approval per lineage of the call.
HeldApproved(S, T) ==
    \A a \in Calls : \A b \in Budgets : \A e \in Dims \ {"approval"} :
        T.reservations[a].charges[b].reserved[e] = S.reservations[a].charges[b].reserved[e]
RecordsApproved(S, T, c) ==
    \A l \in Lineages :
        /\ T.records[l].generation = S.records[l].generation
        /\ l \in ChargedLineages(S, c) /\ Limits[l[1]]["approval"] # 0 =>
              T.records[l].consumed["approval"] = S.records[l].consumed["approval"] + 1
        /\ l \notin ChargedLineages(S, c) =>
              T.records[l].consumed["approval"] = S.records[l].consumed["approval"]
        /\ \A e \in Dims \ {"approval"} : T.records[l].consumed[e] = S.records[l].consumed[e]
LEMMA CommitApprovalEffect ==
    ASSUME NEW S \in State, NEW c \in Calls, NEW T, T = CommitApprovalCharges(S, c)
    PROVE  /\ T \in State /\ SameLives(S, T) /\ HeldApproved(S, T) /\ RecordsApproved(S, T, c)
<1> DEFINE unit == [b \in Budgets |-> IF Limits[b]["approval"] = 0 THEN 0 ELSE 1]
           f(Q) == [b \in Budgets |->
                    IF b \in ApprovalBudgets(c)
                    THEN [Q.reservations[c].charges[b] EXCEPT !.approvals = @ + 1]
                    ELSE Q.reservations[c].charges[b]]
<1>1. unit \in [Budgets -> Nat] /\ \A b \in Budgets : Limits[b]["approval"] # 0 => unit[b] = 1
  OBVIOUS
<1>2. T \in State
  BY CommitApprovalChargesType
<1>3. PICK R, d, z : R = Consume(S, c, "approval", unit) /\ d = "approval" /\ z = 0
  OBVIOUS
<1>4. PICK Q : Q = SetReserved(R, {c}, d, z)
  OBVIOUS
<1>5. T = [Q EXCEPT !.reservations[c].charges = f(Q)]
  BY <1>3, <1>4 DEF CommitApprovalCharges
<1> HIDE DEF unit
<1>6. d \in Dims /\ z \in Nat /\ R = Consume(S, c, d, unit)
  BY <1>3 DEF Dims
<1>7. R \in State /\ R.reservations = S.reservations /\ RecordsCharged(S, R, c, d, unit)
  BY <1>1, <1>6, ConsumeChanges
<1>8. R \in State
  BY <1>7
<1>9. /\ Q \in State /\ Q.records = R.records
      /\ Q.terminals = R.terminals /\ Q.approvals = R.approvals
      /\ \A a \in Calls : /\ Q.reservations[a].status = R.reservations[a].status
                          /\ Q.reservations[a].created = R.reservations[a].created
                          /\ Q.reservations[a].owner = R.reservations[a].owner
                          /\ Q.reservations[a].generation = R.reservations[a].generation
  BY <1>4, <1>6, <1>8, SetReservedEffect
<1>10. \A a \in Calls, b \in Budgets, e \in Dims :
          Q.reservations[a].charges[b].reserved[e]
             = IF a \in {c} /\ b \in BudgetsOf[a] /\ Limits[b][d] # 0 /\ e = d THEN z
               ELSE R.reservations[a].charges[b].reserved[e]
  <2>1. Reheld(R, Q, {c}, d, z)
    BY <1>4, <1>6, <1>8, SetReservedHeld
  <2> QED
    BY <2>1 DEF Reheld
<1>11. T.records = Q.records
       /\ \A a \in Calls : /\ T.reservations[a].status = Q.reservations[a].status
                           /\ T.reservations[a].created = Q.reservations[a].created
                           /\ \A b \in Budgets : T.reservations[a].charges[b].reserved
                                                   = Q.reservations[a].charges[b].reserved
  <2> DEFINE g == f(Q)
  <2>1. \A b \in Budgets : g[b].reserved = Q.reservations[c].charges[b].reserved
    <3>1. \A x \in Charge : [x EXCEPT !.approvals = @ + 1].reserved = x.reserved
      BY DEF Charge
    <3>2. \A b \in Budgets : Q.reservations[c].charges[b] \in Charge
      BY <1>9, StateParts
    <3> QED
      BY <3>1, <3>2
  <2>2. T = [Q EXCEPT !.reservations[c].charges = g]
    BY <1>5
  <2> HIDE DEF g, f
  <2>3. T.records = Q.records
        /\ T.reservations = [Q.reservations EXCEPT ![c].charges = g]
    BY <1>9, <2>2 DEF State
  <2>4. Q.reservations \in [Calls -> Reservation]
    BY <1>9 DEF State
  <2>5. \A r \in Reservation : LET q == [r EXCEPT !.charges = g] IN
           q.status = r.status /\ q.created = r.created /\ q.charges = g
    BY DEF Reservation
  <2>6. \A a \in Calls : T.reservations[a]
            = IF a = c THEN [Q.reservations[a] EXCEPT !.charges = g] ELSE Q.reservations[a]
    BY <2>3, <2>4
  <2> QED
    BY <2>1, <2>3, <2>4, <2>5, <2>6
<1> HIDE DEF f
<1>12. SameLives(S, T)
  BY <1>7, <1>9, <1>11 DEF SameLives, Status
<1>13. HeldApproved(S, T)
  <2>1. \A a \in Calls : \A b \in Budgets : \A e \in Dims \ {d} :
           T.reservations[a].charges[b].reserved[e] = S.reservations[a].charges[b].reserved[e]
    BY <1>7, <1>10, <1>11
  <2> QED
    BY <1>3, <2>1 DEF HeldApproved
<1>14. RecordsApproved(S, T, c)
  <2>1. ASSUME NEW l \in Lineages
        PROVE  /\ T.records[l].generation = S.records[l].generation
               /\ l \in ChargedLineages(S, c) =>
                     T.records[l].consumed[d] = S.records[l].consumed[d] + unit[l[1]]
               /\ l \notin ChargedLineages(S, c) =>
                     T.records[l].consumed[d] = S.records[l].consumed[d]
               /\ \A e \in Dims \ {d} : T.records[l].consumed[e] = S.records[l].consumed[e]
    BY <1>7, <1>9, <1>11 DEF RecordsCharged
  <2>2. \A l \in Lineages : Limits[l[1]]["approval"] # 0 => unit[l[1]] = 1
    BY <1>1 DEF Lineages
  <2> QED
    BY <1>3, <2>1, <2>2 DEF RecordsApproved
<1> QED
  BY <1>2, <1>12, <1>13, <1>14

\* A consumed receipt moves the books by one approval per lineage of its call; a
\* call that no budget matches touches none.
LEMMA ApproveMove ==
    ASSUME TypeOK, Books, CallHistoryInv, NEW c \in Calls,
           BudgetsOf[c] # {} => Status(state, c) # "absent",
           NEW S, S = IF BudgetsOf[c] = {} THEN state ELSE CommitApprovalCharges(state, c),
           NEW T, T.records = S.records, T.reservations = S.reservations,
           history' = [history EXCEPT ![c].approved = @ + 1]
    PROVE  Frame(T) /\ Balanced(T)
<1>1. Accounted(c) /\ CallHistory(c) /\ StillLive(state) /\ state \in State
  BY StateOnTheWay DEF Books, CallHistoryInv, TypeOK
<1>2. \A a \in Calls :
         /\ history'[a].lineages = history[a].lineages
         /\ history'[a].admitted = history[a].admitted
         /\ history'[a].sent = history[a].sent
         /\ history'[a].blocked = history[a].blocked
         /\ history'[a].returned = history[a].returned
         /\ a # c => history'[a].approved = history[a].approved
         /\ a = c => history'[a].approved = history[a].approved + 1
  <2> TAKE a \in Calls
  <2>1. history[a] \in History /\ history \in [Calls -> History]
    BY DEF TypeOK
  <2>2. \A h \in History : LET g == [h EXCEPT !.approved = @ + 1] IN
           /\ g.lineages = h.lineages /\ g.admitted = h.admitted /\ g.sent = h.sent
           /\ g.blocked = h.blocked /\ g.returned = h.returned /\ g.approved = h.approved + 1
    BY DEF History
  <2>3. a # c => history'[a] = history[a]
    BY <2>1
  <2>4. a = c => history'[a] = [history[a] EXCEPT !.approved = @ + 1]
    BY <2>1
  <2> QED
    BY <2>1, <2>2, <2>3, <2>4
<1>3. CASE BudgetsOf[c] = {}
  <2>1. T.records = state.records /\ T.reservations = state.reservations
    BY <1>3
  <2>2. Frame(T)
    <3>1. StillLive(T)
      BY <1>1, <2>1 DEF StillLive, Status, Holding
    <3>2. \A l \in Lineages : T.records[l].generation = state.records[l].generation
      BY <2>1
    <3> QED
      BY <1>2, <1>3, <3>1, <3>2 DEF Frame, StillLive
  <2>3. Same(T, "call") /\ Same(T, "denied") /\ Same(T, "result")
    BY <2>1 DEF Same
  <2>4. ApprovedMove(T, c)
    <3>1. history[c].lineages = {}
      BY <1>1, <1>3 DEF Accounted
    <3>2. \A l \in Lineages : state.records[l].consumed["approval"] \in Nat
      BY <1>1, LimitNumbers DEF Dims
    <3> QED
      BY <1>2, <2>1, <3>1, <3>2 DEF ApprovedMove
  <2> QED
    BY <1>2, <2>2, <2>3, <2>4 DEF Balanced
<1>4. CASE BudgetsOf[c] # {}
  <2>1. S = CommitApprovalCharges(state, c) /\ Status(state, c) # "absent"
    BY <1>4
  <2>2. S \in State /\ SameLives(state, S) /\ HeldApproved(state, S) /\ RecordsApproved(state, S, c)
    BY <1>1, <2>1, CommitApprovalEffect
  <2>3. StillLive(T)
    <3> SUFFICES ASSUME NEW a \in Calls, Status(T, a) # "absent"
                 PROVE  /\ Status(state, a) # "absent"
                        /\ T.reservations[a].created = state.reservations[a].created
                        /\ Holding(T, a)
      BY DEF StillLive
    <3>1. /\ Status(T, a) = Status(state, a)
          /\ T.reservations[a].created = state.reservations[a].created
      BY <2>2 DEF SameLives, Status
    <3>2. Holding(state, a)
      BY <3>1 DEF Books, Accounted
    <3>3. \A b \in BudgetsOf[a] : \A e \in {"call", "result", "denied"} :
             T.reservations[a].charges[b].reserved[e] = state.reservations[a].charges[b].reserved[e]
      <4> TAKE b \in BudgetsOf[a]
      <4> TAKE e \in {"call", "result", "denied"}
      <4>1. e \in Dims \ {"approval"}
        BY DEF Dims
      <4>2. b \in Budgets
        BY BudgetsAssumption
      <4>3. HeldApproved(state, S)
        BY <2>2
      <4> QED
        BY <4>1, <4>2, <4>3 DEF HeldApproved
    <3> QED
      BY <3>1, <3>2, <3>3, SameHolding
  <2>4. Frame(T)
    <3>1. \A l \in Lineages : T.records[l].generation = state.records[l].generation
      BY <2>2 DEF RecordsApproved
    <3>2. history[c].admitted # 0
      BY <1>1, <2>1 DEF CallHistory
    <3> QED
      BY <1>2, <2>3, <3>1, <3>2 DEF Frame, StillLive
  <2>5. Same(T, "call") /\ Same(T, "denied") /\ Same(T, "result")
    <3>1. {"call", "denied", "result"} \subseteq Dims \ {"approval"}
      BY DEF Dims
    <3>2. \A l \in Lineages : \A e \in Dims \ {"approval"} :
             T.records[l].consumed[e] = state.records[l].consumed[e]
      BY <2>2 DEF RecordsApproved
    <3> QED
      BY <3>1, <3>2 DEF Same
  <2>6. ApprovedMove(T, c)
    <3>1. history[c].lineages = ChargedLineages(state, c)
      BY <1>1, <2>1 DEF Accounted
    <3>2. ASSUME NEW l \in Lineages, Limits[l[1]]["approval"] # 0
          PROVE  T.records[l].consumed["approval"]
                    = state.records[l].consumed["approval"]
                        + (IF l \in history[c].lineages THEN 1 ELSE 0)
      <4>1. state.records[l].consumed["approval"] \in Nat
        BY <1>1, LimitNumbers DEF Dims
      <4>2. l \in ChargedLineages(state, c) =>
               T.records[l].consumed["approval"] = state.records[l].consumed["approval"] + 1
        BY <2>2, <3>2 DEF RecordsApproved
      <4>3. l \notin ChargedLineages(state, c) =>
               T.records[l].consumed["approval"] = state.records[l].consumed["approval"]
        BY <2>2 DEF RecordsApproved
      <4> QED
        BY <3>1, <4>1, <4>2, <4>3
    <3> QED
      BY <1>2, <3>2 DEF ApprovedMove
  <2> QED
    BY <1>2, <2>4, <2>5, <2>6 DEF Balanced
<1> QED
  BY <1>3, <1>4
\* A negative decision keeps the books (finishPendingApproval).
LEMMA FinishBooks ==
    ASSUME TypeOK, TypeOK', Books, CallHistoryInv, Within(state), NEW K,
           NEW s \in FailureStatuses, NEW r \in Receipts \cup {0}, Finish(K, s, r)
    PROVE  Books'
<1> DEFINE f == [k \in Keys |->
                        IF k \in K
                        THEN [state.approvals[k] EXCEPT !.status = s, !.receipt = r]
                        ELSE state.approvals[k]]
           P == CallsOf(K, "post_result")
           N == CallsOf(K, "pre_call")
           decided == [state EXCEPT !.approvals = f]
           freed   == SetReserved(decided, P, "approval", 0)
           T       == RecordTerminal(RecordDenialCharges(freed, N), N, "blocked")
<1>1. state \in State /\ s \in ApprovalStatuses
  BY DEF TypeOK, ApprovalStatuses
<1>2. f \in [Keys -> ApprovalRecord]
  BY <1>1, StateParts DEF ApprovalRecord
<1>3. FinishPending(state, K, s, r) = T
  BY DEF FinishPending
<1>4. Commit(T) /\ NoteBlocked(N)
  BY <1>3 DEF Finish
<1>5. N \in SUBSET Calls /\ \A c \in N : Status(state, c) = "reserved"
  BY DEF Finish, Finishable, CallsOf
<1> HIDE DEF f, P, N
<1>6. PICK S : S = freed
  OBVIOUS
<1>7. OnTheWay(S) /\ S \in State
  <2>1. PICK z \in Nat : z = 0
    OBVIOUS
  <2>2. S = SetReserved([state EXCEPT !.approvals = f], P, "approval", z)
    BY <1>6, <2>1
  <2> HIDE DEF freed, decided
  <2> QED
    BY <1>2, <2>2, ApprovalOnTheWay
<1>8. Within(S)
  <2>1. decided \in State /\ Within(decided)
    BY <1>1, <1>2, StateUpdate, ApprovalsWithin
  <2> HIDE DEF decided
  <2> QED
    BY <1>6, <2>1, SetReservedWithin DEF Dims
<1>9. T = RecordTerminal(RecordDenialCharges(S, N), N, "blocked")
  BY <1>6
<1> HIDE DEF T, freed, decided
<1>10. T \in State /\ Frame(T) /\ Balanced(T)
  BY <1>4, <1>5, <1>7, <1>8, <1>9, DenialMove
<1> QED
  BY <1>4, <1>10, BooksMove

\* An operation that records nothing keeps the books.
LEMMA QuietBooks ==
    ASSUME TypeOK, TypeOK', Books, NEW T \in State, T.records = state.records, StillLive(T),
           Commit(T), history' = history
    PROVE  Books'
<1>1. \A c \in Calls : SameEntries(c)
  BY DEF SameEntries
<1>2. Frame(T) /\ Balanced(T)
  BY <1>1, QuietMove
<1> QED
  BY <1>2, BooksMove

\* Every operation on a reservation but Reserve keeps the books.
LEMMA ReservationStepBooks ==
    ASSUME TypeOK, TypeOK', Books, CallHistoryInv, Within(state), NEW c \in Calls,
           ReservationStep(c), \A o \in Owners : ~Reserve(o, c)
    PROVE  Books'
<1>0. /\ state \in State /\ OnTheWay(state) /\ StillLive(state)
  BY StateOnTheWay DEF TypeOK
<1>1. CASE RefuseStaleContract(c)
  <2>1. Commit(state) /\ history' = history
    BY <1>1 DEF RefuseStaleContract, PersistClockObservation
  <2> QED
    BY <1>0, <2>1, QuietBooks
<1>2. ASSUME NEW s \in {"dispatched", "indeterminate"},
             Status(state, c) = "reserved",
             Commit(SetStatus(CommitDispatch(state, {c}), {c}, s)), NoteSent({c})
      PROVE  Books'
  <2>1. PICK C, N, T : /\ C = {c} /\ N = {c}
                       /\ T = SetStatus(CommitDispatch(state, N), C, s)
    OBVIOUS
  <2>2. C \in SUBSET Active(state) /\ N = {a \in C : Status(state, a) = "reserved"}
    BY <1>2, <2>1 DEF Active
  <2>3. NoteSent(N) /\ Commit(T)
    BY <1>2, <2>1
  <2>4. T \in State /\ Frame(T) /\ Balanced(T)
    BY <1>0, <2>1, <2>2, <2>3, DispatchMove
  <2> QED
    BY <2>3, <2>4, BooksMove
<1>3. ASSUME Status(state, c) \notin {"absent", "reserved"},
             Commit(SetStatus(state, {c}, "indeterminate")), history' = history
      PROVE  Books'
  <2>1. PICK C, s, T : C = {c} /\ s = "indeterminate" /\ T = SetStatus(state, C, s)
    OBVIOUS
  <2>2. s \in ReservationStatuses \ {"absent"} /\ \A a \in C \cap Calls : Status(state, a) # "absent"
    BY <1>3, <2>1 DEF ReservationStatuses
  <2>3. T \in State /\ Restatused(state, T, C, s)
    BY <1>0, <2>1, <2>2, SetStatusChanges
  <2>4. StillLive(T)
    <3> SUFFICES ASSUME NEW a \in Calls, Status(T, a) # "absent"
                 PROVE  /\ Status(state, a) # "absent"
                        /\ T.reservations[a].created = state.reservations[a].created
                        /\ Holding(T, a)
      BY DEF StillLive
    <3>1. Status(state, a) # "absent" /\ T.reservations[a].created = state.reservations[a].created
      BY <1>3, <2>1, <2>3 DEF Restatused, Status
    <3>2. Status(T, a) = "reserved" <=> Status(state, a) = "reserved"
      BY <1>3, <2>1, <2>3 DEF Restatused, Status
    <3>3. T.reservations[a].charges = state.reservations[a].charges
      BY <2>3 DEF Restatused
    <3>4. Holding(state, a)
      BY <1>0, <3>1 DEF StillLive
    <3> QED
      BY <3>1, <3>2, <3>3, <3>4, SameHolding
  <2>5. T.records = state.records /\ Commit(T)
    BY <1>3, <2>1, <2>3 DEF Restatused
  <2> QED
    BY <1>3, <2>3, <2>4, <2>5, QuietBooks
<1>4. CASE MarkDispatched(c)
  BY <1>2, <1>4 DEF MarkDispatched
<1>5. CASE Release(c)
  <2>1. PICK C, o, T : C = {c} /\ o = "released" /\ T = RecordTerminal(state, C, o)
    OBVIOUS
  <2>2. o \in Outcomes /\ Commit(T) /\ history' = history
    BY <1>5, <2>1 DEF Outcomes, Release
  <2>3. T \in State /\ Closed(state, T, C)
    BY <1>0, <2>1, <2>2, RecordTerminalChanges
  <2>4. StillLive(T) /\ T.records = state.records
    BY <1>0, <2>3, ClosedLive DEF Closed
  <2> QED
    BY <2>2, <2>3, <2>4, QuietBooks
<1>6. CASE RecordDenied(c)
  <2>1. PICK N, T : N = {c} /\ T = RecordTerminal(RecordDenialCharges(state, N), N, "blocked")
    OBVIOUS
  <2>2. /\ Commit(T) /\ NoteBlocked(N) /\ N \in SUBSET Calls
        /\ \A a \in N : Status(state, a) = "reserved"
    BY <1>6, <2>1 DEF RecordDenied
  <2>3. T \in State /\ Frame(T) /\ Balanced(T)
    BY <1>0, <2>1, <2>2, DenialMove
  <2> QED
    BY <2>2, <2>3, BooksMove
<1>7. CASE MarkIndeterminate(c)
  BY <1>2, <1>3, <1>7 DEF MarkIndeterminate
<1>8. ASSUME NEW o \in Outcomes, NEW amount \in [Budgets -> Nat], NEW n \in Nat,
             Status(state, c) # "absent",
             \A b \in BudgetsOf[c] : Limits[b]["result"] # 0 => amount[b] = n,
             Commit(RecordTerminal(CommitResult(state, c, amount), {c}, o)),
             history' = [history EXCEPT ![c].returned = n]
      PROVE  Books'
  <2>1. PICK T : T = RecordTerminal(CommitResult(state, c, amount), {c}, o)
    OBVIOUS
  <2>2. T \in State /\ Frame(T) /\ Balanced(T)
    BY <1>8, <2>1, SettleMove
  <2> QED
    BY <1>8, <2>1, <2>2, BooksMove
<1>9. ASSUME NEW n \in ResultSizes, Settle(c, n)
      PROVE  Books'
  <2>1. CASE ExceedsReservedResult(state, c, n)
    BY <1>3, <1>9, <2>1 DEF Settle
  <2>2. CASE ~ExceedsReservedResult(state, c, n)
    <3> DEFINE amount == [b \in Budgets |-> n]
    <3>1. amount \in [Budgets -> Nat] /\ \A b \in Budgets : amount[b] = n
      BY ResultAssumption
    <3>2. /\ Commit(RecordTerminal(CommitResult(state, c, amount), {c}, "settled"))
          /\ history' = [history EXCEPT ![c].returned = n]
          /\ Status(state, c) # "absent"
      BY <1>9, <2>2 DEF Settle
    <3> HIDE DEF amount
    <3>3. "settled" \in Outcomes /\ n \in Nat /\ BudgetsOf[c] \subseteq Budgets
      BY ResultAssumption, BudgetsAssumption DEF Outcomes
    <3> QED
      BY <1>8, <3>1, <3>2, <3>3
  <2> QED
    BY <2>1, <2>2
<1>10. ASSUME NEW n \in ResultSizes, NEW o \in {"settled", "indeterminate_committed"},
              ReconcileIndeterminate(c, o, n)
       PROVE  Books'
  <2> DEFINE amount == [b \in Budgets |->
                 IF o = "settled" THEN n
                 ELSE state.reservations[c].charges[b].reserved["result"]]
             m == IF o = "settled" THEN n ELSE MaxResult[c]
  <2>1. \A b \in Budgets : state.reservations[c].charges[b].reserved["result"] \in Nat
    BY <1>0, StateParts DEF Charge, Usage, Dims
  <2>2. amount \in [Budgets -> Nat] /\ m \in Nat /\ o \in Outcomes
    BY <2>1, ResultAssumption DEF Outcomes
  <2>3. \A b \in BudgetsOf[c] : Limits[b]["result"] # 0 => amount[b] = m
    <3>1. Status(state, c) # "absent"
      BY <1>10 DEF ReconcileIndeterminate
    <3>2. \A b \in BudgetsOf[c] : Limits[b]["result"] # 0 =>
             state.reservations[c].charges[b].reserved["result"] = MaxResult[c]
      BY <1>0, <3>1 DEF StillLive, Holding
    <3> QED
      BY <3>2, BudgetsAssumption
  <2>4. /\ Commit(RecordTerminal(CommitResult(state, c, amount), {c}, o))
        /\ history' = [history EXCEPT ![c].returned = m]
        /\ Status(state, c) # "absent"
    BY <1>10 DEF ReconcileIndeterminate, Reconciled
  <2> HIDE DEF amount, m
  <2> QED
    BY <1>8, <2>2, <2>3, <2>4
<1> QED
  BY <1>1, <1>4, <1>5, <1>6, <1>7, <1>9, <1>10 DEF ReservationStep
\* Abandoning an owner keeps the books: it dispatches what was reserved and
\* gives back what waited for approval (MarkOwnerAbandoned).
LEMMA AbandonBooks ==
    ASSUME TypeOK, TypeOK', Books, CallHistoryInv, NEW o \in Owners, MarkOwnerAbandoned(o)
    PROVE  Books'
<1> DEFINE owned   == {c \in Active(state) : /\ state.reservations[c].owner = o
                                             /\ Status(state, c) # "indeterminate"}
           waiting == {k \in Pending(state) : k[1] \in owned}
           unsent  == {c \in owned : Status(state, c) = "reserved"}
           f       == [k \in Keys |->
                          IF k \in waiting
                          THEN [state.approvals[k] EXCEPT !.status = "unavailable"]
                          ELSE state.approvals[k]]
           freed   == SetReserved([state EXCEPT !.approvals = f], {k[1] : k \in waiting},
                                  "approval", 0)
<1>1. f \in [Keys -> ApprovalRecord]
  <2>1. \A a \in ApprovalRecord : [a EXCEPT !.status = "unavailable"] \in ApprovalRecord
    BY DEF ApprovalRecord, ApprovalStatuses, FailureStatuses
  <2> QED
    BY <2>1, StateParts DEF TypeOK
<1>2. Commit(SetStatus(CommitDispatch(freed, unsent), owned, "indeterminate")) /\ NoteSent(unsent)
  BY DEF MarkOwnerAbandoned
<1>3. PICK z \in Nat : z = 0
  OBVIOUS
<1>4. PICK C, N, D : C = owned /\ N = unsent /\ D = {k[1] : k \in waiting}
  OBVIOUS
<1>5. C \in SUBSET Active(state) /\ N = {c \in C : Status(state, c) = "reserved"}
  BY <1>4
<1>6. PICK S : S = SetReserved([state EXCEPT !.approvals = f], D, "approval", z)
  OBVIOUS
<1> HIDE DEF f
<1>7. OnTheWay(S) /\ S \in State
  BY <1>1, <1>6, ApprovalOnTheWay
<1>8. S = freed
  BY <1>3, <1>4, <1>6
<1>9. PICK s, T : s = "indeterminate" /\ T = SetStatus(CommitDispatch(S, N), C, s)
  OBVIOUS
<1>10. Commit(T) /\ NoteSent(N)
  BY <1>2, <1>4, <1>8, <1>9
<1> HIDE DEF freed, unsent, owned, waiting
<1>11. T \in State /\ Frame(T) /\ Balanced(T)
  BY <1>5, <1>7, <1>9, <1>10, DispatchMove
<1> QED
  BY <1>10, <1>11, BooksMove

\* Every operation on an approval keeps the books.
LEMMA ApprovalStepBooks ==
    ASSUME TypeOK, TypeOK', Books, CallHistoryInv, Within(state), NEW k \in Keys, ApprovalStep(k)
    PROVE  Books'
<1>0. state \in State /\ k[1] \in Calls
  BY DEF TypeOK, Keys
<1>1. ASSUME NEW o \in Owners, IssueApproval(o, k)
      PROVE  Books'
  <2> DEFINE c == k[1]
             charged == IF ApprovalReserved(state, c) THEN state
                        ELSE SetReserved(state, {c}, "approval", 1)
             a == [status |-> "pending", expires |-> now + ApprovalTTL,
                   plan |-> policy, receipt |-> 0]
             T == [charged EXCEPT !.approvals[k] = a]
  <2>1. Commit(T) /\ history' = [history EXCEPT ![c].asked[k[2]] = @ + 1]
    BY <1>1 DEF IssueApproval
  <2>2. a \in ApprovalRecord
    <3>1. now + ApprovalTTL \in Time
      BY <1>1, TimeAssumption DEF IssueApproval, TypeOK, Time
    <3> QED
      BY <3>1 DEF ApprovalRecord, ApprovalStatuses, TypeOK
  <2>3. OnTheWay(charged) /\ charged \in State
    <3>1. CASE ApprovalReserved(state, c)
      BY <1>0, <3>1, StateOnTheWay
    <3>2. CASE ~ApprovalReserved(state, c)
      <4>1. PICK n, C, f : n = 1 /\ C = {c} /\ f = state.approvals
        OBVIOUS
      <4>2. f \in [Keys -> ApprovalRecord] /\ [state EXCEPT !.approvals = f] = state
        BY <1>0, <4>1 DEF State
      <4>3. charged = SetReserved([state EXCEPT !.approvals = f], C, "approval", n)
        BY <3>2, <4>1, <4>2
      <4>4. n \in Nat
        BY <4>1
      <4> HIDE DEF charged
      <4> QED
        BY <4>2, <4>3, <4>4, ApprovalOnTheWay
    <3> QED
      BY <3>1, <3>2
  <2> HIDE DEF a, charged
  <2>4. T \in State /\ T.records = charged.records /\ T.reservations = charged.reservations
    <3>1. T \in State
      BY <2>2, <2>3 DEF State
    <3> QED
      BY <2>3, <3>1 DEF State
  <2> HIDE DEF T
  <2>5. T.records = state.records /\ StillLive(T)
    BY <2>3, <2>4 DEF OnTheWay, StillLive, Status, Holding
  <2>6. \A b \in Calls : SameEntries(b)
    <3>1. PICK f : history' = [history EXCEPT ![c].asked = f]
      BY <2>1
    <3> TAKE b \in Calls
    <3>2. history[b] \in History /\ history \in [Calls -> History]
      BY DEF TypeOK
    <3>3. \A h \in History : LET g == [h EXCEPT !.asked = f] IN
             /\ g.lineages = h.lineages /\ g.admitted = h.admitted /\ g.sent = h.sent
             /\ g.blocked = h.blocked /\ g.approved = h.approved /\ g.returned = h.returned
      BY DEF History
    <3>4. history'[b] = IF b = c THEN [history[b] EXCEPT !.asked = f] ELSE history[b]
      BY <3>1, <3>2
    <3> QED
      BY <3>2, <3>3, <3>4 DEF SameEntries
  <2>7. Frame(T) /\ Balanced(T)
    BY <2>5, <2>6, QuietMove
  <2> QED
    BY <2>1, <2>4, <2>7, BooksMove
<1>2. ASSUME NEW o \in Owners, NEW s \in FailureStatuses, ConsumeUnverified(o, k, s)
      PROVE  Books'
  BY <1>2, FinishBooks DEF ConsumeUnverified
<1>3. ASSUME NEW o \in Owners, NEW r \in Receipts, ConsumeRejected(o, k, r)
      PROVE  Books'
  BY <1>3, FinishBooks DEF ConsumeRejected, FailureStatuses
<1>4. ASSUME NEW o \in Owners, NEW r \in Receipts, ConsumeApproved(o, k, r)
      PROVE  Books'
  <2> DEFINE c == k[1]
             charged == IF BudgetsOf[c] = {} THEN state ELSE CommitApprovalCharges(state, c)
             T == [charged EXCEPT !.approvals[k].status = "approved", !.approvals[k].receipt = r]
             g == [charged.approvals EXCEPT ![k].status = "approved", ![k].receipt = r]
  <2>1. CASE ReceiptKnown(r, k)
    BY <1>4, <2>1, FinishBooks DEF ConsumeApproved, FailureStatuses
  <2>2. CASE ~ReceiptKnown(r, k)
    <3>1. Commit(T) /\ history' = [history EXCEPT ![c].approved = @ + 1]
      BY <1>4, <2>2 DEF ConsumeApproved
    <3>2. charged \in State
      BY <1>0, CommitApprovalChargesType
    <3>3. BudgetsOf[c] # {} => Status(state, c) # "absent"
      BY <1>0, <1>4 DEF ConsumeApproved, Consumable, ApprovalBound, WantStatus
    <3>0. PICK S : S = charged
      OBVIOUS
    <3>4. S = IF BudgetsOf[c] = {} THEN state ELSE CommitApprovalCharges(state, c)
      BY <3>0
    <3> HIDE DEF charged
    <3>5. T = [S EXCEPT !.approvals = g] /\ S \in State
      BY <3>0, <3>2 DEF State
    <3>6. g \in [Keys -> ApprovalRecord]
      <4>1. charged.approvals \in [Keys -> ApprovalRecord]
        BY <3>2 DEF State
      <4>2. \A a \in ApprovalRecord :
                [a EXCEPT !.status = "approved", !.receipt = r] \in ApprovalRecord
        BY DEF ApprovalRecord, ApprovalStatuses
      <4> QED
        BY <4>1, <4>2
    <3> HIDE DEF T, g
    <3>7. T \in State /\ T.records = S.records /\ T.reservations = S.reservations
      <4>1. T \in State
        BY <3>5, <3>6, StateUpdate
      <4>2. S \in [observed : Time, records : [Lineages -> BudgetRecord],
                   reservations : [Calls -> Reservation],
                   terminals : [Calls -> Outcomes \cup {"absent"}],
                   approvals : [Keys -> ApprovalRecord]]
        BY <3>5 DEF State
      <4>3. PICK h : T = [S EXCEPT !.approvals = h]
        BY <3>5
      <4> QED
        BY <4>1, <4>2, <4>3
    <3>8. Frame(T) /\ Balanced(T)
      BY <1>0, <3>1, <3>3, <3>4, <3>7, ApproveMove
    <3> QED
      BY <3>1, <3>7, <3>8, BooksMove
  <2> QED
    BY <2>1, <2>2
<1>5. ASSUME NEW s \in FailureStatuses \ {"rejected"}, FinalizeApproval(k, s)
      PROVE  Books'
  BY <1>5, FinishBooks DEF FinalizeApproval
<1> QED
  BY <1>1, <1>2, <1>3, <1>4, <1>5 DEF ApprovalStep
\* Of the records that Reserve prepares, one is gone only when the clock has left
\* its window; the others keep what they consumed, and those that the new
\* reservation would charge have a governing generation.
Named(c, l) == \E b \in BudgetsOf[c] : l = Lineage(b, now)
Prepared(D, c) ==
    \A l \in Lineages :
        \/ /\ D.records[l].generation = 0 /\ ~Named(c, l)
           /\ WindowLength[l[1]] # 0 /\ l[2] < Window(l[1], now)
        \/ /\ D.records[l].consumed = state.records[l].consumed
           /\ Named(c, l) => D.records[l].generation # 0
           /\ ~Named(c, l) => D.records[l].generation = state.records[l].generation
LEMMA PreparedRecords ==
    ASSUME TypeOK, NEW c \in Calls, NEW D, D = UpsertRecords(PruneWindows(state), c)
    PROVE  D \in State /\ D.reservations = state.reservations /\ Prepared(D, c)
<1> DEFINE S == PruneWindows(state)
<1>0. state \in State /\ now \in Time /\ policy \in Generations
  BY DEF TypeOK
<1>1. S.reservations = state.reservations
      /\ \A l \in Lineages :
            S.records[l] = IF /\ ElapsedWindow(state, l)
                              /\ \E t \in Time : t > l[2] /\ ElapsedWindow(state, <<l[1], t>>)
                           THEN NoRecord ELSE state.records[l]
  BY <1>0 DEF PruneWindows, State
<1>2. S \in State
  <2>1. [l \in Lineages |->
            IF ElapsedWindow(state, l)
               /\ \E t \in Time : t > l[2] /\ ElapsedWindow(state, <<l[1], t>>)
            THEN NoRecord ELSE state.records[l]] \in [Lineages -> BudgetRecord]
    BY <1>0, ZeroTypes, StateParts
  <2> QED
    BY <1>0, <2>1, StateUpdate DEF PruneWindows
<1>6. \A l \in Lineages : S.records[l] # state.records[l] =>
                              S.records[l] = NoRecord /\ ElapsedWindow(state, l)
  <2> HIDE DEF S
  <2> TAKE l \in Lineages
  <2>1. CASE ElapsedWindow(state, l) /\ \E t \in Time : t > l[2] /\ ElapsedWindow(state, <<l[1], t>>)
    BY <1>1, <2>1
  <2>2. CASE ~(ElapsedWindow(state, l) /\ \E t \in Time : t > l[2] /\ ElapsedWindow(state, <<l[1], t>>))
    BY <1>1, <2>2
  <2> QED
    BY <2>1, <2>2
<1> HIDE DEF S
<1>3. /\ D.reservations = S.reservations
      /\ \A l \in Lineages :
            /\ Named(c, l) => D.records[l] = [S.records[l] EXCEPT !.generation = policy]
            /\ ~Named(c, l) => D.records[l] = S.records[l]
  <2>1. /\ D.reservations = S.reservations
        /\ D.records = [l \in Lineages |->
               IF Named(c, l) THEN [S.records[l] EXCEPT !.generation = policy] ELSE S.records[l]]
    BY <1>2 DEF UpsertRecords, State, S, Named
  <2> QED
    BY <2>1
<1>4. D \in State
  BY UpsertType
<1>5. ASSUME NEW l \in Lineages
      PROVE  \/ /\ D.records[l].generation = 0 /\ ~Named(c, l)
                /\ WindowLength[l[1]] # 0 /\ l[2] < Window(l[1], now)
             \/ /\ D.records[l].consumed = state.records[l].consumed
                /\ Named(c, l) => D.records[l].generation # 0
                /\ ~Named(c, l) => D.records[l].generation = state.records[l].generation
  <2>1. l[1] \in Budgets /\ l[2] \in Time /\ Window(l[1], now) \in Time
    BY <1>0, WindowType DEF Lineages
  <2>2. CASE S.records[l] # state.records[l]
    <3>1. S.records[l] = NoRecord /\ ElapsedWindow(state, l)
      BY <1>6, <2>2
    <3>2. WindowLength[l[1]] # 0 /\ l[2] < Window(l[1], now)
      BY <2>1, <3>1 DEF ElapsedWindow, Time
    <3>3. ~Named(c, l)
      <4> SUFFICES ASSUME NEW b \in BudgetsOf[c], l = Lineage(b, now)
                   PROVE  FALSE
        BY DEF Named
      <4>1. l[1] = b /\ l[2] = Window(b, now)
        BY DEF Lineage
      <4>2. l[2] < l[2] /\ l[2] \in Int
        BY <2>1, <3>2, <4>1 DEF Time
      <4> QED
        BY <4>2
    <3>4. D.records[l].generation = 0
      <4>1. D.records[l] = S.records[l]
        BY <1>3, <3>3
      <4>2. NoRecord.generation = 0
        BY DEF NoRecord
      <4> QED
        BY <3>1, <4>1, <4>2
    <3> QED
      BY <3>2, <3>3, <3>4
  <2>3. CASE S.records[l] = state.records[l]
    <3>1. state.records[l] \in BudgetRecord
      BY <1>0, StateParts
    <3>2. \A q \in BudgetRecord : /\ [q EXCEPT !.generation = policy].consumed = q.consumed
                                  /\ [q EXCEPT !.generation = policy].generation = policy
      BY DEF BudgetRecord
    <3>3. policy # 0
      BY <1>0, NamesAssumption
    <3> QED
      <4>1. Named(c, l) => D.records[l] = [state.records[l] EXCEPT !.generation = policy]
        BY <1>3, <2>3
      <4>2. ~Named(c, l) => D.records[l] = state.records[l]
        BY <1>3, <2>3
      <4>3. Named(c, l) => D.records[l].consumed = state.records[l].consumed
                           /\ D.records[l].generation = policy
        BY <3>1, <3>2, <4>1
      <4> QED
        BY <3>3, <4>2, <4>3
  <2> QED
    BY <2>2, <2>3
<1> QED
  BY <1>1, <1>3, <1>4, <1>5 DEF Prepared

\* The books of a lineage stay open for a call to which nothing has happened yet.
LEMMA BookedGrows ==
    ASSUME TypeOK, TypeOK', NEW l \in Lineages, Booked(l), NEW c \in Calls,
           state'.records[l].consumed = state.records[l].consumed,
           state'.records[l].generation = 0 => Touching(l)' = {},
           \A a \in Calls :
              /\ history'[a].sent = history[a].sent /\ history'[a].blocked = history[a].blocked
              /\ history'[a].approved = history[a].approved
              /\ history'[a].returned = history[a].returned,
           \/ Touching(l)' = Touching(l)
           \/ /\ Touching(l)' = Touching(l) \cup {c} /\ c \notin Touching(l)
              /\ ~history[c].sent /\ ~history[c].blocked
              /\ history[c].approved = 0 /\ history[c].returned = 0
    PROVE  Booked(l)'
<1> DEFINE S == Touching(l)
           U == Touching(l)'
<1>1. S \subseteq Calls /\ U \subseteq Calls /\ IsFiniteSet(S) /\ IsFiniteSet(U)
  <2>1. S \in SUBSET Calls /\ U \in SUBSET Calls
    BY DEF Touching
  <2> QED
    BY <2>1, CallsCardinality
<1>2. {a \in U : history'[a].sent} = {a \in S : history[a].sent}
  <2> HIDE DEF S, U
  <2>1. {a \in U : history'[a].sent} = {a \in U : history[a].sent}
    BY <1>1
  <2>2. CASE U = S
    BY <2>1, <2>2
  <2>3. CASE U = S \cup {c} /\ c \notin S /\ ~history[c].sent
    BY <2>1, <2>3
  <2>4. U = S \/ (U = S \cup {c} /\ c \notin S /\ ~history[c].sent)
    BY DEF S, U
  <2> QED
    BY <2>2, <2>3, <2>4
<1>3. {a \in U : history'[a].blocked} = {a \in S : history[a].blocked}
  <2> HIDE DEF S, U
  <2>1. {a \in U : history'[a].blocked} = {a \in U : history[a].blocked}
    BY <1>1
  <2>2. CASE U = S
    BY <2>1, <2>2
  <2>3. CASE U = S \cup {c} /\ c \notin S /\ ~history[c].blocked
    BY <2>1, <2>3
  <2>4. U = S \/ (U = S \cup {c} /\ c \notin S /\ ~history[c].blocked)
    BY DEF S, U
  <2> QED
    BY <2>2, <2>3, <2>4
<1>4. ASSUME NEW f, \A a \in Calls : f[a] \in Nat, U # S => f[c] = 0
      PROVE  SumFunctionOnSet(f, U) = SumFunctionOnSet(f, S)
  <2>1. CASE U = S
    BY <2>1
  <2>2. CASE U # S
    <3>1. c \in U /\ U \ {c} = S /\ f[c] = 0
      BY <1>4, <2>2
    <3> HIDE DEF S, U
    <3>2. SumFunctionOnSet(f, U) = f[c] + SumFunctionOnSet(f, U \ {c})
      BY <1>1, <1>4, <3>1, SumSplits
    <3>3. SumFunctionOnSet(f, S) \in Nat
      BY <1>1, <1>4, SumSplits
    <3>4. SumFunctionOnSet(f, U) = 0 + SumFunctionOnSet(f, S)
      BY <3>1, <3>2
    <3> QED
      BY <3>3, <3>4
  <2> QED
    BY <2>1, <2>2
<1> HIDE DEF S, U
<1>5. \A a \in Calls : history[a].approved \in Nat /\ history[a].returned \in Nat
  <2>1. \A a \in Calls : history[a] \in History
    BY DEF TypeOK
  <2> QED
    BY <2>1 DEF History
<1>6. SumFunctionOnSet([a \in Calls |-> history'[a].approved], U)
         = SumFunctionOnSet([a \in Calls |-> history[a].approved], S)
  <2>1. [a \in Calls |-> history'[a].approved] = [a \in Calls |-> history[a].approved]
    OBVIOUS
  <2>2. PICK f : f = [a \in Calls |-> history[a].approved]
    OBVIOUS
  <2>3. (\A a \in Calls : f[a] \in Nat) /\ (U # S => f[c] = 0)
    BY <1>5, <2>2 DEF S, U
  <2> QED
    BY <1>4, <2>1, <2>2, <2>3
<1>7. SumFunctionOnSet([a \in Calls |-> history'[a].returned], U)
         = SumFunctionOnSet([a \in Calls |-> history[a].returned], S)
  <2>1. [a \in Calls |-> history'[a].returned] = [a \in Calls |-> history[a].returned]
    OBVIOUS
  <2>2. PICK f : f = [a \in Calls |-> history[a].returned]
    OBVIOUS
  <2>3. (\A a \in Calls : f[a] \in Nat) /\ (U # S => f[c] = 0)
    BY <1>5, <2>2 DEF S, U
  <2> QED
    BY <1>4, <2>1, <2>2, <2>3
<1>8. DispatchCharged(l)'
  BY <1>2 DEF Booked, DispatchCharged, S, U
<1>9. DenialCharged(l)'
  BY <1>3 DEF Booked, DenialCharged, S, U
<1>10. ApprovalCharged(l)'
  BY <1>6 DEF Booked, ApprovalCharged, S, U
<1>11. ResultCharged(l)'
  BY <1>7 DEF Booked, ResultCharged, S, U
<1> QED
  BY <1>8, <1>9, <1>10, <1>11 DEF Booked
\* A lineage that Reserve prepares is booked, or gone for good, whether the call
\* is admitted to it or not.
LEMMA PreparedBooks ==
    ASSUME TypeOK, TypeOK', Books, NEW c \in Calls, NEW D, Prepared(D, c),
           state'.records = D.records, state'.observed = now, state.observed <= now,
           NEW l \in Lineages,
           \A a \in Calls :
              /\ history'[a].sent = history[a].sent /\ history'[a].blocked = history[a].blocked
              /\ history'[a].approved = history[a].approved
              /\ history'[a].returned = history[a].returned,
           \/ Touching(l)' = Touching(l)
           \/ /\ Touching(l)' = Touching(l) \cup {c} /\ c \notin Touching(l) /\ Named(c, l)
              /\ ~history[c].sent /\ ~history[c].blocked
              /\ history[c].approved = 0 /\ history[c].returned = 0
    PROVE  Elapsed(l)' \/ Booked(l)'
<1>1. /\ l[1] \in Budgets /\ l[2] \in Time /\ now \in Time /\ state.observed \in Time
  BY DEF Lineages, TypeOK, State
<1>2. /\ Window(l[1], state.observed) <= Window(l[1], now)
      /\ Window(l[1], state.observed) \in Int /\ Window(l[1], now) \in Int /\ l[2] \in Int
  <2>1. Window(l[1], state.observed) <= Window(l[1], now)
    BY <1>1, WindowMonotone
  <2> QED
    BY <1>1, <2>1, WindowType DEF Time
<1>3. CASE /\ D.records[l].generation = 0 /\ ~Named(c, l)
           /\ WindowLength[l[1]] # 0 /\ l[2] < Window(l[1], now)
  BY <1>3 DEF Elapsed
<1>4. CASE /\ D.records[l].consumed = state.records[l].consumed
           /\ Named(c, l) => D.records[l].generation # 0
           /\ ~Named(c, l) => D.records[l].generation = state.records[l].generation
  <2>1. state'.records[l].consumed = state.records[l].consumed
    BY <1>4
  <2>2. CASE Named(c, l)
    <3>1. PICK b \in BudgetsOf[c] : l = Lineage(b, now)
      BY <2>2 DEF Named
    <3>2. l[2] = Window(l[1], now)
      BY <3>1 DEF Lineage
    <3>3. ~Elapsed(l)
      <4>1. ~(l[2] < Window(l[1], state.observed))
        BY <1>2, <3>2
      <4> QED
        BY <4>1 DEF Elapsed
    <3>4. Booked(l)
      BY <3>3 DEF Books
    <3>5. state'.records[l].generation # 0
      BY <1>4, <2>2
    <3> QED
      BY <2>1, <3>4, <3>5, BookedGrows
  <2>3. CASE ~Named(c, l)
    <3>1. state'.records[l].generation = state.records[l].generation /\ Touching(l)' = Touching(l)
      BY <1>4, <2>3
    <3>2. CASE Elapsed(l)
      BY <1>2, <3>1, <3>2 DEF Elapsed
    <3>3. CASE Booked(l)
      <4>1. state'.records[l].generation = 0 => Touching(l)' = {}
        BY <3>1, <3>3 DEF Booked
      <4> QED
        BY <2>1, <3>1, <3>3, <4>1, BookedGrows
    <3> QED
      BY <3>2, <3>3 DEF Books
  <2> QED
    BY <2>2, <2>3
<1> QED
  BY <1>3, <1>4 DEF Prepared

\* Reserve opens the books for the call it admits (reserveLocked).
LEMMA ReserveBooks ==
    ASSUME TypeOK, TypeOK', Books, CallHistoryInv, NEW o \in Owners, NEW c \in Calls,
           Reserve(o, c)
    PROVE  Books'
<1> DEFINE declared == UpsertRecords(PruneWindows(state), c)
           kept     == PruneRetainedHistory(declared, now)
           r        == NewReservation(o, c)
           T        == [kept EXCEPT !.reservations[c] = r]
           L        == {Lineage(b, now) : b \in BudgetsOf[c]}
<1>1. PICK D : D = declared
  OBVIOUS
<1>2. D \in State /\ D.reservations = state.reservations /\ Prepared(D, c)
  BY <1>1, PreparedRecords
<1>3. \/ Commit(D) /\ UNCHANGED history
      \/ /\ Commit(T)
         /\ history' = [history EXCEPT ![c] =
                           [history[c] EXCEPT !.admitted = @ + 1, !.lineages = L]]
  BY <1>1 DEF Reserve
<1>4. /\ Status(state, c) = "absent" /\ state.terminals[c] = "absent"
      /\ Admissible(c, now) /\ BudgetsOf[c] # {} /\ TrustedNow
  BY DEF Reserve, Active, Finished
<1>5. kept \in State /\ kept.records = D.records /\ kept.reservations = D.reservations
  BY <1>1, <1>2, PruneType, PruneKeepsBudgets
<1>6. T \in State
  BY <1>5, NewReservationType DEF State
<1>7. T.records = D.records
      /\ \A a \in Calls : T.reservations[a] = IF a = c THEN r ELSE state.reservations[a]
  <2> HIDE DEF kept, r
  <2>1. T.records = kept.records /\ T.reservations = [kept.reservations EXCEPT ![c] = r]
    BY <1>5 DEF State
  <2>2. kept.reservations \in [Calls -> Reservation]
    BY <1>5 DEF State
  <2> QED
    BY <1>2, <1>5, <2>1, <2>2
<1>8. r.status = "reserved" /\ r.created = now
      /\ \A b \in BudgetsOf[c] : r.charges[b].reserved = RequiredUsage(b, c)
  BY BudgetsAssumption DEF NewReservation
<1> HIDE DEF declared, kept, r, T
<1>9. CASE Commit(D) /\ UNCHANGED history
  <2>1. /\ state'.records = D.records /\ state'.reservations = D.reservations
        /\ state'.observed = now /\ state.observed <= now
    BY <1>2, <1>9, Published
  <2>2. ASSUME NEW a \in Calls PROVE Accounted(a)'
    BY <1>2, <1>9, <2>1
       DEF Books, Accounted, Status, ChargedLineages, ChargedLineage, Holding
  <2>3. ASSUME NEW l \in Lineages PROVE Elapsed(l)' \/ Booked(l)'
    <3>1. Touching(l)' = Touching(l)
      BY <1>9 DEF Touching
    <3> QED
      BY <1>2, <1>9, <2>1, <3>1, PreparedBooks
  <2> QED
    BY <2>2, <2>3 DEF Books
<1>10. CASE /\ Commit(T)
            /\ history' = [history EXCEPT ![c] =
                              [history[c] EXCEPT !.admitted = @ + 1, !.lineages = L]]
  <2>1. /\ state'.records = T.records /\ state'.reservations = T.reservations
        /\ state'.observed = now /\ state.observed <= now
    BY <1>6, <1>10, Published
  <2>2. history[c].admitted = 0
    <3>1. CallHistory(c)
      BY DEF CallHistoryInv
    <3>2. issued[c] \in Nat /\ now \in Nat /\ state.observed \in Nat
      BY DEF TypeOK, State, Time
    <3>3. ~CallIdentityExpired(c, state.observed)
      BY <1>4, <2>1, <3>2, TimeAssumption DEF Admissible, CallIdentityExpired
    <3> QED
      BY <1>4, <3>1, <3>3 DEF CallHistory
  <2>3. /\ history[c].lineages = {} /\ ~history[c].sent /\ ~history[c].blocked
        /\ history[c].approved = 0 /\ history[c].returned = 0
    BY <1>4, <2>2 DEF Books, Accounted, CallHistoryInv, CallHistory
  <2> HIDE DEF L
  <2>4. \A a \in Calls \ {c} : history'[a] = history[a]
    BY <1>10 DEF TypeOK
  <2>5. /\ history'[c].lineages = L /\ history'[c].admitted = 1
        /\ history'[c].sent = history[c].sent /\ history'[c].blocked = history[c].blocked
        /\ history'[c].approved = history[c].approved
        /\ history'[c].returned = history[c].returned
    <3> DEFINE n == history[c].admitted + 1
    <3>1. n = 1
      BY <2>2
    <3>2. history[c] \in History /\ history \in [Calls -> History]
      BY DEF TypeOK
    <3>3. history' = [history EXCEPT ![c] = [history[c] EXCEPT !.admitted = n, !.lineages = L]]
      BY <1>10
    <3> HIDE DEF n
    <3>4. history'[c] = [history[c] EXCEPT !.admitted = n, !.lineages = L]
      BY <3>2, <3>3
    <3>5. \A h \in History : LET g == [h EXCEPT !.admitted = n, !.lineages = L] IN
             /\ g.lineages = L /\ g.admitted = n /\ g.sent = h.sent /\ g.blocked = h.blocked
             /\ g.approved = h.approved /\ g.returned = h.returned
      BY DEF History
    <3> QED
      BY <3>1, <3>2, <3>4, <3>5
  <2>6. ASSUME NEW a \in Calls PROVE Accounted(a)'
    <3>1. CASE a # c
      <4>1. state'.reservations[a] = state.reservations[a] /\ history'[a] = history[a]
        BY <1>7, <2>1, <2>4, <3>1
      <4> QED
        BY <4>1 DEF Books, Accounted, Status, ChargedLineages, ChargedLineage, Holding
    <3>2. CASE a = c
      <4>1. state'.reservations[c] = r
        BY <1>7, <2>1
      <4>2. ChargedLineages(state', c) = L
        BY <1>8, <4>1 DEF ChargedLineages, ChargedLineage, L
      <4>3. Holding(state', c)
        <5>1. \A b \in BudgetsOf[c] :
                 /\ Limits[b]["call"] # 0 => RequiredUsage(b, c)["call"] = 1
                 /\ Limits[b]["result"] # 0 => RequiredUsage(b, c)["result"] = MaxResult[c]
                 /\ RequiredUsage(b, c)["denied"] = 0
          BY DEF RequiredUsage, Dims
        <5> QED
          BY <1>8, <4>1, <5>1 DEF Holding, Status
      <4> QED
        BY <1>4, <2>3, <2>5, <3>2, <4>2, <4>3 DEF Accounted
    <3> QED
      BY <3>1, <3>2
  <2>7. ASSUME NEW l \in Lineages PROVE Elapsed(l)' \/ Booked(l)'
    <3>1. l \in L <=> Named(c, l)
      BY DEF L, Named
    <3>2. CASE Named(c, l)
      <4>1. Touching(l)' = Touching(l) \cup {c} /\ c \notin Touching(l)
        BY <2>3, <2>4, <2>5, <3>1, <3>2 DEF Touching
      <4> QED
        BY <1>2, <1>7, <2>1, <2>3, <2>4, <2>5, <3>2, <4>1, PreparedBooks
    <3>3. CASE ~Named(c, l)
      <4>1. Touching(l)' = Touching(l)
        BY <2>3, <2>4, <2>5, <3>1, <3>3 DEF Touching
      <4> QED
        BY <1>2, <1>7, <2>1, <2>4, <2>5, <4>1, PreparedBooks
    <3> QED
      BY <3>2, <3>3
  <2> QED
    BY <2>6, <2>7 DEF Books
<1> QED
  BY <1>3, <1>9, <1>10
\* The books are empty at first.
LEMMA InitBooks == Init => Books
<1> SUFFICES ASSUME Init
             PROVE  Books
  OBVIOUS
<1>1. /\ state = InitialState /\ state \in State
      /\ \A c \in Calls : history[c] = NoHistory
  BY InitType DEF Init, TypeOK
<1>2. \A c \in Calls : Status(state, c) = "absent"
  BY <1>1 DEF InitialState, Status, NoReservation
<1>3. \A c \in Calls : Accounted(c)
  BY <1>1, <1>2 DEF Accounted, NoHistory
<1>4. ASSUME NEW l \in Lineages
      PROVE  Booked(l)
  <2>1. Touching(l) = {}
    BY <1>1 DEF Touching, NoHistory
  <2>2. \A d \in Dims : state.records[l].consumed[d] = 0
    BY <1>1 DEF InitialState, NoRecord, ZeroUsage
  <2>3. {c \in Touching(l) : history[c].sent} = {} /\ {c \in Touching(l) : history[c].blocked} = {}
    BY <2>1
  <2>4. DispatchCharged(l)
    BY <2>2, <2>3, FS_EmptySet DEF DispatchCharged, Dims
  <2>5. ApprovalCharged(l) /\ ResultCharged(l)
    <3>1. /\ SumFunctionOnSet([c \in Calls |-> history[c].approved], Touching(l)) = 0
          /\ SumFunctionOnSet([c \in Calls |-> history[c].returned], Touching(l)) = 0
      BY <2>1, SumEmpty
    <3> QED
      BY <2>2, <3>1 DEF ApprovalCharged, ResultCharged, Dims
  <2>6. DenialCharged(l)
    <3>1. Limits[l[1]]["denied"] \in Nat
      BY <1>1, LimitNumbers DEF Dims
    <3>2. Min({Limits[l[1]]["denied"], 0}) = 0
      BY <3>1, MinOfTwo
    <3>3. Cardinality({c \in Touching(l) : history[c].blocked}) = 0
      BY <2>3, FS_EmptySet
    <3> QED
      BY <2>2, <3>2, <3>3 DEF DenialCharged, Dims
  <2> QED
    BY <2>1, <2>4, <2>5, <2>6 DEF Booked
<1> QED
  BY <1>3, <1>4 DEF Books

\* Every step keeps the books.
LEMMA NextBooks ==
    TypeOK /\ TypeOK' /\ CallHistoryInv /\ Within(state) /\ Books /\ [Next]_vars => Books'
<1> SUFFICES ASSUME TypeOK, TypeOK', CallHistoryInv, Within(state), Books, [Next]_vars
             PROVE  Books'
  OBVIOUS
<1>1. ASSUME NEW c \in Calls, ReservationStep(c)
      PROVE  Books'
  BY <1>1, ReserveBooks, ReservationStepBooks
<1>2. ASSUME NEW k \in Keys, ApprovalStep(k)
      PROVE  Books'
  BY <1>2, ApprovalStepBooks
<1>3. ASSUME NEW o \in Owners, MarkOwnerAbandoned(o)
      PROVE  Books'
  BY <1>3, AbandonBooks
<1>4. CASE ReconcileExpiredApprovals
  BY <1>4, FinishBooks DEF ReconcileExpiredApprovals, FailureStatuses
<1>5. CASE \/ \E c \in Calls : NewCallID(c)
           \/ Tick \/ SetClockBack \/ PolicyChange \/ UNCHANGED vars
  <2>1. state' = state /\ history' = history
    BY <1>5 DEF NewCallID, Tick, SetClockBack, PolicyChange, vars
  <2>2. \A c \in Calls : Accounted(c)' <=> Accounted(c)
    BY <2>1 DEF Accounted, Status, ChargedLineages, ChargedLineage, Holding
  <2>3. \A l \in Lineages : Elapsed(l)' <=> Elapsed(l)
    BY <2>1 DEF Elapsed
  <2>4. ASSUME NEW l \in Lineages
        PROVE  Booked(l)' <=> Booked(l)
    BY <2>1 DEF Booked, Touching, DispatchCharged, ApprovalCharged, ResultCharged, DenialCharged
  <2> QED
    BY <2>2, <2>3, <2>4 DEF Books
<1> QED
  BY <1>1, <1>2, <1>3, <1>4, <1>5 DEF Next

\* Whatever is retried, swept, abandoned, rejected or reconciled, by whichever
\* process, each call a lineage admitted is charged once for its dispatch, once
\* for its denial, once for each receipt consumed for it and once for what it
\* returned; the record of a lineage, while there is one, holds the sums
\* (commitDispatch, consumeResult, recordDenialCharges, CommitApproval).
THEOREM ChargedExactlyOnce == Spec => []ChargedOnce
<1>1. Books => ChargedOnce
  BY DEF Books, Elapsed, Booked, ChargedOnce
<1>2. Within(state') <=> Within(state)'
  BY DEF Within, Load, Held, Charging, Active, Status, ChargedLineages, ChargedLineage
<1> QED
  BY <1>1, <1>2, InitBooks, NextBooks, InitWithin, NextWithin, TypeCorrect, HistoryInvariant,
     PTL DEF Spec
=============================================================================
